---- MODULE ReportRules ----
(***************************************************************************)
(* What a report must satisfy (internal/model): the canonical order of its *)
(* collections, the validation of its evidence and of what was derived     *)
(* from it, and the evaluator that derives it (internal/rules).  Pure      *)
(* operators; Report composes them with the file and the command line.     *)
(*                                                                         *)
(* A run is a record of sequences.  IDs are numbers in ID order, so that   *)
(* sorting by ID is sorting by number; a missing optional ID is 0.  An     *)
(* evidence reference is a pair: a kind, in the order of evidenceKindOrder,*)
(* and an ID.  missing lists the numbers of a claim's missing-evidence     *)
(* requirements in the order of compareMissingEvidence.                    *)
(***************************************************************************)
EXTENDS SequencesExt, ListenerEvidence

Obs == 0    \* the kinds of evidence references
Clm == 1
Vis == 2
Asn == 3

Ids(s) == {s[i].id : i \in DOMAIN s}
ById(s) == [id \in Ids(s) |-> s[CHOOSE i \in DOMAIN s : s[i].id = id]]
Distinct(s) == Cardinality(Ids(s)) = Len(s)
Each(s, Op(_)) == [i \in DOMAIN s |-> Op(s[i])]

----
(***************************************************************************)
(* The types of a run, collection by collection, and of the candidates of  *)
(* a rule (internal/model, rules/candidate.go).                            *)
(***************************************************************************)
Id == Nat \ {0}
Ref == (Obs..Asn) \X Nat
Bucket == Nat \X STRING \X STRING
About == [entity : Nat, bucket : Bucket, vantage : Nat, port : Nat]
ClaimLevel == {"OBSERVED", "INFERRED", "SUSPECTED"}

Rows ==
    [entities |-> [id : Id, kind : STRING, inode : Nat],
     vantages |-> [id : Id, kind : STRING, inode : Nat],
     assertions |-> [id : Id],
     edges |-> [id : Id, from : Id, to : Id, asserted : BOOLEAN, refs : Seq(Ref)],
     branches |-> [id : Id, parent : Nat, edges : Seq(Nat)],
     checks |-> [id : Id, subject : Id, deps : Seq(Nat)],
     executions |-> [id : Id, check : Id,
         lifecycle : {"NOT_RUN", "COMPLETED", "UNAVAILABLE", "DENIED", "TIMED_OUT", "ERROR"},
         verdict : {"PASS", "FAIL", "UNKNOWN", "SKIPPED"},
         observations : Seq(Nat), visibility : Seq(Nat)],
     observations |-> [id : Id, kind : STRING, subject : Id, vantage : Id, count : Nat,
         bucket : Bucket, ports : Nat \X Nat, listener : Nat, owned : BOOLEAN,
         at : Int, limited : BOOLEAN],
     visibility |-> [id : Id, vantage : Id, bucket : Bucket, ports : Nat \X Nat,
         level : STRING, basis : Seq(Nat), ownershipRequired : BOOLEAN, limited : BOOLEAN, at : Int],
     claims |-> [id : Id, rule : Nat, statement : STRING, about : About, level : ClaimLevel,
         missing : Seq(Nat), support : Seq(Ref), contra : Seq(Ref)],
     findings |-> [id : Id, rule : Nat, level : ClaimLevel, blocker : BOOLEAN,
         branches : Seq(Nat), positions : Seq(Nat \X Nat), claims : Seq(Nat),
         selection : {"NONE", "ADDITIONAL", "BRANCH_PRIMARY", "GLOBAL_PRIMARY"}]]

Run ==
    [version : Nat \X Nat \X Nat, port : Nat, window : Int, rules : Seq(Nat),
     entities : Seq(Rows.entities), vantages : Seq(Rows.vantages),
     assertions : Seq(Rows.assertions), edges : Seq(Rows.edges), branches : Seq(Rows.branches),
     checks : Seq(Rows.checks), executions : Seq(Rows.executions),
     observations : Seq(Rows.observations), visibility : Seq(Rows.visibility),
     claims : Seq(Rows.claims), findings : Seq(Rows.findings)]

ClaimTemplate ==
    [key : Nat, statement : STRING, about : About, level : ClaimLevel,
     missing : Seq(Nat), support : Seq(Ref), contra : Seq(Ref)]
FindingTemplate ==
    [level : ClaimLevel, blocker : BOOLEAN, branches : Seq(Nat),
     positions : Seq(Nat \X Nat), claims : Seq(Nat)]
RuleCandidate == [key : Nat, claims : Seq(ClaimTemplate), findings : Seq(FindingTemplate)]

----
\* A loop: its state after n turns from state x.
After(step, x, n) ==
    LET state[k \in Nat] == IF k = 0 THEN x ELSE step[state[k - 1]]
    IN  state[n]

----
(***************************************************************************)
(* canonicalize.go.  A sort key is a pair of numbers; equal keys keep the  *)
(* order they had.                                                         *)
(***************************************************************************)
Precedes(key, i, j) ==
    \/ key[i][1] < key[j][1]
    \/ key[i][1] = key[j][1] /\ key[i][2] < key[j][2]
    \/ key[i] = key[j] /\ i < j

\* The positions in the set "at", in the order of their keys: the k-th has k - 1 before it.
Ordered(at, key) ==
    [k \in 1..Cardinality(at) |->
        CHOOSE i \in at : Cardinality({j \in at : Precedes(key, j, i)}) = k - 1]

Taken(s, positions) == [k \in DOMAIN positions |-> s[positions[k]]]
\* A sequence in order is left as it is.
SortBy(s, key) ==
    IF \A i \in 1..(Len(s) - 1) : Precedes(key, i, i + 1) THEN s
    ELSE Taken(s, Ordered(DOMAIN s, key))

NumberKey(s) == [i \in DOMAIN s |-> <<0, s[i]>>]
IdKey(s) == [i \in DOMAIN s |-> <<0, s[i].id>>]
Sorted(s) == SortBy(s, NumberKey(s))
SortedById(s) == SortBy(s, IdKey(s))
SortedRefs(s) == SortBy(s, s)

\* canonicalBranches: one round per depth, each in ID order, until all are placed or
\* no branch is ready.
Ready(in, out) ==
    {i \in DOMAIN in : in[i].id \notin Ids(out) /\ in[i].parent \in Ids(out) \cup {0}}
Round(in) ==
    [out \in Seq(ToSet(in)) |-> out \o Taken(in, Ordered(Ready(in, out), IdKey(in)))]

CanonicalBranches(in) ==
    LET out == After(Round(in), <<>>, Len(in))
    IN  IF Len(out) >= Len(in) THEN [ok |-> TRUE, branches |-> out]
                               ELSE [ok |-> FALSE, branches |-> in]

CanonicalEvidence(e) ==
    [e EXCEPT
      !.entities = SortedById(@), !.vantages = SortedById(@), !.assertions = SortedById(@),
      !.edges = Each(SortedById(@), LAMBDA x : [x EXCEPT !.refs = SortedRefs(@)]),
      !.branches = CanonicalBranches(@).branches,
      !.checks = Each(SortedById(@), LAMBDA x : [x EXCEPT !.deps = Sorted(@)]),
      !.executions = Each(SortedById(@), LAMBDA x :
          [x EXCEPT !.observations = Sorted(@), !.visibility = Sorted(@)]),
      !.observations = SortedById(@),
      !.visibility = Each(SortedById(@), LAMBDA x : [x EXCEPT !.basis = Sorted(@)])]

\* branchIndex, and the lists of a finding that follow it.
BranchIndex(e, id) ==
    IF id \in Ids(e.branches) THEN CHOOSE i \in DOMAIN e.branches :
            e.branches[i].id = id /\ \A j \in 1..(i - 1) : e.branches[j].id # id
    ELSE Len(e.branches) + 2

CanonicalClaim(c) ==
    [c EXCEPT !.support = SortedRefs(@), !.contra = SortedRefs(@), !.missing = Sorted(@)]

CanonicalFinding(e, f) ==
    [f EXCEPT !.branches = SortBy(@, [i \in DOMAIN @ |-> <<0, BranchIndex(e, @[i])>>]),
              !.positions = SortBy(@, [i \in DOMAIN @ |-> <<0, BranchIndex(e, @[i][1])>>]),
              !.claims = Sorted(@)]

Canonical(r) ==
    LET e == CanonicalEvidence(r)
    IN  [e EXCEPT !.claims = Each(SortedById(@), CanonicalClaim),
                  !.findings = Each(SortedById(@), LAMBDA f : CanonicalFinding(e, f))]

----
(***************************************************************************)
(* ValidateEvidenceRun.                                                    *)
(***************************************************************************)
View(r) == [entities |-> ById(r.entities), vantages |-> ById(r.vantages),
            observations |-> ById(r.observations), window |-> r.window]

\* validatePath: an edge rests on observations, an operator's edge on assertions.
PathAccepted(e) ==
    /\ Distinct(e.edges) /\ Distinct(e.branches)
    /\ \A i \in DOMAIN e.edges :
         LET x == e.edges[i]
         IN  /\ {x.from, x.to} \subseteq Ids(e.entities)
             /\ \A ref \in ToSet(x.refs) :
                  IF x.asserted THEN ref[1] = Asn /\ ref[2] \in Ids(e.assertions)
                                ELSE ref[1] = Obs /\ ref[2] \in Ids(e.observations)
    /\ \A i \in DOMAIN e.branches :
         /\ ToSet(e.branches[i].edges) \subseteq Ids(e.edges)
         /\ e.branches[i].parent \in Ids(e.branches) \cup {0}

\* The depth-first visits of validateCheckDAG and claimGraphHasCycle, with the open
\* nodes in the order they were met.  A node met again while it is open is a cycle: the
\* visits stop there, and some node is never done.
Visit(next) ==
    LET nodes == DOMAIN next
    IN  [s \in [open : Seq(nodes), done : SUBSET nodes] |->
          IF s.open = <<>>
          THEN IF s.done = nodes THEN s
               ELSE [s EXCEPT !.open = <<CHOOSE n \in nodes \ s.done : TRUE>>]
          ELSE LET left == next[Last(s.open)] \ s.done
                   m == CHOOSE m \in left : TRUE
               IN  IF left = {} THEN [open |-> Front(s.open), done |-> s.done \cup {Last(s.open)}]
                   ELSE IF m \in ToSet(s.open) THEN s
                   ELSE [s EXCEPT !.open = Append(@, m)]]

\* Mutant: only a node that names itself is found.
NoSelfReference(next) == \A n \in DOMAIN next : n \notin next[n]

\* Every node is opened once and done once.
NoCycle(next) ==
    After(Visit(next), [open |-> <<>>, done |-> {}], 2 * Cardinality(DOMAIN next)).done = DOMAIN next

ChecksAccepted(e) ==
    /\ Distinct(e.checks)
    /\ \A i \in DOMAIN e.checks :
         /\ e.checks[i].subject \in Ids(e.entities)
         /\ ToSet(e.checks[i].deps) \subseteq Ids(e.checks)
    /\ NoCycle([id \in Ids(e.checks) |-> ToSet(ById(e.checks)[id].deps)])

\* validateExecution; the branch of an execution is not looked up.
ExecutionAccepted(e, x) ==
    /\ x.check \in Ids(e.checks)
    /\ CASE x.lifecycle \in {"NOT_RUN", "UNAVAILABLE", "DENIED"} -> x.verdict = "SKIPPED"
         [] x.lifecycle = "COMPLETED" -> x.verdict \in {"PASS", "FAIL", "UNKNOWN"}
         [] x.lifecycle = "TIMED_OUT" -> x.verdict \in {"FAIL", "UNKNOWN"}
         [] x.lifecycle = "ERROR" -> x.verdict = "UNKNOWN"
    /\ ToSet(x.observations) \subseteq Ids(e.observations)
    /\ ToSet(x.visibility) \subseteq Ids(e.visibility)

\* validateObservation, the listener cases of validatePayload, and the namespace of an
\* inventory result.
ObservationAccepted(e, o) ==
    /\ o.vantage \in Ids(e.vantages)
    /\ o.subject \in Ids(e.entities)
    /\ o.kind \in {"ENTRY", "OWNERSHIP"} => o.listener \in Ids(e.entities)
    /\ o.kind = "ENTRY" => o.bucket[1] \in Ids(e.entities)
    /\ o.kind = "RESULT" =>
         ~o.limited /\ o.ports[1] <= o.ports[2] /\ NamespaceMatchesVantage(View(e), o)

EvidenceAccepted(e) ==
    /\ e.version[1] = 1
    /\ Distinct(e.vantages) /\ Distinct(e.assertions) /\ Distinct(e.entities)
    /\ PathAccepted(e)
    /\ ChecksAccepted(e)
    /\ Distinct(e.executions) /\ Distinct(e.observations) /\ Distinct(e.visibility)
    /\ \A i \in DOMAIN e.executions : ExecutionAccepted(e, e.executions[i])
    /\ \A i \in DOMAIN e.observations : ObservationAccepted(e, e.observations[i])
    /\ \A i \in DOMAIN e.visibility : VisibilityAccepted(View(e), e.visibility[i])

----
(***************************************************************************)
(* ValidatePersistedEvaluatedRun: what was derived, and the order of all.  *)
(***************************************************************************)
Confirmed == {"OBSERVED", "INFERRED"}
ClaimIndex(r, id) == CHOOSE i \in DOMAIN r.claims : r.claims[i].id = id
ClaimRefs(refs) == {ref \in ToSet(refs) : ref[1] = Clm}

\* Mutant: only claims are looked up.
OnlyClaimsLookedUp(r, i, ref) ==
    ref[1] = Clm => /\ ref[2] \in Ids(r.claims)
                    /\ ClaimIndex(r, ref[2]) < i
                    /\ r.claims[ClaimIndex(r, ref[2])].rule = r.claims[i].rule

\* validateClaimRefs: a claim rests on evidence of the run and on earlier claims of
\* its own rule.
ClaimRefAccepted(r, i, ref) ==
    CASE ref[1] = Obs -> ref[2] \in Ids(r.observations)
      [] ref[1] = Vis -> ref[2] \in Ids(r.visibility)
      [] ref[1] = Asn -> ref[2] \in Ids(r.assertions)
      [] ref[1] = Clm -> /\ ref[2] \in Ids(r.claims)
                         /\ ClaimIndex(r, ref[2]) < i
                         /\ r.claims[ClaimIndex(r, ref[2])].rule = r.claims[i].rule

\* claimPathReachesBase: the claims met from claim i, one looked at per turn, until one
\* names evidence of the run.  (The code takes the claim met last; which one it takes
\* shows only where a claim names itself.)
Justify(r) ==
    LET claims == DOMAIN r.claims
    IN  [s \in [met : SUBSET claims, done : SUBSET claims, answer : {"none", "base", "cycle"}] |->
          LET n == CHOOSE n \in s.met \ s.done : TRUE
              refs == r.claims[n].support
              cited == {ClaimIndex(r, ref[2]) : ref \in ClaimRefs(refs)}
          IN  IF s.answer # "none" \/ s.met = s.done THEN s
              ELSE [met |-> s.met \cup cited, done |-> s.done \cup {n},
                    answer |-> IF n \in cited THEN "cycle"
                               ELSE IF ClaimRefs(refs) # ToSet(refs) THEN "base" ELSE "none"]]

\* Mutant: any claim will do as a base.
CitesAny(r, i) == r.claims[i].support # <<>>

ReachesBase(r, i) ==
    After(Justify(r), [met |-> {i}, done |-> {}, answer |-> "none"], Len(r.claims)).answer = "base"

\* validateClaimGraphs; a claim without any support is passed over.
JustificationAccepted(r, i) ==
    LET c == r.claims[i]
        onlyClaims == \A ref \in ToSet(c.support) : ref[1] = Clm
    IN  c.support # <<>> =>
          /\ onlyClaims => c.level # "OBSERVED" /\ ReachesBase(r, i)
          /\ c.level = "SUSPECTED" => c.missing # <<>>

\* validateListenerAbsenceClaim.
AbsenceClaimAccepted(r, c) ==
    LET cited == {i \in DOMAIN c.support :
                    c.support[i][1] = Vis /\ c.support[i][2] \in Ids(r.visibility)}
        v == ById(r.visibility)[c.support[CHOOSE i \in cited : TRUE][2]]
    IN  c.statement = "ABSENT" =>
          /\ c.level = "INFERRED" /\ c.about.port = r.port
          /\ Cardinality(cited) = 1
          /\ c.about.bucket = v.bucket /\ c.about.vantage = v.vantage
          /\ AbsenceIssue(View(r), v, c.about.port) = "NONE"
          /\ \A id \in ToSet(v.basis) : <<Obs, id>> \in ToSet(c.support)

ClaimsAccepted(r) ==
    /\ \A i \in DOMAIN r.claims :
         LET c == r.claims[i]
         IN  /\ c.id = i /\ c.rule \in ToSet(r.rules)
             /\ \A ref \in ToSet(c.support \o c.contra) : ClaimRefAccepted(r, i, ref)
    /\ NoCycle([i \in DOMAIN r.claims |-> {ref[2] : ref \in ClaimRefs(r.claims[i].support)}])
    /\ \A i \in DOMAIN r.claims :
         JustificationAccepted(r, i) /\ AbsenceClaimAccepted(r, r.claims[i])

\* The findings as selection.Apply and GlobalPrimaryProof see them: a branch with
\* several positions counts with the first, a finding without claims says what it is.
Lineage(r, b) ==
    LET climb == [met \in SUBSET Ids(r.branches) |->
                    met \cup ({ById(r.branches)[x].parent : x \in met} \cap Ids(r.branches))]
    IN  After(climb, {b}, Len(r.branches))

PositionAt(f, b) == f.positions[CHOOSE i \in DOMAIN f.positions :
    f.positions[i][1] = b /\ \A j \in 1..(i - 1) : f.positions[j][1] # b][2]

Proposition(r, id) == LET c == ById(r.claims)[id] IN <<c.statement, c.about>>

SelectorView(r, f) ==
    [level |-> IF f.blocker THEN f.level ELSE "SUSPECTED",
     statement |-> Each(f.claims, LAMBDA id : Proposition(r, id)),
     at |-> [b \in ToSet(f.branches) \cap {f.positions[i][1] : i \in DOMAIN f.positions}
                 \cap Ids(r.branches) |-> PositionAt(f, b)]]

SelectorInput(r) ==
    [branch |-> Ids(r.branches), finding |-> DOMAIN r.findings,
     edgeCount |-> [b \in Ids(r.branches) |-> Len(ById(r.branches)[b].edges)],
     lineage |-> [b \in Ids(r.branches) |-> Lineage(r, b)],
     findings |-> [i \in DOMAIN r.findings |-> SelectorView(r, r.findings[i])]]

Selector(in) == INSTANCE Blockers WITH
    Branch <- in.branch, Finding <- in.finding, EdgeCount <- in.edgeCount,
    lineage <- in.lineage, findings <- in.findings

\* validateFindingRefs: only the claims a finding cites itself are looked at.
FindingClaimAccepted(r, f, id) ==
    /\ id \in Ids(r.claims)
    /\ LET c == r.claims[ClaimIndex(r, id)]
       IN  c.rule = f.rule /\ (c.level = "SUSPECTED" => f.selection \in {"NONE", "ADDITIONAL"})

FindingsAccepted(r) ==
    LET globals == {i \in DOMAIN r.findings : r.findings[i].selection = "GLOBAL_PRIMARY"}
    IN  /\ \A i \in DOMAIN r.findings :
             LET f == r.findings[i]
             IN  /\ f.id = i /\ f.rule \in ToSet(r.rules) /\ f.claims # <<>>
                 /\ IsInjective(f.branches) /\ ToSet(f.branches) \subseteq Ids(r.branches)
                 /\ \A p \in ToSet(f.positions) :
                      p[1] \in Ids(r.branches) /\ p[2] < Len(ById(r.branches)[p[1]].edges)
                 /\ \A id \in ToSet(f.claims) : FindingClaimAccepted(r, f, id)
        /\ Cardinality(globals) <= 1
        /\ \A i \in globals : r.findings[i].level # "SUSPECTED" /\ Selector(SelectorInput(r))!GlobalPrimaryProof(i)

\* Mutant: any order of the branches is canonical.
OrderedButBranches(r) == Canonical(r) = [r EXCEPT !.branches = Canonical(r).branches]

InOrder(r) == CanonicalBranches(r.branches).ok /\ Canonical(r) = r

Accepted(r) ==
    /\ EvidenceAccepted(r)
    /\ \A i \in 1..(Len(r.rules) - 1) : r.rules[i] < r.rules[i + 1]
    /\ ClaimsAccepted(r)
    /\ FindingsAccepted(r)
    /\ InOrder(r)

----
(***************************************************************************)
(* Evaluator.Evaluate.  A rule is an interface: emission[n] is what rule n *)
(* answers, a sequence of candidates in any order.  The claims of a        *)
(* candidate have keys local to it, which its claim references (in place   *)
(* of claim IDs) and its findings name; 0 stands for a key the evaluator   *)
(* refuses.                                                                *)
(***************************************************************************)
KeysAccepted(candidates) ==
    /\ \A i \in DOMAIN candidates : candidates[i].key # 0
    /\ \A i, j \in DOMAIN candidates : candidates[i].key = candidates[j].key => i = j

\* Mutant: candidates keep the order the rule emitted them in.
Unsorted(candidates) == candidates

ByKey(candidates) == SortBy(candidates, [i \in DOMAIN candidates |-> <<0, candidates[i].key>>])

\* All candidates, each with its rule, in rule and key order.
Compiled(rules, emission) ==
    FlattenSeq(Each(rules, LAMBDA n :
        Each(ByKey(emission[n]), LAMBDA c : [rule |-> n, claims |-> c.claims, findings |-> c.findings])))

Local(c, key) == CHOOSE i \in DOMAIN c.claims : c.claims[i].key = key

LocalsAccepted(c) ==
    /\ \A i, j \in DOMAIN c.claims : c.claims[i].key = c.claims[j].key => i = j
    /\ \A i \in DOMAIN c.claims :
         /\ c.claims[i].key # 0
         /\ \A ref \in ClaimRefs(c.claims[i].support \o c.claims[i].contra) :
              \E j \in 1..(i - 1) : c.claims[j].key = ref[2]
    /\ \A i \in DOMAIN c.findings : \A key \in ToSet(c.findings[i].claims) :
         \E j \in DOMAIN c.claims : c.claims[j].key = key

\* The claims before candidate k.
Before(compiled, k) == Len(FlattenSeq([i \in 1..(k - 1) |-> compiled[i].claims]))

\* Mutant: the local keys of a rule's first candidate serve for all of the rule.
FirstOfRule(compiled, k) ==
    Before(compiled, CHOOSE i \in 1..k : compiled[i].rule = compiled[k].rule
                       /\ \A j \in 1..(i - 1) : compiled[j].rule # compiled[k].rule)

Offset(compiled, k) == Before(compiled, k)

\* evidenceFromTemplate.
Resolved(compiled, k, refs) ==
    Each(refs, LAMBDA ref :
        IF ref[1] = Clm THEN <<Clm, Offset(compiled, k) + Local(compiled[k], ref[2])>> ELSE ref)

ClaimOf(compiled, k, t) ==
    [id |-> 0, rule |-> compiled[k].rule, statement |-> t.statement, about |-> t.about,
     level |-> t.level, missing |-> t.missing,
     support |-> Resolved(compiled, k, t.support), contra |-> Resolved(compiled, k, t.contra)]

FindingOf(compiled, k, t) ==
    [id |-> 0, rule |-> compiled[k].rule, level |-> t.level, blocker |-> t.blocker,
     branches |-> t.branches, positions |-> t.positions, selection |-> "NONE",
     claims |-> Each(t.claims, LAMBDA key : Offset(compiled, k) + Local(compiled[k], key))]

Numbered(s) == [i \in DOMAIN s |-> [s[i] EXCEPT !.id = i]]

Claims(compiled) ==
    Numbered(FlattenSeq([k \in DOMAIN compiled |->
        Each(compiled[k].claims, LAMBDA t : ClaimOf(compiled, k, t))]))
Findings(compiled) ==
    Numbered(FlattenSeq([k \in DOMAIN compiled |->
        Each(compiled[k].findings, LAMBDA t : FindingOf(compiled, k, t))]))

Derived(e, rules, compiled) ==
    [e EXCEPT !.rules = rules, !.claims = Claims(compiled), !.findings = Findings(compiled)]

Select(r) ==
    [r EXCEPT !.findings = [i \in DOMAIN r.findings |->
        [r.findings[i] EXCEPT !.selection = Selector(SelectorInput(r))!Selected(i)]]]

\* Nothing, or the report of evidence e.
Evaluate(e, rules, emission) ==
    LET compiled == Compiled(rules, emission)
        derived == Derived(e, rules, compiled)
        input == SelectorInput(derived)
        report == Canonical(Select(derived))
    IN  IF /\ e.version = <<1, 0, 0>>
           /\ \A n \in ToSet(rules) : KeysAccepted(emission[n])
           /\ \A k \in DOMAIN compiled : LocalsAccepted(compiled[k])
           /\ \A b \in Selector(input)!Leaves : ~Selector(input)!OutOfBranch(b)
           /\ CanonicalBranches(e.branches).ok
           /\ Accepted(report)
        THEN <<report>> ELSE <<>>
====
