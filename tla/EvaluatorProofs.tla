---- MODULE EvaluatorProofs ----
(***************************************************************************)
(* What Evaluate of ReportRules guarantees: it answers a run that its own  *)
(* validator accepts, and the same run for the same evidence and answers,  *)
(* in whatever order they come.                                            *)
(***************************************************************************)
EXTENDS ReportRulesProofs

----
(***************************************************************************)
(* Candidates                                                              *)
(***************************************************************************)
CandidateKey == [c \in RuleCandidate |-> <<0, c.key>>]

\* A compiled candidate.
Candidate == [rule : Nat, claims : Seq(ClaimTemplate), findings : Seq(FindingTemplate)]

\* Sorting the candidates of a rule by their keys loses none.
LEMMA CandidateKeys ==
    ASSUME NEW s \in Seq(RuleCandidate)
    PROVE  /\ CandidateKey \in [RuleCandidate -> Nat \X Nat]
           /\ ByKey(s) = SortBy(s, KeyOf(s, CandidateKey))
           /\ ByKey(s) \in Seq(RuleCandidate) /\ ToSet(ByKey(s)) = ToSet(s)
           /\ Len(ByKey(s)) = Len(s) /\ SameCounts(ByKey(s), s)
<1>1. \A c \in RuleCandidate : c.key \in Nat
  BY DEF RuleCandidate
<1>2. CandidateKey \in [RuleCandidate -> Nat \X Nat]
  BY <1>1 DEF CandidateKey
<1>3. \A i \in DOMAIN s : s[i] \in RuleCandidate
  OBVIOUS
<1>4. [i \in DOMAIN s |-> <<0, s[i].key>>] = KeyOf(s, CandidateKey)
  BY <1>3 DEF KeyOf, CandidateKey
<1>5. ByKey(s) = SortBy(s, KeyOf(s, CandidateKey))
  BY <1>4 DEF ByKey
<1> QED
  BY <1>2, <1>5, SortByFacts

\* The candidates of rule n, compiled.
OfRule(n, s) == [i \in DOMAIN s |-> [rule |-> n, claims |-> s[i].claims, findings |-> s[i].findings]]

\* The compiled candidates are those of each rule, rule after rule.
LEMMA CompiledParts ==
    ASSUME NEW rules \in Seq(Nat), NEW emission,
           \A n \in ToSet(rules) : emission[n] \in Seq(RuleCandidate)
    PROVE  LET seqs == [k \in DOMAIN rules |-> OfRule(rules[k], ByKey(emission[rules[k]]))]
           IN  Compiled(rules, emission) = FlattenSeq(seqs) /\ seqs \in Seq(Seq(Candidate))
<1> DEFINE seqs == [k \in DOMAIN rules |-> OfRule(rules[k], ByKey(emission[rules[k]]))]
<1>1. Compiled(rules, emission) = FlattenSeq(seqs)
  BY DEF Compiled, Each, OfRule
<1>2. ASSUME NEW k \in DOMAIN rules PROVE seqs[k] \in Seq(Candidate)
  <2> DEFINE n == rules[k]
             s == ByKey(emission[n])
             t == OfRule(n, s)
  <2>1. n \in Nat /\ n \in ToSet(rules)
    BY DEF ToSet
  <2>2. s \in Seq(RuleCandidate)
    BY <2>1, CandidateKeys
  <2> HIDE DEF n, s
  <2>3. ASSUME NEW i \in DOMAIN s PROVE t[i] \in Candidate
    <3>1. s[i] \in RuleCandidate
      BY <2>2, ElementOf
    <3> QED
      BY <2>1, <3>1 DEF OfRule, RuleCandidate, Candidate
  <2>4. t = [i \in DOMAIN s |-> t[i]]
    BY DEF OfRule
  <2>5. t \in Seq(Candidate)
    <3> HIDE DEF t
    <3> QED
      BY <2>2, <2>3, <2>4, SequenceOf
  <2> QED
    BY <2>5 DEF n, s
<1>3. seqs = [k \in DOMAIN rules |-> seqs[k]]
  OBVIOUS
<1>4. seqs \in Seq(Seq(Candidate))
  <2> DEFINE T == Seq(Candidate)
             N == Nat
  <2>1. rules \in Seq(N) /\ \A k \in DOMAIN rules : seqs[k] \in T
    BY <1>2
  <2> HIDE DEF seqs, T, N
  <2>2. seqs \in Seq(T)
    BY <1>3, <2>1, SequenceOf
  <2> QED
    BY <2>2 DEF T
<1> QED
  BY <1>1, <1>4

\* The compiled candidates are candidates.
LEMMA CompiledType ==
    ASSUME NEW rules \in Seq(Nat), NEW emission,
           \A n \in ToSet(rules) : emission[n] \in Seq(RuleCandidate)
    PROVE  Compiled(rules, emission) \in Seq(Candidate)
<1> DEFINE seqs == [k \in DOMAIN rules |-> OfRule(rules[k], ByKey(emission[rules[k]]))]
<1>1. Compiled(rules, emission) = FlattenSeq(seqs) /\ seqs \in Seq(Seq(Candidate))
  BY CompiledParts
<1> HIDE DEF seqs
<1> QED
  BY <1>1, FlattenPositions

----
(***************************************************************************)
(* Local keys                                                              *)
(***************************************************************************)
LEMMA LocalFound ==
    ASSUME NEW c \in Candidate, LocalsAccepted(c)
    PROVE  /\ \A i \in DOMAIN c.claims : \A ref \in ToSet(c.claims[i].support) \cup ToSet(c.claims[i].contra) :
                ref[1] = Clm => Local(c, ref[2]) \in DOMAIN c.claims /\ c.claims[Local(c, ref[2])].key = ref[2]
           /\ \A i \in DOMAIN c.findings : \A key \in ToSet(c.findings[i].claims) :
                Local(c, key) \in DOMAIN c.claims /\ c.claims[Local(c, key)].key = key
           /\ DOMAIN c.claims \subseteq Nat
<1>1. c.claims \in Seq(ClaimTemplate) /\ c.findings \in Seq(FindingTemplate)
  BY DEF Candidate
<1>2. DOMAIN c.claims = 1..Len(c.claims) /\ Len(c.claims) \in Nat
  BY <1>1
<1>3. ASSUME NEW key, \E j \in DOMAIN c.claims : c.claims[j].key = key
      PROVE  Local(c, key) \in DOMAIN c.claims /\ c.claims[Local(c, key)].key = key
  BY <1>3 DEF Local
<1>4. ASSUME NEW i \in DOMAIN c.claims,
             NEW ref \in ToSet(c.claims[i].support) \cup ToSet(c.claims[i].contra), ref[1] = Clm
      PROVE  \E j \in DOMAIN c.claims : c.claims[j].key = ref[2]
  <2>1. c.claims[i] \in ClaimTemplate
    BY <1>1, ElementOf
  <2>2. c.claims[i].support \in Seq(Ref) /\ c.claims[i].contra \in Seq(Ref)
    BY <2>1 DEF ClaimTemplate
  <2>3. ToSet(c.claims[i].support \o c.claims[i].contra)
          = ToSet(c.claims[i].support) \cup ToSet(c.claims[i].contra)
    BY <2>2, ConcatSet
  <2>4. ref \in ClaimRefs(c.claims[i].support \o c.claims[i].contra)
    BY <1>4, <2>3 DEF ClaimRefs
  <2>5. PICK j \in 1..(i - 1) : c.claims[j].key = ref[2]
    BY <2>4 DEF LocalsAccepted
  <2>6. i \in Nat /\ j \in DOMAIN c.claims
    BY <1>2
  <2> QED
    BY <2>5, <2>6
<1>5. \A i \in DOMAIN c.findings : \A key \in ToSet(c.findings[i].claims) :
         \E j \in DOMAIN c.claims : c.claims[j].key = key
  BY Zenon DEF LocalsAccepted
<1>6. \A i \in DOMAIN c.findings : \A key \in ToSet(c.findings[i].claims) :
         Local(c, key) \in DOMAIN c.claims /\ c.claims[Local(c, key)].key = key
  BY <1>3, <1>5
<1>7. \A i \in DOMAIN c.claims : \A ref \in ToSet(c.claims[i].support) \cup ToSet(c.claims[i].contra) :
         ref[1] = Clm => Local(c, ref[2]) \in DOMAIN c.claims /\ c.claims[Local(c, ref[2])].key = ref[2]
  BY <1>3, <1>4
<1> QED
  BY <1>2, <1>6, <1>7


\* Where the claims of a candidate start.
LEMMA OffsetType ==
    ASSUME NEW compiled \in Seq(Candidate), NEW k \in DOMAIN compiled
    PROVE  Offset(compiled, k) \in Nat
<1> DEFINE seqs == [i \in 1..(k - 1) |-> compiled[i].claims]
           T == Seq(ClaimTemplate)
<1>1. k \in Nat /\ k - 1 \in Nat /\ 1..(k - 1) \subseteq DOMAIN compiled
  OBVIOUS
<1>2. \A i \in 1..(k - 1) : seqs[i] \in T
  <2>1. \A i \in 1..(k - 1) : compiled[i] \in Candidate
    BY <1>1
  <2> QED
    BY <2>1 DEF Candidate
<1>3. seqs \in Seq(T)
  <2>1. seqs \in [1..(k - 1) -> T]
    <3> HIDE DEF T
    <3> QED
      BY <1>2
  <2> HIDE DEF seqs, T
  <2> QED
    BY <1>1, <2>1
<1>4. FlattenSeq(seqs) \in Seq(ClaimTemplate)
  <2> HIDE DEF seqs
  <2> QED
    BY <1>3, FlattenPositions
<1>5. Len(FlattenSeq(seqs)) \in Nat
  BY <1>4
<1> QED
  BY <1>5 DEF Offset, Before

\* Local claim keys of an accepted candidate resolve to references of the run.
LEMMA ResolvedType ==
    ASSUME NEW compiled \in Seq(Candidate), NEW k \in DOMAIN compiled, LocalsAccepted(compiled[k]),
           NEW i \in DOMAIN compiled[k].claims,
           NEW refs \in Seq(Ref),
           ToSet(refs) \subseteq ToSet(compiled[k].claims[i].support) \cup ToSet(compiled[k].claims[i].contra)
    PROVE  /\ Resolved(compiled, k, refs) \in Seq(Ref)
           /\ DOMAIN Resolved(compiled, k, refs) = DOMAIN refs
<1> DEFINE s == Resolved(compiled, k, refs)
<1>1. s = [j \in DOMAIN refs |-> IF refs[j][1] = Clm
             THEN <<Clm, Offset(compiled, k) + Local(compiled[k], refs[j][2])>> ELSE refs[j]]
  BY DEF Resolved, Each
<1>2. compiled[k] \in Candidate /\ Offset(compiled, k) \in Nat
  BY OffsetType
<1>3. ASSUME NEW j \in DOMAIN refs PROVE s[j] \in Ref
  <2>1. refs[j] \in Ref /\ refs[j] \in ToSet(refs)
    BY DEF ToSet
  <2>2. CASE refs[j][1] # Clm
    <3>1. s[j] = refs[j]
      BY <1>1, <2>2
    <3> HIDE DEF s
    <3> QED
      BY <2>1, <3>1
  <2>3. CASE refs[j][1] = Clm
    <3>1. Local(compiled[k], refs[j][2]) \in Nat
      BY <1>2, <2>1, <2>3, LocalFound
    <3>2. s[j] = <<Clm, Offset(compiled, k) + Local(compiled[k], refs[j][2])>>
      BY <1>1, <2>3
    <3> HIDE DEF s
    <3> QED
      BY <1>2, <3>1, <3>2 DEF Ref, Clm, Obs, Asn
  <2> QED
    BY <2>2, <2>3
<1>4. s = [j \in DOMAIN refs |-> s[j]]
  BY <1>1
<1> HIDE DEF s
<1>5. s \in Seq(Ref)
  BY <1>3, <1>4, SequenceOf
<1> QED
  BY <1>4, <1>5 DEF s

DraftClaim ==
    [id : {0}, rule : Nat, statement : STRING, about : About, level : ClaimLevel,
     missing : Seq(Nat), support : Seq(Ref), contra : Seq(Ref)]
DraftFinding ==
    [id : {0}, rule : Nat, level : ClaimLevel, blocker : BOOLEAN,
     branches : Seq(Nat), positions : Seq(Nat \X Nat), claims : Seq(Nat), selection : {"NONE"}]

\* What an accepted candidate contributes are claims and findings without IDs.
LEMMA DraftTypes ==
    ASSUME NEW compiled \in Seq(Candidate), NEW k \in DOMAIN compiled, LocalsAccepted(compiled[k])
    PROVE  /\ \A i \in DOMAIN compiled[k].claims : ClaimOf(compiled, k, compiled[k].claims[i]) \in DraftClaim
           /\ \A i \in DOMAIN compiled[k].findings :
                FindingOf(compiled, k, compiled[k].findings[i]) \in DraftFinding
<1>1. compiled[k] \in Candidate /\ Offset(compiled, k) \in Nat
  BY OffsetType
<1>2. /\ compiled[k].rule \in Nat /\ compiled[k].claims \in Seq(ClaimTemplate)
      /\ compiled[k].findings \in Seq(FindingTemplate)
  BY <1>1 DEF Candidate
<1>3. ASSUME NEW i \in DOMAIN compiled[k].claims
      PROVE  ClaimOf(compiled, k, compiled[k].claims[i]) \in DraftClaim
  <2> DEFINE t == compiled[k].claims[i]
  <2>1. t \in ClaimTemplate
    BY <1>2, ElementOf
  <2>2. t.support \in Seq(Ref) /\ t.contra \in Seq(Ref)
    BY <2>1 DEF ClaimTemplate
  <2>3. Resolved(compiled, k, t.support) \in Seq(Ref) /\ Resolved(compiled, k, t.contra) \in Seq(Ref)
    BY <2>2, ResolvedType
  <2> HIDE DEF t
  <2> QED
    BY <1>2, <2>1, <2>3 DEF t, ClaimOf, DraftClaim, ClaimTemplate
<1>4. ASSUME NEW i \in DOMAIN compiled[k].findings
      PROVE  FindingOf(compiled, k, compiled[k].findings[i]) \in DraftFinding
  <2> DEFINE t == compiled[k].findings[i]
             s == [j \in DOMAIN t.claims |-> Offset(compiled, k) + Local(compiled[k], t.claims[j])]
  <2>1. t \in FindingTemplate
    BY <1>2, ElementOf
  <2>2. t.claims \in Seq(Nat)
    BY <2>1 DEF FindingTemplate
  <2>3. ASSUME NEW j \in DOMAIN t.claims PROVE s[j] \in Nat
    <3>1. t.claims[j] \in ToSet(t.claims)
      BY DEF ToSet
    <3>2. Local(compiled[k], t.claims[j]) \in Nat
      BY <1>1, <3>1, LocalFound
    <3> QED
      BY <1>1, <3>2
  <2>4. s \in Seq(Nat)
    <3> DEFINE N == Nat
    <3>1. t.claims \in Seq(N) /\ (\A j \in DOMAIN t.claims : s[j] \in N)
      BY <2>2, <2>3
    <3>2. s = [j \in DOMAIN t.claims |-> s[j]]
      OBVIOUS
    <3> HIDE DEF t, s, N
    <3>3. s \in Seq(N)
      BY <3>1, <3>2, SequenceOf
    <3> QED
      BY <3>3 DEF N
  <2>5. FindingOf(compiled, k, t)
          = [id |-> 0, rule |-> compiled[k].rule, level |-> t.level, blocker |-> t.blocker,
             branches |-> t.branches, positions |-> t.positions, selection |-> "NONE", claims |-> s]
    BY DEF FindingOf, Each
  <2> HIDE DEF s, t
  <2> QED
    BY <1>2, <2>1, <2>4, <2>5 DEF t, DraftFinding, FindingTemplate
<1> QED
  BY <1>3, <1>4

\* Numbered claims are rows of the run.
LEMMA NumberedClaims ==
    ASSUME NEW s \in Seq(DraftClaim)
    PROVE  Numbered(s) \in Seq(Rows.claims)
<1> DEFINE t == Numbered(s)
<1>1. t = [i \in DOMAIN s |-> [s[i] EXCEPT !.id = i]]
  BY DEF Numbered
<1>2. ASSUME NEW i \in DOMAIN s PROVE t[i] \in Rows.claims
  <2>1. s[i] \in DraftClaim /\ i \in Id
    BY DEF Id
  <2>2. t[i] = [s[i] EXCEPT !.id = i]
    BY <1>1
  <2> HIDE DEF t
  <2> QED
    BY <2>1, <2>2 DEF DraftClaim, Rows
<1>3. t = [i \in DOMAIN s |-> t[i]]
  BY <1>1
<1> HIDE DEF t
<1>4. t \in Seq(Rows.claims)
  BY <1>2, <1>3, SequenceOf
<1> QED
  BY <1>4 DEF t

\* Numbered findings are rows of the run.
LEMMA NumberedFindings ==
    ASSUME NEW s \in Seq(DraftFinding)
    PROVE  Numbered(s) \in Seq(Rows.findings)
<1> DEFINE t == Numbered(s)
<1>1. t = [i \in DOMAIN s |-> [s[i] EXCEPT !.id = i]]
  BY DEF Numbered
<1>2. ASSUME NEW i \in DOMAIN s PROVE t[i] \in Rows.findings
  <2>1. s[i] \in DraftFinding /\ i \in Id
    BY DEF Id
  <2>2. t[i] = [s[i] EXCEPT !.id = i]
    BY <1>1
  <2> HIDE DEF t
  <2> QED
    BY <2>1, <2>2 DEF DraftFinding, Rows
<1>3. t = [i \in DOMAIN s |-> t[i]]
  BY <1>1
<1> HIDE DEF t
<1>4. t \in Seq(Rows.findings)
  BY <1>2, <1>3, SequenceOf
<1> QED
  BY <1>4 DEF t

\* The claims and the findings of the compiled candidates, before they are numbered.
DraftClaims(compiled) ==
    [k \in DOMAIN compiled
        |-> [i \in DOMAIN compiled[k].claims |-> ClaimOf(compiled, k, compiled[k].claims[i])]]
DraftFindings(compiled) ==
    [k \in DOMAIN compiled |->
        [i \in DOMAIN compiled[k].findings |-> FindingOf(compiled, k, compiled[k].findings[i])]]

\* The derived claims and findings are the numbered contributions of the candidates.
LEMMA DerivedParts ==
    ASSUME NEW compiled \in Seq(Candidate), \A k \in DOMAIN compiled : LocalsAccepted(compiled[k])
    PROVE  /\ DraftClaims(compiled) \in Seq(Seq(DraftClaim))
           /\ DraftFindings(compiled) \in Seq(Seq(DraftFinding))
           /\ Claims(compiled) = Numbered(FlattenSeq(DraftClaims(compiled)))
           /\ Findings(compiled) = Numbered(FlattenSeq(DraftFindings(compiled)))
           /\ Claims(compiled) \in Seq(Rows.claims) /\ Findings(compiled) \in Seq(Rows.findings)
<1> DEFINE C == Seq(DraftClaim)
           F == Seq(DraftFinding)
           p == DraftClaims(compiled)
           q == DraftFindings(compiled)
<1>1. ASSUME NEW k \in DOMAIN compiled PROVE p[k] \in C /\ q[k] \in F
  <2> DEFINE s == [i \in DOMAIN compiled[k].claims |-> ClaimOf(compiled, k, compiled[k].claims[i])]
             t == [i \in DOMAIN compiled[k].findings |-> FindingOf(compiled, k, compiled[k].findings[i])]
  <2>1. compiled[k].claims \in Seq(ClaimTemplate) /\ compiled[k].findings \in Seq(FindingTemplate)
    <3>1. compiled[k] \in Candidate
      BY ElementOf
    <3> QED
      BY <3>1 DEF Candidate
  <2>2. /\ \A i \in DOMAIN compiled[k].claims : s[i] \in DraftClaim
        /\ \A i \in DOMAIN compiled[k].findings : t[i] \in DraftFinding
    BY DraftTypes
  <2>3. s = [i \in DOMAIN compiled[k].claims |-> s[i]] /\ t = [i \in DOMAIN compiled[k].findings |-> t[i]]
    OBVIOUS
  <2>4. p[k] = s /\ q[k] = t
    BY DEF DraftClaims, DraftFindings
  <2> HIDE DEF s, t, p, q
  <2>5. s \in Seq(DraftClaim)
    BY <2>1, <2>2, <2>3, SequenceOf
  <2>6. t \in Seq(DraftFinding)
    BY <2>1, <2>2, <2>3, SequenceOf
  <2> QED
    BY <2>4, <2>5, <2>6
<1>2. p = [k \in DOMAIN compiled |-> p[k]] /\ q = [k \in DOMAIN compiled |-> q[k]]
  BY DEF DraftClaims, DraftFindings
<1>3. p \in Seq(C)
  <2> HIDE DEF p, q, C, F
  <2> QED
    BY <1>1, <1>2, SequenceOf
<1>4. q \in Seq(F)
  <2> HIDE DEF p, q, C, F
  <2> QED
    BY <1>1, <1>2, SequenceOf
<1>5. FlattenSeq(p) \in Seq(DraftClaim)
  <2> HIDE DEF p
  <2> QED
    BY <1>3, FlattenPositions
<1>6. FlattenSeq(q) \in Seq(DraftFinding)
  <2> HIDE DEF q
  <2> QED
    BY <1>4, FlattenPositions
<1>7. Claims(compiled) = Numbered(FlattenSeq(p)) /\ Findings(compiled) = Numbered(FlattenSeq(q))
  BY DEF Claims, Findings, Each, DraftClaims, DraftFindings
<1> QED
  BY <1>3, <1>4, <1>5, <1>6, <1>7, NumberedClaims, NumberedFindings

----
(***************************************************************************)
(* The report is a run its own validator accepts.                          *)
(***************************************************************************)
LEMMA SelectedType ==
    ASSUME NEW in, NEW i
    PROVE  Selector(in)!Selected(i) \in {"NONE", "ADDITIONAL", "BRANCH_PRIMARY", "GLOBAL_PRIMARY"}
BY DEF Selector!Selected, Selector!AfterLeaves

\* The run derived from evidence is a run on the branches of the evidence.
LEMMA DerivedRun ==
    ASSUME NEW e \in Run, NEW rules \in Seq(Nat), NEW compiled \in Seq(Candidate),
           \A k \in DOMAIN compiled : LocalsAccepted(compiled[k])
    PROVE  /\ Derived(e, rules, compiled) \in Run
           /\ Derived(e, rules, compiled).branches = e.branches
<1>1. Claims(compiled) \in Seq(Rows.claims) /\ Findings(compiled) \in Seq(Rows.findings)
  BY DerivedParts
<1> QED
  BY <1>1 DEF Derived, Run

\* Selecting blockers keeps the run a run, on the same branches.
LEMMA SelectRun ==
    ASSUME NEW r \in Run
    PROVE  Select(r) \in Run /\ Select(r).branches = r.branches
<1> DEFINE s == [i \in DOMAIN r.findings |->
                  [r.findings[i] EXCEPT !.selection = Selector(SelectorInput(r))!Selected(i)]]
<1>1. r.findings \in Seq(Rows.findings)
  BY RunFields
<1>2. ASSUME NEW i \in DOMAIN r.findings PROVE s[i] \in Rows.findings
  <2> DEFINE choice == Selector(SelectorInput(r))!Selected(i)
  <2>1. choice \in {"NONE", "ADDITIONAL", "BRANCH_PRIMARY", "GLOBAL_PRIMARY"}
    BY SelectedType
  <2>2. r.findings[i] \in Rows.findings
    BY <1>1, ElementOf
  <2>3. s[i] = [r.findings[i] EXCEPT !.selection = choice]
    OBVIOUS
  <2> HIDE DEF s, choice
  <2> QED
    BY <2>1, <2>2, <2>3 DEF Rows
<1>3. s = [i \in DOMAIN r.findings |-> s[i]]
  OBVIOUS
<1>4. Select(r) = [r EXCEPT !.findings = s]
  BY DEF Select
<1> HIDE DEF s
<1>5. s \in Seq(Rows.findings)
  BY <1>1, <1>2, <1>3, SequenceOf
<1> QED
  BY <1>4, <1>5 DEF Run

\* Evaluate answers nothing, or one run that Accepted accepts.
LEMMA EvaluateRun ==
    ASSUME NEW e \in Run, EvidenceAccepted(e), NEW rules \in Seq(Nat), NEW emission,
           \A n \in ToSet(rules) : emission[n] \in Seq(RuleCandidate)
    PROVE  \/ Evaluate(e, rules, emission) = <<>>
           \/ \E r \in Run : /\ Evaluate(e, rules, emission) = <<r>> /\ Accepted(r)
                             /\ r = Canonical(Select(Derived(e, rules, Compiled(rules, emission))))
                             /\ e.version = <<1, 0, 0>>
                             /\ CanonicalBranches(e.branches).ok
<1> DEFINE compiled == Compiled(rules, emission)
           derived == Derived(e, rules, compiled)
           report == Canonical(Select(derived))
<1> SUFFICES ASSUME Evaluate(e, rules, emission) # <<>>
             PROVE  \E r \in Run : /\ Evaluate(e, rules, emission) = <<r>> /\ Accepted(r)
                                   /\ r = report /\ e.version = <<1, 0, 0>>
                                   /\ CanonicalBranches(e.branches).ok
  OBVIOUS
<1>1. /\ Evaluate(e, rules, emission) = <<report>> /\ Accepted(report)
      /\ \A k \in DOMAIN compiled : LocalsAccepted(compiled[k])
      /\ e.version = <<1, 0, 0>> /\ CanonicalBranches(e.branches).ok
  BY DEF Evaluate
<1>2. compiled \in Seq(Candidate)
  BY CompiledType
<1>3. derived \in Run /\ derived.branches = e.branches
  <2> HIDE DEF compiled
  <2> QED
    BY <1>1, <1>2, DerivedRun
<1>4. Select(derived) \in Run /\ Select(derived).branches = e.branches
  <2> HIDE DEF derived
  <2> QED
    BY <1>3, SelectRun
<1>5. Distinct(e.branches)
  BY DEF EvidenceAccepted, PathAccepted
<1>6. report \in Run
  <2> HIDE DEF derived
  <2> QED
    BY <1>4, <1>5, CanonicalRun
<1> HIDE DEF report
<1> QED
  BY <1>1, <1>6

----
(***************************************************************************)
(* The same evidence and the same answers have the same report.            *)
(***************************************************************************)
EvidenceNames == RunNames \ {"rules", "branches", "claims", "findings"}

\* Two runs hold the same evidence, in whatever order.
SameEvidence(e, f) ==
    /\ ToSet(e.branches) = ToSet(f.branches)
    /\ \A name \in EvidenceNames : Canonical(e)[name] = Canonical(f)[name]

\* Candidates of distinct keys are sorted alike from any order.
LEMMA ByKeySame ==
    ASSUME NEW s \in Seq(RuleCandidate), NEW t \in Seq(RuleCandidate), SameCounts(s, t)
    PROVE  KeysAccepted(s) => KeysAccepted(t) /\ ByKey(s) = ByKey(t)
<1> SUFFICES ASSUME KeysAccepted(s) PROVE KeysAccepted(t) /\ ByKey(s) = ByKey(t)
  OBVIOUS
<1>1. ToSet(s) = ToSet(t)
  BY SameCountsFacts
<1>2. \A i \in DOMAIN t : \E j \in DOMAIN s : t[i] = s[j]
  BY <1>1, SameSet
<1>3. ASSUME NEW i \in DOMAIN t, NEW j \in DOMAIN t, t[i].key = t[j].key PROVE i = j
  <2>1. PICK a \in DOMAIN s : t[i] = s[a]
    BY <1>2
  <2>2. PICK b \in DOMAIN s : t[j] = s[b]
    BY <1>2
  <2>3. a = b
    BY <1>3, <2>1, <2>2 DEF KeysAccepted
  <2>4. t[i] = t[j]
    BY <2>1, <2>2, <2>3
  <2>5. Where(s, t[i]) = {a}
    <3>1. ASSUME NEW c \in DOMAIN s, s[c] = s[a] PROVE c = a
      BY <3>1 DEF KeysAccepted
    <3> QED
      BY <2>1, <3>1 DEF Where
  <2>6. Cardinality(Where(t, t[i])) = 1 /\ IsFiniteSet(Where(t, t[i]))
    <3>1. Cardinality(Where(s, t[i])) = 1
      BY <2>5, FS_Singleton
    <3>2. IsFiniteSet(Where(t, t[i]))
      BY CountFacts
    <3> QED
      BY <3>1, <3>2 DEF SameCounts, Count
  <2>7. i \in Where(t, t[i]) /\ j \in Where(t, t[i])
    BY <2>4 DEF Where
  <2>8. PICK x : Where(t, t[i]) = {x}
    BY <2>6, FS_Singleton
  <2> QED
    BY <2>7, <2>8
<1>4. KeysAccepted(t)
  <2>1. \A i \in DOMAIN t : t[i].key # 0
    BY <1>2 DEF KeysAccepted
  <2> QED
    BY <1>3, <2>1 DEF KeysAccepted
<1>5. OneToOne(CandidateKey, ToSet(s))
  <2> SUFFICES ASSUME NEW i \in DOMAIN s, NEW j \in DOMAIN s, CandidateKey[s[i]] = CandidateKey[s[j]]
               PROVE  s[i] = s[j]
    BY DEF OneToOne, ToSet
  <2>1. s[i] \in RuleCandidate /\ s[j] \in RuleCandidate
    OBVIOUS
  <2>2. s[i].key = s[j].key
    BY <2>1 DEF CandidateKey
  <2> QED
    BY <2>2 DEF KeysAccepted
<1>6. ByKey(s) = ByKey(t)
  BY <1>5, CandidateKeys, SortBySame
<1> QED
  BY <1>4, <1>6

\* The order in which rules answer their candidates does not reach the compiled ones.
LEMMA CompiledSame ==
    ASSUME NEW rules \in Seq(Nat), NEW a, NEW b,
           \A n \in ToSet(rules) : /\ a[n] \in Seq(RuleCandidate) /\ b[n] \in Seq(RuleCandidate)
                                   /\ SameCounts(a[n], b[n])
    PROVE  /\ \A n \in ToSet(rules) : KeysAccepted(a[n]) <=> KeysAccepted(b[n])
           /\ (\A n \in ToSet(rules) : KeysAccepted(a[n])) => Compiled(rules, a) = Compiled(rules, b)
<1>1. ASSUME NEW n \in ToSet(rules)
      PROVE  /\ KeysAccepted(a[n]) <=> KeysAccepted(b[n])
             /\ KeysAccepted(a[n]) => ByKey(a[n]) = ByKey(b[n])
  <2>1. SameCounts(b[n], a[n])
    BY SameCountsFacts
  <2> QED
    BY <2>1, ByKeySame
<1>2. ASSUME \A n \in ToSet(rules) : KeysAccepted(a[n]) PROVE Compiled(rules, a) = Compiled(rules, b)
  <2> DEFINE s == [k \in DOMAIN rules |-> OfRule(rules[k], ByKey(a[rules[k]]))]
             t == [k \in DOMAIN rules |-> OfRule(rules[k], ByKey(b[rules[k]]))]
  <2>1. Compiled(rules, a) = FlattenSeq(s) /\ Compiled(rules, b) = FlattenSeq(t)
    BY DEF Compiled, Each, OfRule
  <2>2. \A k \in DOMAIN rules : ByKey(a[rules[k]]) = ByKey(b[rules[k]])
    BY <1>1, <1>2 DEF ToSet
  <2>3. s = t
    BY <2>2
  <2> QED
    BY <2>1, <2>3
<1> QED
  BY <1>1, <1>2

\* What the selection takes of a run.
LineageOf(ids, rows, n, b) ==
    LET climb == [met \in SUBSET ids |-> met \cup ({rows[x].parent : x \in met} \cap ids)]
    IN  After(climb, {b}, n)
ViewOf(ids, claims, f) ==
    [level |-> IF f.blocker THEN f.level ELSE "SUSPECTED",
     statement |-> [k \in DOMAIN f.claims |->
                     LET c == ById(claims)[f.claims[k]] IN <<c.statement, c.about>>],
     at |-> [b \in ToSet(f.branches) \cap {f.positions[i][1] : i \in DOMAIN f.positions}
                 \cap ids |-> PositionAt(f, b)]]
InputOf(ids, rows, n, claims, findings) ==
    [branch |-> ids, finding |-> DOMAIN findings,
     edgeCount |-> [b \in ids |-> Len(rows[b].edges)],
     lineage |-> [b \in ids |-> LineageOf(ids, rows, n, b)],
     findings |-> [i \in DOMAIN findings |-> ViewOf(ids, claims, findings[i])]]

\* The selector reads the branches as a set with an index, the claims and the findings.
LEMMA InputIs ==
    ASSUME NEW r
    PROVE  SelectorInput(r) = InputOf(Ids(r.branches), ById(r.branches), Len(r.branches), r.claims, r.findings)
BY DEF SelectorInput, InputOf, Lineage, LineageOf, SelectorView, ViewOf, Proposition, Each

\* Two runs that differ in the order of their branches only are selected alike.
LEMMA SelectSame ==
    ASSUME NEW r \in Run, NEW s \in Run, Distinct(r.branches), Distinct(s.branches),
           ToSet(r.branches) = ToSet(s.branches), r.claims = s.claims, r.findings = s.findings
    PROVE  SelectorInput(r) = SelectorInput(s) /\ Select(r).findings = Select(s).findings
<1>1. r.branches \in Seq(Rows.branches) /\ s.branches \in Seq(Rows.branches)
  BY RunFields
<1>2. /\ Ids(r.branches) = Ids(s.branches) /\ ById(r.branches) = ById(s.branches)
      /\ Len(r.branches) = Len(s.branches)
  BY <1>1, SameRows
<1>3. SelectorInput(r) = SelectorInput(s)
  BY <1>2, InputIs
<1>4. Select(r).findings = Select(s).findings
  BY <1>3 DEF Select, Run
<1> QED
  BY <1>3, <1>4

\* Selecting changes no evidence.
LEMMA EvidenceKept ==
    ASSUME NEW e \in Run, NEW rules, NEW compiled
    PROVE  LET r == Select(Derived(e, rules, compiled))
           IN  /\ DOMAIN r = RunNames
               /\ r.version = e.version /\ r.port = e.port /\ r.window = e.window /\ r.rules = rules
               /\ r.branches = e.branches /\ r.claims = Claims(compiled)
               /\ r.entities = e.entities /\ r.vantages = e.vantages /\ r.assertions = e.assertions
               /\ r.observations = e.observations /\ r.edges = e.edges /\ r.checks = e.checks
               /\ r.executions = e.executions /\ r.visibility = e.visibility
BY RunFields DEF Select, Derived, RunNames

\* Runs with equal evidence have equal canonical evidence.
LEMMA CanonicalKept ==
    ASSUME NEW r, NEW e, DOMAIN r = RunNames, DOMAIN e = RunNames,
           r.version = e.version, r.port = e.port, r.window = e.window,
           r.entities = e.entities, r.vantages = e.vantages, r.assertions = e.assertions,
           r.observations = e.observations, r.edges = e.edges, r.checks = e.checks,
           r.executions = e.executions, r.visibility = e.visibility
    PROVE  \A name \in EvidenceNames : Canonical(r)[name] = Canonical(e)[name]
<1> DEFINE c == Canonical(r)
           d == Canonical(e)
           x == CanonicalEvidence(r)
           y == CanonicalEvidence(e)
           E(s) == [i \in DOMAIN SortedById(s) |-> [SortedById(s)[i] EXCEPT !.refs = SortedRefs(@)]]
           C(s) == [i \in DOMAIN SortedById(s) |-> [SortedById(s)[i] EXCEPT !.deps = Sorted(@)]]
           X(s) == [i \in DOMAIN SortedById(s) |->
                     [SortedById(s)[i] EXCEPT !.observations = Sorted(@), !.visibility = Sorted(@)]]
           V(s) == [i \in DOMAIN SortedById(s) |-> [SortedById(s)[i] EXCEPT !.basis = Sorted(@)]]
<1>0. Shaped(c, x, r) /\ Shaped(d, y, e)
  BY CanonicalFields
<1> HIDE DEF c, d, x, y
<1>1. /\ c.version = r.version /\ c.port = r.port /\ c.window = r.window
      /\ c.entities = SortedById(r.entities) /\ c.vantages = SortedById(r.vantages)
      /\ c.assertions = SortedById(r.assertions) /\ c.observations = SortedById(r.observations)
      /\ c.edges = E(r.edges) /\ c.checks = C(r.checks)
      /\ c.executions = X(r.executions) /\ c.visibility = V(r.visibility)
      /\ d.version = e.version /\ d.port = e.port /\ d.window = e.window
      /\ d.entities = SortedById(e.entities) /\ d.vantages = SortedById(e.vantages)
      /\ d.assertions = SortedById(e.assertions) /\ d.observations = SortedById(e.observations)
      /\ d.edges = E(e.edges) /\ d.checks = C(e.checks)
      /\ d.executions = X(e.executions) /\ d.visibility = V(e.visibility)
  BY <1>0 DEF Shaped
<1> HIDE DEF E, C, X, V
<1>2. /\ c.version = d.version /\ c.port = d.port /\ c.window = d.window
      /\ c.entities = d.entities /\ c.vantages = d.vantages /\ c.assertions = d.assertions
      /\ c.observations = d.observations
      /\ c.edges = d.edges /\ c.checks = d.checks /\ c.executions = d.executions
      /\ c.visibility = d.visibility
  BY <1>1 DEF Shaped
<1>3. \A name \in EvidenceNames : c[name] = d[name]
  BY <1>2 DEF EvidenceNames, RunNames
<1> QED
  BY <1>3 DEF c, d

\* A finding has one canonical form over branch forests with one canonical order.
LEMMA FindingSame ==
    ASSUME NEW x, NEW y, x.branches = y.branches, NEW f
    PROVE  CanonicalFinding(x, f) = CanonicalFinding(y, f)
BY DEF CanonicalFinding, BranchIndex

\* Runs with equal canonical evidence and branches and equal results have one canonical form.
LEMMA CanonicalSame ==
    ASSUME NEW r, NEW s, DOMAIN r = RunNames, DOMAIN s = RunNames,
           \A name \in EvidenceNames : Canonical(r)[name] = Canonical(s)[name],
           r.rules = s.rules, r.claims = s.claims, r.findings = s.findings,
           CanonicalBranches(r.branches).branches = CanonicalBranches(s.branches).branches
    PROVE  Canonical(r) = Canonical(s)
<1> DEFINE c == Canonical(r)
           d == Canonical(s)
           x == CanonicalEvidence(r)
           y == CanonicalEvidence(s)
           sorted == SortedById(r.findings)
<1>1. /\ Shaped(c, x, r) /\ Shaped(d, y, s)
      /\ c = [z \in DOMAIN c |-> c[z]] /\ d = [z \in DOMAIN d |-> d[z]]
      /\ \A name \in EvidenceNames : c[name] = d[name]
  BY CanonicalFields
<1> HIDE DEF c, d, x, y
<1>2. c.rules = d.rules /\ c.branches = d.branches /\ c.claims = d.claims /\ x.branches = y.branches
  <2> DEFINE C(q) == [i \in DOMAIN SortedById(q) |-> CanonicalClaim(SortedById(q)[i])]
  <2>1. c.claims = C(r.claims) /\ d.claims = C(s.claims)
    BY <1>1 DEF Shaped
  <2>2. /\ c.rules = r.rules /\ d.rules = s.rules
        /\ c.branches = CanonicalBranches(r.branches).branches /\ x.branches = c.branches
        /\ d.branches = CanonicalBranches(s.branches).branches /\ y.branches = d.branches
    BY <1>1 DEF Shaped
  <2> HIDE DEF C
  <2> QED
    BY <2>1, <2>2
<1>3. c.findings = d.findings
  <2>1. /\ c.findings = [i \in DOMAIN sorted |-> CanonicalFinding(x, sorted[i])]
        /\ d.findings = [i \in DOMAIN sorted |-> CanonicalFinding(y, sorted[i])]
    BY <1>1 DEF Shaped
  <2>2. \A i : CanonicalFinding(x, sorted[i]) = CanonicalFinding(y, sorted[i])
    BY <1>2, FindingSame
  <2> HIDE DEF sorted
  <2> QED
    BY <2>1, <2>2
<1>4. DOMAIN c = RunNames /\ DOMAIN d = RunNames
  BY <1>1 DEF Shaped
<1>5. \A name \in RunNames : c[name] = d[name]
  BY <1>1, <1>2, <1>3 DEF EvidenceNames
<1>6. c = d
  BY <1>1, <1>4, <1>5
<1> QED
  BY <1>6 DEF c, d

\* Evaluate sees evidence and answers, not their order: evidence with one canonical form
\* and answers with the same candidates, in any order, have one report.
THEOREM EvaluateSame ==
    ASSUME NEW e \in Run, NEW f \in Run, Distinct(e.branches), Distinct(f.branches), SameEvidence(e, f),
           NEW rules \in Seq(Nat), NEW a, NEW b,
           \A n \in ToSet(rules) : /\ a[n] \in Seq(RuleCandidate) /\ b[n] \in Seq(RuleCandidate)
                                   /\ SameCounts(a[n], b[n])
    PROVE  Evaluate(e, rules, a) = Evaluate(f, rules, b)
<1>1. Distinct(e.branches) /\ Distinct(f.branches) /\ ToSet(e.branches) = ToSet(f.branches)
  BY DEF SameEvidence
<1>2. e.version = f.version
  <2>1. Canonical(e).version = e.version /\ Canonical(f).version = f.version
    <3>1. DOMAIN e = RunNames /\ DOMAIN f = RunNames
      BY RunFields
    <3> QED
      BY <3>1, CanonicalFields DEF Shaped
  <2>2. Canonical(e).version = Canonical(f).version
    BY DEF SameEvidence, EvidenceNames, RunNames
  <2> QED
    BY <2>1, <2>2
<1>3. /\ CanonicalBranches(e.branches).ok = CanonicalBranches(f.branches).ok
      /\ CanonicalBranches(e.branches).ok => CanonicalBranches(e.branches) = CanonicalBranches(f.branches)
  <2>1. e.branches \in Seq(Rows.branches) /\ f.branches \in Seq(Rows.branches)
    BY RunFields
  <2> QED
    BY <1>1, <2>1, RowsHaveIds, CanonicalBranchesSame
<1>4. (\A n \in ToSet(rules) : KeysAccepted(a[n])) <=> (\A n \in ToSet(rules) : KeysAccepted(b[n]))
  BY CompiledSame
<1>5. CASE ~ \A n \in ToSet(rules) : KeysAccepted(a[n])
  BY <1>4, <1>5 DEF Evaluate
<1>6. CASE ~ CanonicalBranches(e.branches).ok
  BY <1>3, <1>6 DEF Evaluate
<1>7. CASE (\A n \in ToSet(rules) : KeysAccepted(a[n])) /\ CanonicalBranches(e.branches).ok
  <2> DEFINE compiled == Compiled(rules, a)
             r == Derived(e, rules, compiled)
             s == Derived(f, rules, compiled)
  <2>1. Compiled(rules, b) = compiled /\ compiled \in Seq(Candidate)
    BY <1>7, CompiledSame, CompiledType
  <2> HIDE DEF compiled
  <2>2. CASE ~ \A k \in DOMAIN compiled : LocalsAccepted(compiled[k])
    BY <2>1, <2>2 DEF Evaluate, compiled
  <2>3. CASE \A k \in DOMAIN compiled : LocalsAccepted(compiled[k])
    <3>1. /\ r \in Run /\ s \in Run /\ r.branches = e.branches /\ s.branches = f.branches
          /\ r.claims = s.claims /\ r.findings = s.findings
      <4>1. r \in Run /\ s \in Run /\ r.branches = e.branches /\ s.branches = f.branches
        BY <2>1, <2>3, DerivedRun
      <4>2. r.claims = Claims(compiled) /\ s.claims = Claims(compiled)
            /\ r.findings = Findings(compiled) /\ s.findings = Findings(compiled)
        BY RunFields DEF Derived, RunNames
      <4> QED
        BY <4>1, <4>2
    <3>2. SelectorInput(r) = SelectorInput(s) /\ Select(r).findings = Select(s).findings
      <4> HIDE DEF r, s
      <4> QED
        BY <1>1, <3>1, SelectSame
    <3>3. Canonical(Select(r)) = Canonical(Select(s))
      <4> DEFINE p == Select(r)
                 q == Select(s)
      <4>1. DOMAIN e = RunNames /\ DOMAIN f = RunNames
        BY RunFields
      <4>2. /\ DOMAIN p = RunNames
            /\ p.version = e.version /\ p.port = e.port /\ p.window = e.window /\ p.rules = rules
            /\ p.branches = e.branches /\ p.claims = Claims(compiled)
            /\ p.entities = e.entities /\ p.vantages = e.vantages /\ p.assertions = e.assertions
            /\ p.observations = e.observations /\ p.edges = e.edges /\ p.checks = e.checks
            /\ p.executions = e.executions /\ p.visibility = e.visibility
        BY EvidenceKept
      <4>3. /\ DOMAIN q = RunNames
            /\ q.version = f.version /\ q.port = f.port /\ q.window = f.window /\ q.rules = rules
            /\ q.branches = f.branches /\ q.claims = Claims(compiled)
            /\ q.entities = f.entities /\ q.vantages = f.vantages /\ q.assertions = f.assertions
            /\ q.observations = f.observations /\ q.edges = f.edges /\ q.checks = f.checks
            /\ q.executions = f.executions /\ q.visibility = f.visibility
        BY EvidenceKept
      <4>4. p.findings = q.findings
        BY <3>2
      <4> HIDE DEF p, q
      <4>5. \A name \in EvidenceNames : Canonical(p)[name] = Canonical(e)[name]
        BY <4>1, <4>2, CanonicalKept
      <4>6. \A name \in EvidenceNames : Canonical(q)[name] = Canonical(f)[name]
        BY <4>1, <4>3, CanonicalKept
      <4>7. \A name \in EvidenceNames : Canonical(p)[name] = Canonical(q)[name]
        BY <4>5, <4>6 DEF SameEvidence
      <4>8. CanonicalBranches(p.branches).branches = CanonicalBranches(q.branches).branches
        BY <1>3, <1>7, <4>2, <4>3
      <4>9. Canonical(p) = Canonical(q)
        BY <4>2, <4>3, <4>4, <4>7, <4>8, CanonicalSame
      <4> QED
        BY <4>9 DEF p, q
    <3> DEFINE Answer(run, in, ok, version, keys) ==
                 IF /\ version = <<1, 0, 0>>
                    /\ keys
                    /\ \A k \in DOMAIN compiled : LocalsAccepted(compiled[k])
                    /\ \A leaf \in Selector(in)!Leaves : ~Selector(in)!OutOfBranch(leaf)
                    /\ ok
                    /\ Accepted(run)
                 THEN <<run>> ELSE <<>>
    <3>4. Evaluate(e, rules, a)
            = Answer(Canonical(Select(r)), SelectorInput(r), CanonicalBranches(e.branches).ok, e.version,
                     \A n \in ToSet(rules) : KeysAccepted(a[n]))
      BY DEF Evaluate, compiled
    <3>5. Evaluate(f, rules, b)
            = Answer(Canonical(Select(s)), SelectorInput(s), CanonicalBranches(f.branches).ok, f.version,
                     \A n \in ToSet(rules) : KeysAccepted(b[n]))
      BY <2>1 DEF Evaluate
    <3> HIDE DEF Answer, r, s
    <3> QED
      BY <1>2, <1>3, <1>4, <1>7, <3>2, <3>3, <3>4, <3>5
  <2> QED
    BY <2>2, <2>3
<1> QED
  BY <1>5, <1>6, <1>7

----
(***************************************************************************)
(* Numbering: where the claims and the findings of a candidate go.         *)
(***************************************************************************)
SameLengths(a, b) == Len(a) = Len(b) /\ \A i \in DOMAIN a : Len(a[i]) = Len(b[i])

\* Parts of equal lengths join to equal lengths.
LEMMA PartLengths ==
    ASSUME NEW A, NEW B, NEW a \in Seq(Seq(A)), NEW b \in Seq(Seq(B)), SameLengths(a, b),
           NEW n \in 0..Len(a)
    PROVE  Len(Part(a, n)) = Len(Part(b, n))
<1> DEFINE I == {m \in Nat : m <= Len(a) => Len(Part(a, m)) = Len(Part(b, m))}
<1>1. Len(a) \in Nat /\ DOMAIN a = 1..Len(a) /\ DOMAIN b = 1..Len(a)
      /\ \A i \in DOMAIN a : Len(a[i]) = Len(b[i])
  BY DEF SameLengths
<1>2. /\ \A m \in 0..Len(a) : Part(a, m) \in Seq(A) /\ Part(b, m) \in Seq(B)
      /\ Part(a, 0) = <<>> /\ Part(b, 0) = <<>>
      /\ \A m \in 1..Len(a) : /\ Part(a, m) = Part(a, m - 1) \o a[m]
                              /\ Part(b, m) = Part(b, m - 1) \o b[m]
  <2>1. Len(b) = Len(a)
    BY DEF SameLengths
  <2>2. /\ \A m \in 0..Len(a) : Part(a, m) \in Seq(A)
        /\ Part(a, 0) = <<>> /\ \A m \in 1..Len(a) : Part(a, m) = Part(a, m - 1) \o a[m]
    BY FlattenParts
  <2>3. /\ \A m \in 0..Len(b) : Part(b, m) \in Seq(B)
        /\ Part(b, 0) = <<>> /\ \A m \in 1..Len(b) : Part(b, m) = Part(b, m - 1) \o b[m]
    BY FlattenParts
  <2> QED
    BY <2>1, <2>2, <2>3
<1>3. 0 \in I
  BY <1>2
<1>4. ASSUME NEW m \in I PROVE m + 1 \in I
  <2> SUFFICES ASSUME m + 1 <= Len(a) PROVE Len(Part(a, m + 1)) = Len(Part(b, m + 1))
    OBVIOUS
  <2> DEFINE k == m + 1
  <2>1. k \in 1..Len(a) /\ k - 1 = m /\ m \in 0..Len(a) /\ m <= Len(a)
    BY <1>1
  <2>2. Part(a, k) = Part(a, m) \o a[k] /\ Part(b, k) = Part(b, m) \o b[k]
    BY <1>2, <2>1
  <2>3. /\ Part(a, m) \in Seq(A) /\ Part(b, m) \in Seq(B)
        /\ a[k] \in Seq(A) /\ b[k] \in Seq(B) /\ Len(a[k]) = Len(b[k])
    <3>1. Part(a, m) \in Seq(A) /\ Part(b, m) \in Seq(B)
      BY <1>2, <2>1
    <3>2. k \in DOMAIN a /\ k \in DOMAIN b
      BY <1>1, <2>1
    <3> DEFINE T == Seq(A)
               U == Seq(B)
    <3>3. a \in Seq(T) /\ b \in Seq(U)
      OBVIOUS
    <3> HIDE DEF T, U, k
    <3>4. a[k] \in T /\ b[k] \in U
      BY <3>2, <3>3, ElementOf
    <3>5. Len(a[k]) = Len(b[k])
      BY <1>1, <3>2
    <3> QED
      BY <3>1, <3>4, <3>5 DEF T, U
  <2>4. Len(Part(a, m)) = Len(Part(b, m))
    BY <2>1
  <2> HIDE DEF k
  <2>5. Len(Part(a, k)) = Len(Part(b, k))
    <3>1. ASSUME NEW S, NEW s \in Seq(S), NEW t \in Seq(S) PROVE Len(s \o t) = Len(s) + Len(t)
      OBVIOUS
    <3>2. Len(Part(a, k)) = Len(Part(a, m)) + Len(a[k])
      BY <2>2, <2>3, <3>1
    <3>3. Len(Part(b, k)) = Len(Part(b, m)) + Len(b[k])
      BY <2>2, <2>3, <3>1
    <3> QED
      BY <2>3, <2>4, <3>2, <3>3
  <2> QED
    BY <2>5 DEF k
<1>5. n \in I
  <2>1. n \in Nat /\ I \in SUBSET Nat
    BY <1>1
  <2> HIDE DEF I
  <2> QED
    BY <1>3, <1>4, <2>1, EveryNumber
<1> QED
  BY <1>1, <1>5

\* The number of a candidate's claim is the number of claims before the candidate and
\* its own place.
LEMMA OffsetIs ==
    ASSUME NEW compiled \in Seq(Candidate), \A k \in DOMAIN compiled : LocalsAccepted(compiled[k]),
           NEW k \in DOMAIN compiled, NEW l
    PROVE  Offset(compiled, k) + l = At(DraftClaims(compiled), k, l)
<1> DEFINE b == [i \in DOMAIN compiled |-> compiled[i].claims]
           a == DraftClaims(compiled)
<1>1. DOMAIN compiled = 1..Len(compiled) /\ Len(compiled) \in Nat /\ k \in Nat
  OBVIOUS
<1>2. \A i \in DOMAIN compiled : b[i] \in Seq(ClaimTemplate)
  <2>1. \A i \in DOMAIN compiled : compiled[i] \in Candidate
    BY ElementOf
  <2> QED
    BY <2>1 DEF Candidate
<1>3. b \in Seq(Seq(ClaimTemplate))
  <2> DEFINE T == Seq(ClaimTemplate)
  <2>1. b = [i \in DOMAIN compiled |-> b[i]] /\ \A i \in DOMAIN compiled : b[i] \in T
    BY <1>2
  <2> HIDE DEF b, T
  <2>2. b \in Seq(T)
    BY <2>1, SequenceOf
  <2> QED
    BY <2>2 DEF T
<1>4. a \in Seq(Seq(DraftClaim)) /\ DOMAIN a = DOMAIN compiled
  BY DerivedParts DEF DraftClaims
<1>5. \A i \in DOMAIN a : Len(a[i]) = Len(b[i])
  <2> SUFFICES ASSUME NEW i \in DOMAIN compiled PROVE Len(a[i]) = Len(b[i])
    BY <1>4
  <2>1. DOMAIN a[i] = DOMAIN b[i]
    BY DEF DraftClaims
  <2>2. a[i] \in Seq(DraftClaim) /\ b[i] \in Seq(ClaimTemplate)
    BY <1>2, <1>4, ElementOf
  <2> HIDE DEF a, b
  <2> QED
    BY <2>1, <2>2
<1>6. Len(a) = Len(b) /\ k - 1 \in 0..Len(a)
  BY <1>1, <1>4
<1>7. Offset(compiled, k) = Len(Part(b, k - 1))
  <2>1. [i \in 1..(k - 1) |-> compiled[i].claims] = [i \in 1..(k - 1) |-> b[i]]
    BY <1>1
  <2> QED
    BY <2>1 DEF Offset, Before, Part
<1> HIDE DEF a, b
<1>8. Len(Part(a, k - 1)) = Len(Part(b, k - 1))
  <2> DEFINE m == k - 1
  <2>1. m \in 0..Len(a)
    BY <1>6
  <2> HIDE DEF m
  <2>2. Len(Part(a, m)) = Len(Part(b, m))
    <3>1. SameLengths(a, b)
      BY <1>5, <1>6 DEF SameLengths
    <3> QED
      BY <1>3, <1>4, <2>1, <3>1, PartLengths
  <2> QED
    BY <2>2 DEF m
<1> QED
  BY <1>7, <1>8 DEF At, a

\* A claim of a candidate is found at the offset of the candidate, with what it says.
LEMMA ClaimAt ==
    ASSUME NEW compiled \in Seq(Candidate), \A k \in DOMAIN compiled : LocalsAccepted(compiled[k]),
           NEW k \in DOMAIN compiled, NEW l \in DOMAIN compiled[k].claims
    PROVE  LET id == Offset(compiled, k) + l
               t == compiled[k].claims[l]
               c == Claims(compiled)[id]
           IN  /\ id \in DOMAIN Claims(compiled)
               /\ c.statement = t.statement /\ c.about = t.about /\ c.level = t.level
<1> DEFINE a == DraftClaims(compiled)
           id == At(a, k, l)
           t == compiled[k].claims[l]
<1>1. a \in Seq(Seq(DraftClaim)) /\ Claims(compiled) = Numbered(FlattenSeq(a))
  BY DerivedParts
<1>2. k \in DOMAIN a /\ l \in DOMAIN a[k] /\ a[k][l] = ClaimOf(compiled, k, t)
  BY DEF DraftClaims
<1>3. /\ ClaimOf(compiled, k, t) \in DraftClaim
      /\ ClaimOf(compiled, k, t).statement = t.statement
      /\ ClaimOf(compiled, k, t).about = t.about /\ ClaimOf(compiled, k, t).level = t.level
  BY DraftTypes DEF ClaimOf
<1>4. Offset(compiled, k) + l = id
  BY OffsetIs
<1> HIDE DEF a
<1>5. id \in DOMAIN FlattenSeq(a) /\ FlattenSeq(a)[id] = ClaimOf(compiled, k, t)
  BY <1>1, <1>2, FlattenPositions
<1> HIDE DEF id, t
<1>6. id \in DOMAIN Claims(compiled) /\ Claims(compiled)[id] = [ClaimOf(compiled, k, t) EXCEPT !.id = id]
  BY <1>1, <1>5 DEF Numbered
<1> QED
  BY <1>3, <1>4, <1>6 DEF DraftClaim, t

\* A finding of a candidate is found at its place, with its claims at the offset.
LEMMA FindingAt ==
    ASSUME NEW compiled \in Seq(Candidate), \A k \in DOMAIN compiled : LocalsAccepted(compiled[k]),
           NEW k \in DOMAIN compiled, NEW j \in DOMAIN compiled[k].findings
    PROVE  LET p == At(DraftFindings(compiled), k, j)
               t == compiled[k].findings[j]
               f == Findings(compiled)[p]
           IN  /\ p \in DOMAIN Findings(compiled)
               /\ f.rule = compiled[k].rule
               /\ f.claims = [i \in DOMAIN t.claims |-> Offset(compiled, k) + Local(compiled[k], t.claims[i])]
<1> DEFINE a == DraftFindings(compiled)
           p == At(a, k, j)
           t == compiled[k].findings[j]
           d == FindingOf(compiled, k, t)
<1>1. a \in Seq(Seq(DraftFinding)) /\ Findings(compiled) = Numbered(FlattenSeq(a))
  BY DerivedParts
<1>2. k \in DOMAIN a /\ j \in DOMAIN a[k] /\ a[k][j] = d
  BY DEF DraftFindings
<1>3. /\ d \in DraftFinding /\ d.rule = compiled[k].rule
      /\ d.claims = [i \in DOMAIN t.claims |-> Offset(compiled, k) + Local(compiled[k], t.claims[i])]
  BY DraftTypes DEF FindingOf, Each
<1> HIDE DEF a, d
<1>4. p \in DOMAIN FlattenSeq(a) /\ FlattenSeq(a)[p] = d
  BY <1>1, <1>2, FlattenPositions
<1> HIDE DEF p, t
<1>5. p \in DOMAIN Findings(compiled) /\ Findings(compiled)[p] = [d EXCEPT !.id = p]
  BY <1>1, <1>4 DEF Numbered
<1>6. Findings(compiled)[p].rule = d.rule /\ Findings(compiled)[p].claims = d.claims
  BY <1>3, <1>5 DEF DraftFinding
<1> QED
  BY <1>3, <1>5, <1>6 DEF p, t, a

\* Rows numbered in their order are in ID order.
LEMMA NumberedOrder ==
    ASSUME NEW S, HasIds(S), NEW s \in Seq(S), \A i \in DOMAIN s : s[i].id = i
    PROVE  SortedById(s) = s
<1>1. DOMAIN s = 1..Len(s) /\ Len(s) \in Nat /\ \A i \in DOMAIN s : s[i] \in S
  OBVIOUS
<1>2. \A i \in DOMAIN s : ById0(S)[s[i]] = <<0, i>>
  BY <1>1 DEF ById0
<1>3. InKeyOrder(s, ById0(S))
  BY <1>1, <1>2 DEF InKeyOrder, Less
<1>4. Distinct(s)
  BY DistinctIds DEF DistinctIn
<1>5. /\ ById0(S) \in [S -> Nat \X Nat] /\ IdKey(s) = KeyOf(s, ById0(S)) /\ OneToOne(ById0(S), ToSet(s))
  BY <1>4, IdKeys
<1> QED
  BY <1>3, <1>5, SortByIdle DEF SortedById

\* Selection and canonical order keep the number, the rule and the claims of a row.
LEMMA ReportRows ==
    ASSUME NEW e \in Run, NEW rules, NEW compiled \in Seq(Candidate),
           \A k \in DOMAIN compiled : LocalsAccepted(compiled[k]),
           NEW r, r = Canonical(Select(Derived(e, rules, compiled)))
    PROVE  /\ DOMAIN r.claims = DOMAIN Claims(compiled)
           /\ \A i \in DOMAIN r.claims :
                /\ r.claims[i].statement = Claims(compiled)[i].statement
                /\ r.claims[i].about = Claims(compiled)[i].about
                /\ r.claims[i].level = Claims(compiled)[i].level
           /\ DOMAIN r.findings = DOMAIN Findings(compiled)
           /\ \A i \in DOMAIN r.findings :
                /\ r.findings[i].rule = Findings(compiled)[i].rule
                /\ ToSet(r.findings[i].claims) = ToSet(Findings(compiled)[i].claims)
<1> DEFINE d == Derived(e, rules, compiled)
           p == Select(d)
           c == Claims(compiled)
           f == Findings(compiled)
           g == p.findings
<1>1. /\ c \in Seq(Rows.claims) /\ f \in Seq(Rows.findings)
      /\ (\A i \in DOMAIN c : c[i].id = i) /\ \A i \in DOMAIN f : f[i].id = i
  <2>1. /\ DraftClaims(compiled) \in Seq(Seq(DraftClaim)) /\ DraftFindings(compiled) \in Seq(Seq(DraftFinding))
        /\ c = Numbered(FlattenSeq(DraftClaims(compiled))) /\ f = Numbered(FlattenSeq(DraftFindings(compiled)))
        /\ c \in Seq(Rows.claims) /\ f \in Seq(Rows.findings)
    BY DerivedParts
  <2> HIDE DEF c, f
  <2> DEFINE s == FlattenSeq(DraftClaims(compiled))
             t == FlattenSeq(DraftFindings(compiled))
  <2>2. s \in Seq(DraftClaim) /\ t \in Seq(DraftFinding)
    BY <2>1, FlattenPositions
  <2>3. c = Numbered(s) /\ f = Numbered(t)
    BY <2>1
  <2> HIDE DEF s, t
  <2>4. \A i \in DOMAIN c : c[i].id = i
    <3> SUFFICES ASSUME NEW i \in DOMAIN c PROVE c[i].id = i
      OBVIOUS
    <3>1. i \in DOMAIN s /\ c[i] = [s[i] EXCEPT !.id = i]
      BY <2>3 DEF Numbered
    <3>2. s[i] \in DraftClaim
      BY <2>2, <3>1, ElementOf
    <3> QED
      BY <3>1, <3>2 DEF DraftClaim
  <2>5. \A i \in DOMAIN f : f[i].id = i
    <3> SUFFICES ASSUME NEW i \in DOMAIN f PROVE f[i].id = i
      OBVIOUS
    <3>1. i \in DOMAIN t /\ f[i] = [t[i] EXCEPT !.id = i]
      BY <2>3 DEF Numbered
    <3>2. t[i] \in DraftFinding
      BY <2>2, <3>1, ElementOf
    <3> QED
      BY <3>1, <3>2 DEF DraftFinding
  <2> QED
    BY <2>1, <2>4, <2>5
<1>2. DOMAIN p = RunNames /\ p.claims = c /\ p.branches = e.branches
  BY EvidenceKept
<1>3. d.findings = f
  BY RunFields DEF Derived, RunNames
<1>4. /\ g = [i \in DOMAIN f |-> g[i]]
      /\ \A i \in DOMAIN f :
           /\ g[i].id = f[i].id /\ g[i].rule = f[i].rule /\ g[i].claims = f[i].claims
           /\ g[i] \in Rows.findings
  <2> DEFINE sel(i) == Selector(SelectorInput(d))!Selected(i)
  <2>1. g = [i \in DOMAIN f |-> [f[i] EXCEPT !.selection = sel(i)]]
    <3>1. DOMAIN d = RunNames
      BY RunFields DEF Derived, RunNames
    <3> QED
      BY <1>3, <3>1 DEF Select, RunNames
  <2>2. \A i : sel(i) \in {"NONE", "ADDITIONAL", "BRANCH_PRIMARY", "GLOBAL_PRIMARY"}
    BY SelectedType
  <2> HIDE DEF sel, g, d, f
  <2>3. ASSUME NEW i \in DOMAIN f
        PROVE  /\ g[i].id = f[i].id /\ g[i].rule = f[i].rule /\ g[i].claims = f[i].claims
               /\ g[i] \in Rows.findings
    <3>1. f[i] \in Rows.findings
      BY <1>1, ElementOf
    <3> QED
      BY <2>1, <2>2, <3>1 DEF Rows
  <2>4. g = [i \in DOMAIN f |-> g[i]]
    BY <2>1
  <2> QED
    BY <2>3, <2>4
<1>5. g \in Seq(Rows.findings) /\ DOMAIN g = DOMAIN f
  <2> HIDE DEF g, f
  <2> QED
    BY <1>1, <1>4, SequenceOf
<1>6. SortedById(c) = c /\ SortedById(g) = g
  <2> HIDE DEF c, g, f
  <2> QED
    BY <1>1, <1>4, <1>5, RowsHaveIds, NumberedOrder
<1> DEFINE v == CanonicalEvidence(p)
<1>7. /\ r.claims = [i \in DOMAIN c |-> CanonicalClaim(c[i])]
      /\ r.findings = [i \in DOMAIN g |-> CanonicalFinding(v, g[i])]
  <2>1. Shaped(Canonical(p), v, p)
    BY <1>2, CanonicalFields
  <2> HIDE DEF p, v, c
  <2>2. p.claims = c /\ p.findings = g
    BY <1>2
  <2>3. r = Canonical(p)
    BY DEF p
  <2> HIDE DEF g
  <2> QED
    BY <1>6, <2>1, <2>2, <2>3 DEF Shaped
<1> HIDE DEF d, p, c, f, g, v
<1>8. ASSUME NEW i \in DOMAIN c
      PROVE  /\ r.claims[i].statement = c[i].statement /\ r.claims[i].about = c[i].about
             /\ r.claims[i].level = c[i].level
  <2>1. c[i] \in Rows.claims
    BY <1>1, ElementOf
  <2> QED
    <3> DEFINE x == c[i]
    <3>1. r.claims[i] = CanonicalClaim(x)
      BY <1>7
    <3>2. x \in Rows.claims
      BY <2>1
    <3> HIDE DEF x
    <3>3. /\ CanonicalClaim(x).statement = x.statement /\ CanonicalClaim(x).about = x.about
          /\ CanonicalClaim(x).level = x.level
      BY <3>2 DEF CanonicalClaim, Rows
    <3> QED
      BY <3>1, <3>3 DEF x
<1>9. ASSUME NEW i \in DOMAIN f
      PROVE  r.findings[i].rule = f[i].rule /\ ToSet(r.findings[i].claims) = ToSet(f[i].claims)
  <2>1. g[i] \in Rows.findings /\ g[i].rule = f[i].rule /\ g[i].claims = f[i].claims
    BY <1>4
  <2>2. g[i].claims \in Seq(Nat)
    BY <2>1 DEF Rows
  <2>3. r.findings[i] = CanonicalFinding(v, g[i])
    BY <1>5, <1>7
  <2>4. CanonicalFinding(v, g[i]).rule = g[i].rule /\ CanonicalFinding(v, g[i]).claims = Sorted(g[i].claims)
    BY <2>1 DEF CanonicalFinding, Rows
  <2>5. ToSet(Sorted(g[i].claims)) = ToSet(g[i].claims)
    BY <2>2, NumberKeys
  <2> QED
    BY <2>1, <2>3, <2>4, <2>5
<1> QED
  BY <1>5, <1>7, <1>8, <1>9 DEF c, f

\* What a claim says.
Says(t) == <<t.statement, t.about, t.level>>
\* What finding j of candidate c cites, and what finding f of run r does.
CandidateSays(c, j) ==
    {Says(t) : t \in {c.claims[l] : l \in {l \in DOMAIN c.claims :
                         c.claims[l].key \in ToSet(c.findings[j].claims)}}}
FindingSays(r, f) == {Says(x) : x \in {r.claims[id] : id \in ToSet(f.claims)}}

\* A finding of the report says what the candidate's finding says, by its own claims.
LEMMA ClaimsKept ==
    ASSUME NEW e \in Run, NEW rules, NEW compiled \in Seq(Candidate),
           \A k \in DOMAIN compiled : LocalsAccepted(compiled[k]),
           NEW r, r = Canonical(Select(Derived(e, rules, compiled))),
           NEW k \in DOMAIN compiled, NEW j \in DOMAIN compiled[k].findings
    PROVE  LET f == r.findings[At(DraftFindings(compiled), k, j)]
           IN  f.rule = compiled[k].rule /\ FindingSays(r, f) = CandidateSays(compiled[k], j)
<1> DEFINE c == compiled[k]
           keys == c.findings[j].claims
           o == Offset(compiled, k)
           f == r.findings[At(DraftFindings(compiled), k, j)]
           cited == {c.claims[l] : l \in {l \in DOMAIN c.claims : c.claims[l].key \in ToSet(keys)}}
<1>1. /\ f.rule = c.rule
      /\ ToSet(f.claims) = ToSet([i \in DOMAIN keys |-> o + Local(c, keys[i])])
  <2> DEFINE p == At(DraftFindings(compiled), k, j)
             g == Findings(compiled)[p]
  <2>1. /\ p \in DOMAIN Findings(compiled) /\ g.rule = c.rule
        /\ g.claims = [i \in DOMAIN keys |-> o + Local(c, keys[i])]
    BY FindingAt
  <2>2. \A i \in DOMAIN Findings(compiled) :
          /\ r.findings[i].rule = Findings(compiled)[i].rule
          /\ ToSet(r.findings[i].claims) = ToSet(Findings(compiled)[i].claims)
    BY ReportRows
  <2> HIDE DEF p, c, o, keys
  <2> QED
    BY <2>1, <2>2 DEF p
<1>2. \A l \in DOMAIN c.claims : Says(r.claims[o + l]) = Says(c.claims[l])
  <2> SUFFICES ASSUME NEW l \in DOMAIN c.claims PROVE Says(r.claims[o + l]) = Says(c.claims[l])
    OBVIOUS
  <2> DEFINE id == o + l
  <2>1. /\ id \in DOMAIN Claims(compiled)
        /\ Claims(compiled)[id].statement = c.claims[l].statement
        /\ Claims(compiled)[id].about = c.claims[l].about
        /\ Claims(compiled)[id].level = c.claims[l].level
    BY ClaimAt
  <2>2. \A i \in DOMAIN Claims(compiled) :
          /\ r.claims[i].statement = Claims(compiled)[i].statement
          /\ r.claims[i].about = Claims(compiled)[i].about
          /\ r.claims[i].level = Claims(compiled)[i].level
    BY ReportRows
  <2> HIDE DEF id, c, o
  <2> QED
    BY <2>1, <2>2 DEF Says, id
<1>3. /\ \A key \in ToSet(keys) : Local(c, key) \in DOMAIN c.claims /\ c.claims[Local(c, key)].key = key
      /\ \A l, m \in DOMAIN c.claims : c.claims[l].key = c.claims[m].key => l = m
  <2>1. c \in Candidate /\ LocalsAccepted(c)
    BY ElementOf
  <2>2. \A key \in ToSet(keys) : Local(c, key) \in DOMAIN c.claims /\ c.claims[Local(c, key)].key = key
    BY <2>1, LocalFound
  <2>3. \A l, m \in DOMAIN c.claims : c.claims[l].key = c.claims[m].key => l = m
    BY <2>1, Zenon DEF LocalsAccepted
  <2> QED
    BY <2>2, <2>3
<1> HIDE DEF c, o, f, keys
<1>4. ASSUME NEW l \in DOMAIN c.claims, c.claims[l].key \in ToSet(keys)
      PROVE  \E id \in ToSet(f.claims) : Says(r.claims[id]) = Says(c.claims[l])
  <2>1. Local(c, c.claims[l].key) = l
    BY <1>3, <1>4
  <2>2. PICK i \in DOMAIN keys : keys[i] = c.claims[l].key
    BY <1>4 DEF ToSet
  <2>3. o + l \in ToSet([n \in DOMAIN keys |-> o + Local(c, keys[n])])
    BY <2>1, <2>2 DEF ToSet
  <2> QED
    BY <1>1, <1>2, <2>3
<1>5. ASSUME NEW id \in ToSet(f.claims)
      PROVE  \E l \in DOMAIN c.claims : c.claims[l].key \in ToSet(keys)
                 /\ Says(r.claims[id]) = Says(c.claims[l])
  <2>1. id \in ToSet([n \in DOMAIN keys |-> o + Local(c, keys[n])])
    BY <1>1
  <2>2. PICK i \in DOMAIN keys : id = o + Local(c, keys[i])
    BY <2>1 DEF ToSet
  <2>3. keys[i] \in ToSet(keys)
    BY DEF ToSet
  <2> QED
    BY <1>2, <1>3, <2>2, <2>3
<1>6. {Says(t) : t \in cited} = {Says(x) : x \in {r.claims[id] : id \in ToSet(f.claims)}}
  <2>1. ASSUME NEW y \in {Says(t) : t \in cited}
        PROVE  y \in {Says(x) : x \in {r.claims[id] : id \in ToSet(f.claims)}}
    BY <1>4
  <2>2. ASSUME NEW y \in {Says(x) : x \in {r.claims[id] : id \in ToSet(f.claims)}}
        PROVE  y \in {Says(t) : t \in cited}
    BY <1>5
  <2> QED
    BY <2>1, <2>2
<1> QED
  BY <1>1, <1>6 DEF c, f, keys, FindingSays, CandidateSays

----
(***************************************************************************)
(* Every finding a rule answers with has one place among the findings.     *)
(***************************************************************************)
Total(R, X, Y) == \A x \in X : \E y \in Y : <<x, y>> \in R
Onto(R, X, Y) == \A y \in Y : \E x \in X : <<x, y>> \in R

\* A relation that is total, onto and one to one is a bijection.
LEMMA OneEach ==
    ASSUME NEW X, NEW Y, NEW R, Total(R, X, Y), Onto(R, X, Y),
           \A x \in X : \A y, z \in Y : <<x, y>> \in R /\ <<x, z>> \in R => y = z,
           \A x, w \in X : \A y \in Y : <<x, y>> \in R /\ <<w, y>> \in R => x = w
    PROVE  \E f \in Bijection(X, Y) : \A x \in X : <<x, f[x]>> \in R
<1> DEFINE f == [x \in X |-> CHOOSE y \in Y : <<x, y>> \in R]
<1>1. \A x \in X : f[x] \in Y /\ <<x, f[x]>> \in R
  BY DEF Total
<1>2. f \in [X -> Y]
  BY <1>1
<1> HIDE DEF f
<1>3. \A x, w \in X : f[x] = f[w] => x = w
  BY <1>1
<1>4. \A y \in Y : \E x \in X : f[x] = y
  BY <1>1 DEF Onto
<1>5. f \in Bijection(X, Y)
  BY <1>2, <1>3, <1>4 DEF Bijection, Injection, Surjection, IsInjective
<1> QED
  BY <1>1, <1>5

\* The answers of the rules, and their findings.
Answers(rules, emission) == UNION {{<<n, i>> : i \in DOMAIN emission[n]} : n \in ToSet(rules)}
Given(rules, emission) ==
    UNION {UNION {{<<n, i, j>> : j \in DOMAIN emission[n][i].findings} :
                     i \in DOMAIN emission[n]} : n \in ToSet(rules)}

\* Every answered candidate has a place of its own among the compiled ones.
LEMMA AnswersPlaced ==
    ASSUME NEW rules \in Seq(Nat), \A q, l \in DOMAIN rules : rules[q] = rules[l] => q = l, NEW emission,
           \A n \in ToSet(rules) : emission[n] \in Seq(RuleCandidate) /\ KeysAccepted(emission[n])
    PROVE  \E place \in Bijection(Answers(rules, emission), DOMAIN Compiled(rules, emission)) :
             \A n \in ToSet(rules) : \A i \in DOMAIN emission[n] :
               Compiled(rules, emission)[place[<<n, i>>]]
                 = [rule |-> n, claims |-> emission[n][i].claims, findings |-> emission[n][i].findings]
<1> DEFINE s(n) == ByKey(emission[n])
           seqs == [q \in DOMAIN rules |-> OfRule(rules[q], s(rules[q]))]
           compiled == Compiled(rules, emission)
           X == Answers(rules, emission)
           Y == DOMAIN compiled
<1>1. compiled = FlattenSeq(seqs) /\ seqs \in Seq(Seq(Candidate))
  BY CompiledParts
<1>2. \A n \in ToSet(rules) :
        /\ s(n) \in Seq(RuleCandidate) /\ ToSet(s(n)) = ToSet(emission[n])
        /\ \A m, l \in DOMAIN s(n) : s(n)[m] = s(n)[l] => m = l
        /\ \A m, l \in DOMAIN emission[n] : emission[n][m] = emission[n][l] => m = l
  <2> SUFFICES ASSUME NEW n \in ToSet(rules)
               PROVE  /\ s(n) \in Seq(RuleCandidate) /\ ToSet(s(n)) = ToSet(emission[n])
                      /\ \A m, l \in DOMAIN s(n) : s(n)[m] = s(n)[l] => m = l
                      /\ \A m, l \in DOMAIN emission[n] : emission[n][m] = emission[n][l] => m = l
    OBVIOUS
  <2> DEFINE t == emission[n]
  <2>1. t \in Seq(RuleCandidate) /\ KeysAccepted(t)
    OBVIOUS
  <2> HIDE DEF t
  <2>2. ByKey(t) \in Seq(RuleCandidate) /\ ToSet(ByKey(t)) = ToSet(t) /\ SameCounts(t, ByKey(t))
    BY <2>1, CandidateKeys, SameCountsFacts
  <2>3. KeysAccepted(ByKey(t))
    BY <2>1, <2>2, ByKeySame
  <2> QED
    BY <2>1, <2>2, <2>3 DEF KeysAccepted, t
<1>3. /\ DOMAIN seqs = DOMAIN rules
      /\ \A q \in DOMAIN rules : /\ DOMAIN seqs[q] = DOMAIN s(rules[q]) /\ rules[q] \in ToSet(rules)
                                 /\ \A m \in DOMAIN seqs[q] : seqs[q][m] =
                                      [rule |-> rules[q], claims |-> s(rules[q])[m].claims,
                                       findings |-> s(rules[q])[m].findings]
  BY DEF OfRule, ToSet
<1> HIDE DEF s, seqs, compiled
<1>4. /\ \A k \in DOMAIN seqs : \A j \in DOMAIN seqs[k] :
           At(seqs, k, j) \in Y /\ compiled[At(seqs, k, j)] = seqs[k][j]
      /\ \A p \in Y : \E k \in DOMAIN seqs : \E j \in DOMAIN seqs[k] : p = At(seqs, k, j)
      /\ \A k, l \in DOMAIN seqs : \A i \in DOMAIN seqs[k], j \in DOMAIN seqs[l] :
           At(seqs, k, i) = At(seqs, l, j) => k = l /\ i = j
  BY <1>1, FlattenPositions
<1> DEFINE Meets(x, y) == \E q \in DOMAIN rules : \E m \in DOMAIN seqs[q] :
             x[1] = rules[q] /\ emission[x[1]][x[2]] = s(x[1])[m] /\ y = At(seqs, q, m)
           R == {z \in X \X Y : Meets(z[1], z[2])}
<1>5. \A x \in X : x[1] \in ToSet(rules) /\ x[2] \in DOMAIN emission[x[1]] /\ x = <<x[1], x[2]>>
  BY DEF Answers
<1>6. Total(R, X, Y)
  <2> SUFFICES ASSUME NEW x \in X PROVE \E y \in Y : <<x, y>> \in R
    BY DEF Total
  <2>1. PICK q \in DOMAIN rules : rules[q] = x[1]
    BY <1>5 DEF ToSet
  <2>2. PICK m \in DOMAIN s(x[1]) : s(x[1])[m] = emission[x[1]][x[2]]
    <3> DEFINE n == x[1]
               a == emission[x[1]][x[2]]
    <3>1. n \in ToSet(rules) /\ a \in ToSet(emission[n])
      BY <1>5 DEF ToSet
    <3> HIDE DEF n, a
    <3>2. a \in ToSet(s(n))
      BY <1>2, <3>1
    <3>3. \E m \in DOMAIN s(n) : s(n)[m] = a
      BY <3>2 DEF ToSet
    <3> QED
      BY <3>3 DEF n, a
  <2>3. m \in DOMAIN seqs[q] /\ q \in DOMAIN seqs
    BY <1>3, <2>1, <2>2
  <2>4. At(seqs, q, m) \in Y /\ Meets(x, At(seqs, q, m))
    BY <1>4, <2>1, <2>2, <2>3
  <2> QED
    BY <2>4
<1>7. Onto(R, X, Y)
  <2> SUFFICES ASSUME NEW y \in Y PROVE \E x \in X : <<x, y>> \in R
    BY DEF Onto
  <2>1. PICK q \in DOMAIN seqs : \E m \in DOMAIN seqs[q] : y = At(seqs, q, m)
    BY <1>4
  <2>2. PICK m \in DOMAIN seqs[q] : y = At(seqs, q, m)
    BY <2>1
  <2> DEFINE n == rules[q]
  <2>3. n \in ToSet(rules) /\ q \in DOMAIN rules /\ m \in DOMAIN s(n)
    BY <1>3
  <2> HIDE DEF n
  <2>4. PICK i \in DOMAIN emission[n] : emission[n][i] = s(n)[m]
    <3> DEFINE a == s(n)[m]
    <3>1. a \in ToSet(s(n))
      BY <2>3 DEF ToSet
    <3> HIDE DEF a
    <3>2. a \in ToSet(emission[n])
      BY <1>2, <2>3, <3>1
    <3>3. \E i \in DOMAIN emission[n] : emission[n][i] = a
      BY <3>2 DEF ToSet
    <3> QED
      BY <3>3 DEF a
  <2>5. <<n, i>> \in X
    BY <2>3 DEF Answers
  <2>6. Meets(<<n, i>>, y)
    BY <2>2, <2>3, <2>4 DEF n
  <2> QED
    BY <2>5, <2>6
<1>8. ASSUME NEW x \in X, NEW y \in Y, NEW z \in Y, <<x, y>> \in R, <<x, z>> \in R PROVE y = z
  <2>1. Meets(x, y) /\ Meets(x, z)
    BY <1>8
  <2>2. PICK q \in DOMAIN rules : \E m \in DOMAIN seqs[q] :
          x[1] = rules[q] /\ emission[x[1]][x[2]] = s(x[1])[m] /\ y = At(seqs, q, m)
    BY <2>1
  <2>3. PICK m \in DOMAIN seqs[q] : x[1] = rules[q] /\ emission[x[1]][x[2]] = s(x[1])[m] /\ y = At(seqs, q, m)
    BY <2>2
  <2>4. PICK l \in DOMAIN rules : \E v \in DOMAIN seqs[l] :
          x[1] = rules[l] /\ emission[x[1]][x[2]] = s(x[1])[v] /\ z = At(seqs, l, v)
    BY <2>1
  <2>5. PICK v \in DOMAIN seqs[l] : x[1] = rules[l] /\ emission[x[1]][x[2]] = s(x[1])[v] /\ z = At(seqs, l, v)
    BY <2>4
  <2>6. q = l
    BY <2>3, <2>5
  <2>7. m = v
    BY <1>2, <1>3, <1>5, <2>3, <2>5, <2>6
  <2> QED
    BY <2>3, <2>5, <2>6, <2>7
<1>9. ASSUME NEW x \in X, NEW w \in X, NEW y \in Y, <<x, y>> \in R, <<w, y>> \in R PROVE x = w
  <2>1. Meets(x, y) /\ Meets(w, y)
    BY <1>9
  <2>2. PICK q \in DOMAIN rules : \E m \in DOMAIN seqs[q] :
          x[1] = rules[q] /\ emission[x[1]][x[2]] = s(x[1])[m] /\ y = At(seqs, q, m)
    BY <2>1
  <2>3. PICK m \in DOMAIN seqs[q] : x[1] = rules[q] /\ emission[x[1]][x[2]] = s(x[1])[m] /\ y = At(seqs, q, m)
    BY <2>2
  <2>4. PICK l \in DOMAIN rules : \E v \in DOMAIN seqs[l] :
          w[1] = rules[l] /\ emission[w[1]][w[2]] = s(w[1])[v] /\ y = At(seqs, l, v)
    BY <2>1
  <2>5. PICK v \in DOMAIN seqs[l] : w[1] = rules[l] /\ emission[w[1]][w[2]] = s(w[1])[v] /\ y = At(seqs, l, v)
    BY <2>4
  <2>6. q = l /\ m = v
    <3>1. q \in DOMAIN seqs /\ l \in DOMAIN seqs /\ At(seqs, q, m) = At(seqs, l, v)
      BY <1>3, <2>3, <2>5
    <3> QED
      BY <1>4, <3>1
  <2>7. x[1] = w[1] /\ emission[x[1]][x[2]] = emission[x[1]][w[2]]
    BY <2>3, <2>5, <2>6
  <2>8. x[2] = w[2]
    BY <1>2, <1>5, <2>7
  <2> QED
    BY <1>5, <2>7, <2>8
<1> HIDE DEF R
<1>10. PICK f \in Bijection(X, Y) : \A x \in X : <<x, f[x]>> \in R
  BY <1>6, <1>7, <1>8, <1>9, OneEach
<1>11. ASSUME NEW n \in ToSet(rules), NEW i \in DOMAIN emission[n]
       PROVE  compiled[f[<<n, i>>]]
                  = [rule |-> n, claims |-> emission[n][i].claims, findings |-> emission[n][i].findings]
  <2> DEFINE x == <<n, i>>
  <2>1. x \in X /\ x[1] = n /\ x[2] = i
    BY DEF Answers
  <2> HIDE DEF x
  <2>2. Meets(x, f[x])
    <3> DEFINE y == f[x]
    <3>1. <<x, y>> \in R
      BY <1>10, <2>1
    <3> HIDE DEF y
    <3>2. Meets(x, y)
      BY <3>1 DEF R
    <3> QED
      BY <3>2 DEF y
  <2>3. PICK q \in DOMAIN rules : \E m \in DOMAIN seqs[q] :
          n = rules[q] /\ emission[n][i] = s(n)[m] /\ f[x] = At(seqs, q, m)
    BY <2>1, <2>2
  <2>4. PICK m \in DOMAIN seqs[q] : n = rules[q] /\ emission[n][i] = s(n)[m] /\ f[x] = At(seqs, q, m)
    BY <2>3
  <2>5. compiled[f[x]] = seqs[q][m]
    BY <1>3, <1>4, <2>4
  <2>6. compiled[f[x]] = [rule |-> n, claims |-> emission[n][i].claims, findings |-> emission[n][i].findings]
    BY <1>3, <2>4, <2>5
  <2> QED
    BY <2>6 DEF x
<1> QED
  BY <1>10, <1>11 DEF compiled

\* There are as many findings in the run as the rules answered.
LEMMA GivenCounted ==
    ASSUME NEW rules \in Seq(Nat), \A q, l \in DOMAIN rules : rules[q] = rules[l] => q = l, NEW emission,
           \A n \in ToSet(rules) : emission[n] \in Seq(RuleCandidate) /\ KeysAccepted(emission[n]),
           \A k \in DOMAIN Compiled(rules, emission) : LocalsAccepted(Compiled(rules, emission)[k])
    PROVE  Cardinality(Given(rules, emission)) = Len(Findings(Compiled(rules, emission)))
<1> DEFINE compiled == Compiled(rules, emission)
           X == Answers(rules, emission)
           G == Given(rules, emission)
           a == DraftFindings(compiled)
           Y == DOMAIN FlattenSeq(a)
<1>1. PICK place \in Bijection(X, DOMAIN compiled) :
        \A n \in ToSet(rules) : \A i \in DOMAIN emission[n] :
          compiled[place[<<n, i>>]]
            = [rule |-> n, claims |-> emission[n][i].claims, findings |-> emission[n][i].findings]
  BY AnswersPlaced
<1>2. compiled \in Seq(Candidate)
  BY CompiledType
<1>3. a \in Seq(Seq(DraftFinding)) /\ Findings(compiled) = Numbered(FlattenSeq(a))
  BY <1>2, DerivedParts
<1>4. \A g \in G : /\ g = <<g[1], g[2], g[3]>> /\ <<g[1], g[2]>> \in X
                   /\ g[1] \in ToSet(rules) /\ g[2] \in DOMAIN emission[g[1]]
                   /\ g[3] \in DOMAIN emission[g[1]][g[2]].findings
  BY DEF Given, Answers
<1>5. ASSUME NEW n \in ToSet(rules), NEW i \in DOMAIN emission[n], NEW j \in DOMAIN emission[n][i].findings
      PROVE  <<n, i, j>> \in G
  BY DEF Given
<1>6. /\ \A x \in X : place[x] \in DOMAIN compiled
      /\ \A x, y \in X : place[x] = place[y] => x = y
      /\ \A k \in DOMAIN compiled : \E x \in X : place[x] = k
  BY <1>1 DEF Bijection, Injection, Surjection, IsInjective
<1>7. \A x \in X : x = <<x[1], x[2]>> /\ x[1] \in ToSet(rules) /\ x[2] \in DOMAIN emission[x[1]]
  BY DEF Answers
<1>8. DOMAIN a = DOMAIN compiled /\ \A k \in DOMAIN compiled : DOMAIN a[k] = DOMAIN compiled[k].findings
  BY DEF DraftFindings
<1> HIDE DEF compiled, X, G, a
<1>9. /\ \A k \in DOMAIN a : \A j \in DOMAIN a[k] : At(a, k, j) \in Y
      /\ \A p \in Y : \E k \in DOMAIN a : \E j \in DOMAIN a[k] : p = At(a, k, j)
      /\ \A k, l \in DOMAIN a : \A i \in DOMAIN a[k], j \in DOMAIN a[l] :
           At(a, k, i) = At(a, l, j) => k = l /\ i = j
      /\ FlattenSeq(a) \in Seq(DraftFinding)
  BY <1>3, FlattenPositions
<1> DEFINE k(g) == place[<<g[1], g[2]>>]
           h == [g \in G |-> At(a, k(g), g[3])]
<1>10. \A g \in G : k(g) \in DOMAIN a /\ g[3] \in DOMAIN a[k(g)] /\ h[g] = At(a, k(g), g[3])
  <2> SUFFICES ASSUME NEW g \in G
               PROVE  k(g) \in DOMAIN a /\ g[3] \in DOMAIN a[k(g)] /\ h[g] = At(a, k(g), g[3])
    OBVIOUS
  <2>1. k(g) \in DOMAIN compiled
    BY <1>4, <1>6
  <2>2. compiled[k(g)].findings = emission[g[1]][g[2]].findings
    <3> DEFINE n == g[1]
               i == g[2]
    <3>1. n \in ToSet(rules) /\ i \in DOMAIN emission[n]
      BY <1>4
    <3> HIDE DEF n, i
    <3>2. compiled[place[<<n, i>>]]
            = [rule |-> n, claims |-> emission[n][i].claims, findings |-> emission[n][i].findings]
      BY <1>1, <3>1, Zenon
    <3>3. compiled[place[<<n, i>>]].findings = emission[n][i].findings
      BY <3>2
    <3> QED
      BY <3>3 DEF n, i
  <2>3. g[3] \in DOMAIN emission[g[1]][g[2]].findings
    BY <1>4
  <2> QED
    BY <1>8, <2>1, <2>2, <2>3
<1> HIDE DEF Y
<1>11. h \in [G -> Y]
  <2>1. \A g \in G : At(a, k(g), g[3]) \in Y
    BY <1>9, <1>10
  <2> HIDE DEF k
  <2> QED
    BY <2>1
<1> HIDE DEF k, h
<1>12. ASSUME NEW g \in G, NEW w \in G, h[g] = h[w] PROVE g = w
  <2>1. k(g) = k(w) /\ g[3] = w[3]
    <3>1. At(a, k(g), g[3]) = At(a, k(w), w[3])
      BY <1>10, <1>12
    <3> QED
      BY <1>9, <1>10, <3>1
  <2>2. <<g[1], g[2]>> = <<w[1], w[2]>>
    BY <1>4, <1>6, <2>1 DEF k
  <2>3. g[1] = w[1] /\ g[2] = w[2]
    BY <2>2
  <2> QED
    BY <1>4, <2>1, <2>3
<1>13. ASSUME NEW p \in Y PROVE \E g \in G : h[g] = p
  <2>1. PICK l \in DOMAIN a : \E j \in DOMAIN a[l] : p = At(a, l, j)
    BY <1>9
  <2>2. PICK j \in DOMAIN a[l] : p = At(a, l, j)
    BY <2>1
  <2>3. PICK x \in X : place[x] = l
    BY <1>6, <1>8
  <2>4. x = <<x[1], x[2]>> /\ x[1] \in ToSet(rules) /\ x[2] \in DOMAIN emission[x[1]]
    BY <1>7
  <2> DEFINE n == x[1]
             i == x[2]
             g == <<n, i, j>>
  <2>5. compiled[l].findings = emission[n][i].findings
    <3>1. n \in ToSet(rules) /\ i \in DOMAIN emission[n] /\ x = <<n, i>>
      BY <2>4
    <3> HIDE DEF n, i
    <3>2. compiled[place[<<n, i>>]]
            = [rule |-> n, claims |-> emission[n][i].claims, findings |-> emission[n][i].findings]
      BY <1>1, <3>1, Zenon
    <3>3. compiled[place[<<n, i>>]].findings = emission[n][i].findings
      BY <3>2
    <3> QED
      BY <2>3, <3>1, <3>3
  <2>6. j \in DOMAIN emission[n][i].findings
    BY <1>8, <2>5
  <2>7. g \in G
    BY <1>5, <2>4, <2>6
  <2>8. k(g) = l /\ g[3] = j
    BY <2>3, <2>4 DEF k
  <2> HIDE DEF g
  <2>9. h[g] = p
    BY <1>10, <2>2, <2>7, <2>8
  <2> QED
    BY <2>7, <2>9
<1>14. h \in Bijection(G, Y)
  BY <1>11, <1>12, <1>13 DEF Bijection, Injection, Surjection, IsInjective
<1> DEFINE m == Len(FlattenSeq(a))
<1>15. Y = 1..m /\ m \in Nat
  BY <1>9 DEF Y
<1>16. ExistsBijection(Y, G)
  <2>1. ExistsBijection(G, Y)
    BY <1>14 DEF ExistsBijection
  <2> QED
    BY <2>1, Fun_ExistsBijSymmetric
<1> HIDE DEF m
<1>17. Cardinality(G) = m
  BY <1>15, <1>16, FS_CountingElements
<1>18. Len(Findings(compiled)) = m
  <2>1. DOMAIN Findings(compiled) = DOMAIN FlattenSeq(a)
    BY <1>3 DEF Numbered
  <2>2. Findings(compiled) \in Seq(Rows.findings)
    BY <1>2, DerivedParts DEF compiled
  <2> QED
    BY <1>9, <2>1, <2>2 DEF m
<1> QED
  BY <1>17, <1>18 DEF G, compiled

\* An evidence is refused for the sake of its candidates' keys.
LEMMA EvaluateKeys ==
    ASSUME NEW e, NEW rules, NEW emission, Evaluate(e, rules, emission) # <<>>
    PROVE  /\ \A n \in ToSet(rules) : KeysAccepted(emission[n])
           /\ \A k \in DOMAIN Compiled(rules, emission) : LocalsAccepted(Compiled(rules, emission)[k])
BY DEF Evaluate
====
