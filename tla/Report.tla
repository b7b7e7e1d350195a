---- MODULE Report ----
(***************************************************************************)
(* The life of a report: evidence is evaluated (rules/evaluate.go), the    *)
(* report is written (schema/v1/encode.go), the file is edited by anybody, *)
(* and the commands read it back (schema/v1/decode.go, cmd/routedoc/app.go)*)
(* or an evaluator derives it anew.                                        *)
(*                                                                         *)
(* The JSON text is abstracted to the run it holds and its shape: CLOSED   *)
(* has exactly the members of schema 1.0.0, EXTRA an unknown member too,   *)
(* BROKEN a missing or duplicate member or an unknown enumeration value.   *)
(***************************************************************************)
EXTENDS ReportRules

CONSTANTS
    Evidences,  \* evidence runs, their derived collections empty
    Emissions,  \* what the rules may answer: candidates by rule
    Changes,    \* what an edit may do: values by collection and field
    Versions,   \* schema versions an edit may claim
    MaxEdits    \* bound: edits of the file

\* Evaluate is given a ValidatedEvidenceRun; a rule answers with Go values.
ASSUME ReportAssumption ==
    /\ \A e \in Evidences :
         e \in Run /\ EvidenceAccepted(e) /\ e.rules = <<>> /\ e.claims = <<>> /\ e.findings = <<>>
    /\ \A answers \in Emissions :
         /\ IsFiniteSet(DOMAIN answers) /\ DOMAIN answers \subseteq Nat
         /\ answers \in [DOMAIN answers -> Seq(RuleCandidate)]
    /\ DOMAIN Changes \subseteq DOMAIN Rows
    /\ Versions \subseteq Nat \X Nat \X Nat
    /\ MaxEdits \in Nat

VARIABLES
    phase,
    evidence,   \* ValidatedEvidenceRun
    emission,   \* the answers of the registered rules
    report,     \* what Evaluate returned: one run, or none
    file,       \* shape and run
    edits,      \* history: number of edits
    read,       \* the run a command has decoded and validated: one, or none
    out         \* command, exit code, the evidence explained, the run derived anew

vars == <<phase, evidence, emission, report, file, edits, read, out>>

ExitOK == 0
ExitData == 2
ExitUsage == 3
ExitInternal == 4

Rules == Ordered(DOMAIN emission, [n \in DOMAIN emission |-> <<0, n>>])
Nothing == [command |-> "none", exit |-> ExitOK, evidence |-> {}, report |-> <<>>]

----
(***************************************************************************)
(* Decode and Encode.                                                      *)
(***************************************************************************)
Exact(version) == version = <<1, 0, 0>>

\* What op gets of file f: one run, or none.
Decode(f, op) ==
    IF /\ f.shape # "BROKEN"
       /\ f.run.version[1] = 1
       /\ op \in {"CanonicalJSON", "Reevaluate"} => Exact(f.run.version)
       /\ f.shape = "EXTRA" => f.run.version[2] > 0
    THEN <<f.run>> ELSE <<>>

Load(f, op) == IF Decode(f, op) # <<>> /\ Accepted(f.run) THEN <<f.run>> ELSE <<>>

EncodeAccepted(r) == Exact(r.version) /\ Accepted(r)

----
(***************************************************************************)
(* BuildExplanation: the claims of a finding and those they name, breadth  *)
(* first, one visited per turn.  The evidence found are pairs: a reference *)
(* and whether it contradicts, which its first mention decides.            *)
(***************************************************************************)
Walk(r) ==
    LET refs == (Obs..Asn) \X Nat
    IN  [s \in [queue : Seq(refs), visited : SUBSET Nat, ok : BOOLEAN,
                evidence : SUBSET (refs \X BOOLEAN)] |->
          LET waiting == {i \in DOMAIN s.queue : s.queue[i][1] = Clm /\ s.queue[i][2] \notin s.visited}
              id == s.queue[CHOOSE i \in waiting : \A j \in waiting : i <= j][2]
              c == ById(r.claims)[id]
              base(list) == ToSet(list) \ ClaimRefs(list)
              found == (base(c.support) \X {FALSE})
                           \cup ((base(c.contra) \ base(c.support)) \X {TRUE})
          IN  IF ~s.ok \/ waiting = {} THEN s
              ELSE IF id \notin Ids(r.claims) THEN [s EXCEPT !.ok = FALSE]
              ELSE [queue |-> s.queue \o c.support \o c.contra, visited |-> s.visited \cup {id},
                    ok |-> TRUE,
                    evidence |-> s.evidence \cup {x \in found : \A y \in s.evidence : x[1] # y[1]}]]

Explanation(r, id) ==
    After(Walk(r), [queue |-> Each(ById(r.findings)[id].claims, LAMBDA claim : <<Clm, claim>>),
                    visited |-> {}, ok |-> TRUE, evidence |-> {}], Len(r.claims) + 1)

----
(***************************************************************************)
(* Actions                                                                 *)
(***************************************************************************)
Init ==
    /\ phase = "collected"
    /\ evidence \in Evidences /\ emission \in Emissions
    /\ report = <<>> /\ file = <<>> /\ edits = 0 /\ read = <<>> /\ out = Nothing

EvaluateRules ==
    /\ phase = "collected"
    /\ report' = Evaluate(evidence, Rules, emission)
    /\ phase' = IF report' = <<>> THEN "refused" ELSE "evaluated"
    /\ UNCHANGED <<evidence, emission, file, edits, read, out>>

Write ==
    /\ phase = "evaluated"
    /\ IF EncodeAccepted(report[1])
       THEN phase' = "file" /\ file' = [shape |-> "CLOSED", run |-> report[1]]
       ELSE phase' = "refused" /\ UNCHANGED file
    /\ UNCHANGED <<evidence, emission, report, edits, read, out>>

Editable == phase = "file" /\ edits < MaxEdits

\* Somebody edits the file.
Edit(newFile) ==
    /\ newFile # file
    /\ file' = newFile
    /\ edits' = edits + 1
    /\ UNCHANGED <<phase, evidence, emission, report, read, out>>

\* A value of another type is a BROKEN shape.
SetField == Editable /\
    \E collection \in DOMAIN Changes : \E field \in DOMAIN Changes[collection] :
      \E i \in DOMAIN file.run[collection], value \in Changes[collection][field] :
        LET row == [file.run[collection][i] EXCEPT ![field] = value]
        IN  row \in Rows[collection] /\ Edit([file EXCEPT !.run[collection][i] = row])

Drop == Editable /\
    \E collection \in DOMAIN Changes : \E i \in DOMAIN file.run[collection] :
        Edit([file EXCEPT !.run[collection] = RemoveAt(@, i)])

Swap == Editable /\
    \E collection \in DOMAIN Changes : \E i \in 1..(Len(file.run[collection]) - 1) :
        Edit([file EXCEPT !.run[collection] =
                [@ EXCEPT ![i] = file.run[collection][i + 1], ![i + 1] = file.run[collection][i]]])

SetVersion == Editable /\ \E version \in Versions : Edit([file EXCEPT !.run.version = version])
SetShape == Editable /\ \E shape \in {"EXTRA", "BROKEN"} : Edit([file EXCEPT !.shape = shape])

\* App.read, and the same steps in App.validate.
Read ==
    /\ phase = "file"
    /\ read' = Load(file, "Read")
    /\ phase' = "read"
    /\ UNCHANGED <<evidence, emission, report, file, edits, out>>

Answer(command, exit, explained) ==
    /\ phase = "read"
    /\ out' = [Nothing EXCEPT !.command = command, !.exit = exit, !.evidence = explained]
    /\ phase' = "done"
    /\ UNCHANGED <<evidence, emission, report, file, edits, read>>

\* Mutant: an invalid report is answered like a blocked target.
InvalidIsBlocked(valid) == IF valid THEN ExitOK ELSE 1

ReadExit(valid) == IF valid THEN ExitOK ELSE ExitData

Validate == Answer("validate", ReadExit(read # <<>>), {})

Render == Answer("render", ReadExit(read # <<>>), {})

\* render --json: the version is looked at here, not by Decode.
RenderJSON ==
    Answer("json", IF read = <<>> \/ ~Exact(read[1].version) THEN ExitData
                   ELSE IF EncodeAccepted(read[1]) THEN ExitOK ELSE ExitInternal, {})

\* explain, in JSON or not: 0 stands for an ID that is no finding ID.
Explain == phase = "read" /\
    \E id \in 0..(Len(file.run.findings) + 1) :
        IF read = <<>> THEN Answer("explain", ExitData, {})
        ELSE IF id = 0 THEN Answer("explain", ExitUsage, {})
        ELSE IF id \notin Ids(read[1].findings) THEN Answer("explain", ExitData, {})
        ELSE LET explained == Explanation(read[1], id)
             IN  Answer("explain", IF explained.ok THEN ExitOK ELSE ExitData, explained.evidence)

\* Mutant: a report that has findings is taken as evaluated.
KeepEvaluated(r) == IF r.findings # <<>> THEN <<r>> ELSE Evaluate(r, Rules, emission)

\* Evaluator.Reevaluate: the evidence of r is evaluated as if nothing had been derived.
Reevaluated(r) ==
    IF Exact(r.version) /\ EvidenceAccepted(r) THEN Evaluate(r, Rules, emission) ELSE <<>>

Reevaluate ==
    /\ phase = "file" /\ Load(file, "Reevaluate") # <<>>
    /\ out' = [Nothing EXCEPT !.command = "reevaluate", !.report = Reevaluated(file.run)]
    /\ phase' = "done"
    /\ UNCHANGED <<evidence, emission, report, file, edits, read>>

Finished == phase \in {"refused", "done"} /\ UNCHANGED vars

Next ==
    \/ EvaluateRules \/ Write
    \/ SetField \/ Drop \/ Swap \/ SetVersion \/ SetShape
    \/ Read \/ Validate \/ Render \/ RenderJSON \/ Explain \/ Reevaluate
    \/ Finished

Spec == Init /\ [][Next]_vars

----
(***************************************************************************)
(* Properties                                                              *)
(***************************************************************************)
\* Every variable keeps the shape of the Go value it stands for; the commands on a
\* stored report end with success, a data error, a usage error or an internal error.
TypeOK ==
    /\ phase \in {"collected", "refused", "evaluated", "file", "read", "done"}
    /\ Len(report) <= 1 /\ Len(read) <= 1
    /\ edits \in 0..MaxEdits
    /\ out.command \in {"none", "validate", "render", "json", "explain", "reevaluate"}
    /\ out.exit \in {ExitOK, ExitData, ExitUsage, ExitInternal}
    /\ out.evidence \subseteq ({Obs, Vis, Asn} \X Nat) \X BOOLEAN
    /\ phase \in {"file", "read", "done"} => file.shape \in {"CLOSED", "EXTRA", "BROKEN"} /\ file.run \in Run
    /\ \A r \in ToSet(report \o read \o out.report) : r \in Run

Backwards(e) ==
    [e EXCEPT !.entities = Reverse(@), !.vantages = Reverse(@), !.assertions = Reverse(@),
              !.edges = Reverse(@), !.branches = Reverse(@), !.checks = Reverse(@),
              !.executions = Reverse(@), !.observations = Reverse(@), !.visibility = Reverse(@)]

\* One set of evidence and answers has one report: neither the order in which evidence
\* was inserted nor the order in which a rule emits its candidates shows in IDs,
\* selections or collections (sort.SliceStable in Evaluate, Apply, CanonicalizeEvaluated).
OrderInvisible ==
    phase \in {"evaluated", "refused"} =>
        Evaluate(Backwards(evidence), Rules, [n \in DOMAIN emission |-> Reverse(emission[n])]) = report

\* Renumbering loses no claim and no finding and mixes none: each finding of a report
\* cites the claims its own candidate gave it, though the candidates of a rule use the
\* same local keys (the local maps of Evaluate).
FindingsKeepTheirClaims ==
    phase = "evaluated" =>
        LET given == UNION {UNION {{<<n, i, j>> : j \in DOMAIN emission[n][i].findings} :
                                      i \in DOMAIN emission[n]} : n \in DOMAIN emission}
            keeps(f, n, i, j) ==
                LET c == emission[n][i]
                    cited == {c.claims[k] : k \in {k \in DOMAIN c.claims :
                                c.claims[k].key \in ToSet(c.findings[j].claims)}}
                IN  /\ f.rule = n
                    /\ {<<t.statement, t.about, t.level>> : t \in cited}
                         = {<<x.statement, x.about, x.level>> :
                              x \in {report[1].claims[id] : id \in ToSet(f.claims)}}
        IN  /\ Len(report[1].findings) = Cardinality(given)
            /\ \A g \in given : \E i \in DOMAIN report[1].findings :
                 keeps(report[1].findings[i], g[1], g[2], g[3])

AsBag(s) == [x \in ToSet(s) |-> Cardinality({i \in DOMAIN s : s[i] = x})]

\* A run without the order of the collections the schema calls sets.
Content(r) ==
    [r EXCEPT
      !.entities = AsBag(@), !.vantages = AsBag(@), !.assertions = AsBag(@),
      !.edges = AsBag(Each(@, LAMBDA x : [x EXCEPT !.refs = AsBag(@)])),
      !.branches = AsBag(@), !.observations = AsBag(@),
      !.checks = AsBag(Each(@, LAMBDA x : [x EXCEPT !.deps = AsBag(@)])),
      !.executions = AsBag(Each(@, LAMBDA x :
          [x EXCEPT !.observations = AsBag(@), !.visibility = AsBag(@)])),
      !.visibility = AsBag(Each(@, LAMBDA x : [x EXCEPT !.basis = AsBag(@)])),
      !.claims = AsBag(Each(@, LAMBDA x : [x EXCEPT
          !.support = AsBag(@), !.contra = AsBag(@), !.missing = AsBag(@)])),
      !.findings = AsBag(Each(@, LAMBDA x : [x EXCEPT
          !.claims = AsBag(@), !.branches = AsBag(@), !.positions = AsBag(@)]))]

OnePositionEach(f) ==
    \A i, j \in DOMAIN f.positions : f.positions[i][1] = f.positions[j][1] => i = j

\* A report has one accepted form: a file with the content of the report that was
\* written is accepted only if it is that report, order included, as long as no finding
\* has two positions on one branch (docs/architecture.md:836 promises that; nobody checks).
OneCanonicalForm ==
    phase = "read" => \A r \in ToSet(read) :
        Content(r) = Content(report[1]) /\ (\A f \in ToSet(r.findings) : OnePositionEach(f))
            => r = report[1]

\* Claims met from the claims in S by support.
Supports(r, S) == {ref[2] : ref \in UNION {ClaimRefs(ById(r.claims)[id].support) : id \in S}}
Ancestry(r, id) ==
    {d \in Ids(r.claims) : \A S \in SUBSET Ids(r.claims) : id \in S /\ Supports(r, S) \subseteq S => d \in S}

\* ref names evidence that run r holds.
InRun(r, ref) ==
    \/ ref[1] = Obs /\ ref[2] \in Ids(r.observations)
    \/ ref[1] = Vis /\ ref[2] \in Ids(r.visibility)
    \/ ref[1] = Asn /\ ref[2] \in Ids(r.assertions)

\* Whoever accepts a report may rest on its claims: a claim that names support at all
\* has evidence of the run in its ancestry, and the whole ancestry is of one rule.
AcceptedIsGrounded ==
    phase = "read" => \A r \in ToSet(read) : \A c \in ToSet(r.claims) :
        /\ \A id \in Ancestry(r, c.id) : ById(r.claims)[id].rule = c.rule
        /\ c.support # <<>> => \E id \in Ancestry(r, c.id) : \E ref \in ToSet(ById(r.claims)[id].support) :
             InRun(r, ref)

\* In every non-empty set of nodes one has no successor in the set.
WellFounded(next) == \A S \in (SUBSET DOMAIN next) \ {{}} : \E n \in S : next[n] \cap S = {}

\* The checks of an accepted report can be run in some order, its branches have roots,
\* and its claims neither support nor contradict themselves through others.
AcceptedIsAcyclic ==
    phase = "read" => \A r \in ToSet(read) :
        /\ WellFounded([id \in Ids(r.checks) |-> ToSet(ById(r.checks)[id].deps)])
        /\ WellFounded([id \in Ids(r.branches) |-> {ById(r.branches)[id].parent}])
        /\ WellFounded([id \in Ids(r.claims) |->
               {ref[2] : ref \in ClaimRefs(ById(r.claims)[id].support \o ById(r.claims)[id].contra)}])

\* An accepted claim that no listener matches cites an empty inventory of that bucket
\* around the target port, taken at the claim's vantage, and the run holds no listener
\* of the bucket at the port seen from there at that time.
AbsenceIsProved ==
    phase = "read" => \A r \in ToSet(read) : \A c \in {x \in ToSet(r.claims) : x.statement = "ABSENT"} :
        LET here(o) == o.bucket = c.about.bucket /\ o.vantage = c.about.vantage
            cited == {o \in ToSet(r.observations) : <<Obs, o.id>> \in ToSet(c.support)}
        IN  \E empty \in cited :
              /\ empty.kind = "RESULT" /\ here(empty) /\ empty.count = 0
              /\ empty.ports[1] <= r.port /\ r.port <= empty.ports[2]
              /\ \A o \in ToSet(r.observations) :
                   ~(o.kind = "ENTRY" /\ here(o) /\ o.ports[1] = r.port /\ o.at = empty.at)

\* The commands agree about a file: what is accepted can be rendered, in JSON if it is
\* of the exact version, and each of its findings explained with evidence that is
\* there; no command ends in an internal error (App.read, EncodeCanonical, BuildExplanation).
CommandsAgree ==
    /\ out.exit # ExitInternal
    /\ out.command \in {"validate", "render"} => (out.exit = ExitOK) = (read # <<>>)
    /\ out.command = "json" /\ out.exit = ExitOK => read[1].version = <<1, 0, 0>>
    /\ \A r \in ToSet(read) : \A id \in Ids(r.findings) :
         /\ Explanation(r, id).ok
         /\ \A x \in Explanation(r, id).evidence : InRun(r, x[1])

Evidence(r) == [r EXCEPT !.rules = <<>>, !.claims = <<>>, !.findings = <<>>]

\* Reevaluate replaces the derived phase whole: as long as the evidence is that of the
\* report first written, evaluating an edited report by the same rules gives that report
\* back, with nothing of the edited claims, findings or selections.
ReevaluationRestores ==
    out.command = "reevaluate" /\ Evidence(file.run) = Evidence(report[1]) => out.report = report
====
