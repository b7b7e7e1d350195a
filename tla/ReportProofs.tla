---- MODULE ReportProofs ----
(***************************************************************************)
(* Proofs about the life of a report: what whoever reads an accepted       *)
(* report may rest on, and that order shows nowhere, for any evidence, any *)
(* rules with any answers, and any edits of the file.                      *)
(***************************************************************************)
EXTENDS Report, EvaluatorProofs

----
(***************************************************************************)
(* The invariant                                                           *)
(***************************************************************************)
File == [shape : {"CLOSED", "EXTRA", "BROKEN"}, run : Run]

\* What Validate, Render, RenderJSON and Explain answer.
AnswersAgree ==
    /\ out.exit # ExitInternal
    /\ out.command \in {"validate", "render"} => (out.exit = ExitOK) = (read # <<>>)
    /\ out.command = "json" /\ out.exit = ExitOK => read[1].version = <<1, 0, 0>>

\* The report is what Evaluate answered, what a command has read is the run of the file
\* and accepted, and a report derived anew comes from an accepted file.
Inv ==
    /\ evidence \in Evidences /\ emission \in Emissions
    /\ TypeOK
    /\ phase \in {"file", "read", "done"} => file \in File
    /\ report = IF phase = "collected" THEN <<>> ELSE Evaluate(evidence, Rules, emission)
    /\ phase \in {"evaluated", "file", "read", "done"} => report # <<>>
    /\ phase = "evaluated" => EncodeAccepted(report[1])
    /\ read # <<>> => phase \in {"read", "done"} /\ read = <<file.run>> /\ Accepted(file.run)
    /\ phase # "done" => out = Nothing
    /\ out.report = IF out.command = "reevaluate" THEN Reevaluated(file.run) ELSE <<>>
    /\ out.command = "reevaluate" => phase = "done" /\ Accepted(file.run)
    /\ AnswersAgree

\* The rules are the ones that answer, each once.
LEMMA RulesType ==
    ASSUME emission \in Emissions
    PROVE  /\ Rules \in Seq(Nat) /\ ToSet(Rules) = DOMAIN emission
           /\ \A n \in ToSet(Rules) : emission[n] \in Seq(RuleCandidate)
           /\ \A k, l \in DOMAIN Rules : Rules[k] = Rules[l] => k = l
<1> DEFINE P == DOMAIN emission
           key == [n \in P |-> <<0, n>>]
           n == Cardinality(P)
<1>1. /\ IsFiniteSet(P) /\ P \in SUBSET Nat
      /\ \A m \in P : emission[m] \in Seq(RuleCandidate)
  BY ReportAssumption
<1>2. n \in Nat /\ \A m \in P : key[m] \in Nat \X Nat
  BY <1>1, FS_CardinalityType
<1>3. Rules = Ordered(P, key)
  BY DEF Rules
<1> HIDE DEF P, key, n
<1>4. Ordered(P, key) \in Bijection(1..n, P)
  BY <1>1, <1>2, OrderedLists DEF n
<1>5. /\ Rules \in [1..n -> P]
      /\ \A m \in P : \E k \in 1..n : Rules[k] = m
      /\ \A k, l \in 1..n : Rules[k] = Rules[l] => k = l
  BY <1>3, <1>4 DEF Bijection, Injection, Surjection, IsInjective
<1>6. Rules \in Seq(Nat) /\ DOMAIN Rules = 1..n
  <2>1. Rules \in [1..n -> Nat]
    BY <1>1, <1>5
  <2> QED
    BY <1>2, <2>1
<1>7. ToSet(Rules) = P
  BY <1>5, <1>6 DEF ToSet
<1> QED
  BY <1>1, <1>5, <1>6, <1>7 DEF P

\* The evidence is an accepted run.
LEMMA EvidenceType ==
    ASSUME evidence \in Evidences
    PROVE  evidence \in Run /\ EvidenceAccepted(evidence)
BY ReportAssumption

\* What Evaluate answered is nothing, or one accepted run of the exact version.
LEMMA ReportType ==
    ASSUME evidence \in Evidences, emission \in Emissions
    PROVE  \/ Evaluate(evidence, Rules, emission) = <<>>
           \/ \E r \in Run : /\ Evaluate(evidence, Rules, emission) = <<r>>
                             /\ Accepted(r) /\ EncodeAccepted(r)
                             /\ r = Canonical(Select(Derived(evidence, Rules, Compiled(Rules, emission))))
                             /\ CanonicalBranches(evidence.branches).ok
<1>1. /\ evidence \in Run /\ EvidenceAccepted(evidence)
      /\ Rules \in Seq(Nat) /\ \A n \in ToSet(Rules) : emission[n] \in Seq(RuleCandidate)
  BY EvidenceType, RulesType
<1> SUFFICES ASSUME Evaluate(evidence, Rules, emission) # <<>>
             PROVE  \E r \in Run : /\ Evaluate(evidence, Rules, emission) = <<r>>
                                   /\ Accepted(r) /\ EncodeAccepted(r)
                                   /\ r = Canonical(Select(Derived(evidence, Rules, Compiled(Rules, emission))))
                                   /\ CanonicalBranches(evidence.branches).ok
  OBVIOUS
<1>2. PICK r \in Run : /\ Evaluate(evidence, Rules, emission) = <<r>> /\ Accepted(r)
                       /\ r = Canonical(Select(Derived(evidence, Rules, Compiled(Rules, emission))))
                       /\ evidence.version = <<1, 0, 0>>
                       /\ CanonicalBranches(evidence.branches).ok
  BY <1>1, EvaluateRun
<1> DEFINE p == Select(Derived(evidence, Rules, Compiled(Rules, emission)))
<1>3. DOMAIN p = RunNames /\ p.version = evidence.version
  BY <1>1, EvidenceKept
<1> HIDE DEF p
<1>4. Canonical(p).version = p.version
  BY <1>3, CanonicalFields DEF Shaped
<1>5. r.version = <<1, 0, 0>>
  BY <1>2, <1>3, <1>4 DEF p
<1> QED
  BY <1>2, <1>5 DEF EncodeAccepted, Exact

\* A run with another collection of rows is a run.
LEMMA ReplacedRun ==
    ASSUME NEW r \in Run, NEW c \in DOMAIN Rows, NEW s \in Seq(Rows[c])
    PROVE  [r EXCEPT ![c] = s] \in Run
<1>1. c \in {"entities", "vantages", "assertions", "edges", "branches", "checks", "executions",
             "observations", "visibility", "claims", "findings"}
  BY DEF Rows
<1>2. CASE c = "entities"
  BY <1>2 DEF Run
<1>3. CASE c = "vantages"
  BY <1>3 DEF Run
<1>4. CASE c = "assertions"
  BY <1>4 DEF Run
<1>5. CASE c = "edges"
  BY <1>5 DEF Run
<1>6. CASE c = "branches"
  BY <1>6 DEF Run
<1>7. CASE c = "checks"
  BY <1>7 DEF Run
<1>8. CASE c = "executions"
  BY <1>8 DEF Run
<1>9. CASE c = "observations"
  BY <1>9 DEF Run
<1>10. CASE c = "visibility"
  BY <1>10 DEF Run
<1>11. CASE c = "claims"
  BY <1>11 DEF Run
<1>12. CASE c = "findings"
  BY <1>12 DEF Run
<1> QED
  BY <1>1, <1>2, <1>3, <1>4, <1>5, <1>6, <1>7, <1>8, <1>9, <1>10, <1>11, <1>12

\* A collection of a run is a sequence of its rows.
LEMMA CollectionType ==
    ASSUME NEW r \in Run, NEW c \in DOMAIN Rows
    PROVE  r[c] \in Seq(Rows[c])
<1>1. c \in {"entities", "vantages", "assertions", "edges", "branches", "checks", "executions",
             "observations", "visibility", "claims", "findings"}
  BY DEF Rows
<1> QED
  BY <1>1, RunFields

\* A changed file is a file still.
LEMMA EditedFile ==
    ASSUME NEW f \in File, NEW c \in DOMAIN Rows, NEW s \in Seq(Rows[c])
    PROVE  [f EXCEPT !.run = [@ EXCEPT ![c] = s]] \in File
<1>1. [f.run EXCEPT ![c] = s] \in Run
  BY ReplacedRun DEF File
<1> DEFINE r == [f.run EXCEPT ![c] = s]
<1>2. [f EXCEPT !.run = [@ EXCEPT ![c] = s]] = [f EXCEPT !.run = r]
  BY DEF File
<1> HIDE DEF r
<1> QED
  BY <1>1, <1>2 DEF File, r

\* A sequence without one element is a sequence.
LEMMA RemovedRow ==
    ASSUME NEW S, NEW s \in Seq(S), NEW i \in DOMAIN s
    PROVE  RemoveAt(s, i) \in Seq(S)
BY DEF RemoveAt

\* A sequence with one element changed is a sequence.
LEMMA ChangedRow ==
    ASSUME NEW S, NEW s \in Seq(S), NEW i, NEW x \in S
    PROVE  [s EXCEPT ![i] = x] \in Seq(S)
<1>1. s \in [1..Len(s) -> S] /\ Len(s) \in Nat
  OBVIOUS
<1> DEFINE n == Len(s)
<1> HIDE DEF n
<1>2. s \in [1..n -> S] /\ n \in Nat
  BY <1>1 DEF n
<1>3. [s EXCEPT ![i] = x] \in [1..n -> S]
  BY <1>2
<1> QED
  BY <1>2, <1>3

\* An edit changes the file and the count of edits, and nothing else.
LEMMA EditsKeepTheFile ==
    ASSUME file \in File, SetField \/ Drop \/ Swap \/ SetVersion \/ SetShape
    PROVE  /\ phase = "file" /\ edits < MaxEdits /\ edits' = edits + 1
           /\ file' \in File
           /\ UNCHANGED <<phase, evidence, emission, report, read, out>>
<1>1. CASE SetField
  <2>0. PICK c \in DOMAIN Changes :
               \E field \in DOMAIN Changes[c] : \E i \in DOMAIN file.run[c], value \in Changes[c][field] :
                 LET row == [file.run[c][i] EXCEPT ![field] = value]
                 IN  row \in Rows[c] /\ Edit([file EXCEPT !.run[c][i] = row])
    BY <1>1 DEF SetField
  <2>1. PICK field \in DOMAIN Changes[c] : \E i \in DOMAIN file.run[c], value \in Changes[c][field] :
               LET row == [file.run[c][i] EXCEPT ![field] = value]
               IN  row \in Rows[c] /\ Edit([file EXCEPT !.run[c][i] = row])
    BY <2>0
  <2>9. PICK i \in DOMAIN file.run[c], value \in Changes[c][field] :
               LET row == [file.run[c][i] EXCEPT ![field] = value]
               IN  row \in Rows[c] /\ Edit([file EXCEPT !.run[c][i] = row])
    BY <2>1
  <2> DEFINE row == [file.run[c][i] EXCEPT ![field] = value]
             s == [file.run[c] EXCEPT ![i] = row]
  <2>2. row \in Rows[c] /\ Edit([file EXCEPT !.run[c][i] = row])
    BY <2>9
  <2>3. c \in DOMAIN Rows /\ file.run \in Run
    BY ReportAssumption DEF File
  <2>4. file.run[c] \in Seq(Rows[c])
    BY <2>3, CollectionType
  <2> HIDE DEF row
  <2>5. s \in Seq(Rows[c])
    <3> DEFINE q == file.run[c]
               T == Rows[c]
    <3>1. q \in Seq(T) /\ row \in T
      BY <2>2, <2>4
    <3> HIDE DEF q, T
    <3>2. [q EXCEPT ![i] = row] \in Seq(T)
      BY <3>1, ChangedRow
    <3> QED
      BY <3>2 DEF q, T
  <2>6. [file EXCEPT !.run[c][i] = row] = [file EXCEPT !.run = [@ EXCEPT ![c] = s]]
    OBVIOUS
  <2> HIDE DEF s
  <2>7. file' \in File
    BY <2>2, <2>3, <2>5, <2>6, EditedFile DEF Edit
  <2> QED
    BY <1>1, <2>2, <2>7 DEF SetField, Editable, Edit
<1>2. CASE Drop
  <2>0. PICK c \in DOMAIN Changes : \E i \in DOMAIN file.run[c] :
               Edit([file EXCEPT !.run[c] = RemoveAt(@, i)])
    BY <1>2 DEF Drop
  <2>1. PICK i \in DOMAIN file.run[c] : Edit([file EXCEPT !.run[c] = RemoveAt(@, i)])
    BY <2>0
  <2> DEFINE s == RemoveAt(file.run[c], i)
  <2>3. c \in DOMAIN Rows /\ file.run \in Run
    BY ReportAssumption DEF File
  <2>4. file.run[c] \in Seq(Rows[c])
    BY <2>3, CollectionType
  <2>5. s \in Seq(Rows[c])
    BY <2>4, RemovedRow
  <2>6. [file EXCEPT !.run[c] = RemoveAt(@, i)] = [file EXCEPT !.run = [@ EXCEPT ![c] = s]]
    OBVIOUS
  <2> HIDE DEF s
  <2>7. file' \in File
    BY <2>1, <2>3, <2>5, <2>6, EditedFile DEF Edit
  <2> QED
    BY <1>2, <2>1, <2>7 DEF Drop, Editable, Edit
<1>3. CASE Swap
  <2>0. PICK c \in DOMAIN Changes : \E i \in 1..(Len(file.run[c]) - 1) :
               Edit([file EXCEPT !.run[c] =
                      [@ EXCEPT ![i] = file.run[c][i + 1], ![i + 1] = file.run[c][i]]])
    BY <1>3 DEF Swap
  <2>1. PICK i \in 1..(Len(file.run[c]) - 1) :
               Edit([file EXCEPT !.run[c] =
                      [@ EXCEPT ![i] = file.run[c][i + 1], ![i + 1] = file.run[c][i]]])
    BY <2>0
  <2> DEFINE s == [file.run[c] EXCEPT ![i] = file.run[c][i + 1], ![i + 1] = file.run[c][i]]
  <2>3. c \in DOMAIN Rows /\ file.run \in Run
    BY ReportAssumption DEF File
  <2>4. file.run[c] \in Seq(Rows[c])
    BY <2>3, CollectionType
  <2>5. s \in Seq(Rows[c])
    <3> DEFINE q == file.run[c]
               T == Rows[c]
    <3>1. q \in Seq(T) /\ i \in 1..(Len(q) - 1)
      BY <2>4
    <3> HIDE DEF q, T
    <3>2. i \in DOMAIN q /\ i + 1 \in DOMAIN q
      BY <3>1
    <3>3. [q EXCEPT ![i] = q[i + 1], ![i + 1] = q[i]] \in Seq(T)
      BY <3>1, <3>2
    <3> QED
      BY <3>3 DEF q, T
  <2>6. [file EXCEPT !.run[c] = [@ EXCEPT ![i] = file.run[c][i + 1], ![i + 1] = file.run[c][i]]]
          = [file EXCEPT !.run = [@ EXCEPT ![c] = s]]
    OBVIOUS
  <2> HIDE DEF s
  <2>7. file' \in File
    BY <2>1, <2>3, <2>5, <2>6, EditedFile DEF Edit
  <2> QED
    BY <1>3, <2>1, <2>7 DEF Swap, Editable, Edit
<1>4. CASE SetVersion
  <2>1. PICK version \in Versions : Edit([file EXCEPT !.run.version = version])
    BY <1>4 DEF SetVersion
  <2>2. version \in Nat \X Nat \X Nat
    BY ReportAssumption
  <2>3. file.run \in Run
    BY DEF File
  <2>4. [file.run EXCEPT !.version = version] \in Run
    BY <2>2, <2>3 DEF Run
  <2>5. file' = [file EXCEPT !.run = [file.run EXCEPT !.version = version]]
    BY <2>1 DEF Edit
  <2>6. file' \in File
    <3> DEFINE r == [file.run EXCEPT !.version = version]
    <3>1. r \in Run /\ file' = [file EXCEPT !.run = r]
      BY <2>4, <2>5
    <3> HIDE DEF r
    <3> QED
      BY <3>1 DEF File
  <2> QED
    BY <1>4, <2>1, <2>6 DEF SetVersion, Editable, Edit
<1>5. CASE SetShape
  <2>1. PICK shape \in {"EXTRA", "BROKEN"} : Edit([file EXCEPT !.shape = shape])
    BY <1>5 DEF SetShape
  <2>2. file' \in File
    BY <2>1 DEF Edit, File
  <2> QED
    BY <1>5, <2>1, <2>2 DEF SetShape, Editable, Edit
<1> QED
  BY <1>1, <1>2, <1>3, <1>4, <1>5

----
(***************************************************************************)
(* Accepted claims                                                         *)
(***************************************************************************)
\* The claims of an accepted run are numbered.
LEMMA ClaimNumbers ==
    ASSUME NEW r \in Run, ClaimsAccepted(r)
    PROVE  /\ Ids(r.claims) = DOMAIN r.claims /\ DOMAIN r.claims \subseteq Nat
           /\ IsFiniteSet(DOMAIN r.claims) /\ Len(r.claims) \in Nat
           /\ \A i \in DOMAIN r.claims :
                /\ r.claims[i] \in Rows.claims /\ r.claims[i].id = i
                /\ ById(r.claims)[i] = r.claims[i] /\ ClaimIndex(r, i) = i
                /\ r.claims[i].support \in Seq(Ref) /\ r.claims[i].contra \in Seq(Ref)
<1>1. r.claims \in Seq(Rows.claims)
  BY RunFields
<1>2. DOMAIN r.claims \subseteq Nat /\ IsFiniteSet(DOMAIN r.claims) /\ Len(r.claims) \in Nat
  <2>1. DOMAIN r.claims = 1..Len(r.claims) /\ Len(r.claims) \in Nat
    BY <1>1
  <2> QED
    BY <2>1, FS_Interval
<1>3. \A i \in DOMAIN r.claims : r.claims[i].id = i
  BY DEF ClaimsAccepted
<1>4. Ids(r.claims) = DOMAIN r.claims
  BY <1>3 DEF Ids
<1>5. ASSUME NEW i \in DOMAIN r.claims
      PROVE  /\ r.claims[i] \in Rows.claims
             /\ ById(r.claims)[i] = r.claims[i] /\ ClaimIndex(r, i) = i
  <2>1. r.claims[i] \in Rows.claims
    BY <1>1, ElementOf
  <2>2. \A j \in DOMAIN r.claims : r.claims[j].id = i => j = i
    BY <1>3
  <2>3. ClaimIndex(r, i) = i
    BY <1>3, <2>2 DEF ClaimIndex
  <2>4. (CHOOSE j \in DOMAIN r.claims : r.claims[j].id = i) = i
    BY <1>3, <2>2
  <2>5. ById(r.claims)[i] = r.claims[i]
    BY <1>4, <2>4 DEF ById
  <2> QED
    BY <2>1, <2>3, <2>5
<1>6. \A i \in DOMAIN r.claims : r.claims[i].support \in Seq(Ref) /\ r.claims[i].contra \in Seq(Ref)
  BY <1>5 DEF Rows
<1> QED
  BY <1>2, <1>3, <1>4, <1>5, <1>6

\* What a claim names is an earlier claim of its rule, or evidence of the run.
LEMMA RefsNamed ==
    ASSUME NEW r \in Run, ClaimsAccepted(r), NEW i \in DOMAIN r.claims,
           NEW ref \in ToSet(r.claims[i].support) \cup ToSet(r.claims[i].contra)
    PROVE  /\ ref \in Ref
           /\ ref[1] = Clm => /\ ref[2] \in DOMAIN r.claims /\ ref[2] < i
                              /\ r.claims[ref[2]].rule = r.claims[i].rule
           /\ ref[1] # Clm => InRun(r, ref) /\ ref \in {Obs, Vis, Asn} \X Nat
<1>1. r.claims[i].support \in Seq(Ref) /\ r.claims[i].contra \in Seq(Ref)
  BY ClaimNumbers
<1>2. ToSet(r.claims[i].support \o r.claims[i].contra)
        = ToSet(r.claims[i].support) \cup ToSet(r.claims[i].contra)
  BY <1>1, ConcatSet
<1>0. ToSet(r.claims[i].support) \subseteq Ref /\ ToSet(r.claims[i].contra) \subseteq Ref
  BY <1>1 DEF ToSet
<1>3. ClaimRefAccepted(r, i, ref) /\ ref \in Ref
  BY <1>0, <1>2 DEF ClaimsAccepted
<1>4. ref = <<ref[1], ref[2]>> /\ ref[1] \in {0, 1, 2, 3} /\ ref[2] \in Nat
  BY <1>3 DEF Ref, Obs, Asn
<1>5. CASE ref[1] = Clm
  <2>1. ref[2] \in Ids(r.claims) /\ ClaimIndex(r, ref[2]) < i
        /\ r.claims[ClaimIndex(r, ref[2])].rule = r.claims[i].rule
    BY <1>3, <1>5 DEF ClaimRefAccepted, Obs, Clm, Vis, Asn
  <2> QED
    BY <1>3, <1>5, <2>1, ClaimNumbers
<1>6. CASE ref[1] # Clm
  <2>1. InRun(r, ref)
    BY <1>3, <1>4, <1>6 DEF ClaimRefAccepted, InRun, Obs, Clm, Vis, Asn
  <2>2. ref \in {Obs, Vis, Asn} \X Nat
    BY <1>4, <1>6 DEF Obs, Clm, Vis, Asn
  <2> QED
    BY <1>3, <1>6, <2>1, <2>2
<1> QED
  BY <1>5, <1>6

----
(***************************************************************************)
(* Explanations                                                            *)
(***************************************************************************)
\* The walk over an accepted run meets claims of the run only, and evidence of it.
LEMMA ExplanationHolds ==
    ASSUME NEW r \in Run, Accepted(r), NEW id \in Ids(r.findings)
    PROVE  /\ Explanation(r, id).ok
           /\ Explanation(r, id).evidence \subseteq ({Obs, Vis, Asn} \X Nat) \X BOOLEAN
           /\ \A x \in Explanation(r, id).evidence : InRun(r, x[1])
<1> DEFINE refs == (Obs..Asn) \X Nat
           State == [queue : Seq(refs), visited : SUBSET Nat, ok : BOOLEAN,
                     evidence : SUBSET (refs \X BOOLEAN)]
           Known(queue) == \A i \in DOMAIN queue : queue[i][1] = Clm => queue[i][2] \in Ids(r.claims)
           Found == {x \in ({Obs, Vis, Asn} \X Nat) \X BOOLEAN : InRun(r, x[1])}
           I == {s \in State : s.ok /\ Known(s.queue) /\ s.evidence \subseteq Found}
           queue == Each(ById(r.findings)[id].claims, LAMBDA claim : <<Clm, claim>>)
           x == [queue |-> queue, visited |-> {}, ok |-> TRUE, evidence |-> {}]
           step == Walk(r)
<1>0. ClaimsAccepted(r) /\ FindingsAccepted(r)
  BY DEF Accepted
<1>1. refs = Ref
  BY DEF Ref
<1>2. x \in I
  <2> DEFINE f == ById(r.findings)[id]
  <2>1. f \in Rows.findings /\ f \in ToSet(r.findings)
    BY RunFields, ByIdFacts
  <2>2. f.claims \in Seq(Nat)
    BY <2>1 DEF Rows
  <2>3. \A claim \in ToSet(f.claims) : claim \in Ids(r.claims)
    <3>1. PICK i \in DOMAIN r.findings : f = r.findings[i]
      BY <2>1 DEF ToSet
    <3> QED
      BY <1>0, <3>1 DEF FindingsAccepted, FindingClaimAccepted
  <2>4. queue = [i \in DOMAIN f.claims |-> <<Clm, f.claims[i]>>]
    BY DEF Each
  <2> HIDE DEF f, queue
  <2>5. \A i \in DOMAIN f.claims : queue[i] = <<Clm, f.claims[i]>> /\ f.claims[i] \in Nat
                                      /\ f.claims[i] \in Ids(r.claims)
    BY <2>2, <2>3, <2>4 DEF ToSet
  <2>6. \A i \in DOMAIN f.claims : queue[i] \in Ref
    BY <2>5 DEF Ref, Clm, Obs, Asn
  <2>7. queue \in Seq(Ref) /\ Known(queue)
    <3>1. DOMAIN queue = DOMAIN f.claims /\ queue = [i \in DOMAIN f.claims |-> queue[i]]
      BY <2>4
    <3>2. queue \in Seq(Ref)
      <4> DEFINE N == Nat
      <4>1. f.claims \in Seq(N)
        BY <2>2
      <4> HIDE DEF N
      <4> QED
        BY <2>6, <3>1, <4>1, SequenceOf
    <3>3. Known(queue)
      BY <2>5, <3>1
    <3> QED
      BY <3>2, <3>3
  <2> HIDE DEF Known
  <2> QED
    BY <1>1, <2>7
<1>3. ASSUME NEW s \in I PROVE step[s] \in I
  <2> DEFINE waiting == {i \in DOMAIN s.queue : s.queue[i][1] = Clm /\ s.queue[i][2] \notin s.visited}
             m == CHOOSE i \in waiting : \A j \in waiting : i <= j
             d == s.queue[m][2]
             c == ById(r.claims)[d]
             base(list) == ToSet(list) \ ClaimRefs(list)
             found == (base(c.support) \X {FALSE}) \cup ((base(c.contra) \ base(c.support)) \X {TRUE})
             next == [queue |-> s.queue \o c.support \o c.contra, visited |-> s.visited \cup {d},
                      ok |-> TRUE,
                      evidence |-> s.evidence \cup {y \in found : \A z \in s.evidence : y[1] # z[1]}]
  <2>1. /\ s \in State /\ s.ok /\ Known(s.queue) /\ s.evidence \subseteq Found
        /\ s.queue \in Seq(Ref) /\ s.visited \subseteq Nat
    BY <1>1
  <2>2. step[s] = IF ~s.ok \/ waiting = {} THEN s
                  ELSE IF d \notin Ids(r.claims) THEN [s EXCEPT !.ok = FALSE] ELSE next
    BY <2>1 DEF Walk
  <2>3. CASE waiting = {}
    BY <2>1, <2>2, <2>3
  <2>4. CASE waiting # {}
    <3>1. m \in waiting
      <4>1. waiting \in SUBSET Nat
        BY <2>1
      <4>2. \E i \in waiting : \A j \in waiting : i <= j
        <5> HIDE DEF waiting
        <5> QED
          BY <2>4, <4>1, SmallestOf
      <4> HIDE DEF waiting
      <4> QED
        BY <4>2
    <3>2. d \in Ids(r.claims)
      BY <2>1, <3>1
    <3>3. step[s] = next
      BY <2>1, <2>2, <2>4, <3>2
    <3> HIDE DEF d, m, waiting, step, next
    <3>4. /\ d \in DOMAIN r.claims /\ d \in Nat /\ c = r.claims[d]
          /\ c.support \in Seq(Ref) /\ c.contra \in Seq(Ref)
      BY <1>0, <3>2, ClaimNumbers
    <3> HIDE DEF c
    <3>5. \A ref \in ToSet(c.support) \cup ToSet(c.contra) :
                /\ ref[1] = Clm => ref[2] \in Ids(r.claims)
                /\ ref[1] # Clm => InRun(r, ref) /\ ref \in {Obs, Vis, Asn} \X Nat
      <4>1. \A ref \in ToSet(r.claims[d].support) \cup ToSet(r.claims[d].contra) :
                /\ ref[1] = Clm => ref[2] \in DOMAIN r.claims
                /\ ref[1] # Clm => InRun(r, ref) /\ ref \in {Obs, Vis, Asn} \X Nat
        BY <1>0, <3>4, RefsNamed
      <4>2. Ids(r.claims) = DOMAIN r.claims
        BY <1>0, ClaimNumbers
      <4> QED
        BY <3>4, <4>1, <4>2
    <3>6. s.queue \o c.support \o c.contra \in Seq(Ref) /\ Known(s.queue \o c.support \o c.contra)
      <4> DEFINE q == s.queue \o c.support \o c.contra
      <4>1. q \in Seq(Ref) /\ ToSet(q) = ToSet(s.queue) \cup ToSet(c.support) \cup ToSet(c.contra)
        <5>1. /\ s.queue \o c.support \in Seq(Ref)
              /\ ToSet(s.queue \o c.support) = ToSet(s.queue) \cup ToSet(c.support)
          BY <2>1, <3>4, ConcatSet
        <5> DEFINE p == s.queue \o c.support
        <5> HIDE DEF p
        <5>2. p \in Seq(Ref) /\ p \o c.contra \in Seq(Ref)
          BY <3>4, <5>1 DEF p
        <5>3. ToSet(p \o c.contra) = ToSet(p) \cup ToSet(c.contra)
          BY <3>4, <5>2, ConcatSet
        <5> QED
          BY <5>1, <5>2, <5>3 DEF p
      <4>2. \A ref \in ToSet(q) : ref[1] = Clm => ref[2] \in Ids(r.claims)
        <5>1. \A ref \in ToSet(s.queue) : ref[1] = Clm => ref[2] \in Ids(r.claims)
          BY <2>1 DEF ToSet
        <5> HIDE DEF q
        <5> QED
          BY <3>5, <4>1, <5>1
      <4>3. \A i \in DOMAIN q : q[i] \in ToSet(q)
        BY DEF ToSet
      <4> HIDE DEF q
      <4>4. Known(q)
        BY <4>2, <4>3
      <4> QED
        BY <4>1, <4>4 DEF q
    <3>7. found \subseteq Found
      BY <3>5 DEF ClaimRefs
    <3>8. Found \subseteq refs \X BOOLEAN
      BY DEF Obs, Vis, Asn
    <3> HIDE DEF found, Found, Known
    <3>9. /\ next.queue = s.queue \o c.support \o c.contra /\ next.ok = TRUE
          /\ next.evidence \subseteq Found /\ next \in State
      BY <1>1, <2>1, <3>4, <3>6, <3>7, <3>8 DEF next
    <3> QED
      BY <3>3, <3>6, <3>9
  <2> QED
    BY <2>3, <2>4
<1> DEFINE n == Len(r.claims) + 1
<1>4. n \in Nat
  BY <1>0, ClaimNumbers
<1>5. Explanation(r, id) = After(step, x, n)
  BY DEF Explanation
<1>6. Explanation(r, id) \in I
  <2> HIDE DEF step, x, n, I
  <2> QED
    BY <1>2, <1>3, <1>4, <1>5, AfterInvariant
<1> QED
  BY <1>6

----
(***************************************************************************)
(* The invariant is inductive.                                             *)
(***************************************************************************)
LEMMA InitInv == Init => Inv
<1> SUFFICES ASSUME Init PROVE Inv
  OBVIOUS
<1>1. /\ phase = "collected" /\ evidence \in Evidences /\ emission \in Emissions
      /\ report = <<>> /\ read = <<>> /\ edits = 0 /\ out = Nothing
  BY DEF Init
<1>2. TypeOK
  BY <1>1, ReportAssumption
     DEF TypeOK, Nothing, ExitOK, ExitData, ExitUsage, ExitInternal, ToSet
<1> QED
  BY <1>1, <1>2 DEF Inv, Nothing, AnswersAgree, ExitOK, ExitInternal

\* An answer of no run or one run is a sequence of runs.
LEMMA AtMostOne ==
    ASSUME NEW s, s = <<>> \/ \E r \in Run : s = <<r>>
    PROVE  Len(s) <= 1 /\ s \in Seq(Run)
<1>1. CASE s = <<>>
  BY <1>1
<1>2. ASSUME NEW r \in Run, s = <<r>> PROVE Len(s) <= 1 /\ s \in Seq(Run)
  BY <1>2
<1> QED
  BY <1>1, <1>2

\* Runs that were answered, read and evaluated again are runs.
LEMMA RunsTogether ==
    ASSUME NEW s \in Seq(Run), NEW t \in Seq(Run), NEW u \in Seq(Run)
    PROVE  \A r \in ToSet(s \o t \o u) : r \in Run
<1>1. (s \o t) \o u \in Seq(Run)
  OBVIOUS
<1> DEFINE q == (s \o t) \o u
<1> HIDE DEF q
<1>2. \A r \in ToSet(q) : r \in Run
  BY <1>1 DEF ToSet, q
<1> QED
  BY <1>2 DEF q

\* Evaluating a run again gives no run or one.
LEMMA ReevaluatedType ==
    ASSUME emission \in Emissions, NEW r \in Run
    PROVE  Reevaluated(r) = <<>> \/ \E q \in Run : Reevaluated(r) = <<q>>
<1>1. CASE Exact(r.version) /\ EvidenceAccepted(r)
  BY <1>1, RulesType, EvaluateRun DEF Reevaluated
<1>2. CASE ~(Exact(r.version) /\ EvidenceAccepted(r))
  BY <1>2 DEF Reevaluated
<1> QED
  BY <1>1, <1>2

\* The runs of an invariant state.
LEMMA InvRuns ==
    ASSUME Inv
    PROVE  /\ report = <<>> \/ \E r \in Run : report = <<r>> /\ Accepted(r) /\ EncodeAccepted(r)
           /\ read = <<>> \/ (read = <<file.run>> /\ file \in File)
           /\ out.report = <<>> \/ \E r \in Run : out.report = <<r>>
           /\ phase \in {"file", "read", "done"} => file.run \in Run
<1>1. report = <<>> \/ \E r \in Run : report = <<r>> /\ Accepted(r) /\ EncodeAccepted(r)
  BY ReportType DEF Inv
<1>2. out.report = <<>> \/ \E r \in Run : out.report = <<r>>
  <2>1. CASE out.command = "reevaluate"
    <3>1. file.run \in Run /\ out.report = Reevaluated(file.run)
      BY <2>1 DEF Inv, TypeOK
    <3> QED
      BY <3>1, ReevaluatedType DEF Inv
  <2>2. CASE out.command # "reevaluate"
    BY <2>2 DEF Inv
  <2> QED
    BY <2>1, <2>2
<1> QED
  BY <1>1, <1>2 DEF Inv, TypeOK, File

\* An answer that agrees with what was read keeps the invariant.
LEMMA AnswerInv ==
    ASSUME Inv, NEW command \in {"validate", "render", "json", "explain"},
           NEW exit \in {ExitOK, ExitData, ExitUsage},
           NEW explained, explained \subseteq ({Obs, Vis, Asn} \X Nat) \X BOOLEAN,
           command \in {"validate", "render"} => (exit = ExitOK) = (read # <<>>),
           command = "json" /\ exit = ExitOK => read[1].version = <<1, 0, 0>>,
           Answer(command, exit, explained)
    PROVE  Inv'
<1>1. /\ phase = "read" /\ phase' = "done"
      /\ out' = [Nothing EXCEPT !.command = command, !.exit = exit, !.evidence = explained]
      /\ UNCHANGED <<evidence, emission, report, file, edits, read>>
  BY DEF Answer
<1>2. /\ out'.command = command /\ out'.exit = exit /\ out'.evidence = explained /\ out'.report = <<>>
  BY <1>1 DEF Nothing
<1>3. \A r \in ToSet(report' \o read' \o out'.report) : r \in Run
  <2>1. report \in Seq(Run) /\ read \in Seq(Run)
    BY InvRuns, AtMostOne DEF File
  <2>2. out'.report \in Seq(Run)
    BY <1>2, AtMostOne
  <2>3. report' \in Seq(Run) /\ read' \in Seq(Run)
    BY <1>1, <2>1
  <2> QED
    BY <2>2, <2>3, RunsTogether
<1>4. TypeOK'
  BY <1>1, <1>2, <1>3 DEF Inv, TypeOK
<1>5. AnswersAgree'
  BY <1>1, <1>2 DEF AnswersAgree, ExitOK, ExitData, ExitUsage, ExitInternal
<1>6. (report = IF phase = "collected" THEN <<>> ELSE Evaluate(evidence, Rules, emission))'
  BY <1>1 DEF Inv, Rules
<1> QED
  BY <1>1, <1>2, <1>4, <1>5, <1>6 DEF Inv

\* Every step keeps the invariant.
LEMMA NextInv == Inv /\ [Next]_vars => Inv'
<1> SUFFICES ASSUME Inv, [Next]_vars PROVE Inv'
  OBVIOUS
<1> USE DEF ExitOK, ExitData, ExitUsage, ExitInternal
<1>0. Inv
  OBVIOUS
<1>1. CASE UNCHANGED vars
  BY <1>1 DEF vars, Inv, TypeOK, AnswersAgree, Rules, Reevaluated
<1>2. CASE EvaluateRules
  <2>1. /\ phase = "collected" /\ report' = Evaluate(evidence, Rules, emission)
        /\ phase' = IF report' = <<>> THEN "refused" ELSE "evaluated"
        /\ UNCHANGED <<evidence, emission, file, edits, read, out>>
    BY <1>2 DEF EvaluateRules
  <2>2. report' = <<>> \/ \E r \in Run : report' = <<r>> /\ EncodeAccepted(r)
    BY <2>1, ReportType DEF Inv
  <2>3. read = <<>> /\ out = Nothing /\ Nothing.report = <<>> /\ Nothing.command = "none"
    BY <2>1 DEF Inv, Nothing
  <2>4. Len(report') <= 1 /\ \A r \in ToSet(report' \o read' \o out'.report) : r \in Run
    <3>1. report' \in Seq(Run) /\ read' \in Seq(Run) /\ out'.report \in Seq(Run) /\ Len(report') <= 1
      BY <2>1, <2>2, <2>3, AtMostOne
    <3> QED
      BY <3>1, RunsTogether
  <2>5. TypeOK'
    BY <2>1, <2>4 DEF Inv, TypeOK
  <2>6. (report = IF phase = "collected" THEN <<>> ELSE Evaluate(evidence, Rules, emission))'
    BY <2>1 DEF Rules
  <2>7. phase' = "evaluated" => EncodeAccepted(report'[1])
    BY <2>1, <2>2
  <2> QED
    BY <2>1, <2>3, <2>5, <2>6, <2>7 DEF Inv, AnswersAgree
<1>3. CASE Write
  <2>1. /\ phase = "evaluated"
        /\ UNCHANGED <<evidence, emission, report, edits, read, out>>
        /\ phase' = "file" /\ file' = [shape |-> "CLOSED", run |-> report[1]]
    BY <1>3 DEF Write, Inv
  <2>2. report # <<>> /\ report[1] \in Run
    BY <2>1, InvRuns DEF Inv
  <2>3. file' \in File
    BY <2>1, <2>2 DEF File
  <2>4. TypeOK'
    BY <2>1, <2>3 DEF Inv, TypeOK, File
  <2>5. (report = IF phase = "collected" THEN <<>> ELSE Evaluate(evidence, Rules, emission))'
    BY <2>1 DEF Inv, Rules
  <2>6. read = <<>> /\ out = Nothing /\ Nothing.report = <<>> /\ Nothing.command = "none"
    BY <2>1 DEF Inv, Nothing
  <2> QED
    BY <2>1, <2>2, <2>3, <2>4, <2>5, <2>6 DEF Inv, AnswersAgree
<1>4. CASE SetField \/ Drop \/ Swap \/ SetVersion \/ SetShape
  <2>0. phase = "file"
    BY <1>4 DEF SetField, Drop, Swap, SetVersion, SetShape, Editable
  <2>1. /\ phase = "file" /\ edits < MaxEdits /\ edits' = edits + 1
        /\ file' \in File
        /\ UNCHANGED <<phase, evidence, emission, report, read, out>>
    BY <1>4, <2>0, EditsKeepTheFile DEF Inv
  <2>2. edits' \in 0..MaxEdits
    BY <2>1, ReportAssumption DEF Inv, TypeOK
  <2>3. TypeOK'
    BY <2>1, <2>2 DEF Inv, TypeOK, File
  <2>4. (report = IF phase = "collected" THEN <<>> ELSE Evaluate(evidence, Rules, emission))'
    BY <2>1 DEF Inv, Rules
  <2>5. read = <<>> /\ out = Nothing /\ Nothing.report = <<>> /\ Nothing.command = "none"
    BY <2>1 DEF Inv, Nothing
  <2> QED
    BY <2>1, <2>3, <2>4, <2>5 DEF Inv, AnswersAgree
<1>5. CASE Read
  <2>1. /\ phase = "file" /\ phase' = "read"
        /\ read' = Load(file, "Read")
        /\ UNCHANGED <<evidence, emission, report, file, edits, out>>
    BY <1>5 DEF Read
  <2>2. file \in File /\ out = Nothing /\ Nothing.report = <<>> /\ Nothing.command = "none" /\ read = <<>>
    BY <2>1 DEF Inv, Nothing
  <2>3. read' # <<>> => read' = <<file.run>> /\ Accepted(file.run)
    BY <2>1 DEF Load
  <2>0. read' \in Seq(Run) /\ Len(read') <= 1
    <3>1. file.run \in Run
      BY <2>2 DEF File
    <3>2. read' = <<>> \/ \E r \in Run : read' = <<r>>
      BY <2>3, <3>1
    <3> QED
      BY <3>2, AtMostOne
  <2>4. \A r \in ToSet(report' \o read' \o out'.report) : r \in Run
    <3>1. report \in Seq(Run)
      BY InvRuns, AtMostOne
    <3>2. report' \in Seq(Run)
      BY <2>1, <3>1
    <3>3. out'.report \in Seq(Run)
      BY <2>1, <2>2, AtMostOne
    <3> QED
      BY <2>0, <3>2, <3>3, RunsTogether
  <2>5. TypeOK'
    BY <2>0, <2>1, <2>2, <2>4 DEF Inv, TypeOK, File
  <2>6. (report = IF phase = "collected" THEN <<>> ELSE Evaluate(evidence, Rules, emission))'
    BY <2>1 DEF Inv, Rules
  <2>7. AnswersAgree'
    BY <2>1, <2>2 DEF AnswersAgree, Nothing
  <2> QED
    BY <2>1, <2>2, <2>3, <2>5, <2>6, <2>7 DEF Inv
<1>6. CASE Validate
  BY <1>6, AnswerInv DEF Validate, ReadExit
<1>7. CASE Render
  BY <1>7, AnswerInv DEF Render, ReadExit
<1>8. CASE RenderJSON
  <2> DEFINE exit == IF read = <<>> \/ ~Exact(read[1].version) THEN ExitData
                     ELSE IF EncodeAccepted(read[1]) THEN ExitOK ELSE ExitInternal
  <2>1. Answer("json", exit, {})
    BY <1>8 DEF RenderJSON
  <2>2. exit \in {ExitOK, ExitData}
    BY DEF Inv, EncodeAccepted
  <2>3. exit = ExitOK => read[1].version = <<1, 0, 0>>
    BY DEF EncodeAccepted, Exact
  <2> HIDE DEF exit
  <2> QED
    BY <2>1, <2>2, <2>3, AnswerInv
<1>9. CASE Explain
  <2>1. PICK id \in 0..(Len(file.run.findings) + 1) :
          IF read = <<>> THEN Answer("explain", ExitData, {})
          ELSE IF id = 0 THEN Answer("explain", ExitUsage, {})
          ELSE IF id \notin Ids(read[1].findings) THEN Answer("explain", ExitData, {})
          ELSE LET explained == Explanation(read[1], id)
               IN  Answer("explain", IF explained.ok THEN ExitOK ELSE ExitData, explained.evidence)
    BY <1>9 DEF Explain
  <2>2. CASE read = <<>> \/ id = 0 \/ id \notin Ids(read[1].findings)
    <3>1. \E exit \in {ExitData, ExitUsage} : Answer("explain", exit, {})
      BY <2>1, <2>2
    <3> QED
      BY <3>1, AnswerInv
  <2>3. CASE read # <<>> /\ id \in Ids(read[1].findings) /\ id # 0
    <3> DEFINE explained == Explanation(read[1], id)
    <3>1. read[1] \in Run /\ Accepted(read[1])
      BY <2>3, InvRuns DEF Inv, File
    <3>2. explained.ok /\ explained.evidence \subseteq ({Obs, Vis, Asn} \X Nat) \X BOOLEAN
      BY <2>3, <3>1, ExplanationHolds
    <3>3. Answer("explain", ExitOK, explained.evidence)
      BY <2>1, <2>3, <3>2
    <3> HIDE DEF explained
    <3> QED
      BY <3>2, <3>3, AnswerInv
  <2> QED
    BY <2>2, <2>3
<1>10. CASE Reevaluate
  <2>1. /\ phase = "file" /\ Load(file, "Reevaluate") # <<>> /\ phase' = "done"
        /\ out' = [Nothing EXCEPT !.command = "reevaluate", !.report = Reevaluated(file.run)]
        /\ UNCHANGED <<evidence, emission, report, file, edits, read>>
    BY <1>10 DEF Reevaluate
  <2>2. /\ out'.command = "reevaluate" /\ out'.exit = ExitOK /\ out'.evidence = {}
        /\ out'.report = Reevaluated(file.run)
    BY <2>1 DEF Nothing
  <2>3. Accepted(file.run) /\ read = <<>> /\ file.run \in Run
    BY <2>1 DEF Inv, TypeOK, Load
  <2>4. \A r \in ToSet(report' \o read' \o out'.report) : r \in Run
    <3>1. report \in Seq(Run)
      BY InvRuns, AtMostOne
    <3>2. Reevaluated(file.run) \in Seq(Run)
      BY <2>3, ReevaluatedType, AtMostOne DEF Inv
    <3>3. report' \in Seq(Run) /\ read' \in Seq(Run) /\ out'.report \in Seq(Run)
      BY <2>1, <2>2, <2>3, <3>1, <3>2
    <3> QED
      BY <3>3, RunsTogether
  <2>5. TypeOK'
    BY <2>1, <2>2, <2>3, <2>4 DEF Inv, TypeOK
  <2>6. (report = IF phase = "collected" THEN <<>> ELSE Evaluate(evidence, Rules, emission))'
    BY <2>1 DEF Inv, Rules
  <2>7. AnswersAgree'
    BY <2>1, <2>2 DEF AnswersAgree
  <2>8. out'.report = Reevaluated(file.run)'
    BY <2>1, <2>2 DEF Reevaluated, Rules
  <2> QED
    BY <2>1, <2>2, <2>3, <2>5, <2>6, <2>7, <2>8 DEF Inv
<1>11. CASE Finished
  BY <1>1, <1>11 DEF Finished
<1> QED
  BY <1>1, <1>2, <1>3, <1>4, <1>5, <1>6, <1>7, <1>8, <1>9, <1>10, <1>11 DEF Next

\* The invariant holds in every state.
LEMMA Invariance == Spec => []Inv
BY InitInv, NextInv, PTL DEF Spec

\* What a command has read is an accepted run.
LEMMA ReadRuns ==
    ASSUME Inv
    PROVE  \A r \in ToSet(read) : r \in Run /\ Accepted(r)
<1>1. read = <<>> \/ read = <<file.run>>
  BY DEF Inv
<1>2. CASE read = <<>>
  BY <1>2 DEF ToSet
<1>3. CASE read = <<file.run>>
  <2>1. file.run \in Run /\ Accepted(file.run)
    BY <1>3, InvRuns DEF Inv, File
  <2>2. ToSet(read) = {file.run}
    BY <1>3 DEF ToSet
  <2> QED
    BY <2>1, <2>2
<1> QED
  BY <1>1, <1>2, <1>3

\* Every variable keeps the shape of the Go value it stands for, whatever is evaluated
\* and however the file is edited; the report in particular is a run.
THEOREM TypeCorrect == Spec => []TypeOK
<1>1. Inv => TypeOK
  BY DEF Inv
<1> QED
  BY <1>1, Invariance, PTL

\* The commands agree about every file: what is accepted is rendered, in JSON if it is
\* of the exact version, and each of its findings is explained with evidence of the run.
THEOREM CommandsAlwaysAgree == Spec => []CommandsAgree
<1>1. Inv => CommandsAgree
  <2> SUFFICES ASSUME Inv PROVE CommandsAgree
    OBVIOUS
  <2>1. \A r \in ToSet(read) : r \in Run /\ Accepted(r)
    BY ReadRuns
  <2>2. \A r \in ToSet(read) : \A id \in Ids(r.findings) :
          /\ Explanation(r, id).ok
          /\ \A x \in Explanation(r, id).evidence : InRun(r, x[1])
    BY <2>1, ExplanationHolds
  <2> QED
    BY <2>2 DEF Inv, AnswersAgree, CommandsAgree
<1> QED
  BY <1>1, Invariance, PTL

----
(***************************************************************************)
(* Checks, branches and claims of an accepted report                       *)
(***************************************************************************)
LEMMA ChecksWellFounded ==
    ASSUME NEW r \in Run, EvidenceAccepted(r),
           NEW S \in SUBSET Ids(r.checks), S # {}
    PROVE  \E n \in S : ToSet(ById(r.checks)[n].deps) \cap S = {}
<1> DEFINE next == [id \in Ids(r.checks) |-> ToSet(ById(r.checks)[id].deps)]
<1>1. r.checks \in Seq(Rows.checks)
  BY RunFields
<1>2. DOMAIN next = Ids(r.checks) /\ IsFiniteSet(Ids(r.checks))
  BY <1>1, DistinctIds
<1>3. ASSUME NEW n \in DOMAIN next PROVE next[n] \subseteq DOMAIN next
  <2>1. ById(r.checks)[n] \in ToSet(r.checks)
    BY <1>1, ByIdFacts
  <2>2. PICK i \in DOMAIN r.checks : ById(r.checks)[n] = r.checks[i]
    BY <2>1 DEF ToSet
  <2> QED
    BY <2>2 DEF EvidenceAccepted, ChecksAccepted
<1>4. NoCycle(next)
  BY DEF EvidenceAccepted, ChecksAccepted
<1>5. \E n \in S : next[n] \cap S = {}
  <2> HIDE DEF next
  <2> QED
    BY <1>2, <1>3, <1>4, NoCycleFound
<1> QED
  BY <1>5

\* In an accepted branch forest every set of branches has one whose parent is outside.
LEMMA BranchesWellFounded ==
    ASSUME NEW r \in Run, EvidenceAccepted(r), InOrder(r),
           NEW S \in SUBSET Ids(r.branches), S # {}
    PROVE  \E n \in S : {ById(r.branches)[n].parent} \cap S = {}
<1> DEFINE s == r.branches
           P == {i \in DOMAIN s : s[i].id \in S}
<1>1. s \in Seq(Rows.branches) /\ DOMAIN s \subseteq Nat /\ Distinct(s)
  BY RunFields DEF EvidenceAccepted, PathAccepted
<1>2. ParentsFirst(s)
  <2>1. CanonicalBranches(s).ok /\ CanonicalBranches(s).branches = s
    BY InOrderFacts
  <2> QED
    BY <1>1, <2>1, RowsHaveIds, CanonicalBranchesPlaced
<1>3. P # {} /\ P \in SUBSET Nat
  BY <1>1 DEF Ids
<1>4. PICK m \in P : \A i \in P : m <= i
  <2> HIDE DEF P
  <2> QED
    BY <1>3, SmallestOf
<1> DEFINE n == s[m].id
<1>5. m \in DOMAIN s /\ n \in S
  OBVIOUS
<1>6. ById(s)[n] = s[m]
  <2>1. s[m] \in ToSet(s)
    BY <1>5 DEF ToSet
  <2> QED
    BY <1>1, <2>1, ByIdFacts
<1>7. s[m].parent \notin S
  <2> SUFFICES ASSUME s[m].parent \in S PROVE FALSE
    OBVIOUS
  <2>1. s[m].parent # 0
    <3>1. PICK i \in DOMAIN s : s[m].parent = s[i].id
      BY DEF Ids
    <3>2. s[i] \in Rows.branches
      BY <1>1, ElementOf
    <3> QED
      BY <3>1, <3>2 DEF Rows, Id
  <2>2. PICK j \in DOMAIN s : j < m /\ s[j].id = s[m].parent
    BY <1>2, <1>5, <2>1 DEF ParentsFirst
  <2>3. j \in P /\ j \in Nat /\ m \in Nat
    BY <1>1, <1>5, <2>2
  <2> QED
    BY <1>4, <2>2, <2>3
<1> QED
  BY <1>5, <1>6, <1>7

\* In accepted claims every set of claims has one that cites none of them.
LEMMA ClaimsWellFounded ==
    ASSUME NEW r \in Run, ClaimsAccepted(r),
           NEW S \in SUBSET Ids(r.claims), S # {}
    PROVE  \E n \in S : {ref[2] : ref \in ClaimRefs(ById(r.claims)[n].support \o ById(r.claims)[n].contra)}
                           \cap S = {}
<1>1. S \in SUBSET Nat
  BY ClaimNumbers
<1>2. PICK m \in S : \A i \in S : m <= i
  BY <1>1, SmallestOf
<1> DEFINE c == r.claims[m]
<1>3. m \in DOMAIN r.claims /\ ById(r.claims)[m] = c /\ c.support \in Seq(Ref) /\ c.contra \in Seq(Ref)
  BY ClaimNumbers
<1>4. ASSUME NEW ref \in ClaimRefs(c.support \o c.contra), ref[2] \in S PROVE FALSE
  <2>1. ToSet(c.support \o c.contra) = ToSet(c.support) \cup ToSet(c.contra)
    BY <1>3, ConcatSet
  <2>2. ref \in ToSet(c.support) \cup ToSet(c.contra) /\ ref[1] = Clm
    BY <2>1 DEF ClaimRefs
  <2>3. ref[2] < m
    BY <1>3, <2>2, RefsNamed
  <2>4. m <= ref[2] /\ ref[2] \in Nat /\ m \in Nat
    BY <1>1, <1>2, <1>4
  <2> QED
    BY <2>3, <2>4
<1> QED
  BY <1>3, <1>4

\* The checks of an accepted report can be run in some order, its branches have roots,
\* and its claims neither support nor contradict themselves through others.
THEOREM AcceptedIsAlwaysAcyclic == Spec => []AcceptedIsAcyclic
<1>1. Inv => AcceptedIsAcyclic
  <2> SUFFICES ASSUME Inv PROVE AcceptedIsAcyclic
    OBVIOUS
  <2>1. \A r \in ToSet(read) : r \in Run /\ Accepted(r)
    BY ReadRuns
  <2> SUFFICES ASSUME NEW r \in ToSet(read)
               PROVE  /\ WellFounded([id \in Ids(r.checks) |-> ToSet(ById(r.checks)[id].deps)])
                      /\ WellFounded([id \in Ids(r.branches) |-> {ById(r.branches)[id].parent}])
                      /\ WellFounded([id \in Ids(r.claims) |-> {ref[2] : ref \in
                            ClaimRefs(ById(r.claims)[id].support \o ById(r.claims)[id].contra)}])
    BY DEF AcceptedIsAcyclic
  <2>2. r \in Run /\ EvidenceAccepted(r) /\ ClaimsAccepted(r) /\ InOrder(r)
    BY <2>1 DEF Accepted
  <2>3. WellFounded([id \in Ids(r.checks) |-> ToSet(ById(r.checks)[id].deps)])
    <3> DEFINE next == [id \in Ids(r.checks) |-> ToSet(ById(r.checks)[id].deps)]
    <3>1. ASSUME NEW S \in (SUBSET DOMAIN next) \ {{}} PROVE \E n \in S : next[n] \cap S = {}
      <4>1. S \in SUBSET Ids(r.checks) /\ S # {}
        OBVIOUS
      <4>2. PICK n \in S : ToSet(ById(r.checks)[n].deps) \cap S = {}
        BY <2>2, <4>1, ChecksWellFounded
      <4>3. next[n] = ToSet(ById(r.checks)[n].deps)
        BY <4>1
      <4> QED
        BY <4>2, <4>3
    <3> HIDE DEF next
    <3>2. WellFounded(next)
      BY <3>1 DEF WellFounded
    <3> QED
      BY <3>2 DEF next
  <2>4. WellFounded([id \in Ids(r.branches) |-> {ById(r.branches)[id].parent}])
    <3> DEFINE next == [id \in Ids(r.branches) |-> {ById(r.branches)[id].parent}]
    <3>1. ASSUME NEW S \in (SUBSET DOMAIN next) \ {{}} PROVE \E n \in S : next[n] \cap S = {}
      <4>1. S \in SUBSET Ids(r.branches) /\ S # {}
        OBVIOUS
      <4>2. PICK n \in S : {ById(r.branches)[n].parent} \cap S = {}
        BY <2>2, <4>1, BranchesWellFounded
      <4>3. next[n] = {ById(r.branches)[n].parent}
        BY <4>1
      <4> QED
        BY <4>2, <4>3
    <3> HIDE DEF next
    <3>2. WellFounded(next)
      BY <3>1 DEF WellFounded
    <3> QED
      BY <3>2 DEF next
  <2>5. WellFounded([id \in Ids(r.claims) |->
           {ref[2] : ref \in ClaimRefs(ById(r.claims)[id].support \o ById(r.claims)[id].contra)}])
    <3> DEFINE next == [id \in Ids(r.claims)
                   |-> {ref[2] : ref \in ClaimRefs(ById(r.claims)[id].support \o ById(r.claims)[id].contra)}]
    <3>1. ASSUME NEW S \in (SUBSET DOMAIN next) \ {{}} PROVE \E n \in S : next[n] \cap S = {}
      <4>1. S \in SUBSET Ids(r.claims) /\ S # {}
        OBVIOUS
      <4>2. PICK n \in S : {ref[2] : ref \in ClaimRefs(ById(r.claims)[n].support
                     \o ById(r.claims)[n].contra)} \cap S = {}
        BY <2>2, <4>1, ClaimsWellFounded
      <4>3. next[n] = {ref[2] : ref \in ClaimRefs(ById(r.claims)[n].support \o ById(r.claims)[n].contra)}
        BY <4>1
      <4> QED
        BY <4>2, <4>3
    <3> HIDE DEF next
    <3>2. WellFounded(next)
      BY <3>1 DEF WellFounded
    <3> QED
      BY <3>2 DEF next
  <2> QED
    BY <2>3, <2>4, <2>5
<1> QED
  BY <1>1, Invariance, PTL

\* An accepted claim that no listener matches cites an empty inventory of that bucket
\* around the target port, taken at its vantage, and nothing in the run contradicts it.
LEMMA AbsenceHolds ==
    ASSUME NEW r \in Run, EvidenceAccepted(r), ClaimsAccepted(r),
           NEW c \in ToSet(r.claims), c.statement = "ABSENT"
    PROVE  LET here(o) == o.bucket = c.about.bucket /\ o.vantage = c.about.vantage
               cited == {o \in ToSet(r.observations) : <<Obs, o.id>> \in ToSet(c.support)}
           IN  \E empty \in cited :
                 /\ empty.kind = "RESULT" /\ here(empty) /\ empty.count = 0
                 /\ empty.ports[1] <= r.port /\ r.port <= empty.ports[2]
                 /\ \A o \in ToSet(r.observations) :
                      ~(o.kind = "ENTRY" /\ here(o) /\ o.ports[1] = r.port /\ o.at = empty.at)
<1> DEFINE view == View(r)
           cites == {i \in DOMAIN c.support : c.support[i][1] = Vis /\ c.support[i][2] \in Ids(r.visibility)}
           v == ById(r.visibility)[c.support[CHOOSE i \in cites : TRUE][2]]
<1>1. PICK k \in DOMAIN r.claims : c = r.claims[k]
  BY DEF ToSet
<1>2. AbsenceClaimAccepted(r, c)
  BY <1>1 DEF ClaimsAccepted
<1>3. /\ c.about.port = r.port /\ Cardinality(cites) = 1
      /\ c.about.bucket = v.bucket /\ c.about.vantage = v.vantage
      /\ AbsenceIssue(view, v, r.port) = "NONE"
      /\ \A id \in ToSet(v.basis) : <<Obs, id>> \in ToSet(c.support)
  BY <1>2 DEF AbsenceClaimAccepted
<1>4. AbsenceValid(view, v, r.port)
  <2> HIDE DEF view, v
  <2> QED
    BY <1>3 DEF AbsenceIssue
<1>5. cites # {}
  <2> HIDE DEF cites
  <2> QED
    BY <1>3, FS_EmptySet
<1>6. c.support[CHOOSE i \in cites : TRUE][2] \in Ids(r.visibility)
  BY <1>5
<1>7. v \in Rows.visibility
  BY <1>6, RunFields, ByIdFacts
<1>8. v.ports \in Nat \X Nat /\ v.basis \in Seq(Nat) /\ v.at \in Int
      /\ v.ports[1] \in Nat /\ v.ports[2] \in Nat /\ r.port \in Nat /\ r.window \in Int
  <2> HIDE DEF v
  <2>1. v.ports \in Nat \X Nat /\ v.basis \in Seq(Nat) /\ v.at \in Int
    BY <1>7 DEF Rows
  <2> QED
    BY <2>1 DEF Run
<1>9. /\ view.observations = ById(r.observations) /\ view.window = r.window
      /\ DOMAIN view.observations = Ids(r.observations)
      /\ \A id \in Ids(r.observations) : /\ view.observations[id] \in ToSet(r.observations)
                                         /\ view.observations[id] \in Rows.observations
                                         /\ view.observations[id].id = id
      /\ \A o \in ToSet(r.observations) : o.id \in Ids(r.observations) /\ view.observations[o.id] = o
  BY RunFields, ByIdFacts DEF View, EvidenceAccepted
<1> HIDE DEF view, v, cites
<1>10. PICK i \in DOMAIN v.basis : view.observations[v.basis[i]].kind = "RESULT"
  <2>1. OfKind("RESULT", Basis(view, v)) # {}
    BY <1>4 DEF AbsenceValid, VisibilityComplete
  <2> QED
    BY <2>1 DEF OfKind, Basis
<1> DEFINE empty == view.observations[v.basis[i]]
<1>11. v.basis[i] \in Ids(r.observations) /\ empty \in Basis(view, v)
  BY <1>4, <1>9 DEF AbsenceValid, VisibilityComplete, Basis
<1>12. /\ empty \in ToSet(r.observations) /\ empty \in Rows.observations /\ empty.id = v.basis[i]
       /\ empty.kind = "RESULT"
  BY <1>9, <1>10, <1>11
<1>13. empty.at \in Int /\ empty.ports[1] \in Nat /\ empty.ports[2] \in Nat
  <2> HIDE DEF empty
  <2> QED
    BY <1>12 DEF Rows
<1>14. <<Obs, empty.id>> \in ToSet(c.support)
  BY <1>3, <1>12 DEF ToSet
<1>15. empty.count = 0 /\ empty.vantage = v.vantage /\ Coherent(view, empty, v) /\ Fits(empty, v)
  BY <1>4, <1>11, <1>12 DEF AbsenceValid, VisibilityComplete, OfKind
<1> HIDE DEF empty
<1>16. /\ empty.bucket = v.bucket /\ empty.ports[1] <= r.port /\ r.port <= empty.ports[2]
  <2>1. ResultMatches(empty, v)
    BY <1>12, <1>15 DEF Fits
  <2>2. v.ports[1] <= r.port /\ r.port <= v.ports[2]
    BY <1>4 DEF AbsenceValid
  <2> QED
    BY <1>8, <1>13, <2>1, <2>2 DEF ResultMatches
<1>17. ASSUME NEW o \in ToSet(r.observations),
              o.kind = "ENTRY", o.bucket = v.bucket, o.vantage = v.vantage, o.ports[1] = r.port, o.at = empty.at
       PROVE  FALSE
  <2>1. Coherent(view, o, v)
    BY <1>15, <1>17 DEF Coherent
  <2>2. ~Contradicts(o, v, r.port)
    BY <1>4, <1>9, <1>17, <2>1 DEF AbsenceValid
  <2> QED
    BY <1>17, <2>2 DEF Contradicts
<1> QED
  BY <1>3, <1>12, <1>14, <1>15, <1>16, <1>17

\* Whoever reads that no listener matches may rest on the run: the proof is in it.
THEOREM AbsenceIsAlwaysProved == Spec => []AbsenceIsProved
<1>1. Inv => AbsenceIsProved
  <2> SUFFICES ASSUME Inv PROVE AbsenceIsProved
    OBVIOUS
  <2>1. \A r \in ToSet(read) : r \in Run /\ EvidenceAccepted(r) /\ ClaimsAccepted(r)
    BY ReadRuns DEF Accepted
  <2> QED
    BY <2>1, AbsenceHolds DEF AbsenceIsProved
<1> QED
  BY <1>1, Invariance, PTL

----
(***************************************************************************)
(* The ground of claims                                                    *)
(***************************************************************************)
Closed(r, S) == S \subseteq Ids(r.claims) /\ Supports(r, S) \subseteq S

\* What a claim of S cites in its support is among what S cites.
LEMMA SupportsOf ==
    ASSUME NEW r, NEW S, NEW d \in S, NEW ref \in ClaimRefs(ById(r.claims)[d].support)
    PROVE  ref[2] \in Supports(r, S)
BY DEF Supports

\* A claim that reaches a base does so within every closed set it is in.
LEMMA BaseIsReached ==
    ASSUME NEW r \in Run, ClaimsAccepted(r), NEW i \in DOMAIN r.claims, ReachesBase(r, i),
           NEW S, Closed(r, S), i \in S
    PROVE  \E d \in S : \E ref \in ToSet(r.claims[d].support) : ref[1] # Clm
<1> DEFINE claims == DOMAIN r.claims
           State == [met : SUBSET claims, done : SUBSET claims, answer : {"none", "base", "cycle"}]
           Based == \E d \in S : \E ref \in ToSet(r.claims[d].support) : ref[1] # Clm
           I == {s \in State : s.done \subseteq s.met /\ s.met \subseteq S /\ (s.answer = "base" => Based)}
           x == [met |-> {i}, done |-> {}, answer |-> "none"]
           step == Justify(r)
<1>1. x \in I
  OBVIOUS
<1>2. ASSUME NEW s \in I PROVE step[s] \in I
  <2> DEFINE n == CHOOSE n \in s.met \ s.done : TRUE
             refs == r.claims[n].support
             cited == {ClaimIndex(r, ref[2]) : ref \in ClaimRefs(refs)}
             next == [met |-> s.met \cup cited, done |-> s.done \cup {n},
                      answer |-> IF n \in cited THEN "cycle"
                                 ELSE IF ClaimRefs(refs) # ToSet(refs) THEN "base" ELSE "none"]
  <2>1. step[s] = IF s.answer # "none" \/ s.met = s.done THEN s ELSE next
    BY DEF Justify
  <2>2. CASE s.answer # "none" \/ s.met = s.done
    BY <2>1, <2>2
  <2>3. CASE ~(s.answer # "none" \/ s.met = s.done)
    <3>1. n \in s.met
      BY <2>3
    <3>2. n \in claims /\ n \in S
      BY <3>1
    <3> HIDE DEF n
    <3>3. ASSUME NEW ref \in ClaimRefs(refs) PROVE ClaimIndex(r, ref[2]) \in claims
                     /\ ClaimIndex(r, ref[2]) \in S
      <4>1. ref \in ToSet(r.claims[n].support) /\ ref[1] = Clm
        BY DEF ClaimRefs
      <4>2. ref[2] \in claims
        BY <3>2, <4>1, RefsNamed
      <4>3. ClaimIndex(r, ref[2]) = ref[2] /\ ById(r.claims)[n] = r.claims[n]
        BY <3>2, <4>2, ClaimNumbers
      <4>4. ref[2] \in Supports(r, S)
        BY <3>2, <4>3, SupportsOf
      <4> QED
        BY <4>2, <4>3, <4>4 DEF Closed
    <3>4. cited \subseteq claims /\ cited \subseteq S
      BY <3>3
    <3>5. ClaimRefs(refs) # ToSet(refs) => Based
      BY <3>2 DEF ClaimRefs
    <3>6. next \in State /\ next.done \subseteq next.met /\ next.met \subseteq S
              /\ (next.answer = "base" => Based)
      <4> HIDE DEF cited, Based, refs
      <4> QED
        BY <3>1, <3>2, <3>4, <3>5
    <3>7. step[s] = next
      BY <2>1, <2>3
    <3> HIDE DEF next, step, Based
    <3> QED
      BY <3>6, <3>7
  <2> QED
    BY <2>2, <2>3
<1>3. Len(r.claims) \in Nat
  BY ClaimNumbers
<1>4. After(step, x, Len(r.claims)) \in I
  <2> DEFINE m == Len(r.claims)
  <2>1. m \in Nat
    BY <1>3
  <2> HIDE DEF step, x, I, m
  <2>2. After(step, x, m) \in I
    BY <1>1, <1>2, <2>1, AfterInvariant
  <2> QED
    BY <2>2 DEF m
<1>5. After(step, x, Len(r.claims)).answer = "base"
  BY DEF ReachesBase
<1> HIDE DEF step, x
<1> QED
  BY <1>4, <1>5

\* The claims of an accepted run name claims of the run only.
LEMMA ClaimsClosed ==
    ASSUME NEW r \in Run, ClaimsAccepted(r), NEW S \in SUBSET Ids(r.claims),
           \A d \in S : \A ref \in ClaimRefs(ById(r.claims)[d].support) : ref[2] \in DOMAIN r.claims => ref[2] \in S
    PROVE  Closed(r, S)
<1> SUFFICES ASSUME NEW d \in S, NEW ref \in ClaimRefs(ById(r.claims)[d].support)
             PROVE  ref[2] \in S
  BY DEF Closed, Supports
<1>1. d \in DOMAIN r.claims /\ ById(r.claims)[d] = r.claims[d]
  BY ClaimNumbers
<1>2. ref \in ToSet(r.claims[d].support) /\ ref[1] = Clm
  BY <1>1 DEF ClaimRefs
<1> QED
  BY <1>1, <1>2, RefsNamed

\* The ancestry of a claim is the least closed set that holds it.
LEMMA AncestryFacts ==
    ASSUME NEW r, Closed(r, Ids(r.claims)), NEW id \in Ids(r.claims)
    PROVE  /\ Closed(r, Ancestry(r, id)) /\ id \in Ancestry(r, id)
           /\ \A S : Closed(r, S) /\ id \in S => Ancestry(r, id) \subseteq S
<1> DEFINE A == Ancestry(r, id)
<1>1. A \subseteq Ids(r.claims) /\ id \in A
  BY DEF Ancestry
<1>2. ASSUME NEW S, Closed(r, S), id \in S PROVE A \subseteq S
  BY <1>2 DEF Ancestry, Closed
<1>3. ASSUME NEW S \in SUBSET Ids(r.claims), NEW T \in SUBSET S PROVE Supports(r, T) \subseteq Supports(r, S)
  BY DEF Supports
<1>4. Supports(r, A) \subseteq A
  <2> SUFFICES ASSUME NEW d \in Supports(r, A) PROVE d \in A
    OBVIOUS
  <2>1. d \in Ids(r.claims)
    BY <1>1, <1>3 DEF Closed
  <2>2. ASSUME NEW S \in SUBSET Ids(r.claims), id \in S, Supports(r, S) \subseteq S PROVE d \in S
    <3>1. A \subseteq S
      BY <1>2, <2>2 DEF Closed
    <3> QED
      BY <1>3, <2>2, <3>1
  <2> QED
    BY <2>1, <2>2 DEF Ancestry
<1> QED
  BY <1>1, <1>2, <1>4 DEF Closed

\* The ancestry of an accepted claim stays in its rule and reaches the evidence.
LEMMA GroundHolds ==
    ASSUME NEW r \in Run, ClaimsAccepted(r), NEW c \in ToSet(r.claims)
    PROVE  /\ \A id \in Ancestry(r, c.id) : ById(r.claims)[id].rule = c.rule
           /\ c.support # <<>> => \E id \in Ancestry(r, c.id) : \E ref \in ToSet(ById(r.claims)[id].support) :
                InRun(r, ref)
<1>1. PICK n \in DOMAIN r.claims : c = r.claims[n]
  BY DEF ToSet
<1>2. c.id = n /\ n \in Ids(r.claims) /\ ById(r.claims)[n] = c
  BY <1>1, ClaimNumbers
<1> DEFINE A == Ancestry(r, n)
<1>3. Closed(r, Ids(r.claims))
  BY ClaimsClosed, ClaimNumbers
<1>4. /\ Closed(r, A) /\ n \in A /\ A \subseteq Ids(r.claims)
      /\ \A S : Closed(r, S) /\ n \in S => A \subseteq S
  BY <1>2, <1>3, AncestryFacts DEF Closed
<1>5. \A id \in A : id \in DOMAIN r.claims /\ ById(r.claims)[id] = r.claims[id]
  BY <1>4, ClaimNumbers
<1> HIDE DEF A
<1>6. \A id \in A : ById(r.claims)[id].rule = c.rule
  <2> DEFINE S == {d \in Ids(r.claims) : ById(r.claims)[d].rule = c.rule}
  <2>1. ASSUME NEW d \in S, NEW ref \in ClaimRefs(ById(r.claims)[d].support), ref[2] \in DOMAIN r.claims
        PROVE  ref[2] \in S
    <3>1. d \in DOMAIN r.claims /\ ById(r.claims)[d] = r.claims[d] /\ ById(r.claims)[d].rule = c.rule
      BY ClaimNumbers
    <3>2. ref \in ToSet(r.claims[d].support) /\ ref[1] = Clm
      BY <3>1 DEF ClaimRefs
    <3>3. r.claims[ref[2]].rule = c.rule
      BY <3>1, <3>2, RefsNamed
    <3>4. ref[2] \in Ids(r.claims) /\ ById(r.claims)[ref[2]] = r.claims[ref[2]]
      BY <2>1, ClaimNumbers
    <3> QED
      BY <3>3, <3>4
  <2>2. S \in SUBSET Ids(r.claims) /\ n \in S
    BY <1>2
  <2>3. \A d \in S : ById(r.claims)[d].rule = c.rule
    OBVIOUS
  <2> HIDE DEF S
  <2>4. Closed(r, S)
    BY <2>1, <2>2, ClaimsClosed
  <2> QED
    BY <1>4, <2>2, <2>3, <2>4
<1>7. ASSUME c.support # <<>>
      PROVE  \E id \in A : \E ref \in ToSet(ById(r.claims)[id].support) : InRun(r, ref)
  <2>1. \E d \in A : \E ref \in ToSet(r.claims[d].support) : ref[1] # Clm
    <3>1. CASE \E ref \in ToSet(c.support) : ref[1] # Clm
      BY <1>1, <1>4, <3>1
    <3>2. CASE \A ref \in ToSet(c.support) : ref[1] = Clm
      <4>1. ReachesBase(r, n)
        BY <1>1, <1>7, <3>2 DEF ClaimsAccepted, JustificationAccepted
      <4> QED
        BY <1>1, <1>4, <4>1, BaseIsReached
    <3> QED
      BY <3>1, <3>2
  <2>2. PICK d \in A : \E ref \in ToSet(r.claims[d].support) : ref[1] # Clm
    BY <2>1
  <2>3. PICK ref \in ToSet(r.claims[d].support) : ref[1] # Clm
    BY <2>2
  <2>4. InRun(r, ref)
    BY <1>5, <2>3, RefsNamed
  <2> QED
    BY <1>5, <2>3, <2>4
<1> QED
  BY <1>2, <1>6, <1>7 DEF A

\* No accepted claim hangs in the air, or on another rule's claims: what it rests on is
\* followed to evidence of the run whatever claims the file was edited to hold.
THEOREM AcceptedIsAlwaysGrounded == Spec => []AcceptedIsGrounded
<1>1. Inv => AcceptedIsGrounded
  <2> SUFFICES ASSUME Inv PROVE AcceptedIsGrounded
    OBVIOUS
  <2>1. \A r \in ToSet(read) : r \in Run /\ ClaimsAccepted(r)
    BY ReadRuns DEF Accepted
  <2> QED
    BY <2>1, GroundHolds DEF AcceptedIsGrounded
<1> QED
  BY <1>1, Invariance, PTL

----
(***************************************************************************)
(* One evidence, one report                                                *)
(***************************************************************************)
LEMMA ReverseFacts ==
    ASSUME NEW S, NEW s \in Seq(S)
    PROVE  Reverse(s) \in Seq(S) /\ SameCounts(s, Reverse(s)) /\ ToSet(s) = ToSet(Reverse(s))
<1> DEFINE n == Len(s)
           p == [i \in 1..n |-> (n - i) + 1]
<1>1. n \in Nat /\ DOMAIN s = 1..n
  OBVIOUS
<1> HIDE DEF n
<1>2. p \in Bijection(1..n, 1..n)
  <2>1. p \in [1..n -> 1..n]
    BY <1>1
  <2>2. \A i, j \in 1..n : p[i] = p[j] => i = j
    BY <1>1
  <2>3. \A j \in 1..n : \E i \in 1..n : p[i] = j
    <3> SUFFICES ASSUME NEW j \in 1..n PROVE \E i \in 1..n : p[i] = j
      OBVIOUS
    <3>1. (n - j) + 1 \in 1..n /\ p[(n - j) + 1] = j
      BY <1>1
    <3> QED
      BY <3>1
  <2> HIDE DEF p
  <2> QED
    BY <2>1, <2>2, <2>3 DEF Bijection, Injection, Surjection, IsInjective
<1>3. Reverse(s) = [i \in DOMAIN s |-> s[p[i]]]
  BY <1>1 DEF Reverse, n
<1>4. Reverse(s) \in Seq(S)
  <2>1. \A i \in 1..n : p[i] \in 1..n
    BY <1>1
  <2>2. \A i \in 1..n : s[p[i]] \in S
    BY <1>1, <2>1
  <2> HIDE DEF p
  <2> QED
    BY <1>1, <1>3, <2>2
<1>5. \A x : Count(Reverse(s), x) = Count(s, x)
  <2> HIDE DEF p
  <2> QED
    BY <1>1, <1>2, <1>3, CountMoved
<1>6. SameCounts(s, Reverse(s))
  BY <1>5 DEF SameCounts
<1> QED
  BY <1>4, <1>6, SameCountsFacts

\* Reversed rows are the same rows, and are sorted alike.
LEMMA ReverseRows ==
    ASSUME NEW S, HasIds(S), NEW s \in Seq(S), Distinct(s)
    PROVE  /\ Reverse(s) \in Seq(S) /\ Distinct(Reverse(s)) /\ ToSet(s) = ToSet(Reverse(s))
           /\ SortedById(s) = SortedById(Reverse(s))
<1>1. Reverse(s) \in Seq(S) /\ ToSet(s) = ToSet(Reverse(s))
  BY ReverseFacts
<1>2. Distinct(Reverse(s))
  <2>1. Ids(Reverse(s)) = Ids(s)
    <3> DEFINE t == Reverse(s)
    <3>1. \A x : x \in ToSet(s) <=> x \in ToSet(t)
      BY <1>1
    <3> HIDE DEF t
    <3>2. Ids(t) = {x.id : x \in ToSet(t)} /\ Ids(s) = {x.id : x \in ToSet(s)}
      BY DEF Ids, ToSet
    <3>3. ToSet(t) = ToSet(s)
      BY <3>1
    <3> QED
      BY <3>2, <3>3 DEF t
  <2>2. Len(Reverse(s)) = Len(s)
    BY DEF Reverse
  <2> QED
    BY <2>1, <2>2 DEF Distinct
<1> QED
  BY <1>1, <1>2, SortedByIdSame

\* Runs whose evidence is sorted alike have equal canonical evidence.
LEMMA SortedAlike ==
    ASSUME NEW r, NEW s, DOMAIN r = RunNames, DOMAIN s = RunNames,
           r.version = s.version, r.port = s.port, r.window = s.window,
           SortedById(r.entities) = SortedById(s.entities), SortedById(r.vantages) = SortedById(s.vantages),
           SortedById(r.assertions) = SortedById(s.assertions), SortedById(r.edges) = SortedById(s.edges),
           SortedById(r.checks) = SortedById(s.checks), SortedById(r.executions) = SortedById(s.executions),
           SortedById(r.observations) = SortedById(s.observations),
           SortedById(r.visibility) = SortedById(s.visibility)
    PROVE  \A name \in EvidenceNames : Canonical(r)[name] = Canonical(s)[name]
<1> DEFINE c == Canonical(r)
           d == Canonical(s)
<1>0. Shaped(c, CanonicalEvidence(r), r) /\ Shaped(d, CanonicalEvidence(s), s)
  BY CanonicalFields
<1> HIDE DEF c, d
<1>1. /\ c.version = d.version /\ c.port = d.port /\ c.window = d.window
      /\ c.entities = d.entities /\ c.vantages = d.vantages /\ c.assertions = d.assertions
      /\ c.observations = d.observations
  <2>1. ASSUME NEW a, NEW e, NEW q, Shaped(a, e, q)
        PROVE  /\ a.version = q.version /\ a.port = q.port /\ a.window = q.window
               /\ a.entities = SortedById(q.entities) /\ a.vantages = SortedById(q.vantages)
               /\ a.assertions = SortedById(q.assertions)
               /\ a.observations = SortedById(q.observations)
    BY <2>1, Zenon DEF Shaped
  <2> QED
    BY <1>0, <2>1
<1>2. c.edges = d.edges
  <2> DEFINE E(q) == [i \in DOMAIN q |-> [q[i] EXCEPT !.refs = SortedRefs(@)]]
  <2>1. c.edges = E(SortedById(r.edges)) /\ d.edges = E(SortedById(s.edges))
    BY <1>0 DEF Shaped
  <2> HIDE DEF E
  <2> QED
    BY <2>1
<1>3. c.checks = d.checks
  <2> DEFINE E(q) == [i \in DOMAIN q |-> [q[i] EXCEPT !.deps = Sorted(@)]]
  <2>1. c.checks = E(SortedById(r.checks)) /\ d.checks = E(SortedById(s.checks))
    BY <1>0 DEF Shaped
  <2> HIDE DEF E
  <2> QED
    BY <2>1
<1>4. c.executions = d.executions
  <2> DEFINE E(q) == [i \in DOMAIN q |-> [q[i] EXCEPT !.observations = Sorted(@), !.visibility = Sorted(@)]]
  <2>1. c.executions = E(SortedById(r.executions)) /\ d.executions = E(SortedById(s.executions))
    BY <1>0 DEF Shaped
  <2> HIDE DEF E
  <2> QED
    BY <2>1
<1>5. c.visibility = d.visibility
  <2> DEFINE E(q) == [i \in DOMAIN q |-> [q[i] EXCEPT !.basis = Sorted(@)]]
  <2>1. c.visibility = E(SortedById(r.visibility)) /\ d.visibility = E(SortedById(s.visibility))
    BY <1>0 DEF Shaped
  <2> HIDE DEF E
  <2> QED
    BY <2>1
<1> QED
  BY <1>1, <1>2, <1>3, <1>4, <1>5 DEF EvidenceNames, RunNames, c, d

\* Evidence collected in another order is the same evidence.
LEMMA BackwardsIsSame ==
    ASSUME NEW e \in Run, EvidenceAccepted(e)
    PROVE  /\ Backwards(e) \in Run /\ SameEvidence(Backwards(e), e)
           /\ Distinct(e.branches) /\ Distinct(Backwards(e).branches)
<1> DEFINE f == Backwards(e)
<1>1. /\ Distinct(e.entities) /\ Distinct(e.vantages) /\ Distinct(e.assertions) /\ Distinct(e.edges)
      /\ Distinct(e.branches) /\ Distinct(e.checks) /\ Distinct(e.executions)
      /\ Distinct(e.observations) /\ Distinct(e.visibility)
  BY DEF EvidenceAccepted, PathAccepted, ChecksAccepted
<1>2. /\ DOMAIN f = RunNames /\ DOMAIN e = RunNames /\ f = [x \in RunNames |-> f[x]]
      /\ f.version = e.version /\ f.port = e.port /\ f.window = e.window /\ f.rules = e.rules
      /\ f.claims = e.claims /\ f.findings = e.findings
      /\ f.entities = Reverse(e.entities) /\ f.vantages = Reverse(e.vantages)
      /\ f.assertions = Reverse(e.assertions) /\ f.edges = Reverse(e.edges)
      /\ f.branches = Reverse(e.branches) /\ f.checks = Reverse(e.checks)
      /\ f.executions = Reverse(e.executions) /\ f.observations = Reverse(e.observations)
      /\ f.visibility = Reverse(e.visibility)
  BY RunFields DEF Backwards, RunNames
<1> HIDE DEF f
<1>3. /\ e.entities \in Seq(Rows.entities) /\ e.vantages \in Seq(Rows.vantages)
      /\ e.assertions \in Seq(Rows.assertions) /\ e.edges \in Seq(Rows.edges)
      /\ e.branches \in Seq(Rows.branches) /\ e.checks \in Seq(Rows.checks)
      /\ e.executions \in Seq(Rows.executions) /\ e.observations \in Seq(Rows.observations)
      /\ e.visibility \in Seq(Rows.visibility)
  BY RunFields
<1>4. /\ f.entities \in Seq(Rows.entities) /\ SortedById(e.entities) = SortedById(f.entities)
      /\ f.vantages \in Seq(Rows.vantages) /\ SortedById(e.vantages) = SortedById(f.vantages)
      /\ f.assertions \in Seq(Rows.assertions) /\ SortedById(e.assertions) = SortedById(f.assertions)
  BY <1>1, <1>2, <1>3, RowsHaveIds, ReverseRows
<1>5. /\ f.edges \in Seq(Rows.edges) /\ SortedById(e.edges) = SortedById(f.edges)
      /\ f.checks \in Seq(Rows.checks) /\ SortedById(e.checks) = SortedById(f.checks)
      /\ f.executions \in Seq(Rows.executions) /\ SortedById(e.executions) = SortedById(f.executions)
  BY <1>1, <1>2, <1>3, RowsHaveIds, ReverseRows
<1>6. /\ f.observations \in Seq(Rows.observations) /\ SortedById(e.observations) = SortedById(f.observations)
      /\ f.visibility \in Seq(Rows.visibility) /\ SortedById(e.visibility) = SortedById(f.visibility)
      /\ f.branches \in Seq(Rows.branches) /\ Distinct(f.branches) /\ ToSet(e.branches) = ToSet(f.branches)
  BY <1>1, <1>2, <1>3, RowsHaveIds, ReverseRows
<1>7. f \in Run
  <2>1. /\ e.version \in Nat \X Nat \X Nat /\ e.port \in Nat /\ e.window \in Int
        /\ e.rules \in Seq(Nat) /\ e.claims \in Seq(Rows.claims) /\ e.findings \in Seq(Rows.findings)
    BY DEF Run
  <2> QED
    BY <1>2, <1>4, <1>5, <1>6, <2>1 DEF Run, RunNames
<1>8. \A name \in EvidenceNames : Canonical(f)[name] = Canonical(e)[name]
  BY <1>2, <1>4, <1>5, <1>6, SortedAlike
<1> QED
  BY <1>1, <1>6, <1>7, <1>8 DEF SameEvidence, f

\* For every evidence and every set of rules: the order of collection and of emission
\* leaves no trace in the report, and does not decide whether there is one.
THEOREM OrderStaysInvisible == Spec => []OrderInvisible
<1>1. Inv => OrderInvisible
  <2> SUFFICES ASSUME Inv, phase \in {"evaluated", "refused"}
               PROVE  Evaluate(Backwards(evidence), Rules, [n \in DOMAIN emission |-> Reverse(emission[n])])
                        = report
    BY DEF OrderInvisible
  <2> DEFINE b == [n \in DOMAIN emission |-> Reverse(emission[n])]
  <2>1. /\ evidence \in Run /\ EvidenceAccepted(evidence)
        /\ Rules \in Seq(Nat) /\ ToSet(Rules) = DOMAIN emission
        /\ \A n \in ToSet(Rules) : emission[n] \in Seq(RuleCandidate)
    BY EvidenceType, RulesType DEF Inv
  <2>2. /\ Backwards(evidence) \in Run /\ SameEvidence(Backwards(evidence), evidence)
        /\ Distinct(evidence.branches) /\ Distinct(Backwards(evidence).branches)
    BY <2>1, BackwardsIsSame
  <2>3. \A n \in ToSet(Rules) : /\ b[n] \in Seq(RuleCandidate) /\ emission[n] \in Seq(RuleCandidate)
                                /\ SameCounts(b[n], emission[n])
    BY <2>1, ReverseFacts, SameCountsFacts
  <2> HIDE DEF b
  <2>4. Evaluate(Backwards(evidence), Rules, b) = Evaluate(evidence, Rules, emission)
    BY <2>1, <2>2, <2>3, EvaluateSame
  <2> QED
    BY <2>4 DEF Inv, b
<1> QED
  BY <1>1, Invariance, PTL

\* The evidence of an accepted run, as the report of other evidence holds it.
LEMMA EvidenceOfReport ==
    ASSUME NEW e \in Run, Distinct(e.branches), CanonicalBranches(e.branches).ok, NEW rules, NEW compiled,
           NEW r \in Run, r = Canonical(Select(Derived(e, rules, compiled))),
           NEW q \in Run, Accepted(q), Evidence(q) = Evidence(r)
    PROVE  SameEvidence(q, e) /\ Distinct(q.branches) /\ q.version = r.version
<1> DEFINE p == Select(Derived(e, rules, compiled))
<1>1. /\ DOMAIN p = RunNames /\ DOMAIN e = RunNames /\ DOMAIN r = RunNames /\ DOMAIN q = RunNames
      /\ p.branches = e.branches
      /\ \A name \in EvidenceNames : Canonical(p)[name] = Canonical(e)[name]
  <2>1. DOMAIN e = RunNames /\ DOMAIN r = RunNames /\ DOMAIN q = RunNames
    BY RunFields
  <2>2. /\ DOMAIN p = RunNames
        /\ p.version = e.version /\ p.port = e.port /\ p.window = e.window
        /\ p.branches = e.branches
        /\ p.entities = e.entities /\ p.vantages = e.vantages /\ p.assertions = e.assertions
        /\ p.observations = e.observations /\ p.edges = e.edges /\ p.checks = e.checks
        /\ p.executions = e.executions /\ p.visibility = e.visibility
    BY EvidenceKept
  <2> HIDE DEF p
  <2> QED
    BY <2>1, <2>2, CanonicalKept
<1>2. r = Canonical(p)
  OBVIOUS
<1> HIDE DEF p
<1>3. \A name \in EvidenceNames \cup {"branches"} : q[name] = r[name]
  <2>1. \A name \in EvidenceNames \cup {"branches"} :
          Evidence(q)[name] = q[name] /\ Evidence(r)[name] = r[name]
    BY <1>1 DEF Evidence, EvidenceNames, RunNames
  <2> QED
    BY <2>1
<1>4. Canonical(q) = q /\ EvidenceAccepted(q)
  BY DEF Accepted, InOrder
<1>5. \A name \in EvidenceNames : Canonical(q)[name] = Canonical(e)[name]
  BY <1>1, <1>2, <1>3, <1>4
<1>6. ToSet(q.branches) = ToSet(e.branches)
  <2>1. Shaped(Canonical(p), CanonicalEvidence(p), p)
    BY <1>1, CanonicalFields
  <2>2. q.branches = CanonicalBranches(e.branches).branches
    <3>1. Canonical(p).branches = CanonicalBranches(p.branches).branches
      BY <2>1 DEF Shaped
    <3>2. q.branches = r.branches
      BY <1>3
    <3> QED
      BY <1>1, <1>2, <3>1, <3>2
  <2>3. e.branches \in Seq(Rows.branches)
    BY RunFields
  <2> QED
    BY <2>2, <2>3, RowsHaveIds, CanonicalBranchesPlaced
<1>7. q.version = r.version
  BY <1>3 DEF EvidenceNames, RunNames
<1> QED
  BY <1>4, <1>5, <1>6, <1>7 DEF SameEvidence, EvidenceAccepted, PathAccepted

\* Whatever was edited into the derived collections, evaluating the file again restores
\* the report: nothing derived is carried over.
THEOREM ReevaluationAlwaysRestores == Spec => []ReevaluationRestores
<1>1. Inv => ReevaluationRestores
  <2> SUFFICES ASSUME Inv, out.command = "reevaluate", Evidence(file.run) = Evidence(report[1])
               PROVE  out.report = report
    BY DEF ReevaluationRestores
  <2>1. /\ phase = "done" /\ file.run \in Run /\ Accepted(file.run)
        /\ report # <<>> /\ report = Evaluate(evidence, Rules, emission)
        /\ out.report = Reevaluated(file.run)
    BY InvRuns DEF Inv
  <2>2. /\ evidence \in Run /\ EvidenceAccepted(evidence)
        /\ Rules \in Seq(Nat) /\ \A n \in ToSet(Rules) : emission[n] \in Seq(RuleCandidate)
    BY EvidenceType, RulesType DEF Inv
  <2>3. PICK r \in Run : /\ report = <<r>> /\ Accepted(r) /\ EncodeAccepted(r)
                         /\ r = Canonical(Select(Derived(evidence, Rules, Compiled(Rules, emission))))
                         /\ CanonicalBranches(evidence.branches).ok
    BY <2>1, ReportType DEF Inv
  <2>4. Distinct(evidence.branches)
    BY <2>2 DEF EvidenceAccepted, PathAccepted
  <2>5. Evidence(file.run) = Evidence(r)
    BY <2>3
  <2>6. SameEvidence(file.run, evidence) /\ Distinct(file.run.branches) /\ file.run.version = r.version
    BY <2>1, <2>2, <2>3, <2>4, <2>5, EvidenceOfReport
  <2>7. Evaluate(file.run, Rules, emission) = Evaluate(evidence, Rules, emission)
    <3>1. \A n : SameCounts(emission[n], emission[n])
      BY DEF SameCounts
    <3> QED
      BY <2>1, <2>2, <2>4, <2>6, <3>1, EvaluateSame
  <2>8. Reevaluated(file.run) = Evaluate(file.run, Rules, emission)
    BY <2>1, <2>3, <2>6 DEF Reevaluated, EncodeAccepted, Accepted
  <2> QED
    BY <2>1, <2>7, <2>8
<1> QED
  BY <1>1, Invariance, PTL

----
(***************************************************************************)
(* One canonical form                                                      *)
(***************************************************************************)
LEMMA SameBags ==
    ASSUME NEW S, NEW s \in Seq(S), NEW t \in Seq(S), AsBag(s) = AsBag(t)
    PROVE  SameCounts(s, t) /\ ToSet(s) = ToSet(t)
<1>1. DOMAIN AsBag(s) = ToSet(s) /\ DOMAIN AsBag(t) = ToSet(t)
  BY DEF AsBag
<1>2. ToSet(s) = ToSet(t)
  BY <1>1
<1>3. ASSUME NEW x PROVE Count(s, x) = Count(t, x)
  <2>1. CASE x \in ToSet(s)
    <3>1. AsBag(s)[x] = Count(s, x) /\ AsBag(t)[x] = Count(t, x)
      BY <1>2, <2>1 DEF AsBag, Count, Where
    <3> QED
      BY <3>1
  <2>2. CASE x \notin ToSet(s)
    BY <1>2, <2>2, CountFacts
  <2> QED
    BY <2>1, <2>2
<1> QED
  BY <1>2, <1>3 DEF SameCounts

\* Equal bags hold the same elements.
LEMMA BaggedElements ==
    ASSUME NEW u, NEW v, AsBag(u) = AsBag(v)
    PROVE  ToSet(u) = ToSet(v)
<1>1. DOMAIN AsBag(u) = ToSet(u) /\ DOMAIN AsBag(v) = ToSet(v)
  BY DEF AsBag
<1> QED
  BY <1>1

\* The lists of a row, in order and with the same elements, are the same.
LEMMA RefsSame ==
    ASSUME NEW s \in Seq(Ref), NEW t \in Seq(Ref), InKeyOrder(s, AsRef), InKeyOrder(t, AsRef),
           AsBag(s) = AsBag(t)
    PROVE  s = t
<1>1. SameCounts(s, t)
  BY SameBags
<1> QED
  BY <1>1, RefKeys, OneOrder

\* Sorted IDs with one bag are equal.
LEMMA NumbersSame ==
    ASSUME NEW s \in Seq(Nat), NEW t \in Seq(Nat), InKeyOrder(s, AsNumber), InKeyOrder(t, AsNumber),
           AsBag(s) = AsBag(t)
    PROVE  s = t
<1> DEFINE N == Nat
<1>1. s \in Seq(N) /\ t \in Seq(N) /\ AsNumber \in [N -> Nat \X Nat] /\ OneToOne(AsNumber, ToSet(s))
  BY NumberKeys
<1> HIDE DEF N
<1>2. SameCounts(s, t)
  BY <1>1, SameBags
<1> QED
  BY <1>1, <1>2, OneOrder

\* Sorted rows of distinct IDs with one bag are equal.
LEMMA RowsSame ==
    ASSUME NEW S, HasIds(S), NEW s \in Seq(S), NEW t \in Seq(S), Distinct(s), Distinct(t),
           InKeyOrder(s, ById0(S)), InKeyOrder(t, ById0(S)), AsBag(s) = AsBag(t)
    PROVE  s = t
<1>1. SameCounts(s, t)
  BY SameBags
<1> QED
  BY <1>1, IdKeys, OneOrder

\* Sequences that agree everywhere are equal.
LEMMA SameElements ==
    ASSUME NEW S, NEW s \in Seq(S), NEW t \in Seq(S), DOMAIN s = DOMAIN t,
           \A i \in DOMAIN s : s[i] = t[i]
    PROVE  s = t
OBVIOUS

\* bag[_] tells the rows in G apart and keeps their IDs; u holds the bags of the rows s.
Separates(bag, G, S) ==
    /\ G \in SUBSET S /\ \A x \in S : bag[x].id = x.id
    /\ \A x, y \in G : bag[x] = bag[y] => x = y
Images(u, bag, s) == DOMAIN u = DOMAIN s /\ \A i \in DOMAIN s : u[i] = bag[s[i]]

\* Rows in ID order are determined by their bags.
LEMMA BaggedSame ==
    ASSUME NEW S, HasIds(S), NEW s \in Seq(S), NEW t \in Seq(S), Distinct(s), Distinct(t),
           InKeyOrder(s, ById0(S)), InKeyOrder(t, ById0(S)),
           NEW bag, NEW G, Separates(bag, G, S), ToSet(s) \subseteq G, ToSet(t) \subseteq G,
           NEW u, NEW v, Images(u, bag, s), Images(v, bag, t), AsBag(u) = AsBag(v)
    PROVE  s = t
<1>1. /\ DOMAIN u = DOMAIN s /\ DOMAIN v = DOMAIN t
      /\ \A i \in DOMAIN s : u[i] = bag[s[i]] /\ s[i] \in G /\ s[i] \in S
      /\ \A i \in DOMAIN t : v[i] = bag[t[i]] /\ t[i] \in G /\ t[i] \in S
  BY DEF ToSet, Images
<1>2. ToSet(u) = ToSet(v)
  BY BaggedElements
<1>3. DOMAIN s = DOMAIN t /\ \A i \in DOMAIN s : u[i] = v[i]
  <2>1. (\A i \in DOMAIN s : u[i].id = s[i].id) /\ \A i \in DOMAIN t : v[i].id = t[i].id
    BY <1>1 DEF Separates
  <2> QED
    BY <1>1, <1>2, <2>1, RowsMatch
<1>4. \A i \in DOMAIN s : s[i] = t[i]
  BY <1>1, <1>3 DEF Separates
<1> QED
  BY <1>3, <1>4, SameElements

\* An edge is fixed by its content when its references are in order.
LEMMA EdgeBag ==
    ASSUME NEW x \in Rows.edges, NEW y \in Rows.edges,
           InKeyOrder(x.refs, AsRef), InKeyOrder(y.refs, AsRef),
           [x EXCEPT !.refs = AsBag(@)] = [y EXCEPT !.refs = AsBag(@)]
    PROVE  x = y
<1> DEFINE b == [x EXCEPT !.refs = AsBag(@)]
           c == [y EXCEPT !.refs = AsBag(@)]
<1>1. /\ x = [id |-> x.id, from |-> x.from, to |-> x.to, asserted |-> x.asserted, refs |-> x.refs]
      /\ x.refs \in Seq(Ref)
  BY DEF Rows
<1>2. /\ y = [id |-> y.id, from |-> y.from, to |-> y.to, asserted |-> y.asserted, refs |-> y.refs]
      /\ y.refs \in Seq(Ref)
  BY DEF Rows
<1>3. /\ b.id = x.id /\ b.from = x.from /\ b.to = x.to /\ b.asserted = x.asserted
      /\ b.refs = AsBag(x.refs)
  BY <1>1
<1>4. /\ c.id = y.id /\ c.from = y.from /\ c.to = y.to /\ c.asserted = y.asserted
      /\ c.refs = AsBag(y.refs)
  BY <1>2
<1>5. b = c
  OBVIOUS
<1> HIDE DEF b, c
<1>6. /\ x.id = y.id /\ x.from = y.from /\ x.to = y.to /\ x.asserted = y.asserted
  BY <1>3, <1>4, <1>5
<1>7. x.refs = y.refs
  <2>1. AsBag(x.refs) = AsBag(y.refs)
    BY <1>3, <1>4, <1>5
  <2> QED
    BY <1>1, <1>2, <2>1, RefsSame
<1> QED
  BY <1>1, <1>2, <1>6, <1>7

\* A check is fixed by its content when its dependencies are in order.
LEMMA CheckBag ==
    ASSUME NEW x \in Rows.checks, NEW y \in Rows.checks,
           InKeyOrder(x.deps, AsNumber), InKeyOrder(y.deps, AsNumber),
           [x EXCEPT !.deps = AsBag(@)] = [y EXCEPT !.deps = AsBag(@)]
    PROVE  x = y
<1> DEFINE b == [x EXCEPT !.deps = AsBag(@)]
           c == [y EXCEPT !.deps = AsBag(@)]
<1>1. /\ x = [id |-> x.id, subject |-> x.subject, deps |-> x.deps]
      /\ x.deps \in Seq(Nat)
  BY DEF Rows
<1>2. /\ y = [id |-> y.id, subject |-> y.subject, deps |-> y.deps]
      /\ y.deps \in Seq(Nat)
  BY DEF Rows
<1>3. /\ b.id = x.id /\ b.subject = x.subject /\ b.deps = AsBag(x.deps)
  BY <1>1
<1>4. /\ c.id = y.id /\ c.subject = y.subject /\ c.deps = AsBag(y.deps)
  BY <1>2
<1>5. b = c
  OBVIOUS
<1> HIDE DEF b, c
<1>6. /\ x.id = y.id /\ x.subject = y.subject
  BY <1>3, <1>4, <1>5
<1>7. x.deps = y.deps
  <2>1. AsBag(x.deps) = AsBag(y.deps)
    BY <1>3, <1>4, <1>5
  <2> QED
    BY <1>1, <1>2, <2>1, NumbersSame
<1> QED
  BY <1>1, <1>2, <1>6, <1>7

\* An execution is fixed by its content when its lists are in order.
LEMMA ExecutionBag ==
    ASSUME NEW x \in Rows.executions, NEW y \in Rows.executions,
           InKeyOrder(x.observations, AsNumber), InKeyOrder(y.observations, AsNumber),
           InKeyOrder(x.visibility, AsNumber), InKeyOrder(y.visibility, AsNumber),
           [x EXCEPT !.observations = AsBag(@), !.visibility = AsBag(@)]
               = [y EXCEPT !.observations = AsBag(@), !.visibility = AsBag(@)]
    PROVE  x = y
<1> DEFINE b == [x EXCEPT !.observations = AsBag(@), !.visibility = AsBag(@)]
           c == [y EXCEPT !.observations = AsBag(@), !.visibility = AsBag(@)]
<1>1. /\ x = [id |-> x.id, check |-> x.check, lifecycle |-> x.lifecycle,
             verdict |-> x.verdict, observations |-> x.observations, visibility |-> x.visibility]
      /\ x.observations \in Seq(Nat) /\ x.visibility \in Seq(Nat)
  BY DEF Rows
<1>2. /\ y = [id |-> y.id, check |-> y.check, lifecycle |-> y.lifecycle,
             verdict |-> y.verdict, observations |-> y.observations, visibility |-> y.visibility]
      /\ y.observations \in Seq(Nat) /\ y.visibility \in Seq(Nat)
  BY DEF Rows
<1>3. /\ b.id = x.id /\ b.check = x.check /\ b.lifecycle = x.lifecycle /\ b.verdict = x.verdict
      /\ b.observations = AsBag(x.observations) /\ b.visibility = AsBag(x.visibility)
  BY <1>1
<1>4. /\ c.id = y.id /\ c.check = y.check /\ c.lifecycle = y.lifecycle /\ c.verdict = y.verdict
      /\ c.observations = AsBag(y.observations) /\ c.visibility = AsBag(y.visibility)
  BY <1>2
<1>5. b = c
  OBVIOUS
<1> HIDE DEF b, c
<1>6. /\ x.id = y.id /\ x.check = y.check /\ x.lifecycle = y.lifecycle /\ x.verdict = y.verdict
  BY <1>3, <1>4, <1>5
<1>7. x.observations = y.observations
  <2>1. AsBag(x.observations) = AsBag(y.observations)
    BY <1>3, <1>4, <1>5
  <2> QED
    BY <1>1, <1>2, <2>1, NumbersSame
<1>8. x.visibility = y.visibility
  <2>1. AsBag(x.visibility) = AsBag(y.visibility)
    BY <1>3, <1>4, <1>5
  <2> QED
    BY <1>1, <1>2, <2>1, NumbersSame
<1> QED
  BY <1>1, <1>2, <1>6, <1>7, <1>8

\* A visibility row is fixed by its content when its basis is in order.
LEMMA VisibilityBag ==
    ASSUME NEW x \in Rows.visibility, NEW y \in Rows.visibility,
           InKeyOrder(x.basis, AsNumber), InKeyOrder(y.basis, AsNumber),
           [x EXCEPT !.basis = AsBag(@)] = [y EXCEPT !.basis = AsBag(@)]
    PROVE  x = y
<1> DEFINE b == [x EXCEPT !.basis = AsBag(@)]
           c == [y EXCEPT !.basis = AsBag(@)]
<1>1. /\ x = [id |-> x.id, vantage |-> x.vantage, bucket |-> x.bucket, ports |-> x.ports,
             level |-> x.level, ownershipRequired |-> x.ownershipRequired, limited |-> x.limited,
             at |-> x.at, basis |-> x.basis]
      /\ x.basis \in Seq(Nat)
  BY DEF Rows
<1>2. /\ y = [id |-> y.id, vantage |-> y.vantage, bucket |-> y.bucket, ports |-> y.ports,
             level |-> y.level, ownershipRequired |-> y.ownershipRequired, limited |-> y.limited,
             at |-> y.at, basis |-> y.basis]
      /\ y.basis \in Seq(Nat)
  BY DEF Rows
<1>3. /\ b.id = x.id /\ b.vantage = x.vantage /\ b.bucket = x.bucket /\ b.ports = x.ports
      /\ b.level = x.level /\ b.ownershipRequired = x.ownershipRequired /\ b.limited = x.limited /\ b.at = x.at
      /\ b.basis = AsBag(x.basis)
  BY <1>1
<1>4. /\ c.id = y.id /\ c.vantage = y.vantage /\ c.bucket = y.bucket /\ c.ports = y.ports
      /\ c.level = y.level /\ c.ownershipRequired = y.ownershipRequired /\ c.limited = y.limited /\ c.at = y.at
      /\ c.basis = AsBag(y.basis)
  BY <1>2
<1>5. b = c
  OBVIOUS
<1> HIDE DEF b, c
<1>6. /\ x.id = y.id /\ x.vantage = y.vantage /\ x.bucket = y.bucket /\ x.ports = y.ports
      /\ x.level = y.level /\ x.ownershipRequired = y.ownershipRequired /\ x.limited = y.limited /\ x.at = y.at
  BY <1>3, <1>4, <1>5
<1>7. x.basis = y.basis
  <2>1. AsBag(x.basis) = AsBag(y.basis)
    BY <1>3, <1>4, <1>5
  <2> QED
    BY <1>1, <1>2, <2>1, NumbersSame
<1> QED
  BY <1>1, <1>2, <1>6, <1>7

\* A claim is fixed by its content when its lists are in order.
LEMMA ClaimBag ==
    ASSUME NEW x \in Rows.claims, NEW y \in Rows.claims,
           InKeyOrder(x.support, AsRef), InKeyOrder(y.support, AsRef),
           InKeyOrder(x.contra, AsRef), InKeyOrder(y.contra, AsRef),
           InKeyOrder(x.missing, AsNumber), InKeyOrder(y.missing, AsNumber),
           [x EXCEPT !.support = AsBag(@), !.contra = AsBag(@), !.missing = AsBag(@)]
               = [y EXCEPT !.support = AsBag(@), !.contra = AsBag(@), !.missing = AsBag(@)]
    PROVE  x = y
<1> DEFINE b == [x EXCEPT !.support = AsBag(@), !.contra = AsBag(@), !.missing = AsBag(@)]
           c == [y EXCEPT !.support = AsBag(@), !.contra = AsBag(@), !.missing = AsBag(@)]
<1>1. /\ x = [id |-> x.id, rule |-> x.rule, statement |-> x.statement, about |-> x.about,
             level |-> x.level, support |-> x.support, contra |-> x.contra, missing |-> x.missing]
      /\ x.support \in Seq(Ref) /\ x.contra \in Seq(Ref) /\ x.missing \in Seq(Nat)
  BY DEF Rows
<1>2. /\ y = [id |-> y.id, rule |-> y.rule, statement |-> y.statement, about |-> y.about,
             level |-> y.level, support |-> y.support, contra |-> y.contra, missing |-> y.missing]
      /\ y.support \in Seq(Ref) /\ y.contra \in Seq(Ref) /\ y.missing \in Seq(Nat)
  BY DEF Rows
<1>3. /\ b.id = x.id /\ b.rule = x.rule /\ b.statement = x.statement /\ b.about = x.about
      /\ b.level = x.level /\ b.support = AsBag(x.support) /\ b.contra = AsBag(x.contra)
             /\ b.missing = AsBag(x.missing)
  BY <1>1
<1>4. /\ c.id = y.id /\ c.rule = y.rule /\ c.statement = y.statement /\ c.about = y.about
      /\ c.level = y.level /\ c.support = AsBag(y.support) /\ c.contra = AsBag(y.contra)
             /\ c.missing = AsBag(y.missing)
  BY <1>2
<1>5. b = c
  OBVIOUS
<1> HIDE DEF b, c
<1>6. /\ x.id = y.id /\ x.rule = y.rule /\ x.statement = y.statement /\ x.about = y.about
      /\ x.level = y.level
  BY <1>3, <1>4, <1>5
<1>7. x.support = y.support
  <2>1. AsBag(x.support) = AsBag(y.support)
    BY <1>3, <1>4, <1>5
  <2> QED
    BY <1>1, <1>2, <2>1, RefsSame
<1>8. x.contra = y.contra
  <2>1. AsBag(x.contra) = AsBag(y.contra)
    BY <1>3, <1>4, <1>5
  <2> QED
    BY <1>1, <1>2, <2>1, RefsSame
<1>9. x.missing = y.missing
  <2>1. AsBag(x.missing) = AsBag(y.missing)
    BY <1>3, <1>4, <1>5
  <2> QED
    BY <1>1, <1>2, <2>1, NumbersSame
<1> QED
  BY <1>1, <1>2, <1>6, <1>7, <1>8, <1>9

\* Branch lists in the order of the branches with one bag are equal.
LEMMA BranchListsSame ==
    ASSUME NEW S, NEW e, e.branches \in Seq(S),
           NEW s \in Seq(Nat), NEW t \in Seq(Nat), ToSet(s) \subseteq Ids(e.branches),
           InKeyOrder(s, BranchKey(e)), InKeyOrder(t, BranchKey(e)), AsBag(s) = AsBag(t)
    PROVE  s = t
<1> DEFINE N == Nat
           K == BranchKey(e)
<1>1. s \in Seq(N) /\ t \in Seq(N) /\ K \in [N -> Nat \X Nat] /\ OneToOne(K, Ids(e.branches) \cap Nat)
  BY BranchKeys
<1>2. ToSet(s) \subseteq Nat
  BY DEF ToSet
<1>3. OneToOne(K, ToSet(s))
  <2> HIDE DEF K
  <2> QED
    BY <1>1, <1>2 DEF OneToOne
<1> HIDE DEF N, K
<1>4. SameCounts(s, t) /\ InKeyOrder(s, K) /\ InKeyOrder(t, K)
  BY <1>1, SameBags DEF K
<1> QED
  BY <1>1, <1>3, <1>4, OneOrder

\* Positions in the order of the branches with one bag are equal, when no branch has two.
LEMMA PositionListsSame ==
    ASSUME NEW S, NEW e, e.branches \in Seq(S),
           NEW s \in Seq(Nat \X Nat), NEW t \in Seq(Nat \X Nat), \A p \in ToSet(s) : p[1] \in Ids(e.branches),
           \A i, j \in DOMAIN s : s[i][1] = s[j][1] => i = j,
           InKeyOrder(s, PositionKey(e)), InKeyOrder(t, PositionKey(e)), AsBag(s) = AsBag(t)
    PROVE  s = t
<1> DEFINE N == Nat \X Nat
           K == PositionKey(e)
<1>1. s \in Seq(N) /\ t \in Seq(N) /\ K \in [N -> Nat \X Nat]
  BY BranchKeys
<1>2. ToSet(s) \subseteq N
  BY <1>1 DEF ToSet
<1>3. OneToOne(K, ToSet(s))
  <2> SUFFICES ASSUME NEW p \in ToSet(s), NEW q \in ToSet(s), K[p] = K[q] PROVE p = q
    BY DEF OneToOne
  <2>1. K[p] = <<0, BranchIndex(e, p[1])>> /\ K[q] = <<0, BranchIndex(e, q[1])>>
    BY <1>2 DEF PositionKey
  <2>2. BranchIndex(e, p[1]) = BranchIndex(e, q[1])
    <3> DEFINE m == BranchIndex(e, p[1])
               n == BranchIndex(e, q[1])
    <3>1. <<0, m>> = <<0, n>>
      BY <2>1
    <3> HIDE DEF m, n
    <3>2. m = n
      BY <3>1
    <3> QED
      BY <3>2 DEF m, n
  <2>3. p[1] = q[1]
    <3>1. p[1] \in Ids(e.branches) /\ q[1] \in Ids(e.branches)
      OBVIOUS
    <3>2. /\ e.branches[BranchIndex(e, p[1])].id = p[1]
          /\ e.branches[BranchIndex(e, q[1])].id = q[1]
      BY <3>1, BranchIndexes
    <3> QED
      BY <2>2, <3>2
  <2> QED
    BY <2>3 DEF ToSet
<1> HIDE DEF N, K
<1>4. SameCounts(s, t) /\ InKeyOrder(s, K) /\ InKeyOrder(t, K)
  BY <1>1, SameBags DEF K
<1> QED
  BY <1>1, <1>3, <1>4, OneOrder

\* A finding is fixed by its content when its lists are in order and no branch has
\* two positions.
LEMMA FindingBag ==
    ASSUME NEW S, NEW e, e.branches \in Seq(S),
           NEW x \in Rows.findings, NEW y \in Rows.findings,
           InKeyOrder(x.branches, BranchKey(e)), InKeyOrder(y.branches, BranchKey(e)),
           InKeyOrder(x.positions, PositionKey(e)), InKeyOrder(y.positions, PositionKey(e)),
           InKeyOrder(x.claims, AsNumber), InKeyOrder(y.claims, AsNumber),
           ToSet(x.branches) \subseteq Ids(e.branches), \A p \in ToSet(x.positions) : p[1] \in Ids(e.branches),
           OnePositionEach(x),
           [x EXCEPT !.claims = AsBag(@), !.branches = AsBag(@), !.positions = AsBag(@)]
               = [y EXCEPT !.claims = AsBag(@), !.branches = AsBag(@), !.positions = AsBag(@)]
    PROVE  x = y
<1> DEFINE b == [x EXCEPT !.claims = AsBag(@), !.branches = AsBag(@), !.positions = AsBag(@)]
           c == [y EXCEPT !.claims = AsBag(@), !.branches = AsBag(@), !.positions = AsBag(@)]
<1>1. /\ x = [id |-> x.id, rule |-> x.rule, level |-> x.level, blocker |-> x.blocker,
             selection |-> x.selection, branches |-> x.branches, positions |-> x.positions, claims |-> x.claims]
      /\ x.branches \in Seq(Nat) /\ x.positions \in Seq(Nat \X Nat) /\ x.claims \in Seq(Nat)
  BY DEF Rows
<1>2. /\ y = [id |-> y.id, rule |-> y.rule, level |-> y.level, blocker |-> y.blocker,
             selection |-> y.selection, branches |-> y.branches, positions |-> y.positions, claims |-> y.claims]
      /\ y.branches \in Seq(Nat) /\ y.positions \in Seq(Nat \X Nat) /\ y.claims \in Seq(Nat)
  BY DEF Rows
<1>3. /\ b.id = x.id /\ b.rule = x.rule /\ b.level = x.level /\ b.blocker = x.blocker
      /\ b.selection = x.selection /\ b.branches = AsBag(x.branches)
             /\ b.positions = AsBag(x.positions) /\ b.claims = AsBag(x.claims)
  BY <1>1
<1>4. /\ c.id = y.id /\ c.rule = y.rule /\ c.level = y.level /\ c.blocker = y.blocker
      /\ c.selection = y.selection /\ c.branches = AsBag(y.branches)
             /\ c.positions = AsBag(y.positions) /\ c.claims = AsBag(y.claims)
  BY <1>2
<1>5. b = c
  OBVIOUS
<1> HIDE DEF b, c
<1>6. /\ x.id = y.id /\ x.rule = y.rule /\ x.level = y.level /\ x.blocker = y.blocker
      /\ x.selection = y.selection
  BY <1>3, <1>4, <1>5
<1>7. x.branches = y.branches
  <2>1. AsBag(x.branches) = AsBag(y.branches)
    BY <1>3, <1>4, <1>5
  <2> QED
    BY <1>1, <1>2, <2>1, BranchListsSame
<1>8. x.positions = y.positions
  <2>1. AsBag(x.positions) = AsBag(y.positions)
    BY <1>3, <1>4, <1>5
  <2> QED
    BY <1>1, <1>2, <2>1, PositionListsSame DEF OnePositionEach
<1>9. x.claims = y.claims
  <2>1. AsBag(x.claims) = AsBag(y.claims)
    BY <1>3, <1>4, <1>5
  <2> QED
    BY <1>1, <1>2, <2>1, NumbersSame
<1> QED
  BY <1>1, <1>2, <1>6, <1>7, <1>8, <1>9

\* A row without the order of its lists.
EdgeBags == [x \in Rows.edges |-> [x EXCEPT !.refs = AsBag(@)]]
CheckBags == [x \in Rows.checks |-> [x EXCEPT !.deps = AsBag(@)]]
ExecutionBags == [x \in Rows.executions |-> [x EXCEPT !.observations = AsBag(@), !.visibility = AsBag(@)]]
VisibilityBags == [x \in Rows.visibility |-> [x EXCEPT !.basis = AsBag(@)]]
ClaimBags == [x \in Rows.claims |-> [x EXCEPT !.support = AsBag(@), !.contra = AsBag(@), !.missing = AsBag(@)]]
FindingBags == [x \in Rows.findings |-> [x EXCEPT !.claims = AsBag(@), !.branches = AsBag(@),
    !.positions = AsBag(@)]]

\* Canonical edges are fixed by their content.
LEMMA EdgeRowsSame ==
    ASSUME NEW s \in Seq(Rows.edges), NEW t \in Seq(Rows.edges), Distinct(s), Distinct(t),
           InKeyOrder(s, ById0(Rows.edges)), InKeyOrder(t, ById0(Rows.edges)),
           \A x \in ToSet(s) \cup ToSet(t) : InKeyOrder(x.refs, AsRef),
           AsBag([i \in DOMAIN s |-> EdgeBags[s[i]]]) = AsBag([i \in DOMAIN t |-> EdgeBags[t[i]]])
    PROVE  s = t
<1> DEFINE T == Rows.edges
           G == {x \in T : InKeyOrder(x.refs, AsRef)}
           bag == EdgeBags
<1>1. \A x \in T : bag[x].id = x.id
  BY DEF EdgeBags, Rows
<1>2. ASSUME NEW x \in G, NEW y \in G, bag[x] = bag[y] PROVE x = y
  <2>1. [x EXCEPT !.refs = AsBag(@)] = [y EXCEPT !.refs = AsBag(@)]
    BY <1>2 DEF EdgeBags
  <2> QED
    BY <2>1, EdgeBag
<1>3. ToSet(s) \subseteq T /\ ToSet(t) \subseteq T
  BY DEF ToSet
<1>4. ToSet(s) \subseteq G /\ ToSet(t) \subseteq G /\ G \in SUBSET T
  BY <1>3
<1>5. s \in Seq(T) /\ t \in Seq(T) /\ HasIds(T) /\ InKeyOrder(s, ById0(T)) /\ InKeyOrder(t, ById0(T))
  BY RowsHaveIds
<1> DEFINE u == [i \in DOMAIN s |-> EdgeBags[s[i]]]
           v == [i \in DOMAIN t |-> EdgeBags[t[i]]]
<1>6. Separates(bag, G, T) /\ Images(u, bag, s) /\ Images(v, bag, t)
  <2>1. Separates(bag, G, T)
    <3> HIDE DEF T, G, bag
    <3> QED
      BY <1>1, <1>2, <1>4 DEF Separates
  <2>2. Images(u, bag, s) /\ Images(v, bag, t)
    BY DEF Images
  <2> QED
    BY <2>1, <2>2
<1>7. AsBag(u) = AsBag(v)
  OBVIOUS
<1> HIDE DEF T, G, bag, u, v
<1> QED
  BY <1>4, <1>5, <1>6, <1>7, BaggedSame

\* Canonical checks are fixed by their content.
LEMMA CheckRowsSame ==
    ASSUME NEW s \in Seq(Rows.checks), NEW t \in Seq(Rows.checks), Distinct(s), Distinct(t),
           InKeyOrder(s, ById0(Rows.checks)), InKeyOrder(t, ById0(Rows.checks)),
           \A x \in ToSet(s) \cup ToSet(t) : InKeyOrder(x.deps, AsNumber),
           AsBag([i \in DOMAIN s |-> CheckBags[s[i]]]) = AsBag([i \in DOMAIN t |-> CheckBags[t[i]]])
    PROVE  s = t
<1> DEFINE T == Rows.checks
           G == {x \in T : InKeyOrder(x.deps, AsNumber)}
           bag == CheckBags
<1>1. \A x \in T : bag[x].id = x.id
  BY DEF CheckBags, Rows
<1>2. ASSUME NEW x \in G, NEW y \in G, bag[x] = bag[y] PROVE x = y
  <2>1. [x EXCEPT !.deps = AsBag(@)] = [y EXCEPT !.deps = AsBag(@)]
    BY <1>2 DEF CheckBags
  <2> QED
    BY <2>1, CheckBag
<1>3. ToSet(s) \subseteq T /\ ToSet(t) \subseteq T
  BY DEF ToSet
<1>4. ToSet(s) \subseteq G /\ ToSet(t) \subseteq G /\ G \in SUBSET T
  BY <1>3
<1>5. s \in Seq(T) /\ t \in Seq(T) /\ HasIds(T) /\ InKeyOrder(s, ById0(T)) /\ InKeyOrder(t, ById0(T))
  BY RowsHaveIds
<1> DEFINE u == [i \in DOMAIN s |-> CheckBags[s[i]]]
           v == [i \in DOMAIN t |-> CheckBags[t[i]]]
<1>6. Separates(bag, G, T) /\ Images(u, bag, s) /\ Images(v, bag, t)
  <2>1. Separates(bag, G, T)
    <3> HIDE DEF T, G, bag
    <3> QED
      BY <1>1, <1>2, <1>4 DEF Separates
  <2>2. Images(u, bag, s) /\ Images(v, bag, t)
    BY DEF Images
  <2> QED
    BY <2>1, <2>2
<1>7. AsBag(u) = AsBag(v)
  OBVIOUS
<1> HIDE DEF T, G, bag, u, v
<1> QED
  BY <1>4, <1>5, <1>6, <1>7, BaggedSame

\* Canonical executions are fixed by their content.
LEMMA ExecutionRowsSame ==
    ASSUME NEW s \in Seq(Rows.executions), NEW t \in Seq(Rows.executions), Distinct(s), Distinct(t),
           InKeyOrder(s, ById0(Rows.executions)), InKeyOrder(t, ById0(Rows.executions)),
           \A x \in ToSet(s) \cup ToSet(t) : InKeyOrder(x.observations, AsNumber)
                       /\ InKeyOrder(x.visibility, AsNumber),
           AsBag([i \in DOMAIN s |-> ExecutionBags[s[i]]]) = AsBag([i \in DOMAIN t |-> ExecutionBags[t[i]]])
    PROVE  s = t
<1> DEFINE T == Rows.executions
           G == {x \in T : InKeyOrder(x.observations, AsNumber) /\ InKeyOrder(x.visibility, AsNumber)}
           bag == ExecutionBags
<1>1. \A x \in T : bag[x].id = x.id
  BY DEF ExecutionBags, Rows
<1>2. ASSUME NEW x \in G, NEW y \in G, bag[x] = bag[y] PROVE x = y
  <2>1. [x EXCEPT !.observations = AsBag(@), !.visibility = AsBag(@)]
            = [y EXCEPT !.observations = AsBag(@), !.visibility = AsBag(@)]
    BY <1>2 DEF ExecutionBags
  <2> QED
    BY <2>1, ExecutionBag
<1>3. ToSet(s) \subseteq T /\ ToSet(t) \subseteq T
  BY DEF ToSet
<1>4. ToSet(s) \subseteq G /\ ToSet(t) \subseteq G /\ G \in SUBSET T
  BY <1>3
<1>5. s \in Seq(T) /\ t \in Seq(T) /\ HasIds(T) /\ InKeyOrder(s, ById0(T)) /\ InKeyOrder(t, ById0(T))
  BY RowsHaveIds
<1> DEFINE u == [i \in DOMAIN s |-> ExecutionBags[s[i]]]
           v == [i \in DOMAIN t |-> ExecutionBags[t[i]]]
<1>6. Separates(bag, G, T) /\ Images(u, bag, s) /\ Images(v, bag, t)
  <2>1. Separates(bag, G, T)
    <3> HIDE DEF T, G, bag
    <3> QED
      BY <1>1, <1>2, <1>4 DEF Separates
  <2>2. Images(u, bag, s) /\ Images(v, bag, t)
    BY DEF Images
  <2> QED
    BY <2>1, <2>2
<1>7. AsBag(u) = AsBag(v)
  OBVIOUS
<1> HIDE DEF T, G, bag, u, v
<1> QED
  BY <1>4, <1>5, <1>6, <1>7, BaggedSame

\* Canonical visibility rows are fixed by their content.
LEMMA VisibilityRowsSame ==
    ASSUME NEW s \in Seq(Rows.visibility), NEW t \in Seq(Rows.visibility), Distinct(s), Distinct(t),
           InKeyOrder(s, ById0(Rows.visibility)), InKeyOrder(t, ById0(Rows.visibility)),
           \A x \in ToSet(s) \cup ToSet(t) : InKeyOrder(x.basis, AsNumber),
           AsBag([i \in DOMAIN s |-> VisibilityBags[s[i]]]) = AsBag([i \in DOMAIN t |-> VisibilityBags[t[i]]])
    PROVE  s = t
<1> DEFINE T == Rows.visibility
           G == {x \in T : InKeyOrder(x.basis, AsNumber)}
           bag == VisibilityBags
<1>1. \A x \in T : bag[x].id = x.id
  BY DEF VisibilityBags, Rows
<1>2. ASSUME NEW x \in G, NEW y \in G, bag[x] = bag[y] PROVE x = y
  <2>1. [x EXCEPT !.basis = AsBag(@)] = [y EXCEPT !.basis = AsBag(@)]
    BY <1>2 DEF VisibilityBags
  <2> QED
    BY <2>1, VisibilityBag
<1>3. ToSet(s) \subseteq T /\ ToSet(t) \subseteq T
  BY DEF ToSet
<1>4. ToSet(s) \subseteq G /\ ToSet(t) \subseteq G /\ G \in SUBSET T
  BY <1>3
<1>5. s \in Seq(T) /\ t \in Seq(T) /\ HasIds(T) /\ InKeyOrder(s, ById0(T)) /\ InKeyOrder(t, ById0(T))
  BY RowsHaveIds
<1> DEFINE u == [i \in DOMAIN s |-> VisibilityBags[s[i]]]
           v == [i \in DOMAIN t |-> VisibilityBags[t[i]]]
<1>6. Separates(bag, G, T) /\ Images(u, bag, s) /\ Images(v, bag, t)
  <2>1. Separates(bag, G, T)
    <3> HIDE DEF T, G, bag
    <3> QED
      BY <1>1, <1>2, <1>4 DEF Separates
  <2>2. Images(u, bag, s) /\ Images(v, bag, t)
    BY DEF Images
  <2> QED
    BY <2>1, <2>2
<1>7. AsBag(u) = AsBag(v)
  OBVIOUS
<1> HIDE DEF T, G, bag, u, v
<1> QED
  BY <1>4, <1>5, <1>6, <1>7, BaggedSame

\* Canonical claims are fixed by their content.
LEMMA ClaimRowsSame ==
    ASSUME NEW s \in Seq(Rows.claims), NEW t \in Seq(Rows.claims), Distinct(s), Distinct(t),
           InKeyOrder(s, ById0(Rows.claims)), InKeyOrder(t, ById0(Rows.claims)),
           \A x \in ToSet(s) \cup ToSet(t) : InKeyOrder(x.support, AsRef)
                       /\ InKeyOrder(x.contra, AsRef) /\ InKeyOrder(x.missing, AsNumber),
           AsBag([i \in DOMAIN s |-> ClaimBags[s[i]]]) = AsBag([i \in DOMAIN t |-> ClaimBags[t[i]]])
    PROVE  s = t
<1> DEFINE T == Rows.claims
           G == {x \in T : InKeyOrder(x.support, AsRef) /\ InKeyOrder(x.contra, AsRef)
               /\ InKeyOrder(x.missing, AsNumber)}
           bag == ClaimBags
<1>1. \A x \in T : bag[x].id = x.id
  BY DEF ClaimBags, Rows
<1>2. ASSUME NEW x \in G, NEW y \in G, bag[x] = bag[y] PROVE x = y
  <2>1. [x EXCEPT !.support = AsBag(@), !.contra = AsBag(@), !.missing = AsBag(@)]
            = [y EXCEPT !.support = AsBag(@), !.contra = AsBag(@), !.missing = AsBag(@)]
    BY <1>2 DEF ClaimBags
  <2> QED
    BY <2>1, ClaimBag
<1>3. ToSet(s) \subseteq T /\ ToSet(t) \subseteq T
  BY DEF ToSet
<1>4. ToSet(s) \subseteq G /\ ToSet(t) \subseteq G /\ G \in SUBSET T
  BY <1>3
<1>5. s \in Seq(T) /\ t \in Seq(T) /\ HasIds(T) /\ InKeyOrder(s, ById0(T)) /\ InKeyOrder(t, ById0(T))
  BY RowsHaveIds
<1> DEFINE u == [i \in DOMAIN s |-> ClaimBags[s[i]]]
           v == [i \in DOMAIN t |-> ClaimBags[t[i]]]
<1>6. Separates(bag, G, T) /\ Images(u, bag, s) /\ Images(v, bag, t)
  <2>1. Separates(bag, G, T)
    <3> HIDE DEF T, G, bag
    <3> QED
      BY <1>1, <1>2, <1>4 DEF Separates
  <2>2. Images(u, bag, s) /\ Images(v, bag, t)
    BY DEF Images
  <2> QED
    BY <2>1, <2>2
<1>7. AsBag(u) = AsBag(v)
  OBVIOUS
<1> HIDE DEF T, G, bag, u, v
<1> QED
  BY <1>4, <1>5, <1>6, <1>7, BaggedSame

\* Canonical findings are fixed by their content, when no branch has two positions.
LEMMA FindingRowsSame ==
    ASSUME NEW S, NEW e, e.branches \in Seq(S),
           NEW s \in Seq(Rows.findings), NEW t \in Seq(Rows.findings), Distinct(s), Distinct(t),
           InKeyOrder(s, ById0(Rows.findings)), InKeyOrder(t, ById0(Rows.findings)),
           \A x \in ToSet(s) \cup ToSet(t) :
             /\ ToSet(x.branches) \subseteq Ids(e.branches)
                    /\ \A p \in ToSet(x.positions) : p[1] \in Ids(e.branches)
             /\ OnePositionEach(x)
             /\ InKeyOrder(x.branches, BranchKey(e))
             /\ InKeyOrder(x.positions, PositionKey(e))
             /\ InKeyOrder(x.claims, AsNumber),
           AsBag([i \in DOMAIN s |-> FindingBags[s[i]]]) = AsBag([i \in DOMAIN t |-> FindingBags[t[i]]])
    PROVE  s = t
<1> DEFINE T == Rows.findings
           G == {x \in T : 
             /\ ToSet(x.branches) \subseteq Ids(e.branches)
                    /\ (\A p \in ToSet(x.positions) : p[1] \in Ids(e.branches))
             /\ OnePositionEach(x)
             /\ InKeyOrder(x.branches, BranchKey(e))
             /\ InKeyOrder(x.positions, PositionKey(e))
             /\ InKeyOrder(x.claims, AsNumber)}
           bag == FindingBags
<1>1. \A x \in T : bag[x].id = x.id
  BY DEF FindingBags, Rows
<1>2. ASSUME NEW x \in G, NEW y \in G, bag[x] = bag[y] PROVE x = y
  <2>1. [x EXCEPT !.claims = AsBag(@), !.branches = AsBag(@), !.positions = AsBag(@)]
            = [y EXCEPT !.claims = AsBag(@), !.branches = AsBag(@), !.positions = AsBag(@)]
    BY <1>2 DEF FindingBags
  <2>2. ASSUME NEW z \in G
        PROVE  /\ z \in Rows.findings /\ OnePositionEach(z)
               /\ ToSet(z.branches) \subseteq Ids(e.branches)
               /\ \A p \in ToSet(z.positions) : p[1] \in Ids(e.branches)
               /\ InKeyOrder(z.branches, BranchKey(e)) /\ InKeyOrder(z.positions, PositionKey(e))
               /\ InKeyOrder(z.claims, AsNumber)
    OBVIOUS
  <2> HIDE DEF T, G, bag
  <2> QED
    BY <1>2, <2>1, <2>2, FindingBag
<1>3. ToSet(s) \subseteq T /\ ToSet(t) \subseteq T
  BY DEF ToSet
<1>4. ToSet(s) \subseteq G /\ ToSet(t) \subseteq G /\ G \in SUBSET T
  BY <1>3
<1>5. s \in Seq(T) /\ t \in Seq(T) /\ HasIds(T) /\ InKeyOrder(s, ById0(T)) /\ InKeyOrder(t, ById0(T))
  BY RowsHaveIds
<1> DEFINE u == [i \in DOMAIN s |-> FindingBags[s[i]]]
           v == [i \in DOMAIN t |-> FindingBags[t[i]]]
<1>6. Separates(bag, G, T) /\ Images(u, bag, s) /\ Images(v, bag, t)
  <2>1. Separates(bag, G, T)
    <3> HIDE DEF T, G, bag
    <3> QED
      BY <1>1, <1>2, <1>4 DEF Separates
  <2>2. Images(u, bag, s) /\ Images(v, bag, t)
    BY DEF Images
  <2> QED
    BY <2>1, <2>2
<1>7. AsBag(u) = AsBag(v)
  OBVIOUS
<1> HIDE DEF T, G, bag, u, v
<1> QED
  BY <1>4, <1>5, <1>6, <1>7, BaggedSame

Bagged(c, r) ==
    /\ c.version = r.version /\ c.port = r.port /\ c.window = r.window /\ c.rules = r.rules
    /\ c.entities = AsBag(r.entities) /\ c.vantages = AsBag(r.vantages)
    /\ c.assertions = AsBag(r.assertions) /\ c.observations = AsBag(r.observations)
    /\ c.branches = AsBag(r.branches)
    /\ c.edges = AsBag([i \in DOMAIN r.edges |-> EdgeBags[r.edges[i]]])
    /\ c.checks = AsBag([i \in DOMAIN r.checks |-> CheckBags[r.checks[i]]])
    /\ c.executions = AsBag([i \in DOMAIN r.executions |-> ExecutionBags[r.executions[i]]])
    /\ c.visibility = AsBag([i \in DOMAIN r.visibility |-> VisibilityBags[r.visibility[i]]])
    /\ c.claims = AsBag([i \in DOMAIN r.claims |-> ClaimBags[r.claims[i]]])
    /\ c.findings = AsBag([i \in DOMAIN r.findings |-> FindingBags[r.findings[i]]])

\* The content of a run is the bag of each collection.
LEMMA ContentFields ==
    ASSUME NEW r \in Run
    PROVE  Bagged(Content(r), r)
<1> DEFINE c == Content(r)
<1>1. /\ c.version = r.version /\ c.port = r.port /\ c.window = r.window /\ c.rules = r.rules
      /\ c.entities = AsBag(r.entities) /\ c.vantages = AsBag(r.vantages)
      /\ c.assertions = AsBag(r.assertions) /\ c.observations = AsBag(r.observations)
      /\ c.branches = AsBag(r.branches)
  BY RunFields DEF Content, RunNames
<1>2. c.edges = AsBag([i \in DOMAIN r.edges |-> EdgeBags[r.edges[i]]])
  <2>1. c.edges = AsBag([i \in DOMAIN r.edges |-> [r.edges[i] EXCEPT !.refs = AsBag(@)]])
    BY RunFields DEF Content, RunNames, Each
  <2>2. \A i \in DOMAIN r.edges : EdgeBags[r.edges[i]] = [r.edges[i] EXCEPT !.refs = AsBag(@)]
    <3> SUFFICES ASSUME NEW i \in DOMAIN r.edges
                 PROVE  EdgeBags[r.edges[i]] = [r.edges[i] EXCEPT !.refs = AsBag(@)]
      OBVIOUS
    <3>1. r.edges[i] \in Rows.edges
      BY RunFields, ElementOf
    <3> QED
      BY <3>1 DEF EdgeBags
  <2> DEFINE u == [i \in DOMAIN r.edges |-> [r.edges[i] EXCEPT !.refs = AsBag(@)]]
             v == [i \in DOMAIN r.edges |-> EdgeBags[r.edges[i]]]
  <2>3. u = v
    BY <2>2
  <2> QED
    BY <2>1, <2>3
<1>3. c.checks = AsBag([i \in DOMAIN r.checks |-> CheckBags[r.checks[i]]])
  <2>1. c.checks = AsBag([i \in DOMAIN r.checks |-> [r.checks[i] EXCEPT !.deps = AsBag(@)]])
    BY RunFields DEF Content, RunNames, Each
  <2>2. \A i \in DOMAIN r.checks : CheckBags[r.checks[i]] = [r.checks[i] EXCEPT !.deps = AsBag(@)]
    <3> SUFFICES ASSUME NEW i \in DOMAIN r.checks
                 PROVE  CheckBags[r.checks[i]] = [r.checks[i] EXCEPT !.deps = AsBag(@)]
      OBVIOUS
    <3>1. r.checks[i] \in Rows.checks
      BY RunFields, ElementOf
    <3> QED
      BY <3>1 DEF CheckBags
  <2> DEFINE u == [i \in DOMAIN r.checks |-> [r.checks[i] EXCEPT !.deps = AsBag(@)]]
             v == [i \in DOMAIN r.checks |-> CheckBags[r.checks[i]]]
  <2>3. u = v
    BY <2>2
  <2> QED
    BY <2>1, <2>3
<1>4. c.executions = AsBag([i \in DOMAIN r.executions |-> ExecutionBags[r.executions[i]]])
  <2>1. c.executions = AsBag([i \in DOMAIN r.executions
            |-> [r.executions[i] EXCEPT !.observations = AsBag(@), !.visibility = AsBag(@)]])
    BY RunFields DEF Content, RunNames, Each
  <2>2. \A i \in DOMAIN r.executions : ExecutionBags[r.executions[i]]
                                           = [r.executions[i] EXCEPT !.observations = AsBag(@),
                                           !.visibility = AsBag(@)]
    <3> SUFFICES ASSUME NEW i \in DOMAIN r.executions
                 PROVE  ExecutionBags[r.executions[i]]
                            = [r.executions[i] EXCEPT !.observations = AsBag(@), !.visibility = AsBag(@)]
      OBVIOUS
    <3>1. r.executions[i] \in Rows.executions
      BY RunFields, ElementOf
    <3> QED
      BY <3>1 DEF ExecutionBags
  <2> DEFINE u == [i \in DOMAIN r.executions |-> [r.executions[i] EXCEPT !.observations = AsBag(@),
                 !.visibility = AsBag(@)]]
             v == [i \in DOMAIN r.executions |-> ExecutionBags[r.executions[i]]]
  <2>3. u = v
    BY <2>2
  <2> QED
    BY <2>1, <2>3
<1>5. c.visibility = AsBag([i \in DOMAIN r.visibility |-> VisibilityBags[r.visibility[i]]])
  <2>1. c.visibility = AsBag([i \in DOMAIN r.visibility |-> [r.visibility[i] EXCEPT !.basis = AsBag(@)]])
    BY RunFields DEF Content, RunNames, Each
  <2>2. \A i \in DOMAIN r.visibility : VisibilityBags[r.visibility[i]]
                                           = [r.visibility[i] EXCEPT !.basis = AsBag(@)]
    <3> SUFFICES ASSUME NEW i \in DOMAIN r.visibility
                 PROVE  VisibilityBags[r.visibility[i]] = [r.visibility[i] EXCEPT !.basis = AsBag(@)]
      OBVIOUS
    <3>1. r.visibility[i] \in Rows.visibility
      BY RunFields, ElementOf
    <3> QED
      BY <3>1 DEF VisibilityBags
  <2> DEFINE u == [i \in DOMAIN r.visibility |-> [r.visibility[i] EXCEPT !.basis = AsBag(@)]]
             v == [i \in DOMAIN r.visibility |-> VisibilityBags[r.visibility[i]]]
  <2>3. u = v
    BY <2>2
  <2> QED
    BY <2>1, <2>3
<1>6. c.claims = AsBag([i \in DOMAIN r.claims |-> ClaimBags[r.claims[i]]])
  <2>1. c.claims = AsBag([i \in DOMAIN r.claims |-> [r.claims[i] EXCEPT !.support = AsBag(@),
            !.contra = AsBag(@), !.missing = AsBag(@)]])
    BY RunFields DEF Content, RunNames, Each
  <2>2. \A i \in DOMAIN r.claims : ClaimBags[r.claims[i]]
                                       = [r.claims[i] EXCEPT !.support = AsBag(@),
                                       !.contra = AsBag(@), !.missing = AsBag(@)]
    <3> SUFFICES ASSUME NEW i \in DOMAIN r.claims
                 PROVE  ClaimBags[r.claims[i]]
                            = [r.claims[i] EXCEPT !.support = AsBag(@), !.contra = AsBag(@),
                            !.missing = AsBag(@)]
      OBVIOUS
    <3>1. r.claims[i] \in Rows.claims
      BY RunFields, ElementOf
    <3> QED
      BY <3>1 DEF ClaimBags
  <2> DEFINE u == [i \in DOMAIN r.claims |-> [r.claims[i] EXCEPT !.support = AsBag(@),
                 !.contra = AsBag(@), !.missing = AsBag(@)]]
             v == [i \in DOMAIN r.claims |-> ClaimBags[r.claims[i]]]
  <2>3. u = v
    BY <2>2
  <2> QED
    BY <2>1, <2>3
<1>7. c.findings = AsBag([i \in DOMAIN r.findings |-> FindingBags[r.findings[i]]])
  <2>1. c.findings = AsBag([i \in DOMAIN r.findings |-> [r.findings[i] EXCEPT !.claims = AsBag(@),
            !.branches = AsBag(@), !.positions = AsBag(@)]])
    BY RunFields DEF Content, RunNames, Each
  <2>2. \A i \in DOMAIN r.findings : FindingBags[r.findings[i]]
                                         = [r.findings[i] EXCEPT !.claims = AsBag(@),
                                         !.branches = AsBag(@), !.positions = AsBag(@)]
    <3> SUFFICES ASSUME NEW i \in DOMAIN r.findings
                 PROVE  FindingBags[r.findings[i]]
                            = [r.findings[i] EXCEPT !.claims = AsBag(@), !.branches = AsBag(@),
                            !.positions = AsBag(@)]
      OBVIOUS
    <3>1. r.findings[i] \in Rows.findings
      BY RunFields, ElementOf
    <3> QED
      BY <3>1 DEF FindingBags
  <2> DEFINE u == [i \in DOMAIN r.findings |-> [r.findings[i] EXCEPT !.claims = AsBag(@),
                 !.branches = AsBag(@), !.positions = AsBag(@)]]
             v == [i \in DOMAIN r.findings |-> FindingBags[r.findings[i]]]
  <2>3. u = v
    BY <2>2
  <2> QED
    BY <2>1, <2>3
<1> QED
  BY <1>1, <1>2, <1>3, <1>4, <1>5, <1>6, <1>7 DEF Bagged

\* Findings of one content have two positions on a branch together or not at all.
LEMMA OnePositionKept ==
    ASSUME NEW x, NEW y, x.positions \in Seq(Nat \X Nat), y.positions \in Seq(Nat \X Nat),
           AsBag(x.positions) = AsBag(y.positions), OnePositionEach(x)
    PROVE  OnePositionEach(y)
<1> DEFINE s == x.positions
           t == y.positions
<1>1. SameCounts(s, t) /\ ToSet(s) = ToSet(t)
  BY SameBags
<1>2. \A i, j \in DOMAIN s : s[i][1] = s[j][1] => i = j
  BY DEF OnePositionEach
<1>3. s \in Seq(Nat \X Nat) /\ t \in Seq(Nat \X Nat)
  OBVIOUS
<1> HIDE DEF s, t
<1>4. ASSUME NEW i \in DOMAIN t, NEW j \in DOMAIN t, t[i][1] = t[j][1] PROVE i = j
  <2>1. PICK k \in DOMAIN s : s[k] = t[i]
    BY <1>1 DEF ToSet
  <2>2. PICK l \in DOMAIN s : s[l] = t[j]
    BY <1>1 DEF ToSet
  <2>3. t[i] = t[j]
    BY <1>2, <1>4, <2>1, <2>2
  <2>4. Where(s, t[i]) = {k}
    BY <1>2, <2>1 DEF Where
  <2>5. Cardinality(Where(t, t[i])) = 1
    <3>1. Cardinality(Where(s, t[i])) = 1
      BY <2>4, FS_Singleton
    <3> QED
      BY <1>1, <3>1 DEF SameCounts, Count
  <2>6. IsFiniteSet(Where(t, t[i]))
    BY <1>3, CountFacts
  <2>7. PICK m : Where(t, t[i]) = {m}
    BY <2>5, <2>6, FS_Singleton
  <2>8. i \in Where(t, t[i]) /\ j \in Where(t, t[i])
    BY <2>3 DEF Where
  <2> QED
    BY <2>7, <2>8
<1> QED
  BY <1>4 DEF OnePositionEach, t

\* What validation says of the findings of an accepted run.
LEMMA FindingLists ==
    ASSUME NEW r \in Run, FindingsAccepted(r)
    PROVE  /\ \A x \in ToSet(r.findings) :
                /\ x \in Rows.findings
                /\ x.positions \in Seq(Nat \X Nat)
                /\ ToSet(x.branches) \subseteq Ids(r.branches)
                /\ \A p \in ToSet(x.positions) : p[1] \in Ids(r.branches)
           /\ Distinct(r.findings)
<1>1. r.findings \in Seq(Rows.findings)
  BY RunFields
<1>2. \A i \in DOMAIN r.findings :
        /\ r.findings[i].id = i
        /\ ToSet(r.findings[i].branches) \subseteq Ids(r.branches)
        /\ \A p \in ToSet(r.findings[i].positions) : p[1] \in Ids(r.branches)
  BY DEF FindingsAccepted
<1>3. \A i \in DOMAIN r.findings : r.findings[i] \in Rows.findings
  BY <1>1, ElementOf
<1>4. \A x \in Rows.findings : x.positions \in Seq(Nat \X Nat)
  BY DEF Rows
<1>5. Distinct(r.findings)
  <2>1. DistinctIn(r.findings)
    BY <1>2 DEF DistinctIn
  <2> QED
    BY <1>1, <2>1, DistinctIds
<1>6. ASSUME NEW x \in ToSet(r.findings)
      PROVE  /\ x \in Rows.findings
             /\ ToSet(x.branches) \subseteq Ids(r.branches)
             /\ \A p \in ToSet(x.positions) : p[1] \in Ids(r.branches)
  <2>1. PICK i \in DOMAIN r.findings : x = r.findings[i]
    BY DEF ToSet
  <2> QED
    BY <1>2, <1>3, <2>1
<1> QED
  BY <1>4, <1>5, <1>6

\* The same for all findings of two runs.
LEMMA SamePositionsEach ==
    ASSUME NEW s \in Seq(Rows.findings), NEW t \in Seq(Rows.findings),
           \A x \in ToSet(s) : OnePositionEach(x),
           AsBag([i \in DOMAIN s |-> FindingBags[s[i]]]) = AsBag([i \in DOMAIN t |-> FindingBags[t[i]]])
    PROVE  \A y \in ToSet(t) : OnePositionEach(y)
<1> DEFINE u == [i \in DOMAIN s |-> FindingBags[s[i]]]
           v == [i \in DOMAIN t |-> FindingBags[t[i]]]
<1>1. ToSet(u) = ToSet(v)
  BY BaggedElements
<1> SUFFICES ASSUME NEW y \in ToSet(t) PROVE OnePositionEach(y)
  OBVIOUS
<1>2. PICK j \in DOMAIN t : y = t[j]
  BY DEF ToSet
<1>3. v[j] \in ToSet(u) /\ v[j] = FindingBags[y]
  BY <1>1, <1>2 DEF ToSet
<1>4. PICK i \in DOMAIN s : u[i] = v[j]
  BY <1>3 DEF ToSet
<1> DEFINE x == s[i]
<1>5. x \in Rows.findings /\ y \in Rows.findings /\ OnePositionEach(x) /\ FindingBags[x] = FindingBags[y]
  BY <1>2, <1>3, <1>4, ElementOf DEF ToSet
<1> HIDE DEF x, u, v
<1>6. \A z \in Rows.findings : z.positions \in Seq(Nat \X Nat) /\ FindingBags[z].positions = AsBag(z.positions)
  BY DEF FindingBags, Rows
<1>7. AsBag(x.positions) = AsBag(y.positions)
  BY <1>5, <1>6
<1> QED
  BY <1>5, <1>6, <1>7, OnePositionKept

\* Two accepted runs of one content are equal, when no branch of a finding has two
\* positions.
LEMMA OneForm ==
    ASSUME NEW r \in Run, NEW w \in Run, Accepted(r), Accepted(w), Content(r) = Content(w),
           \A f \in ToSet(r.findings) : OnePositionEach(f)
    PROVE  r = w
<1>1. /\ Distinct(r.entities) /\ Distinct(w.entities) /\ Distinct(r.vantages) /\ Distinct(w.vantages)
      /\ Distinct(r.assertions) /\ Distinct(w.assertions) /\ Distinct(r.edges) /\ Distinct(w.edges)
      /\ Distinct(r.branches) /\ Distinct(w.branches) /\ Distinct(r.checks) /\ Distinct(w.checks)
      /\ Distinct(r.executions) /\ Distinct(w.executions)
      /\ Distinct(r.observations) /\ Distinct(w.observations)
      /\ Distinct(r.visibility) /\ Distinct(w.visibility)
  BY DEF Accepted, EvidenceAccepted, PathAccepted, ChecksAccepted
<1>2. Distinct(r.claims) /\ Distinct(w.claims)
  <2>1. /\ r.claims \in Seq(Rows.claims) /\ w.claims \in Seq(Rows.claims)
        /\ DistinctIn(r.claims) /\ DistinctIn(w.claims)
    BY RunFields DEF Accepted, ClaimsAccepted, DistinctIn
  <2> QED
    BY <2>1, DistinctIds
<1>3. /\ RowsInOrder(r) /\ ListsInOrder(r) /\ RowsInOrder(w) /\ ListsInOrder(w)
      /\ CanonicalBranches(r.branches).ok /\ CanonicalBranches(r.branches).branches = r.branches
      /\ CanonicalBranches(w.branches).ok /\ CanonicalBranches(w.branches).branches = w.branches
  BY InOrderFacts DEF Accepted
<1> DEFINE c == Content(r)
<1>4. Bagged(c, r) /\ Bagged(c, w)
  BY ContentFields
<1> HIDE DEF c
<1>5. r.version = w.version /\ r.port = w.port /\ r.window = w.window /\ r.rules = w.rules
  BY <1>4 DEF Bagged
<1>6. r.entities = w.entities /\ r.vantages = w.vantages
      /\ r.assertions = w.assertions /\ r.observations = w.observations
  <2>1. /\ AsBag(r.entities) = AsBag(w.entities) /\ AsBag(r.vantages) = AsBag(w.vantages)
        /\ AsBag(r.assertions) = AsBag(w.assertions) /\ AsBag(r.observations) = AsBag(w.observations)
    BY <1>4 DEF Bagged
  <2>2. r.entities = w.entities
    BY <1>1, <1>3, <2>1, RunFields, RowsHaveIds, RowsSame DEF RowsInOrder
  <2>3. r.vantages = w.vantages
    BY <1>1, <1>3, <2>1, RunFields, RowsHaveIds, RowsSame DEF RowsInOrder
  <2>4. r.assertions = w.assertions
    BY <1>1, <1>3, <2>1, RunFields, RowsHaveIds, RowsSame DEF RowsInOrder
  <2>5. r.observations = w.observations
    BY <1>1, <1>3, <2>1, RunFields, RowsHaveIds, RowsSame DEF RowsInOrder
  <2> QED
    BY <2>2, <2>3, <2>4, <2>5
<1>7. r.branches = w.branches
  <2>1. r.branches \in Seq(Rows.branches) /\ w.branches \in Seq(Rows.branches)
            /\ AsBag(r.branches) = AsBag(w.branches)
    BY <1>4, RunFields DEF Bagged
  <2>2. ToSet(r.branches) = ToSet(w.branches)
    BY <2>1, SameBags
  <2>3. CanonicalBranches(r.branches) = CanonicalBranches(w.branches)
    BY <1>1, <1>3, <2>1, <2>2, RowsHaveIds, CanonicalBranchesSame
  <2> QED
    BY <1>3, <2>3
<1>8. r.edges = w.edges
  <2>1. /\ r.edges \in Seq(Rows.edges) /\ w.edges \in Seq(Rows.edges)
        /\ AsBag([i \in DOMAIN r.edges |-> EdgeBags[r.edges[i]]])
             = AsBag([i \in DOMAIN w.edges |-> EdgeBags[w.edges[i]]])
        /\ InKeyOrder(r.edges, ById0(Rows.edges)) /\ InKeyOrder(w.edges, ById0(Rows.edges))
    BY <1>3, <1>4, RunFields DEF Bagged, RowsInOrder
  <2>2. \A x \in ToSet(r.edges) \cup ToSet(w.edges) : InKeyOrder(x.refs, AsRef)
    BY <1>3 DEF ListsInOrder, ToSet
  <2> QED
    BY <1>1, <2>1, <2>2, EdgeRowsSame
<1>9. r.checks = w.checks
  <2>1. /\ r.checks \in Seq(Rows.checks) /\ w.checks \in Seq(Rows.checks)
        /\ AsBag([i \in DOMAIN r.checks |-> CheckBags[r.checks[i]]])
             = AsBag([i \in DOMAIN w.checks |-> CheckBags[w.checks[i]]])
        /\ InKeyOrder(r.checks, ById0(Rows.checks)) /\ InKeyOrder(w.checks, ById0(Rows.checks))
    BY <1>3, <1>4, RunFields DEF Bagged, RowsInOrder
  <2>2. \A x \in ToSet(r.checks) \cup ToSet(w.checks) : InKeyOrder(x.deps, AsNumber)
    BY <1>3 DEF ListsInOrder, ToSet
  <2> QED
    BY <1>1, <2>1, <2>2, CheckRowsSame
<1>10. r.executions = w.executions
  <2>1. /\ r.executions \in Seq(Rows.executions) /\ w.executions \in Seq(Rows.executions)
        /\ AsBag([i \in DOMAIN r.executions |-> ExecutionBags[r.executions[i]]])
             = AsBag([i \in DOMAIN w.executions |-> ExecutionBags[w.executions[i]]])
        /\ InKeyOrder(r.executions, ById0(Rows.executions)) /\ InKeyOrder(w.executions, ById0(Rows.executions))
    BY <1>3, <1>4, RunFields DEF Bagged, RowsInOrder
  <2>2. \A x \in ToSet(r.executions) \cup ToSet(w.executions) :
          InKeyOrder(x.observations, AsNumber) /\ InKeyOrder(x.visibility, AsNumber)
    BY <1>3 DEF ListsInOrder, ToSet
  <2> QED
    BY <1>1, <2>1, <2>2, ExecutionRowsSame
<1>11. r.visibility = w.visibility
  <2>1. /\ r.visibility \in Seq(Rows.visibility) /\ w.visibility \in Seq(Rows.visibility)
        /\ AsBag([i \in DOMAIN r.visibility |-> VisibilityBags[r.visibility[i]]])
             = AsBag([i \in DOMAIN w.visibility |-> VisibilityBags[w.visibility[i]]])
        /\ InKeyOrder(r.visibility, ById0(Rows.visibility)) /\ InKeyOrder(w.visibility, ById0(Rows.visibility))
    BY <1>3, <1>4, RunFields DEF Bagged, RowsInOrder
  <2>2. \A x \in ToSet(r.visibility) \cup ToSet(w.visibility) : InKeyOrder(x.basis, AsNumber)
    BY <1>3 DEF ListsInOrder, ToSet
  <2> QED
    BY <1>1, <2>1, <2>2, VisibilityRowsSame
<1>12. r.claims = w.claims
  <2>1. /\ r.claims \in Seq(Rows.claims) /\ w.claims \in Seq(Rows.claims)
        /\ AsBag([i \in DOMAIN r.claims |-> ClaimBags[r.claims[i]]])
             = AsBag([i \in DOMAIN w.claims |-> ClaimBags[w.claims[i]]])
        /\ InKeyOrder(r.claims, ById0(Rows.claims)) /\ InKeyOrder(w.claims, ById0(Rows.claims))
    BY <1>3, <1>4, RunFields DEF Bagged, RowsInOrder
  <2>2. \A x \in ToSet(r.claims) \cup ToSet(w.claims) :
          InKeyOrder(x.support, AsRef) /\ InKeyOrder(x.contra, AsRef) /\ InKeyOrder(x.missing, AsNumber)
    BY <1>3 DEF ListsInOrder, ToSet
  <2> QED
    BY <1>2, <2>1, <2>2, ClaimRowsSame
<1>13. r.findings = w.findings
  <2>1. /\ r.findings \in Seq(Rows.findings) /\ w.findings \in Seq(Rows.findings)
        /\ AsBag([i \in DOMAIN r.findings |-> FindingBags[r.findings[i]]])
             = AsBag([i \in DOMAIN w.findings |-> FindingBags[w.findings[i]]])
        /\ InKeyOrder(r.findings, ById0(Rows.findings)) /\ InKeyOrder(w.findings, ById0(Rows.findings))
    BY <1>3, <1>4, RunFields DEF Bagged, RowsInOrder
  <2>2. \A x \in ToSet(r.findings) \cup ToSet(w.findings) : OnePositionEach(x)
    BY <2>1, SamePositionsEach
  <2>3. BranchKey(w) = BranchKey(r) /\ PositionKey(w) = PositionKey(r)
    BY <1>7 DEF BranchKey, PositionKey, BranchIndex
  <2>4. \A x \in ToSet(r.findings) \cup ToSet(w.findings) :
          /\ InKeyOrder(x.branches, BranchKey(r)) /\ InKeyOrder(x.positions, PositionKey(r))
          /\ InKeyOrder(x.claims, AsNumber)
    BY <1>3, <2>3 DEF ListsInOrder, ToSet
  <2>5. /\ \A x \in ToSet(r.findings) \cup ToSet(w.findings) :
             /\ ToSet(x.branches) \subseteq Ids(r.branches)
             /\ \A p \in ToSet(x.positions) : p[1] \in Ids(r.branches)
        /\ Distinct(r.findings) /\ Distinct(w.findings)
    BY <1>7, FindingLists DEF Accepted
  <2>6. r.branches \in Seq(Rows.branches)
    BY RunFields
  <2> QED
    BY <2>1, <2>2, <2>4, <2>5, <2>6, FindingRowsSame
<1>14. /\ DOMAIN r = RunNames /\ DOMAIN w = RunNames
       /\ r = [x \in RunNames |-> r[x]] /\ w = [x \in RunNames |-> w[x]]
  <2>1. DOMAIN r = RunNames /\ DOMAIN w = RunNames
    BY RunFields
  <2>2. r = [x \in DOMAIN r |-> r[x]] /\ w = [x \in DOMAIN w |-> w[x]]
    BY DEF Run
  <2> QED
    BY <2>1, <2>2
<1>15. \A x \in RunNames : r[x] = w[x]
  BY <1>5, <1>6, <1>7, <1>8, <1>9, <1>10, <1>11, <1>12, <1>13 DEF RunNames
<1> QED
  BY <1>14, <1>15

\* No second file says what the report says: whatever edits led to an accepted file of
\* the same content, it is the report, unless a finding has two positions on a branch.
THEOREM CanonicalFormIsOne == Spec => []OneCanonicalForm
<1>1. Inv => OneCanonicalForm
  <2> SUFFICES ASSUME Inv, phase = "read", NEW r \in ToSet(read), Content(r) = Content(report[1]),
                      \A f \in ToSet(r.findings) : OnePositionEach(f)
               PROVE  r = report[1]
    BY DEF OneCanonicalForm
  <2>1. r \in Run /\ Accepted(r)
    BY ReadRuns
  <2>2. report # <<>>
    BY DEF Inv
  <2>3. PICK w \in Run : report = <<w>> /\ Accepted(w)
    BY <2>2, InvRuns
  <2> QED
    BY <2>1, <2>3, OneForm
<1> QED
  BY <1>1, Invariance, PTL

----
(***************************************************************************)
(* Findings and their claims                                               *)
(***************************************************************************)
\* For every evidence and every answers of the rules: no finding is lost, added or
\* attached to claims of another candidate by the renumbering.
THEOREM FindingsAlwaysKeepTheirClaims == Spec => []FindingsKeepTheirClaims
<1>1. Inv => FindingsKeepTheirClaims
  <2> SUFFICES ASSUME Inv, phase = "evaluated" PROVE FindingsKeepTheirClaims
    BY DEF FindingsKeepTheirClaims
  <2> DEFINE compiled == Compiled(Rules, emission)
             given == UNION {UNION {{<<n, i, j>> : j \in DOMAIN emission[n][i].findings} :
                                       i \in DOMAIN emission[n]} : n \in DOMAIN emission}
             a == DraftFindings(compiled)
  <2>1. /\ evidence \in Run /\ EvidenceAccepted(evidence)
        /\ Rules \in Seq(Nat) /\ ToSet(Rules) = DOMAIN emission
        /\ \A n \in ToSet(Rules) : emission[n] \in Seq(RuleCandidate)
        /\ \A k, l \in DOMAIN Rules : Rules[k] = Rules[l] => k = l
    BY EvidenceType, RulesType DEF Inv
  <2>2. report # <<>> /\ report = Evaluate(evidence, Rules, emission)
    BY DEF Inv
  <2>3. PICK r \in Run : report = <<r>> /\ r = Canonical(Select(Derived(evidence, Rules, compiled)))
    BY <2>2, ReportType DEF Inv
  <2>4. /\ \A n \in ToSet(Rules) : KeysAccepted(emission[n])
        /\ \A k \in DOMAIN compiled : LocalsAccepted(compiled[k])
    BY <2>2, EvaluateKeys
  <2>5. compiled \in Seq(Candidate)
    BY <2>1, CompiledType
  <2>6. \A k \in DOMAIN compiled : \A j \in DOMAIN compiled[k].findings :
          /\ r.findings[At(DraftFindings(compiled), k, j)].rule = compiled[k].rule
          /\ FindingSays(r, r.findings[At(DraftFindings(compiled), k, j)]) = CandidateSays(compiled[k], j)
    <3>1. evidence \in Run /\ compiled \in Seq(Candidate)
      BY <2>1, <2>5
    <3>2. \A k \in DOMAIN compiled : LocalsAccepted(compiled[k])
      BY <2>4
    <3>3. r = Canonical(Select(Derived(evidence, Rules, compiled)))
      BY <2>3
    <3> HIDE DEF compiled, a, given
    <3> SUFFICES ASSUME NEW k \in DOMAIN compiled, NEW j \in DOMAIN compiled[k].findings
                 PROVE  /\ r.findings[At(DraftFindings(compiled), k, j)].rule = compiled[k].rule
                        /\ FindingSays(r, r.findings[At(DraftFindings(compiled), k, j)])
                             = CandidateSays(compiled[k], j)
      OBVIOUS
    <3> QED
      BY <3>1, <3>2, <3>3, ClaimsKept
  <2>7. PICK place \in Bijection(Answers(Rules, emission), DOMAIN compiled) :
          \A n \in ToSet(Rules) : \A i \in DOMAIN emission[n] :
            compiled[place[<<n, i>>]]
              = [rule |-> n, claims |-> emission[n][i].claims, findings |-> emission[n][i].findings]
    BY <2>1, <2>4, AnswersPlaced
  <2>8. /\ DOMAIN r.findings = DOMAIN Findings(compiled)
        /\ Findings(compiled) \in Seq(Rows.findings) /\ r.findings \in Seq(Rows.findings)
    BY <2>1, <2>3, <2>4, <2>5, ReportRows, DerivedParts, RunFields
  <2>9. Len(r.findings) = Cardinality(given)
    <3>1. Cardinality(Given(Rules, emission)) = Len(Findings(compiled))
      BY <2>1, <2>4, GivenCounted
    <3>2. Given(Rules, emission) = given
      BY <2>1 DEF Given
    <3>3. Len(r.findings) = Len(Findings(compiled))
      <4> HIDE DEF compiled
      <4> QED
        BY <2>8
    <3> QED
      BY <3>1, <3>2, <3>3
  <2>10. ASSUME NEW n \in ToSet(Rules), NEW i \in DOMAIN emission[n], NEW j \in DOMAIN emission[n][i].findings
        PROVE  \E p \in DOMAIN r.findings :
                 /\ r.findings[p].rule = n
                 /\ CandidateSays(emission[n][i], j) = FindingSays(r, r.findings[p])
    <3> DEFINE k == place[<<n, i>>]
               p == At(a, k, j)
               f == r.findings[p]
    <3>1. k \in DOMAIN compiled
      <4>1. <<n, i>> \in Answers(Rules, emission)
        BY DEF Answers
      <4> HIDE DEF compiled
      <4> QED
        BY <4>1 DEF Bijection, Injection
    <3>2. compiled[k] = [rule |-> n, claims |-> emission[n][i].claims, findings |-> emission[n][i].findings]
      BY <2>7, Zenon
    <3> HIDE DEF k, compiled
    <3>3. compiled[k].rule = n /\ compiled[k].claims = emission[n][i].claims
          /\ compiled[k].findings = emission[n][i].findings
      BY <3>2
    <3>4. j \in DOMAIN compiled[k].findings
      BY <3>3
    <3>5. f.rule = compiled[k].rule /\ FindingSays(r, f) = CandidateSays(compiled[k], j)
      <4>1. r.findings[At(DraftFindings(compiled), k, j)].rule = compiled[k].rule
            /\ FindingSays(r, r.findings[At(DraftFindings(compiled), k, j)]) = CandidateSays(compiled[k], j)
        BY <2>6, <3>1, <3>4
      <4> QED
        BY <4>1
    <3>7. CandidateSays(compiled[k], j) = CandidateSays(emission[n][i], j)
      BY <3>3 DEF CandidateSays
    <3>6. p \in DOMAIN r.findings
      BY <2>4, <2>5, <2>8, <3>1, <3>4, FindingAt
    <3> HIDE DEF p
    <3> QED
      BY <3>3, <3>5, <3>6, <3>7
  <2> HIDE DEF compiled, a
  <2>11. \A g \in given : \E n \in ToSet(Rules) : \E i \in DOMAIN emission[n] :
           \E j \in DOMAIN emission[n][i].findings : g[1] = n /\ g[2] = i /\ g[3] = j
    BY <2>1
  <2>12. report[1] = r
    BY <2>3
  <2> DEFINE keeps(f, n, i, j) ==
               LET c == emission[n][i]
                   cited == {c.claims[k] : k \in {k \in DOMAIN c.claims :
                               c.claims[k].key \in ToSet(c.findings[j].claims)}}
               IN  /\ f.rule = n
                   /\ {<<t.statement, t.about, t.level>> : t \in cited}
                        = {<<x.statement, x.about, x.level>> :
                             x \in {report[1].claims[id] : id \in ToSet(f.claims)}}
  <2>13. \A f, n, i, j : f.rule = n /\ CandidateSays(emission[n][i], j) = FindingSays(r, f)
                           => keeps(f, n, i, j)
    BY <2>12 DEF CandidateSays, FindingSays, Says
  <2>14. FindingsKeepTheirClaims <=>
           /\ Len(report[1].findings) = Cardinality(given)
           /\ \A g \in given : \E i \in DOMAIN report[1].findings :
                keeps(report[1].findings[i], g[1], g[2], g[3])
    BY DEF FindingsKeepTheirClaims
  <2> HIDE DEF keeps, given
  <2>15. ASSUME NEW g \in given
         PROVE  \E i \in DOMAIN report[1].findings : keeps(report[1].findings[i], g[1], g[2], g[3])
    <3>1. PICK n \in ToSet(Rules) : \E i \in DOMAIN emission[n] :
             \E j \in DOMAIN emission[n][i].findings : g[1] = n /\ g[2] = i /\ g[3] = j
      BY <2>11
    <3>2. PICK i \in DOMAIN emission[n] :
             \E j \in DOMAIN emission[n][i].findings : g[1] = n /\ g[2] = i /\ g[3] = j
      BY <3>1
    <3>3. PICK j \in DOMAIN emission[n][i].findings : g[1] = n /\ g[2] = i /\ g[3] = j
      BY <3>2
    <3>4. PICK p \in DOMAIN r.findings : /\ r.findings[p].rule = n
                                         /\ CandidateSays(emission[n][i], j) = FindingSays(r, r.findings[p])
      BY <2>10
    <3>5. keeps(r.findings[p], n, i, j)
      BY <2>13, <3>4
    <3> QED
      BY <2>12, <3>3, <3>5
  <2> QED
    BY <2>9, <2>12, <2>14, <2>15
<1> QED
  BY <1>1, Invariance, PTL
====
