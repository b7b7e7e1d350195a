---- MODULE LocalDiagnosis ----
(***************************************************************************)
(* routedoc local (diagnoseWith in localdiagnosis/diagnose.go): the procfs *)
(* scan, then the client probe, then one report made of both: the local    *)
(* evidence, the listener absence rule, the selection, the exit code and   *)
(* what the text report says.                                              *)
(*                                                                         *)
(* The client probe is a single step here and each destination one attempt *)
(* (ClientProbe has the rest): "answered" is an accepted connection with   *)
(* an HTTP answer, "refused" a refusal the TCP rule reports, "failed"      *)
(* anything else.  The target is any URL, so what answers may be a socket  *)
(* of the scanned namespace or nothing the scan could have seen: another   *)
(* host, another namespace, a forwarded port.  Parse errors and the        *)
(* probe's own errors end the command before there is a report and are     *)
(* left out, as is a host written as an IPv4-mapped literal.               *)
(***************************************************************************)
EXTENDS ProcScan, ListenerEvidence

CONSTANT Targets  \* the sets of destinations the target may have

ASSUME TargetAssumption == \A dest \in Targets : dest \subseteq {2, 3, 5, 9}

VARIABLES
    dest,       \* destinations of the probe, named as addresses are
    outcome,    \* what came of each of them
    server,     \* history: the socket of this namespace that answered each of them
    phase,      \* what diagnoseWith is doing
    findings,   \* findings of the listener and the TCP rule, without Selection
    selection   \* the Selection field of every finding

vars == <<scanVars, dest, outcome, server, phase, findings, selection>>
report == <<dest, outcome, server, findings, selection>>

Outcome == {"answered", "refused", "failed"}
Elsewhere == 0  \* nothing of this namespace answered

----
(***************************************************************************)
(* The evidence (addLocalEvidence).  Everything is dated with the end of   *)
(* the run, time 0.                                                        *)
(***************************************************************************)
Port == 1
Namespace == <<"namespace">>
Inventory == rows["IPv4"] \cup rows["IPv6"]

\* Mutant: a readable table is enough.
SeenTable(f) == tableOK[f]

\* The table of family f was read whole in a known namespace.
Seen(f) == nsOK /\ tableOK[f]

BucketOf(i) == <<Namespace, FamilyOf(bound[i]), BindingOf(bound[i])>>
Count(bucket) == Cardinality({i \in Inventory : BucketOf(i) = bucket})

Observed(kind, bucket, count, listener, isOwned) ==
    [kind |-> kind, bucket |-> bucket, count |-> count, listener |-> listener,
     owned |-> isOwned, ports |-> <<Port, Port>>, vantage |-> "host", at |-> 0,
     limited |-> FALSE]

ObservationAt(id) ==
    CASE id[1] = "entry" ->
           Observed("ENTRY", BucketOf(id[2]), 0, <<"listener", id[2]>>, FALSE)
      [] id[1] = "owner" ->
           Observed("OWNERSHIP", Namespace, 0, <<"listener", id[2]>>, Owned(id[2]))
      [] id[1] = "result" ->
           LET bucket == <<Namespace, id[2], id[3]>>
           IN  Observed("RESULT", bucket, Count(bucket), Namespace, FALSE)

\* The local part of the EvidenceRun.
LocalEvidence ==
    [entities |-> [id \in {Namespace} \cup {<<"listener", i>> : i \in Inventory} |->
                     IF id = Namespace
                     THEN [kind |-> "NETWORK_NAMESPACE", inode |-> IF nsOK THEN 1 ELSE 0]
                     ELSE [kind |-> "LISTENER", inode |-> 0]],
     vantages |-> [host |-> [kind |-> IF nsOK THEN "HOST_NAMESPACE" ELSE "UNKNOWN_NAMESPACE",
                             inode |-> IF nsOK THEN 1 ELSE 0]],
     observations |-> [id \in {<<name, i>> : name \in {"entry", "owner"}, i \in Inventory}
                              \cup {<<"result", f, b>> : f \in {g \in Family : Seen(g)},
                                                         b \in Binding} |-> ObservationAt(id)],
     window |-> 0]

Visibility(f, b) ==
    [vantage |-> "host", bucket |-> <<Namespace, f, b>>, ports |-> <<Port, Port>>,
     level |-> IF Seen(f) THEN "COMPLETE_FOR_SCOPE" ELSE "PARTIAL",
     basis |-> IF Seen(f) THEN <<<<"result", f, b>>>> ELSE <<>>,
     ownershipRequired |-> FALSE, limited |-> ~Seen(f), at |-> 0]

\* A process is one entity, labelled as its first listener found it.
Processes == {owners[i].pid : i \in {j \in Inventory : Owned(j)}}
LabelledBy(p) == owners[Least({i \in Inventory : owners[i].pid = p})]

\* CanonicalizeAndValidateEvidenceRun, as far as the local evidence goes.
EvidenceAccepted(evidence) ==
    /\ \A p \in Processes : ~LabelledBy(p).odd
    /\ \A f \in Family, b \in Binding :
         /\ VisibilityAccepted(evidence, Visibility(f, b))
         /\ <<"result", f, b>> \in DOMAIN evidence.observations =>
              NamespaceMatchesVantage(evidence, Visibility(f, b))

----
(***************************************************************************)
(* The probe, after which the inventory becomes evidence.                  *)
(***************************************************************************)
\* The destinations a socket bound to address a may answer: an IPv6 wildcard IPv4
\* ones too (the kernel decides that for each socket), and a socket bound to an
\* IPv4-mapped address the IPv4 ones alone.
Reaches(a, d) ==
    \/ a = d
    \/ a \in {1, 6} /\ FamilyOf(d) = "IPv4"
    \/ a = 4
    \/ <<a, d>> \in {<<7, 2>>, <<8, 3>>}

\* Any destination may answer, refuse or fail, whatever the inventory holds.
Probe ==
    /\ phase = "scan" /\ pc = "collected"
    /\ dest' \in Targets
    /\ outcome' \in [dest' -> Outcome]
    /\ server' \in [dest' -> Inode \cup {Elsewhere}]
    /\ \A d \in dest' : server'[d] # Elsewhere =>
         /\ outcome'[d] = "answered"
         /\ life[server'[d]] = "open" /\ Reaches(bound[server'[d]], d)
    /\ phase' = "evaluate"
    /\ UNCHANGED <<scanVars, findings, selection>>

----
(***************************************************************************)
(* The rules, in the order of their IDs: listener absence (numbers 1 to 6, *)
(* in the order of the visibility IDs), then TCP refusal.                  *)
(***************************************************************************)
Destinations(f) == {d \in dest : FamilyOf(d) = f}

\* scopeAppliesToTarget: without destinations every scope does.
Applies(f) == Destinations(f) # {} \/ dest = {}

\* bindingCovers.
BindingCovers(a, d) ==
    CASE BindingOf(a) = "EXACT" -> a = d
      [] BindingOf(a) = "WILDCARD" -> a \in {1, 4}
      [] BindingOf(a) = "LOOPBACK" -> d \in {2, 5}

\* Mutant: wildcard listeners are forgotten.
HasExactListener(f) ==
    \E i \in Inventory, d \in Destinations(f) :
        FamilyOf(bound[i]) = f /\ bound[i] \notin {1, 4} /\ BindingCovers(bound[i], d)

HasCompatibleListener(f) ==
    \E i \in Inventory, d \in Destinations(f) :
        FamilyOf(bound[i]) = f /\ BindingCovers(bound[i], d)

\* noMatchingListenerVisible: the buckets whose emptiness is a blocker.
Absent(evidence) ==
    {s \in Family \X Binding :
        /\ Applies(s[1]) /\ ~HasCompatibleListener(s[1])
        /\ AbsenceValid(evidence, Visibility(s[1], s[2]), Port)}

ScopeNumber(s) ==
    (IF s[1] = "IPv4" THEN 0 ELSE 3)
      + CASE s[2] = "EXACT" -> 1 [] s[2] = "LOOPBACK" -> 2 [] s[2] = "WILDCARD" -> 3

\* Mutant: the absence is attached to every branch.
AttachedEverywhere == [d \in dest |-> 0]

\* branchesFor: no edge of the path cites a visibility assessment.
AttachedTo == [d \in {} |-> 0]

\* A refusal sits on the connect edge, after the resolves-to edge, of its branch.
Findings(evidence) ==
    [n \in {ScopeNumber(s) : s \in Absent(evidence)} \cup {6 + d : d \in {e \in dest : outcome[e] = "refused"}} |->
        IF n <= 6 THEN [level |-> "INFERRED", statement |-> <<"absent", n>>, at |-> AttachedTo]
        ELSE [level |-> "OBSERVED", statement |-> <<"refused", n - 6>>,
              at |-> [d \in {n - 6} |-> 1]]]

Selector(reported) == INSTANCE Blockers WITH
    Branch <- dest,
    Finding <- DOMAIN reported,
    EdgeCount <- [d \in dest |-> 2],
    lineage <- [d \in dest |-> {d}],
    findings <- reported

\* Validation, evaluation, selection and validation again; an issue ends the run.
Evaluate ==
    /\ phase = "evaluate"
    /\ \E evidence \in {LocalEvidence} :
         IF EvidenceAccepted(evidence)
         THEN /\ findings' = Findings(evidence)
              /\ selection' = [n \in DOMAIN findings' |-> Selector(findings')!Selected(n)]
              /\ phase' = "reported"
         ELSE phase' = "internal_error" /\ UNCHANGED <<findings, selection>>
    /\ UNCHANGED <<scanVars, dest, outcome, server>>

Finished == phase \in {"reported", "internal_error"} /\ UNCHANGED vars

----
(***************************************************************************)
(* The report: the exit code of App.local and the lines of                 *)
(* reportLocalConcise that speak of the inventory.                         *)
(***************************************************************************)
Blocks(n) == selection[n] \in {"GLOBAL_PRIMARY", "BRANCH_PRIMARY"}
Status ==
    IF \E d \in dest : outcome[d] = "answered" THEN "SATISFIED"
    ELSE IF dest # {} /\ \A d \in dest : \E n \in DOMAIN findings :
              Blocks(n) /\ (selection[n] = "GLOBAL_PRIMARY" \/ d \in DOMAIN findings[n].at)
         THEN "BLOCKED" ELSE "INDETERMINATE"
ExitCode ==
    IF phase = "internal_error" THEN 4
    ELSE CASE Status = "SATISFIED" -> 0 [] Status = "BLOCKED" -> 1 [] OTHER -> 2

\* Mutant: one complete table is enough to say that nothing listens.
SomeComplete == \E f \in Family : Seen(f)

\* localVisibility, over the assessments of the port.
AllComplete == \A f \in Family : Seen(f)

Conclusion ==
    IF Inventory = {} THEN IF AllComplete THEN "no listener" ELSE "no conclusion"
    ELSE IF AllComplete /\ \A i \in Inventory : BindingOf(bound[i]) = "LOOPBACK"
         THEN "only loopback" ELSE "none"

----
Init ==
    /\ InitScan
    /\ dest = {} /\ outcome = <<>> /\ server = <<>> /\ phase = "scan"
    /\ findings = <<>> /\ selection = <<>>

HostStep == Host /\ UNCHANGED <<report, phase>>
ScanStep == Scan /\ UNCHANGED <<report, phase>>

Next == HostStep \/ ScanStep \/ Probe \/ Evaluate \/ Finished

Spec == Init /\ [][Next]_vars

----
(***************************************************************************)
(* Properties                                                              *)
(***************************************************************************)
\* Every variable keeps the shape of the Go value it stands for.
TypeOK ==
    /\ ScanTypeOK
    /\ dest \in Targets \cup {{}} /\ outcome \in [dest -> Outcome]
    /\ server \in [dest -> Inode \cup {Elsewhere}]
    /\ phase \in {"scan", "evaluate", "reported", "internal_error"}
    /\ DOMAIN findings \subseteq 1..15
    /\ \A n \in DOMAIN findings : DOMAIN findings[n].at \subseteq dest
    /\ DOMAIN selection = DOMAIN findings
    /\ \A n \in DOMAIN selection :
         selection[n] \in {"NONE", "BRANCH_PRIMARY", "ADDITIONAL", "GLOBAL_PRIMARY"}

Absences == {s \in Family \X Binding : ScopeNumber(s) \in DOMAIN findings}

\* An absence was true when its table was read, whatever happened before and after:
\* no socket of that table open throughout its read is in the bucket, or may answer a
\* destination of the family.  "No matching TCP listener was observed" was true of
\* both tables.
AbsenceWasTrue ==
    phase = "reported" =>
        /\ \A s \in Absences : \A i \in span[s[1]].must :
             /\ BindingOf(bound[i]) # s[2]
             /\ \A d \in Destinations(s[1]) : ~Reaches(bound[i], d)
        /\ Conclusion = "no listener" => \A f \in Family : span[f].must = {}

\* While the host stands still, a destination answered by a socket of this namespace
\* stands beside an absence inferred for its family only if the other family's table is
\* the one that lists that socket: an IPv4 destination answered by a dual-stack wildcard
\* or an IPv4-mapped bind.  (An answer from outside the namespace, a remote host's for
\* one, contradicts no absence: the rule speaks of this namespace only.)
ContradictionIsCrossFamily ==
    phase = "reported" /\ events = 0 =>
        \A s \in Absences, d \in dest :
            server[d] # Elsewhere /\ FamilyOf(d) = s[1] =>
                s[1] = "IPv4" /\ FamilyOf(bound[server[d]]) = "IPv6"

\* No state of procfs, however torn, costs the report.  What does is a process name:
\* one that safeProcessLabel lets pass and the validator does not.
LostOnlyToLabels ==
    phase = "internal_error" => \E i \in Listeners : owners[i].odd

\* The client findings are selected, and the run is judged, as without the listener
\* findings: an absence never blocks a branch of its own.
LocalKeepsVerdict ==
    phase = "reported" =>
        LET client == [n \in DOMAIN findings \cap 7..15 |-> findings[n]]
        IN  /\ \A n \in DOMAIN client : selection[n] = Selector(client)!Selected(n)
            /\ Status = "BLOCKED" <=> dest # {} /\ \A d \in dest : outcome[d] = "refused"

\* The text and the findings agree: "nothing listening" comes with an absence for
\* every bucket of the families looked for.  "No listener-absence conclusion is
\* drawn" comes with absences all the same in one case, which the text does not
\* tell: one of the two tables was complete.  "Listening only on loopback" is right
\* that these listeners are not reached at another address: while the host stands
\* still, a destination that is not 127.0.0.1 or ::1 is answered, if at all, from
\* outside the namespace.
TextAndFindings ==
    phase = "reported" =>
        /\ Conclusion = "no listener" => Absences = {s \in Family \X Binding : Applies(s[1])}
        /\ Conclusion = "no conclusion" /\ Absences # {} =>
             Cardinality({f \in Family : Seen(f)}) = 1
        /\ Conclusion = "only loopback" /\ events = 0 =>
             \A d \in dest \ {2, 5} : server[d] = Elsewhere
====
