---- MODULE Diagnosis ----
(***************************************************************************)
(* From the facts of a client probe to its verdict: the second half of     *)
(* diagnose (diagnose.go), which assembles the evidence (assemble.go), has *)
(* it validated (internal/model), has the two blocker rules evaluated and  *)
(* the primary blockers selected (internal/rules, internal/selection), and *)
(* the status the command line turns into an exit code (status.go).        *)
(*                                                                         *)
(* An observation is named by its kind and the attempt it was made in, and *)
(* a branch by the address of its endpoint.  Branches of the probe have no *)
(* parents.  The resolution's own observations are left out: nothing but   *)
(* the resolution check and the resolves-to edges cites them.              *)
(***************************************************************************)
EXTENDS ProbeFacts, Sequences

VARIABLES
    scheme,      \* target.persisted.Scheme
    addresses,   \* normalized addresses of a completed resolution
    facts,       \* what each connection attempt left behind
    phase,       \* what diagnose is doing
    executions,  \* CheckExecutions of the assembled evidence
    findings,    \* findings of the two rules, by number, without Selection
    selection,   \* the Selection field of every finding
    status       \* ReportStatus

vars == <<scheme, addresses, facts, phase, executions, findings, selection, status>>
input == <<scheme, addresses, facts>>

----
(***************************************************************************)
(* The assembled topology.                                                 *)
(***************************************************************************)
Accepted(s) == facts[s].tcp.outcome = "accepted"
\* A fact whose endpoint is the one really tried: it becomes an observation.
Exact(s) ==
    \/ Accepted(s)
    \/ s # "normal" /\ facts[s].tcp.outcome \in {"refused", "timed_out", "failed"}
EndpointOf(s) == facts[s].tcp.endpoint
HasPeer(s) == facts[s].tls.cert # "no_peer"
HasAnswer(s) == facts[s].http \in Answered

\* The attempts that reached endpoint e.
Tried(e) == {s \in Strategy : Exact(s) /\ EndpointOf(s) = e}

\* Mutant: only planned endpoints are listed.
PlannedBranches == Retained(addresses)

\* mergeEndpointPlans: the retained addresses, and every endpoint really tried.
Branches == Retained(addresses) \cup {EndpointOf(s) : s \in {t \in Strategy : Exact(t)}}
PinnedPlans == Pinned("pinned4", addresses) \cup Pinned("pinned6", addresses)

\* One edge for each of these attempts, in the order of the sorted facts.  An edge
\* is named by the observation that is its evidence.
Edge(kind, s, attempts) == IF s \in attempts THEN <<<<kind, s>>>> ELSE <<>>
Edges(kind, attempts) ==
    Edge(kind, "normal", attempts) \o Edge(kind, "pinned4", attempts)
      \o Edge(kind, "pinned6", attempts)

\* Of two attempts at one endpoint the connect edge of the last one is kept.
LastTried(e) == {s \in Tried(e) : \A t \in Tried(e) : Mode(t) <= Mode(s)}

\* The ordered edges of a branch.
Path(e) ==
    LET peers == {s \in Tried(e) : HasPeer(s)}
    IN  (IF e \in Retained(addresses) THEN <<<<"resolution", "all">>>> ELSE <<>>)
          \o Edges("tcp", LastTried(e))
          \o Edges("tls", peers) \o Edges("cert", peers)
          \o Edges("http", {s \in Tried(e) : HasAnswer(s)})

Observations ==
    {<<"tcp", s>> : s \in {t \in Strategy : Exact(t)}}
      \cup {<<"tls", s>> : s \in {t \in Strategy : facts[t].tls # NoTls}}
      \cup {<<kind, s>> : kind \in {"peer", "cert"}, s \in {t \in Strategy : HasPeer(t)}}
      \cup {<<"http", s>> : s \in {t \in Strategy : HasAnswer(t)}}

----
(***************************************************************************)
(* The check executions (makeChecks).                                      *)
(***************************************************************************)
Passed == [lifecycle |-> "COMPLETED", verdict |-> "PASS"]
Failed == [lifecycle |-> "COMPLETED", verdict |-> "FAIL"]
TimedOut == [lifecycle |-> "TIMED_OUT", verdict |-> "FAIL"]
Erred == [lifecycle |-> "ERROR", verdict |-> "UNKNOWN"]
Skipped == [lifecycle |-> "NOT_RUN", verdict |-> "SKIPPED"]

TcpState(outcome) ==
    CASE outcome = "accepted" -> Passed
      [] outcome = "timed_out" -> TimedOut
      [] OTHER -> Failed
TlsState(result) ==
    CASE result = "COMPLETED" -> Passed
      [] result = "TIMED_OUT" -> TimedOut
      [] OTHER -> Failed
CertState(cert) == IF cert = "VERIFIED" THEN Passed ELSE Failed
HttpState(outcome) ==
    CASE outcome \in Answered -> Passed
      [] outcome = "http_timeout" -> TimedOut
      [] OTHER -> Erred

\* One execution: of which check, on which branch, for which attempt.
Ran(check, e, s, state, cites) ==
    [check |-> check, branch |-> e, attempt |-> s, state |-> state, reason |-> "",
     cites |-> cites]
NotRun(check, e, s, reason) ==
    [check |-> check, branch |-> e, attempt |-> s, state |-> Skipped, reason |-> reason,
     cites |-> {}]
NotRunAll(checks, e, s, reason) == {NotRun(check, e, s, reason) : check \in checks}

\* Mutant: an https exchange cites its own observation, made or not.
OwnCitation(s) == {<<"http", s>>}

\* What the HTTP execution of attempt s cites: its own observation, made or not,
\* over plain http; every HTTP observation of the endpoint over https.
HttpCitations(s) ==
    IF scheme = "http" THEN {<<"http", s>>}
    ELSE {<<"http", t>> : t \in {u \in Strategy : HasAnswer(u) /\ EndpointOf(u) = EndpointOf(s)}}

HttpRun(s) ==
    IF facts[s].http = "none"
    THEN NotRun("http", EndpointOf(s), s, "probe_pending")
    ELSE Ran("http", EndpointOf(s), s, HttpState(facts[s].http), HttpCitations(s))

\* The executions of the checks that depend on an accepted connection.
PlainRuns(s) ==
    NotRunAll({"tls", "peer", "cert"}, EndpointOf(s), s, "not_applicable") \cup {HttpRun(s)}

SecureRuns(s) ==
    LET e == EndpointOf(s)
        handshake == facts[s].tls
    IN  {Ran("tls", e, s, TlsState(handshake.result), {<<"tls", s>>})}
          \cup IF ~HasPeer(s)
               THEN {NotRun("peer", e, s, "tls_peer_missing"),
                     NotRun("cert", e, s, "skipped_dependency"),
                     NotRun("http", e, s, "tls_peer_unverified")}
               ELSE {Ran("peer", e, s, Passed, {<<"peer", s>>}),
                     Ran("cert", e, s, CertState(handshake.cert), {<<"cert", s>>}),
                     IF handshake.cert = "VERIFIED" THEN HttpRun(s)
                     ELSE NotRun("http", e, s, "tls_peer_unverified")}

AttemptRuns(s) ==
    LET e == EndpointOf(s)
    IN  {Ran("tcp", e, s, TcpState(facts[s].tcp.outcome), {<<"tcp", s>>})}
          \cup IF Accepted(s) /\ scheme = "http" THEN PlainRuns(s)
               ELSE IF Accepted(s) /\ facts[s].tls # NoTls THEN SecureRuns(s)
               ELSE NotRunAll({"tls", "peer", "cert", "http"}, e, s, "skipped_dependency")

\* A planned endpoint nobody tried.
UntriedRuns(e) ==
    {NotRun("tcp", e, "none",
            IF e \in PinnedPlans THEN "probe_pending" ELSE "address_attempt_cap")}
      \cup NotRunAll({"tls", "peer", "cert", "http"}, e, "none", "skipped_dependency")

\* The check of the dial by name is not scoped to a branch.
NormalRun ==
    LET fact == facts["normal"].tcp
    IN  IF fact = NoFact THEN NotRun("tcp", NoAddr, "normal", "resolution_failed")
        ELSE Ran("tcp", NoAddr, "normal", TcpState(fact.outcome),
                 IF Exact("normal") THEN {<<"tcp", "normal">>} ELSE {})

\* Mutant: an endpoint nobody tried is passed over.
TriedRuns ==
    {NormalRun} \cup UNION {AttemptRuns(s) : s \in {t \in Strategy : Exact(t)}}

AllRuns ==
    {NormalRun}
      \cup (UNION {AttemptRuns(s) : s \in {t \in Strategy : Exact(t)}})
      \cup (UNION {UntriedRuns(e) : e \in {b \in Branches : Tried(b) = {}}})

----
(***************************************************************************)
(* The rules.  Each finding reports one observation; its number is its     *)
(* place in lessFinding order: by rule, then by attempt.                   *)
(***************************************************************************)
\* Mutant: a refusal is reported though another attempt was accepted.
AnyRefusal(s) == Exact(s) /\ facts[s].tcp.outcome = "refused"

\* tcp.connection_refused/v1: no attempt of this vantage was accepted there.
Refusal(s) ==
    /\ Exact(s) /\ facts[s].tcp.outcome = "refused"
    /\ \A t \in Strategy : EndpointOf(t) = EndpointOf(s) => ~Accepted(t)

\* tls.certificate_hostname_mismatch/v1.
Mismatch(s) == facts[s].tls.cert = "HOSTNAME_MISMATCH"

Reported ==
    {<<"tcp", s>> : s \in {t \in Strategy : Refusal(t)}}
      \cup {<<"cert", s>> : s \in {t \in Strategy : Mismatch(t)}}

Earlier(s, t) ==
    \/ EndpointOf(s) < EndpointOf(t)
    \/ EndpointOf(s) = EndpointOf(t) /\ Mode(s) < Mode(t)
Number(o) ==
    (IF o[1] = "tcp" THEN 0 ELSE Cardinality(Strategy))
      + Cardinality({s \in Strategy : Exact(s) /\ Earlier(s, o[2])})

\* branchesFor: where an edge has observation o for its evidence.  All mismatched
\* peers are taken to be the same one; two of them never share a path position.
FindingFor(o) ==
    [level |-> "OBSERVED",
     statement |-> IF o[1] = "tcp" THEN <<"refused", EndpointOf(o[2])>>
                                   ELSE <<"mismatch", NoAddr>>,
     at |-> [e \in {b \in Branches : \E i \in DOMAIN Path(b) : Path(b)[i] = o} |->
               (CHOOSE i \in DOMAIN Path(e) : Path(e)[i] = o) - 1]]

Selector == INSTANCE Blockers WITH
    Branch <- Branches,
    Finding <- DOMAIN findings,
    EdgeCount <- [e \in Branches |-> Len(Path(e))],
    lineage <- [e \in Branches |-> {e}]

----
(***************************************************************************)
(* The status.                                                             *)
(***************************************************************************)
CertPass(e) ==
    \E x \in executions :
        /\ x.check = "cert" /\ x.branch = e /\ x.state = Passed
        /\ \E o \in x.cites : o[1] = "cert" /\ facts[o[2]].tls.cert = "VERIFIED"
HttpPass(e) ==
    \E x \in executions :
        /\ x.check = "http" /\ x.branch = e /\ x.state = Passed
        /\ \E o \in x.cites : o[1] = "http"
Incomplete(e) ==
    \E x \in executions :
        x.branch = e /\ x.reason \in {"address_attempt_cap", "probe_pending"}

Covered(e) ==
    \E n \in DOMAIN findings :
        \/ selection[n] = "GLOBAL_PRIMARY"
        \/ selection[n] = "BRANCH_PRIMARY" /\ e \in DOMAIN findings[n].at

\* Mutant: limitations are looked at before successes.
StatusLimitedFirst ==
    IF Branches = {} \/ Truncated(addresses) THEN "INDETERMINATE"
    ELSE IF \E e \in Branches : HttpPass(e) /\ (scheme = "http" \/ CertPass(e))
         THEN "SATISFIED"
    ELSE IF \/ \E e \in Branches : Incomplete(e)
            \/ \E e \in Branches : ~Covered(e)
         THEN "INDETERMINATE" ELSE "BLOCKED"

StatusOf ==
    IF Branches = {} THEN "INDETERMINATE"
    ELSE IF \E e \in Branches : HttpPass(e) /\ (scheme = "http" \/ CertPass(e))
         THEN "SATISFIED"
    ELSE IF \/ Truncated(addresses)
            \/ \E e \in Branches : Incomplete(e)
            \/ \E e \in Branches : ~Covered(e)
         THEN "INDETERMINATE" ELSE "BLOCKED"

----
Init ==
    /\ scheme \in Schemes
    /\ addresses \in SUBSET Addr
    /\ \E normal \in AttemptFacts("normal", scheme, addresses),
          pinned4 \in AttemptFacts("pinned4", scheme, addresses),
          pinned6 \in AttemptFacts("pinned6", scheme, addresses) :
         facts = [s \in Strategy |-> CASE s = "normal" -> normal
                                       [] s = "pinned4" -> pinned4
                                       [] s = "pinned6" -> pinned6]
    /\ phase = "assemble"
    /\ executions = {}
    /\ findings = <<>>
    /\ selection = <<>>
    /\ status = "none"

Assemble ==
    /\ phase = "assemble"
    /\ executions' = AllRuns
    /\ phase' = "validate"
    /\ UNCHANGED <<input, findings, selection, status>>

\* The verdicts a lifecycle may have (validateExecution).
LegalState(state) ==
    CASE state.lifecycle = "NOT_RUN" -> state.verdict = "SKIPPED"
      [] state.lifecycle = "COMPLETED" -> state.verdict \in {"PASS", "FAIL", "UNKNOWN"}
      [] state.lifecycle = "TIMED_OUT" -> state.verdict \in {"FAIL", "UNKNOWN"}
      [] state.lifecycle = "ERROR" -> state.verdict = "UNKNOWN"

\* CanonicalizeAndValidateEvidenceRun: a reference to nothing fails the run.
Validate ==
    /\ phase = "validate"
    /\ phase' = IF \A x \in executions : LegalState(x.state) /\ x.cites \subseteq Observations
                THEN "evaluate" ELSE "internal_error"
    /\ UNCHANGED <<input, executions, findings, selection, status>>

EvaluateRules ==
    /\ phase = "evaluate"
    /\ findings' = [n \in {Number(o) : o \in Reported} |->
                      FindingFor(CHOOSE o \in Reported : Number(o) = n)]
    /\ phase' = "select"
    /\ UNCHANGED <<input, executions, selection, status>>

\* selection.Apply; a position outside its branch fails the run.
SelectPrimaries ==
    /\ phase = "select"
    /\ IF \E e \in Selector!Leaves : Selector!OutOfBranch(e)
       THEN phase' = "internal_error" /\ UNCHANGED selection
       ELSE /\ phase' = "accept"
            /\ selection' = [n \in DOMAIN findings |-> Selector!Selected(n)]
    /\ UNCHANGED <<input, executions, findings, status>>

\* CanonicalizeAndValidateEvaluatedRun, as far as the selection goes.
Accept ==
    /\ phase = "accept"
    /\ LET globals == {n \in DOMAIN findings : selection[n] = "GLOBAL_PRIMARY"}
       IN  phase' = IF /\ \A n \in globals : Selector!GlobalPrimaryProof(n)
                       /\ Cardinality(globals) <= 1
                    THEN "report" ELSE "internal_error"
    /\ UNCHANGED <<input, executions, findings, selection, status>>

Report ==
    /\ phase = "report"
    /\ status' = StatusOf
    /\ phase' = "reported"
    /\ UNCHANGED <<input, executions, findings, selection>>

Finished == phase \in {"reported", "internal_error"} /\ UNCHANGED vars

Next ==
    \/ Assemble \/ Validate \/ EvaluateRules \/ SelectPrimaries \/ Accept \/ Report
    \/ Finished

Spec == Init /\ [][Next]_vars

----
(***************************************************************************)
(* Properties                                                              *)
(***************************************************************************)
\* Every variable keeps the shape of the Go value it stands for.
TypeOK ==
    /\ scheme \in Schemes
    /\ addresses \subseteq Addr
    /\ facts \in [Strategy -> [tcp : TcpFact, tls : TlsFact, http : HttpOutcome]]
    /\ phase \in {"assemble", "validate", "evaluate", "select", "accept", "report",
                  "reported", "internal_error"}
    /\ \A x \in executions :
         /\ x.check \in {"tcp", "tls", "peer", "cert", "http"}
         /\ x.branch \in Branches \cup {NoAddr}
         /\ x.attempt \in Strategy \cup {"none"}
    /\ \A n \in DOMAIN findings :
         /\ n \in 0..5
         /\ DOMAIN findings[n].at \subseteq Branches
    /\ DOMAIN selection \subseteq DOMAIN findings
    /\ \A n \in DOMAIN selection :
         selection[n] \in {"NONE", "BRANCH_PRIMARY", "ADDITIONAL", "GLOBAL_PRIMARY"}
    /\ status \in {"none", "SATISFIED", "BLOCKED", "INDETERMINATE"}

\* No live network failure escapes as an internal error (milestone 1 plan, Task 7).
NetworkFailureIsEvidence == phase # "internal_error"

\* What really escapes: the run is lost exactly when, over plain http, an accepted
\* connection's exchange failed.  Every other mixture of refusals, timeouts,
\* unknown endpoints, broken handshakes and failed exchanges becomes evidence that
\* the validators, the rules and the selection accept.
OnlyPlainFailureIsLost ==
    LET lost == /\ scheme = "http"
                /\ \E s \in Strategy : facts[s].http \in {"http_failed", "http_timeout"}
    IN  /\ phase = "internal_error" => lost
        /\ phase \in {"evaluate", "select", "accept", "report", "reported"} => ~lost

\* What one attempt has to show for the goal to be reached.
Reached(s) ==
    /\ Accepted(s) /\ HasAnswer(s)
    /\ scheme = "https" => facts[s].tls = [result |-> "COMPLETED", cert |-> "VERIFIED"]

\* SATISFIED is earned by one attempt that did everything itself, although Status
\* pieces it together from certificate and HTTP executions of a branch, and it is
\* never withheld for the sake of what other attempts or addresses did.
SatisfiedIsEarned ==
    phase = "reported" => (status = "SATISFIED" <=> \E s \in Strategy : Reached(s))

\* BLOCKED is never a guess: no address was cut off or left untried, at every
\* endpoint an attempt met the blocker itself, nothing accepted contradicts a
\* refusal there, and nobody was answered.
BlockedIsSound ==
    phase = "reported" /\ status = "BLOCKED" =>
        /\ Branches # {} /\ ~Truncated(addresses)
        /\ \A e \in Branches :
             \E s \in Tried(e) :
                \/ facts[s].tls.cert = "HOSTNAME_MISMATCH"
                \/ /\ facts[s].tcp.outcome = "refused"
                   /\ \A t \in Strategy : Accepted(t) => EndpointOf(t) # e
        /\ \A s \in Strategy : ~HasAnswer(s)

\* A blocked branch has one primary: one global primary for the only branch of the
\* run, or one branch primary each, never both and never two.
OnePrimaryPerBlockedBranch ==
    phase \in {"accept", "report", "reported"} =>
        \A e \in Branches :
            LET here == {n \in DOMAIN findings : e \in DOMAIN findings[n].at}
                primary == {n \in here : selection[n] \in {"BRANCH_PRIMARY", "GLOBAL_PRIMARY"}}
            IN  /\ here # {} => Cardinality(primary) = 1
                /\ (\E n \in primary : selection[n] = "GLOBAL_PRIMARY") => Branches = {e}

\* A failed prerequisite causes dependent checks to be explicitly skipped with a
\* stable reason code (architecture.md, section 6.2).
Prerequisite(check) ==
    CASE check = "tls" -> "tcp"
      [] check = "peer" -> "tls"
      [] check = "cert" -> "peer"
      [] check = "http" -> IF scheme = "http" THEN "tcp" ELSE "cert"
DependentsSkipped ==
    \A x, y \in executions :
        /\ x.attempt = y.attempt /\ x.branch = y.branch /\ x.branch # NoAddr
        /\ y.check # "tcp" /\ x.check = Prerequisite(y.check)
        /\ x.state # Passed
        => y.state = Skipped

\* Every check is accounted for: on each branch every attempt, or the absence of
\* one, has exactly one execution of each of the five checks.
ChecksNeverDisappear ==
    phase # "assemble" =>
        \A e \in Branches :
            \A s \in (IF Tried(e) = {} THEN {"none"} ELSE Tried(e)),
               check \in {"tcp", "tls", "peer", "cert", "http"} :
                Cardinality({x \in executions :
                    x.branch = e /\ x.attempt = s /\ x.check = check}) = 1
====
