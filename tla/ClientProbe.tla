---- MODULE ClientProbe ----
(***************************************************************************)
(* The client probe run of internal/clientprobe: diagnose (diagnose.go) up *)
(* to the moment it hands its facts to assembleEvidence.                   *)
(*                                                                         *)
(* One goroutine resolves the host name, starts up to three dialling       *)
(* goroutines (the normal dial and one pinned dial per address family),    *)
(* collects their results from a buffered channel, sorts them and then     *)
(* visits the accepted connections one after the other: a TLS handshake    *)
(* with a watcher goroutine beside it (https), a certificate verification  *)
(* and one HTTP exchange over that same connection.  Every blocking call   *)
(* has a deadline of its own under the deadline of the whole run.          *)
(*                                                                         *)
(* Time is a counter of whole time units that advances only while a call   *)
(* is blocked, and never past the deadline of a blocked call.              *)
(***************************************************************************)
EXTENDS ProbeFacts

CONSTANTS
    ResolutionTimeout,
    TcpTimeout,
    TlsTimeout,
    HttpTimeout,
    TotalRunTimeout

ASSUME TimeoutAssumption ==
    /\ ResolutionTimeout \in Nat \ {0} /\ TcpTimeout \in Nat \ {0}
    /\ TlsTimeout \in Nat \ {0} /\ HttpTimeout \in Nat \ {0}
    /\ TotalRunTimeout \in Nat \ {0}

VARIABLES
    scheme,      \* target.persisted.Scheme
    pc,          \* where the diagnose goroutine is
    now,         \* time units since the total context was created
    due,         \* deadline of the call the diagnose goroutine is blocked in
    began,       \* when that call began
    resolution,  \* resolutionFacts
    dial,        \* state of each dialling goroutine and of its result
    tcp,         \* tcpFact of each strategy
    pending,     \* collected facts the sequential loop has not visited
    cur,         \* strategy whose connection the loop is working on
    sock,        \* who holds the TCP connection of each strategy
    tlsCtx,      \* context of executeTLS, per strategy
    hsDone,      \* handshakeDone has been closed
    watcher,     \* the watcher goroutine of executeTLS
    tls,         \* tlsFact of each strategy
    dials,       \* calls of the one-use dial closure
    http         \* httpFact of each strategy

vars == <<scheme, pc, now, due, began, resolution, dial, tcp, pending, cur,
          sock, tlsCtx, hsDone, watcher, tls, dials, http>>

dialVars == <<dial, tcp>>
tlsVars == <<tlsCtx, hsDone, watcher, tls>>
httpVars == <<dials, http>>
clockVars == <<now, due, began>>

----
\* An answer of the resolver: IPv4 addresses may come IPv4-mapped.
RawAnswer == [addr : V4, mapped : BOOLEAN] \cup [addr : V6, mapped : {FALSE}]
\* normalizeAddresses and the first loop of retainAddresses: both forms of an
\* IPv4 address become one.
Unmapped(raw) == {r.addr : r \in raw}

\* The order of sort.SliceStable in executeTCPStrategies: endpoint, then mode.
\* Two collected facts never tie: the pinned endpoints differ, and a normal and
\* a pinned fact differ in mode.
Before(s, t) ==
    \/ tcp[s].endpoint < tcp[t].endpoint
    \/ tcp[s].endpoint = tcp[t].endpoint /\ Mode(s) < Mode(t)

\* Mutant: the stage context is not derived from the total one.
UnboundedDeadline(timeout) == now + timeout

\* The deadline of a context.WithTimeout(totalCtx, timeout) created now.
Deadline(timeout) ==
    IF now + timeout < TotalRunTimeout THEN now + timeout ELSE TotalRunTimeout

\* Mutant: a stage runs on the total context and has no timeout of its own.
BlockOnTotal(timeout) ==
    due' = TotalRunTimeout /\ began' = now /\ UNCHANGED now

\* The diagnose goroutine blocks in a call with this timeout.
Block(timeout) == due' = Deadline(timeout) /\ began' = now /\ UNCHANGED now

----
Init ==
    /\ scheme \in Schemes
    /\ pc = "parse"
    /\ now = 0 /\ due = 0 /\ began = 0
    /\ resolution = [state |-> "none", addresses |-> {}, truncated |-> FALSE]
    /\ dial = [s \in Strategy |-> "off"]
    /\ tcp = [s \in Strategy |-> NoFact]
    /\ pending = {}
    /\ cur = "normal"
    /\ sock = [s \in Strategy |-> "none"]
    /\ tlsCtx = [s \in Strategy |-> "none"]
    /\ hsDone = [s \in Strategy |-> FALSE]
    /\ watcher = [s \in Strategy |-> "none"]
    /\ tls = [s \in Strategy |-> NoTls]
    /\ dials = [s \in Strategy |-> 0]
    /\ http = [s \in Strategy |-> "none"]

\* parseTarget refuses the URL: diagnose returns its InputError.
ParseError ==
    /\ pc = "parse"
    /\ pc' = "rejected"
    /\ UNCHANGED <<scheme, clockVars, resolution, dialVars, pending, cur, sock,
                   tlsVars, httpVars>>

ParseTarget ==
    /\ pc = "parse"
    /\ pc' = "resolve"
    /\ Block(ResolutionTimeout)
    /\ UNCHANGED <<scheme, resolution, dialVars, pending, cur, sock, tlsVars,
                   httpVars>>

\* LookupNetIP answers; with an address to try, executeTCPStrategies starts its
\* goroutines, each with a tcpTimeout context.
ResolveCompleted(raw) ==
    LET addresses == Unmapped(raw)
        started == IF addresses = {} THEN {} ELSE StrategiesFor(addresses)
    IN  /\ pc = "resolve"
        /\ resolution' = [state |-> "completed", addresses |-> addresses,
                          truncated |-> Truncated(addresses)]
        /\ dial' = [s \in Strategy |-> IF s \in started THEN "dialing" ELSE "off"]
        /\ IF started = {} THEN pc' = "assemble" /\ UNCHANGED clockVars
                           ELSE pc' = "collect" /\ Block(TcpTimeout)
        /\ UNCHANGED <<scheme, tcp, pending, cur, sock, tlsVars, httpVars>>

ResolveFailed(reason) ==
    /\ pc = "resolve"
    /\ resolution' = [state |-> reason, addresses |-> {}, truncated |-> FALSE]
    /\ pc' = "assemble"
    /\ UNCHANGED <<scheme, clockVars, dialVars, pending, cur, sock, tlsVars,
                   httpVars>>

\* The resolver honours its context: at the deadline it returns an error.
ResolveDeadline ==
    now >= due /\ ResolveFailed("resolution_timeout")

ResolveError ==
    \E reason \in {"resolution_failed", "resolution_timeout"} : ResolveFailed(reason)

----
\* One dialling goroutine sends its fact and returns; the channel has room for
\* every strategy, so the send never blocks.
Send(s, outcome, endpoint, holder) ==
    /\ dial' = [dial EXCEPT ![s] = "sent"]
    /\ tcp' = [tcp EXCEPT ![s] = [outcome |-> outcome, endpoint |-> endpoint]]
    /\ sock' = [sock EXCEPT ![s] = holder]
    /\ UNCHANGED <<scheme, pc, clockVars, resolution, pending, cur, tlsVars,
                   httpVars>>

DialAccepted(s) ==
    /\ dial[s] = "dialing"
    /\ \E a \in Reachable(s, resolution.addresses) : Send(s, "accepted", a, "open")

\* Accepted, but RemoteAddr is not an exact endpoint: the connection is closed.
DialEndpointUnknown(s) ==
    /\ dial[s] = "dialing"
    /\ \E a \in Planned(s, resolution.addresses) :
         Send(s, "endpoint_unknown", a, "closed")

DialError(s) ==
    /\ dial[s] = "dialing"
    /\ \E a \in Planned(s, resolution.addresses),
          outcome \in {"refused", "failed", "timed_out"} :
         Send(s, outcome, a, "none")

\* The dialler honours its context: at the deadline it returns an error.
DialDeadline(s) ==
    /\ dial[s] = "dialing"
    /\ now >= due
    /\ \E a \in Planned(s, resolution.addresses) : Send(s, "timed_out", a, "none")

\* Mutant: the loop waits for one result per strategy there could be.
OutstandingOfAll(s) == {t \in Strategy \ {s} : dial[t] # "received"}

\* Mutant: the loop drains what has arrived instead of counting.
OutstandingArrived(s) == {t \in Strategy \ {s} : dial[t] = "sent"}

\* The results still on their way once s has been received.
Outstanding(s) == {t \in Strategy \ {s} : dial[t] \in {"dialing", "sent"}}

\* One iteration of `out = append(out, <-results)`; the last one sorts.
Receive(s) ==
    /\ pc = "collect"
    /\ dial[s] = "sent"
    /\ dial' = [dial EXCEPT ![s] = "received"]
    /\ pending' = pending \cup {s}
    /\ pc' = IF Outstanding(s) = {} THEN "loop" ELSE "collect"
    /\ UNCHANGED <<scheme, clockVars, resolution, tcp, cur, sock, tlsVars,
                   httpVars>>

----
\* The fact the sorted loop visits next.
NextFact(s) ==
    /\ pc = "loop"
    /\ s \in pending
    /\ \A t \in pending \ {s} : Before(s, t)

SkipFact(s) ==
    /\ NextFact(s)
    /\ tcp[s].outcome # "accepted"
    /\ pending' = pending \ {s}
    /\ UNCHANGED <<scheme, pc, clockVars, resolution, dialVars, cur, sock,
                   tlsVars, httpVars>>

VisitHTTP(s) ==
    /\ NextFact(s)
    /\ tcp[s].outcome = "accepted"
    /\ scheme = "http"
    /\ pending' = pending \ {s}
    /\ cur' = s
    /\ pc' = "http"
    /\ Block(HttpTimeout)
    /\ UNCHANGED <<scheme, resolution, dialVars, sock, tlsVars, httpVars>>

VisitTLS(s) ==
    /\ NextFact(s)
    /\ tcp[s].outcome = "accepted"
    /\ scheme = "https"
    /\ pending' = pending \ {s}
    /\ cur' = s
    /\ pc' = "handshake"
    /\ Block(TlsTimeout)
    /\ tlsCtx' = [tlsCtx EXCEPT ![s] = "live"]
    /\ watcher' = [watcher EXCEPT ![s] = "spawned"]
    /\ UNCHANGED <<scheme, resolution, dialVars, sock, hsDone, tls, httpVars>>

\* Mutant: the loop stops after the first connection it has worked on.
LoopDoneEarly ==
    /\ pc = "loop"
    /\ pending = {} \/ \E s \in Strategy : http[s] # "none"
    /\ pc' = "assemble"
    /\ UNCHANGED <<scheme, clockVars, resolution, dialVars, pending, cur, sock,
                   tlsVars, httpVars>>

LoopDone ==
    /\ pc = "loop"
    /\ pending = {}
    /\ pc' = "assemble"
    /\ UNCHANGED <<scheme, clockVars, resolution, dialVars, pending, cur, sock,
                   tlsVars, httpVars>>

----
\* HandshakeContext returns; cert is what verification will say of the peer
\* certificates in the connection state.
HandshakeReturn(result, cert) ==
    /\ pc = "handshake"
    /\ tls' = [tls EXCEPT ![cur] = [result |-> result, cert |-> cert]]
    /\ pc' = "signal"
    /\ UNCHANGED <<scheme, clockVars, resolution, dialVars, pending, cur, sock,
                   tlsCtx, hsDone, watcher, httpVars>>

HandshakeCompleted ==
    /\ sock[cur] = "open"
    /\ \E cert \in CertResults : HandshakeReturn("COMPLETED", cert)

\* A failure may come after the peer has presented its certificates.
HandshakeFailed ==
    \E result \in {"FAILED", "TIMED_OUT"}, cert \in CertResults \cup {"no_peer"} :
        /\ tlsCtx[cur] = "expired" => result = "TIMED_OUT"
        /\ HandshakeReturn(result, cert)

\* The connection deadline and the context end a handshake that hangs.
HandshakeDeadline ==
    now >= due /\ HandshakeReturn("TIMED_OUT", "no_peer")

\* The timer of the executeTLS context fires: a watcher blocked in its select
\* takes the ctx.Done case.
TlsTimerFires(s) ==
    /\ tlsCtx[s] = "live"
    /\ now >= due
    /\ tlsCtx' = [tlsCtx EXCEPT ![s] = "expired"]
    /\ watcher' = [watcher EXCEPT ![s] = IF @ = "parked" THEN "closing" ELSE @]
    /\ UNCHANGED <<scheme, pc, clockVars, resolution, dialVars, pending, cur,
                   sock, hsDone, tls, httpVars>>

\* Mutant: handshakeDone is never closed before the cancellation.
SkipHandshakeDone ==
    /\ pc = "signal"
    /\ pc' = "cancel"
    /\ UNCHANGED <<scheme, clockVars, resolution, dialVars, pending, cur, sock,
                   tlsVars, httpVars>>

\* close(handshakeDone): a watcher blocked in its select leaves.
CloseHandshakeDone ==
    /\ pc = "signal"
    /\ hsDone' = [hsDone EXCEPT ![cur] = TRUE]
    /\ watcher' = [watcher EXCEPT ![cur] = IF @ = "parked" THEN "exited" ELSE @]
    /\ pc' = "cancel"
    /\ UNCHANGED <<scheme, clockVars, resolution, dialVars, pending, cur, sock,
                   tlsCtx, tls, httpVars>>

\* cancel(): it would wake a watcher still blocked in its select.
CancelTLS ==
    /\ pc = "cancel"
    /\ tlsCtx' = [tlsCtx EXCEPT ![cur] = IF @ = "live" THEN "cancelled" ELSE @]
    /\ watcher' = [watcher EXCEPT ![cur] = IF @ = "parked" THEN "closing" ELSE @]
    /\ pc' = "verify"
    /\ UNCHANGED <<scheme, clockVars, resolution, dialVars, pending, cur, sock,
                   hsDone, tls, httpVars>>

\* Mutant: the certificate verdict is recorded but not asked.
CompletedIsEnough(fact) == fact.result = "COMPLETED"

\* The connection goes on to HTTP.
Verified(fact) == fact.result = "COMPLETED" /\ fact.cert = "VERIFIED"

VerifyPassed ==
    /\ pc = "verify"
    /\ Verified(tls[cur])
    /\ pc' = "http"
    /\ Block(HttpTimeout)
    /\ UNCHANGED <<scheme, resolution, dialVars, pending, cur, sock, tlsVars,
                   httpVars>>

\* Mutant: a distrusted connection is left open.
VerifyRefusedUnclosed ==
    /\ pc = "verify"
    /\ ~Verified(tls[cur])
    /\ pc' = "loop"
    /\ UNCHANGED <<scheme, clockVars, resolution, dialVars, pending, cur, sock,
                   tlsVars, httpVars>>

VerifyRefused ==
    /\ pc = "verify"
    /\ ~Verified(tls[cur])
    /\ sock' = [sock EXCEPT ![cur] = "closed"]
    /\ pc' = "loop"
    /\ UNCHANGED <<scheme, clockVars, resolution, dialVars, pending, cur,
                   tlsVars, httpVars>>

----
\* The watcher goroutine reaches its select with neither channel ready.
WatcherPark(s) ==
    /\ watcher[s] = "spawned"
    /\ tlsCtx[s] = "live" /\ ~hsDone[s]
    /\ watcher' = [watcher EXCEPT ![s] = "parked"]
    /\ UNCHANGED <<scheme, pc, clockVars, resolution, dialVars, pending, cur,
                   sock, tlsCtx, hsDone, tls, httpVars>>

\* It reaches its select late: any ready case may be chosen, and after cancel() both
\* are ready.
WatcherSelect(s) ==
    /\ watcher[s] = "spawned"
    /\ \/ tlsCtx[s] # "live" /\ watcher' = [watcher EXCEPT ![s] = "closing"]
       \/ hsDone[s] /\ watcher' = [watcher EXCEPT ![s] = "exited"]
    /\ UNCHANGED <<scheme, pc, clockVars, resolution, dialVars, pending, cur,
                   sock, tlsCtx, hsDone, tls, httpVars>>

WatcherClose(s) ==
    /\ watcher[s] = "closing"
    /\ watcher' = [watcher EXCEPT ![s] = "exited"]
    /\ sock' = [sock EXCEPT ![s] = "closed"]
    /\ UNCHANGED <<scheme, pc, clockVars, resolution, dialVars, pending, cur,
                   tlsCtx, hsDone, tls, httpVars>>

----
\* http.Transport asks the one-use closure for a connection.  It looks at the
\* request context first.  The first call gets the connection, which the
\* transport owns from then on.
TransportDial ==
    /\ pc = "http"
    /\ dials[cur] = 0
    /\ now < due
    /\ dials' = [dials EXCEPT ![cur] = 1]
    /\ sock' = [sock EXCEPT ![cur] = IF @ = "open" THEN "lent" ELSE @]
    /\ UNCHANGED <<scheme, pc, clockVars, resolution, dialVars, pending, cur,
                   tlsVars, http>>

\* Mutant: keep-alives are on, the transport pools the connection.
AfterHTTPPooled(holder) == IF holder = "lent" THEN "pooled" ELSE "closed"

\* What client.Do and the code after it leave of a connection.  The transport
\* closes a connection it was given (keep-alives are off); with plain http
\* diagnose closes the connection itself.
AfterHTTP(holder) ==
    IF scheme = "http" \/ holder = "lent" THEN "closed" ELSE holder

HttpReturn(outcome) ==
    /\ pc = "http"
    /\ http' = [http EXCEPT ![cur] = outcome]
    /\ sock' = [sock EXCEPT ![cur] = AfterHTTP(@)]
    /\ pc' = "loop"
    /\ UNCHANGED <<scheme, clockVars, resolution, dialVars, pending, cur,
                   tlsVars, dials>>

HttpCompleted ==
    /\ sock[cur] = "lent"
    /\ \E outcome \in {"response", "redirect"} : HttpReturn(outcome)

HttpFailed ==
    /\ dials[cur] = 1
    /\ \E outcome \in {"http_failed", "http_timeout"} : HttpReturn(outcome)

\* A second call of the closure is refused: the exchange fails.
TransportRedial ==
    /\ dials[cur] = 1
    /\ pc = "http"
    /\ dials' = [dials EXCEPT ![cur] = 2]
    /\ http' = [http EXCEPT ![cur] = "http_failed"]
    /\ sock' = [sock EXCEPT ![cur] = AfterHTTP(@)]
    /\ pc' = "loop"
    /\ UNCHANGED <<scheme, clockVars, resolution, dialVars, pending, cur,
                   tlsVars>>

\* The request context ends the exchange; it may have ended before it began.
HttpDeadline == now >= due /\ HttpReturn("http_timeout")

----
\* The facts are complete; assembleEvidence takes over.
Assemble ==
    /\ pc = "assemble"
    /\ pc' = "done"
    /\ UNCHANGED <<scheme, clockVars, resolution, dialVars, pending, cur, sock,
                   tlsVars, httpVars>>

Blocked ==
    \/ pc \in {"resolve", "handshake"}
    \/ pc = "http" /\ dials[cur] = 1
    \/ \E s \in Strategy : dial[s] = "dialing"

\* Time passes while calls are blocked, never beyond their common deadline.
Tick ==
    /\ Blocked
    /\ now < due
    /\ now' = now + 1
    /\ UNCHANGED <<scheme, pc, due, began, resolution, dialVars, pending, cur,
                   sock, tlsVars, httpVars>>

Terminated ==
    /\ pc \in {"done", "rejected"}
    /\ \A s \in Strategy : watcher[s] \in {"none", "exited"}
    /\ UNCHANGED vars

----
Resolve ==
    \/ ResolveError
    \/ ResolveDeadline
    \/ \E raw \in SUBSET RawAnswer : ResolveCompleted(raw)

Dial(s) ==
    DialAccepted(s) \/ DialEndpointUnknown(s) \/ DialError(s) \/ DialDeadline(s)

Loop(s) == SkipFact(s) \/ VisitHTTP(s) \/ VisitTLS(s)

Handshake == HandshakeCompleted \/ HandshakeFailed \/ HandshakeDeadline

AfterHandshake ==
    CloseHandshakeDone \/ CancelTLS \/ VerifyPassed \/ VerifyRefused

Watcher(s) == WatcherPark(s) \/ WatcherSelect(s) \/ WatcherClose(s)

Exchange ==
    TransportDial \/ HttpCompleted \/ HttpFailed \/ TransportRedial \/ HttpDeadline

Next ==
    \/ ParseError \/ ParseTarget \/ Resolve
    \/ \E s \in Strategy : Dial(s) \/ Receive(s) \/ Loop(s)
    \/ LoopDone \/ Handshake \/ AfterHandshake
    \/ \E s \in Strategy : TlsTimerFires(s) \/ Watcher(s)
    \/ Exchange \/ Assemble \/ Tick \/ Terminated

\* Goroutines that can run do run, timers fire, and a call whose deadline has
\* passed returns.  Nothing says that a peer ever answers.
Fairness ==
    /\ WF_vars(ParseError \/ ParseTarget)
    /\ WF_vars(Tick)
    /\ WF_vars(ResolveDeadline)
    /\ \A s \in Strategy :
        /\ WF_vars(DialDeadline(s)) /\ WF_vars(Receive(s)) /\ WF_vars(Loop(s))
        /\ WF_vars(TlsTimerFires(s)) /\ WF_vars(Watcher(s))
    /\ WF_vars(LoopDone) /\ WF_vars(HandshakeDeadline)
    /\ WF_vars(AfterHandshake) /\ WF_vars(TransportDial)
    /\ WF_vars(HttpDeadline) /\ WF_vars(Assemble)

Spec == Init /\ [][Next]_vars
FairSpec == Spec /\ Fairness

----
(***************************************************************************)
(* Properties                                                              *)
(***************************************************************************)
Phase == {"parse", "rejected", "resolve", "collect", "loop", "handshake",
          "signal", "cancel", "verify", "http", "assemble", "done"}

\* Every variable keeps the shape of the Go value it stands for.
TypeOK ==
    /\ scheme \in Schemes
    /\ pc \in Phase
    /\ now \in Nat /\ due \in Nat /\ began \in Nat
    /\ resolution \in
         [state : {"none", "completed", "resolution_failed", "resolution_timeout"},
          addresses : SUBSET Addr, truncated : BOOLEAN]
    /\ dial \in [Strategy -> {"off", "dialing", "sent", "received"}]
    /\ tcp \in [Strategy -> TcpFact]
    /\ pending \subseteq Strategy
    /\ cur \in Strategy
    /\ sock \in [Strategy -> {"none", "open", "lent", "closed"}]
    /\ tlsCtx \in [Strategy -> {"none", "live", "expired", "cancelled"}]
    /\ hsDone \in [Strategy -> BOOLEAN]
    /\ watcher \in
         [Strategy -> {"none", "spawned", "parked", "closing", "exited"}]
    /\ tls \in [Strategy -> TlsFact]
    /\ dials \in [Strategy -> 0..2]
    /\ http \in [Strategy -> HttpOutcome]

PeerVerified(s) == tls[s].result = "COMPLETED" /\ tls[s].cert = "VERIFIED"

\* Verified-HTTP invariant (architecture.md, invariant 5): on an https run no
\* connection is given to the HTTP transport, and no HTTP result is recorded,
\* unless the handshake on that same connection completed and its certificate
\* verified - in whatever order watchers, timers and attempts run.
VerifiedHTTP ==
    \A s \in Strategy :
        scheme = "https" /\ (dials[s] > 0 \/ sock[s] = "lent" \/ http[s] # "none")
            => PeerVerified(s)

\* However many connections are accepted and however slowly they answer, the
\* stages that run one after the other never take the run past
\* totalRunTimeout, and no stage outlives the timeout of its own.
BudgetKept ==
    /\ now <= TotalRunTimeout
    /\ pc \in {"handshake", "signal", "cancel"} => now - began <= TlsTimeout
    /\ pc = "http" => now - began <= HttpTimeout

FirstVisit ==
    \A t \in Strategy \ {cur} : tls[t] = NoTls /\ http[t] = "none"

\* The first connection in the sorted order is never starved by the run's total
\* budget: its handshake and its HTTP exchange get their whole timeouts.  (The
\* later ones have no such guarantee.)
FirstConnectionUnstarved ==
    FirstVisit =>
        /\ pc = "handshake" => due = began + TlsTimeout
        /\ pc = "http" => due = began + HttpTimeout

\* The only connection a finished run can leave open is a verified TLS
\* connection whose HTTP exchange began when the total budget was already spent:
\* the transport then never asks for it and nobody else closes it.
LeakOnlyWhenBudgetSpent ==
    pc = "done" =>
        \A s \in Strategy :
            sock[s] \in {"open", "lent"} =>
                /\ scheme = "https" /\ PeerVerified(s)
                /\ sock[s] = "open" /\ dials[s] = 0
                /\ http[s] = "http_timeout"
                /\ now = TotalRunTimeout

\* The one-use connection is always closed (milestone 1 plan, Task 5).
OneUseConnectionClosed ==
    pc = "done" => \A s \in Strategy : sock[s] \in {"none", "closed"}

\* What assembleEvidence receives: every accepted connection has the facts its
\* scheme calls for, and an HTTP fact exists exactly for a connection that was
\* entitled to one.  No dial, watcher or timer order loses or adds a fact.
FactsComplete ==
    pc = "done" =>
        \A s \in Strategy :
            /\ tls[s] # NoTls <=> tcp[s].outcome = "accepted" /\ scheme = "https"
            /\ http[s] # "none" <=>
                 /\ tcp[s].outcome = "accepted"
                 /\ scheme = "https" => PeerVerified(s)

\* Each attempt ends with facts that were promised for it: Diagnosis starts from
\* exactly these.
FactsAsPromised ==
    pc = "done" =>
        \A s \in Strategy :
            [tcp |-> tcp[s], tls |-> tls[s], http |-> http[s]]
                \in AttemptFacts(s, scheme, resolution.addresses)

\* A watcher closes its connection for one of two reasons: the handshake's deadline
\* came, or the watcher reached its select only after close(handshakeDone) and cancel()
\* and of two ready cases took ctx.Done.  In the second case the connection may be a
\* verified one that the HTTP exchange is using; a watcher that waits in its select, by
\* the order of those two calls, never takes one away.
WatcherClosesOnDeadlineOrLate ==
    [][\A s \in Strategy :
        watcher[s] # "closing" /\ watcher'[s] = "closing" =>
            \/ tlsCtx'[s] = "expired"
            \/ watcher[s] = "spawned" /\ hsDone[s] /\ tlsCtx[s] = "cancelled"]_vars

\* Even if no peer ever answers, the run ends and every goroutine it started
\* ends too: no result is left in the channel and no watcher is left waiting.
AllGoroutinesExit ==
    <>[](/\ pc \in {"done", "rejected"}
         /\ \A s \in Strategy : dial[s] \in {"off", "received"}
                               /\ watcher[s] \in {"none", "exited"})

----
(***************************************************************************)
(* Refinement: the run implements ProbeContract.                           *)
(***************************************************************************)
StageOf(s) ==
    IF dial[s] = "off" THEN "idle"
    ELSE IF dial[s] = "dialing" THEN "dialing"
    ELSE IF tcp[s].outcome # "accepted" THEN "unreachable"
    ELSE IF http[s] \in Answered THEN "answered"
    ELSE IF http[s] # "none" THEN "unanswered"
    ELSE IF tls[s] = NoTls THEN "connected"
    ELSE IF PeerVerified(s) THEN "trusted" ELSE "distrusted"

Contract == INSTANCE ProbeContract WITH
    Attempts <- Strategy,
    stage <- [s \in Strategy |-> StageOf(s)],
    over <- pc \in {"done", "rejected"}

\* Every step of the run is a step of the contract or invisible to it: no
\* attempt is lost, settled twice, or asked for HTTP out of turn.
KeepsContract == Contract!Spec
====
