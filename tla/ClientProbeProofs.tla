---- MODULE ClientProbeProofs ----
(***************************************************************************)
(* Proofs about ClientProbe, for every choice of addresses, timeouts and   *)
(* concurrency bound: type correctness, the time budget, the verified-HTTP *)
(* invariant, the completeness of the facts, the refinement of             *)
(* ProbeContract, and who closes a connection when.                        *)
(***************************************************************************)
EXTENDS ClientProbe, TLAPS

\* A deadline is a time, within the run's and within the timeout it is made of.
LEMMA DeadlineIsTime ==
    ASSUME now \in Nat, NEW timeout \in Nat
    PROVE  /\ Deadline(timeout) \in Nat
           /\ Deadline(timeout) <= TotalRunTimeout
           /\ Deadline(timeout) <= now + timeout
BY TimeoutAssumption DEF Deadline

\* An answer of the resolver is a set of addresses once it is normalized.
LEMMA UnmappedAreAddresses ==
    ASSUME NEW raw \in SUBSET RawAnswer
    PROVE  Unmapped(raw) \subseteq Addr
BY DEF Unmapped, RawAnswer, Addr

----
(***************************************************************************)
(* What the composite actions do, whichever of their cases is taken.       *)
(***************************************************************************)
LEMMA EndpointsAreAddresses ==
    ASSUME NEW s \in Strategy, NEW addresses
    PROVE  /\ Pinned(s, addresses) \subseteq Addr
           /\ Planned(s, addresses) \subseteq Addr \cup {NoAddr}
           /\ Reachable(s, addresses) \subseteq Addr
BY DEF Pinned, Planned, Reachable, Retained, RetainedOf, Family, Addr

\* Whatever a dial comes to, its goroutine sends one fact.
LEMMA DialSends ==
    ASSUME NEW s \in Strategy, Dial(s)
    PROVE  /\ dial[s] = "dialing"
           /\ \E outcome \in {"accepted", "refused", "timed_out", "failed",
                              "endpoint_unknown"},
                 a \in Addr \cup {NoAddr},
                 holder \in {"none", "open", "closed"} : Send(s, outcome, a, holder)
<1>1. CASE DialAccepted(s)
  BY <1>1, EndpointsAreAddresses, SMT DEF DialAccepted
<1>2. CASE DialEndpointUnknown(s)
  BY <1>2, EndpointsAreAddresses, SMT DEF DialEndpointUnknown
<1>3. CASE DialError(s)
  BY <1>3, EndpointsAreAddresses, SMT DEF DialError
<1>4. CASE DialDeadline(s)
  BY <1>4, EndpointsAreAddresses, SMT DEF DialDeadline
<1> QED
  BY <1>1, <1>2, <1>3, <1>4 DEF Dial

\* Whatever a handshake comes to, it returns one fact.
LEMMA HandshakeReturns ==
    ASSUME Handshake
    PROVE  \E result \in {"COMPLETED", "FAILED", "TIMED_OUT"},
              cert \in CertResults \cup {"no_peer"} : HandshakeReturn(result, cert)
BY DEF Handshake, HandshakeCompleted, HandshakeFailed, HandshakeDeadline

\* A step of the exchange dials, is refused a second connection, or returns.
LEMMA ExchangeCases ==
    ASSUME Exchange
    PROVE  \/ TransportDial
           \/ TransportRedial
           \/ \E outcome \in HttpOutcome \ {"none"} : HttpReturn(outcome)
BY DEF Exchange, HttpCompleted, HttpFailed, HttpDeadline, HttpOutcome

----
\* Type correctness: no interleaving of the goroutines gives a variable a value
\* the Go declarations of diagnose.go and transport.go do not allow.
THEOREM TypeCorrect == Spec => []TypeOK
<1>1. Init => TypeOK
  BY DEF Init, TypeOK, Strategy, Phase, NoFact, TcpFact, NoTls, TlsFact, HttpOutcome
<1>2. TypeOK /\ [Next]_vars => TypeOK'
  <2> SUFFICES ASSUME TypeOK, [Next]_vars
               PROVE  TypeOK'
    OBVIOUS
  <2>1. CASE ParseError
    BY <2>1 DEF ParseError, TypeOK, Phase, clockVars, dialVars, tlsVars, httpVars
  <2>2. CASE ParseTarget
    <3>1. due' \in Nat /\ began' \in Nat /\ now' \in Nat
      BY <2>2, DeadlineIsTime, TimeoutAssumption DEF ParseTarget, Block, TypeOK
    <3> QED
      BY <2>2, <3>1 DEF ParseTarget, TypeOK, Phase, dialVars, tlsVars, httpVars
  <2>3. CASE Resolve
    <3>1. ASSUME NEW reason \in {"resolution_failed", "resolution_timeout"},
                 ResolveFailed(reason)
          PROVE  TypeOK'
      BY <3>1 DEF ResolveFailed, TypeOK, Phase, clockVars, dialVars, tlsVars, httpVars
    <3>2. ASSUME NEW raw \in SUBSET RawAnswer, ResolveCompleted(raw)
          PROVE  TypeOK'
      <4> DEFINE addresses == Unmapped(raw)
                 started == IF addresses = {} THEN {} ELSE StrategiesFor(addresses)
      <4>1. addresses \subseteq Addr
        BY UnmappedAreAddresses
      <4>2. Truncated(addresses) \in BOOLEAN
        BY DEF Truncated
      <4>3. dial' = [s \in Strategy |-> IF s \in started THEN "dialing" ELSE "off"]
        BY <3>2 DEF ResolveCompleted
      <4>4. resolution' = [state |-> "completed", addresses |-> addresses,
                           truncated |-> Truncated(addresses)]
        BY <3>2 DEF ResolveCompleted
      <4>5. pc' \in Phase /\ now' \in Nat /\ due' \in Nat /\ began' \in Nat
        BY <3>2, DeadlineIsTime, TimeoutAssumption
        DEF ResolveCompleted, Block, TypeOK, Phase, clockVars
      <4>6. dial' \in [Strategy -> {"off", "dialing", "sent", "received"}]
        <5> HIDE DEF started
        <5> QED
          BY <4>3
      <4>7. resolution' \in
              [state : {"none", "completed", "resolution_failed", "resolution_timeout"},
               addresses : SUBSET Addr, truncated : BOOLEAN]
        <5> HIDE DEF addresses
        <5> QED
          BY <4>1, <4>2, <4>4
      <4>8. UNCHANGED <<scheme, tcp, pending, cur, sock, tlsVars, httpVars>>
        BY <3>2 DEF ResolveCompleted
      <4> QED
        BY <4>5, <4>6, <4>7, <4>8 DEF TypeOK, tlsVars, httpVars
    <3> QED
      BY <2>3, <3>1, <3>2 DEF Resolve, ResolveError, ResolveDeadline
  <2>4. ASSUME NEW s \in Strategy, Dial(s)
        PROVE  TypeOK'
    <3>1. PICK outcome \in {"accepted", "refused", "timed_out", "failed",
                            "endpoint_unknown"},
               a \in Addr \cup {NoAddr},
               holder \in {"none", "open", "closed"} : Send(s, outcome, a, holder)
      BY <2>4, DialSends
    <3>2. [outcome |-> outcome, endpoint |-> a] \in TcpFact
      BY DEF TcpFact
    <3>3. tcp' \in [Strategy -> TcpFact]
      BY <3>1, <3>2 DEF Send, TypeOK
    <3> QED
      BY <3>1, <3>3 DEF Send, TypeOK, clockVars, tlsVars, httpVars
  <2>5. ASSUME NEW s \in Strategy, Receive(s)
        PROVE  TypeOK'
    BY <2>5 DEF Receive, TypeOK, Phase, clockVars, tlsVars, httpVars
  <2>6. ASSUME NEW s \in Strategy, Loop(s)
        PROVE  TypeOK'
    <3>1. CASE SkipFact(s)
      BY <3>1 DEF SkipFact, TypeOK, clockVars, dialVars, tlsVars, httpVars
    <3>2. CASE VisitHTTP(s)
      <4>1. due' \in Nat /\ began' \in Nat /\ now' \in Nat
        BY <3>2, DeadlineIsTime, TimeoutAssumption DEF VisitHTTP, Block, TypeOK
      <4> QED
        BY <3>2, <4>1 DEF VisitHTTP, TypeOK, Phase, dialVars, tlsVars, httpVars
    <3>3. CASE VisitTLS(s)
      <4>1. due' \in Nat /\ began' \in Nat /\ now' \in Nat
        BY <3>3, DeadlineIsTime, TimeoutAssumption DEF VisitTLS, Block, TypeOK
      <4> QED
        BY <3>3, <4>1 DEF VisitTLS, TypeOK, Phase, dialVars, httpVars
    <3> QED
      BY <2>6, <3>1, <3>2, <3>3 DEF Loop
  <2>7. CASE LoopDone
    BY <2>7 DEF LoopDone, TypeOK, Phase, clockVars, dialVars, tlsVars, httpVars
  <2>8. CASE Handshake
    <3>1. PICK result \in {"COMPLETED", "FAILED", "TIMED_OUT"},
               cert \in CertResults \cup {"no_peer"} : HandshakeReturn(result, cert)
      BY <2>8, HandshakeReturns
    <3>2. [result |-> result, cert |-> cert] \in TlsFact
      BY DEF TlsFact
    <3>3. tls' \in [Strategy -> TlsFact]
      BY <3>1, <3>2 DEF HandshakeReturn, TypeOK
    <3> QED
      BY <3>1, <3>3 DEF HandshakeReturn, TypeOK, Phase, clockVars, dialVars, httpVars
  <2>9. CASE AfterHandshake
    <3>1. CASE CloseHandshakeDone
      BY <3>1 DEF CloseHandshakeDone, TypeOK, Phase, clockVars, dialVars, httpVars
    <3>2. CASE CancelTLS
      BY <3>2 DEF CancelTLS, TypeOK, Phase, clockVars, dialVars, httpVars
    <3>3. CASE VerifyPassed
      <4>1. due' \in Nat /\ began' \in Nat /\ now' \in Nat
        BY <3>3, DeadlineIsTime, TimeoutAssumption DEF VerifyPassed, Block, TypeOK
      <4> QED
        BY <3>3, <4>1 DEF VerifyPassed, TypeOK, Phase, dialVars, tlsVars, httpVars
    <3>4. CASE VerifyRefused
      BY <3>4 DEF VerifyRefused, TypeOK, Phase, clockVars, dialVars, tlsVars, httpVars
    <3> QED
      BY <2>9, <3>1, <3>2, <3>3, <3>4 DEF AfterHandshake
  <2>10. ASSUME NEW s \in Strategy, TlsTimerFires(s)
         PROVE  TypeOK'
    BY <2>10 DEF TlsTimerFires, TypeOK, clockVars, dialVars, httpVars
  <2>11. ASSUME NEW s \in Strategy, Watcher(s)
         PROVE  TypeOK'
    BY <2>11 DEF Watcher, WatcherPark, WatcherSelect, WatcherClose, TypeOK,
                 clockVars, dialVars, httpVars
  <2>12. CASE Exchange
    <3>1. CASE TransportDial
      BY <3>1 DEF TransportDial, TypeOK, clockVars, dialVars, tlsVars
    <3>2. CASE TransportRedial
      BY <3>2 DEF TransportRedial, AfterHTTP, TypeOK, Phase, HttpOutcome, clockVars,
                  dialVars, tlsVars
    <3>3. ASSUME NEW outcome \in HttpOutcome \ {"none"}, HttpReturn(outcome)
          PROVE  TypeOK'
      BY <3>3 DEF HttpReturn, AfterHTTP, TypeOK, Phase, HttpOutcome, clockVars,
                  dialVars, tlsVars
    <3> QED
      BY <2>12, <3>1, <3>2, <3>3, ExchangeCases
  <2>13. CASE Assemble
    BY <2>13 DEF Assemble, TypeOK, Phase, clockVars, dialVars, tlsVars, httpVars
  <2>14. CASE Tick
    BY <2>14 DEF Tick, TypeOK, dialVars, tlsVars, httpVars
  <2>15. CASE UNCHANGED vars
    BY <2>15 DEF vars, TypeOK
  <2> QED
    BY <2>1, <2>2, <2>3, <2>4, <2>5, <2>6, <2>7, <2>8, <2>9, <2>10, <2>11,
       <2>12, <2>13, <2>14, <2>15 DEF Next, Terminated
<1> QED
  BY <1>1, <1>2, PTL DEF Spec

----
(***************************************************************************)
(* The time budget.  BudgetKept is not inductive: what keeps the clock in  *)
(* bounds is the deadline of the call the run is blocked in.               *)
(***************************************************************************)
DeadlinesKept ==
    /\ due <= TotalRunTimeout /\ now <= TotalRunTimeout
    /\ pc \in {"handshake", "signal", "cancel"} =>
         due <= began + TlsTimeout /\ now <= began + TlsTimeout
    /\ pc = "http" => due <= began + HttpTimeout /\ now <= began + HttpTimeout

\* A step that starts no call, moves no clock and enters no timed phase keeps the
\* deadlines.
LEMMA UntimedStepKeepsDeadlines ==
    ASSUME TypeOK, DeadlinesKept, UNCHANGED clockVars,
           \/ pc' = pc
           \/ pc' \notin {"handshake", "signal", "cancel", "http"}
           \/ pc \in {"handshake", "signal"} /\ pc' \in {"signal", "cancel"}
    PROVE  DeadlinesKept'
BY DEF DeadlinesKept, clockVars

\* The deadlines over all behaviours of the run.
LEMMA DeadlinesHold == Spec => []DeadlinesKept
<1>1. Init => DeadlinesKept
  BY TimeoutAssumption DEF Init, DeadlinesKept
<1>2. TypeOK /\ DeadlinesKept /\ [Next]_vars => DeadlinesKept'
  <2> SUFFICES ASSUME TypeOK, DeadlinesKept, [Next]_vars
               PROVE  DeadlinesKept'
    OBVIOUS
  <2> USE UntimedStepKeepsDeadlines
  <2>a. now \in Nat /\ began \in Nat /\ due \in Nat
    BY DEF TypeOK
  <2>1. CASE ParseError
    BY <2>1 DEF ParseError
  <2>2. CASE ParseTarget
    BY <2>2, <2>a, DeadlineIsTime, TimeoutAssumption DEF ParseTarget, Block, DeadlinesKept
  <2>3. CASE Resolve
    <3>1. ASSUME NEW reason, ResolveFailed(reason)
          PROVE  DeadlinesKept'
      BY <3>1 DEF ResolveFailed
    <3>2. ASSUME NEW raw, ResolveCompleted(raw)
          PROVE  DeadlinesKept'
      <4>1. \/ UNCHANGED clockVars /\ pc' = "assemble"
            \/ Block(TcpTimeout) /\ pc' = "collect"
        BY <3>2 DEF ResolveCompleted
      <4> QED
        BY <4>1, <2>a, DeadlineIsTime, TimeoutAssumption DEF Block, DeadlinesKept
    <3> QED
      BY <2>3, <3>1, <3>2 DEF Resolve, ResolveError, ResolveDeadline
  <2>4. ASSUME NEW s \in Strategy, Dial(s)
        PROVE  DeadlinesKept'
    BY <2>4, DialSends DEF Send
  <2>5. ASSUME NEW s \in Strategy, Receive(s)
        PROVE  DeadlinesKept'
    BY <2>5 DEF Receive
  <2>6. ASSUME NEW s \in Strategy, Loop(s)
        PROVE  DeadlinesKept'
    <3>1. CASE SkipFact(s)
      BY <3>1 DEF SkipFact
    <3>2. CASE VisitHTTP(s)
      BY <3>2, <2>a, DeadlineIsTime, TimeoutAssumption DEF VisitHTTP, Block, DeadlinesKept
    <3>3. CASE VisitTLS(s)
      BY <3>3, <2>a, DeadlineIsTime, TimeoutAssumption DEF VisitTLS, Block, DeadlinesKept
    <3> QED
      BY <2>6, <3>1, <3>2, <3>3 DEF Loop
  <2>7. CASE LoopDone \/ Assemble
    BY <2>7 DEF LoopDone, Assemble
  <2>8. CASE Handshake
    BY <2>8, HandshakeReturns DEF HandshakeReturn
  <2>9. CASE AfterHandshake
    <3>1. CASE VerifyPassed
      BY <3>1, <2>a, DeadlineIsTime, TimeoutAssumption DEF VerifyPassed, Block, DeadlinesKept
    <3> QED
      BY <2>9, <3>1 DEF AfterHandshake, CloseHandshakeDone, CancelTLS, VerifyRefused
  <2>10. ASSUME NEW s \in Strategy, TlsTimerFires(s) \/ Watcher(s)
         PROVE  DeadlinesKept'
    BY <2>10 DEF TlsTimerFires, Watcher, WatcherPark, WatcherSelect, WatcherClose
  <2>11. CASE Exchange
    BY <2>11, ExchangeCases DEF TransportDial, TransportRedial, HttpReturn
  <2>12. CASE Tick
    BY <2>12, <2>a, TimeoutAssumption DEF Tick, DeadlinesKept
  <2>13. CASE UNCHANGED vars
    BY <2>13 DEF vars, clockVars
  <2> QED
    BY <2>1, <2>2, <2>3, <2>4, <2>5, <2>6, <2>7, <2>8, <2>9, <2>10, <2>11,
       <2>12, <2>13 DEF Next, Terminated
<1> QED
  BY <1>1, <1>2, TypeCorrect, PTL DEF Spec

\* Neither the number of accepted connections nor how slowly they answer takes
\* the run past its total timeout, and no TLS or HTTP stage outlives its own.
THEOREM BudgetIsKept == Spec => []BudgetKept
<1>1. TypeOK /\ DeadlinesKept => BudgetKept
  BY TimeoutAssumption DEF TypeOK, DeadlinesKept, BudgetKept
<1> QED
  BY <1>1, DeadlinesHold, TypeCorrect, PTL

----
(***************************************************************************)
(* The order of the work.  That HTTP follows only a verified handshake is  *)
(* not inductive: it rests on where the loop is, on which facts it has not *)
(* visited, and on an unvisited connection being untouched.                *)
(***************************************************************************)
Working == pc \in {"handshake", "signal", "cancel", "verify", "http"}
Dialled == Working \/ pc \in {"loop", "assemble", "done"}

\* Nothing has been done yet with the connection of s.
Fresh(s) ==
    /\ tls[s] = NoTls /\ http[s] = "none"
    /\ dials[s] = 0 /\ sock[s] # "lent"

\* The connection of s is accepted and the loop has dealt with it.
DealtWith(s) ==
    /\ dial[s] = "received" /\ s \notin pending /\ tcp[s].outcome = "accepted"
    /\ Working => s # cur

\* A strategy is off, still on its way, or collected; only collected ones pend.
CollectionOrder ==
    /\ pc \in {"parse", "rejected", "resolve"} => \A s \in Strategy : dial[s] = "off"
    /\ Dialled => \A s \in Strategy : dial[s] \in {"off", "received"}
    /\ \A s \in Strategy : dial[s] \in {"off", "dialing"} => tcp[s] = NoFact
    /\ \A s \in pending : dial[s] = "received"
    /\ pc \in {"assemble", "done"} => pending = {}

\* What has not been visited is untouched, and what failed to connect stays so.
Untouched ==
    \A s \in Strategy :
        dial[s] # "received" \/ s \in pending \/ tcp[s].outcome # "accepted"
            => Fresh(s)

\* The connection the loop works on.
WorkInOrder ==
    /\ Working =>
         /\ dial[cur] = "received" /\ cur \notin pending
         /\ tcp[cur].outcome = "accepted" /\ http[cur] = "none"
    /\ pc \in {"handshake", "signal", "cancel", "verify"} =>
         scheme = "https" /\ dials[cur] = 0 /\ sock[cur] # "lent"
    /\ pc = "handshake" => tls[cur] = NoTls
    /\ pc \in {"signal", "cancel", "verify"} => tls[cur] # NoTls
    /\ pc = "http" /\ scheme = "https" => PeerVerified(cur)

\* The facts of the connections it has worked on.
WorkDone ==
    /\ scheme = "http" => \A s \in Strategy : tls[s] = NoTls
    /\ \A s \in Strategy :
        DealtWith(s) =>
            /\ scheme = "https" => tls[s] # NoTls /\ (http[s] # "none" <=> PeerVerified(s))
            /\ scheme = "http" => http[s] # "none"

Ladder == CollectionOrder /\ Untouched /\ WorkInOrder /\ WorkDone /\ VerifiedHTTP

\* Timers, watchers and the passing of time disturb none of this: at most they
\* close a connection.
LEMMA QuietStepKeepsLadder ==
    ASSUME Ladder, cur \in Strategy,
           UNCHANGED <<scheme, pc, dialVars, pending, cur, tls, httpVars>>,
           \A s \in Strategy : sock'[s] = "lent" => sock[s] = "lent"
    PROVE  Ladder'
<1> USE DEF Working, Dialled, PeerVerified, dialVars, httpVars
<1>c. CollectionOrder'
  BY DEF Ladder, CollectionOrder
<1>u. Untouched'
  BY DEF Ladder, CollectionOrder, Untouched, Fresh
<1>w. WorkInOrder'
  BY DEF Ladder, CollectionOrder, WorkInOrder
<1>d. WorkDone'
  BY DEF Ladder, CollectionOrder, Untouched, WorkInOrder, WorkDone, Fresh, DealtWith
<1>v. VerifiedHTTP'
  BY DEF Ladder, Untouched, WorkInOrder, VerifiedHTTP, Fresh
<1> QED
  BY <1>c, <1>u, <1>w, <1>d, <1>v DEF Ladder

\* Every step of the run keeps the order of the work.
LEMMA LadderInductive == TypeOK /\ Ladder /\ [Next]_vars => Ladder'
<1> SUFFICES ASSUME TypeOK, Ladder, [Next]_vars
             PROVE  Ladder'
  OBVIOUS
<1> USE DEF Working, Dialled, PeerVerified
<1>a. scheme \in {"http", "https"} /\ cur \in Strategy /\ pending \subseteq Strategy
  BY ValueAssumption DEF TypeOK
<1>1. CASE ParseError
  BY <1>1 DEF ParseError, Ladder, CollectionOrder, Untouched, WorkInOrder, WorkDone,
              VerifiedHTTP, Fresh, DealtWith, dialVars, tlsVars, httpVars
<1>2. CASE ParseTarget
  BY <1>2 DEF ParseTarget, Ladder, CollectionOrder, Untouched, WorkInOrder, WorkDone,
              VerifiedHTTP, Fresh, DealtWith, dialVars, tlsVars, httpVars
<1>3. CASE Resolve
  <2>1. ASSUME NEW reason, ResolveFailed(reason)
        PROVE  Ladder'
    <3>1. /\ pc = "resolve" /\ pc' = "assemble"
          /\ UNCHANGED <<scheme, dial, tcp, pending, cur, sock, tls, dials, http>>
      BY <2>1 DEF ResolveFailed, dialVars, tlsVars, httpVars
    <3>2. pending = {}
      BY <3>1, <1>a DEF Ladder, CollectionOrder
    <3>c. CollectionOrder'
      BY <3>1, <3>2 DEF Ladder, CollectionOrder
    <3>u. Untouched'
      BY <3>1, <3>2 DEF Ladder, CollectionOrder, Untouched, Fresh
    <3>w. WorkInOrder'
      BY <3>1, <3>2 DEF Ladder, CollectionOrder, WorkInOrder
    <3>d. WorkDone'
      BY <3>1, <3>2 DEF Ladder, CollectionOrder, Untouched, WorkInOrder, WorkDone, Fresh, DealtWith
    <3>v. VerifiedHTTP'
      BY <3>1, <3>2 DEF Ladder, Untouched, WorkInOrder, VerifiedHTTP, Fresh
    <3> QED
      BY <3>c, <3>u, <3>w, <3>d, <3>v DEF Ladder
  <2>2. ASSUME NEW raw, ResolveCompleted(raw)
        PROVE  Ladder'
    <3> DEFINE started == IF Unmapped(raw) = {} THEN {} ELSE StrategiesFor(Unmapped(raw))
    <3>1. /\ pc = "resolve" /\ pc' \in {"assemble", "collect"}
          /\ pc' = "assemble" => started = {}
          /\ dial' = [s \in Strategy |-> IF s \in started THEN "dialing" ELSE "off"]
          /\ UNCHANGED <<scheme, tcp, pending, cur, sock, tls, dials, http>>
      BY <2>2 DEF ResolveCompleted, Block, tlsVars, httpVars
    <3>2. /\ \A s \in Strategy : dial'[s] \in {"off", "dialing"}
          /\ pc' = "assemble" => \A s \in Strategy : dial'[s] = "off"
      <4> HIDE DEF started
      <4> QED
        BY <3>1
    <3>3. \A s \in Strategy : dial[s] = "off"
      BY <3>1 DEF Ladder, CollectionOrder
    <3>4. pending = {}
      BY <3>3, <1>a DEF Ladder, CollectionOrder
    <3>c. CollectionOrder'
      BY <3>1, <3>2, <3>3, <3>4 DEF Ladder, CollectionOrder
    <3>u. Untouched'
      BY <3>1, <3>2, <3>3, <3>4 DEF Ladder, CollectionOrder, Untouched, Fresh
    <3>w. WorkInOrder'
      BY <3>1, <3>2, <3>3, <3>4 DEF Ladder, CollectionOrder, WorkInOrder
    <3>d. WorkDone'
      BY <3>1, <3>2, <3>3, <3>4 DEF Ladder, CollectionOrder, Untouched, WorkInOrder, WorkDone, Fresh, DealtWith
    <3>v. VerifiedHTTP'
      BY <3>1, <3>2, <3>3, <3>4 DEF Ladder, Untouched, WorkInOrder, VerifiedHTTP, Fresh
    <3> QED
      BY <3>c, <3>u, <3>w, <3>d, <3>v DEF Ladder
  <2> QED
    BY <1>3, <2>1, <2>2 DEF Resolve, ResolveError, ResolveDeadline
<1>4. ASSUME NEW s \in Strategy, Dial(s)
      PROVE  Ladder'
  <2>1. PICK outcome \in {"accepted", "refused", "timed_out", "failed",
                          "endpoint_unknown"},
             a \in Addr \cup {NoAddr},
             holder \in {"none", "open", "closed"} : Send(s, outcome, a, holder)
    BY <1>4, DialSends
  <2>2. dial[s] = "dialing" /\ ~Dialled /\ pc \notin {"parse", "rejected", "resolve"}
    BY <1>4, DialSends DEF Ladder, CollectionOrder
  <2>3. /\ dial[s] = "dialing" /\ dial'[s] = "sent" /\ sock'[s] # "lent"
        /\ \A t \in Strategy \ {s} :
             dial'[t] = dial[t] /\ tcp'[t] = tcp[t] /\ sock'[t] = sock[t]
        /\ UNCHANGED <<scheme, pc, pending, cur, tls, dials, http>>
    BY <2>1, <2>2 DEF Send, TypeOK, tlsVars, httpVars
  <2>c. CollectionOrder'
    BY <1>a, <2>2, <2>3 DEF Ladder, CollectionOrder
  <2>u. Untouched'
    BY <1>a, <2>2, <2>3 DEF Ladder, CollectionOrder, Untouched, Fresh
  <2>w. WorkInOrder'
    BY <1>a, <2>2, <2>3 DEF Ladder, CollectionOrder, WorkInOrder
  <2>d. WorkDone'
    BY <1>a, <2>2, <2>3 DEF Ladder, CollectionOrder, Untouched, WorkInOrder, WorkDone, Fresh, DealtWith
  <2>v. VerifiedHTTP'
    BY <1>a, <2>2, <2>3 DEF Ladder, Untouched, WorkInOrder, VerifiedHTTP, Fresh
  <2> QED
    BY <2>c, <2>u, <2>w, <2>d, <2>v DEF Ladder
<1>5. ASSUME NEW s \in Strategy, Receive(s)
      PROVE  Ladder'
  BY <1>5 DEF Receive, Outstanding, Ladder, CollectionOrder, Untouched, WorkInOrder,
              WorkDone, VerifiedHTTP, Fresh, DealtWith, TypeOK, tlsVars, httpVars
<1>6. ASSUME NEW s \in Strategy, SkipFact(s)
      PROVE  Ladder'
  BY <1>6, <1>a DEF SkipFact, NextFact, Ladder, CollectionOrder, Untouched, WorkInOrder,
              WorkDone, VerifiedHTTP, Fresh, DealtWith, dialVars, tlsVars, httpVars
<1>7. ASSUME NEW s \in Strategy, VisitHTTP(s)
      PROVE  Ladder'
  BY <1>7, <1>a DEF VisitHTTP, NextFact, Ladder, CollectionOrder, Untouched, WorkInOrder,
              WorkDone, VerifiedHTTP, Fresh, DealtWith, dialVars, tlsVars, httpVars
<1>8. ASSUME NEW s \in Strategy, VisitTLS(s)
      PROVE  Ladder'
  BY <1>8, <1>a DEF VisitTLS, NextFact, Ladder, CollectionOrder, Untouched, WorkInOrder,
              WorkDone, VerifiedHTTP, Fresh, DealtWith, dialVars, httpVars
<1>9. CASE LoopDone
  BY <1>9 DEF LoopDone, Ladder, CollectionOrder, Untouched, WorkInOrder, WorkDone,
              VerifiedHTTP, Fresh, DealtWith, dialVars, tlsVars, httpVars
<1>10. CASE Handshake
  <2>1. PICK result \in {"COMPLETED", "FAILED", "TIMED_OUT"},
             cert \in CertResults \cup {"no_peer"} : HandshakeReturn(result, cert)
    BY <1>10, HandshakeReturns
  <2>2. /\ pc = "handshake" /\ pc' = "signal" /\ tls'[cur] # NoTls
        /\ \A t \in Strategy \ {cur} : tls'[t] = tls[t]
        /\ UNCHANGED <<scheme, dialVars, pending, cur, sock, httpVars>>
    BY <2>1, <1>a DEF HandshakeReturn, NoTls, TypeOK
  <2> QED
    BY <2>2, <1>a DEF Ladder, CollectionOrder, Untouched, WorkInOrder, WorkDone,
                VerifiedHTTP, Fresh, DealtWith, dialVars, httpVars
<1>11. CASE CloseHandshakeDone \/ CancelTLS
  BY <1>11 DEF CloseHandshakeDone, CancelTLS, Ladder, CollectionOrder, Untouched,
               WorkInOrder, WorkDone, VerifiedHTTP, Fresh, DealtWith, dialVars, httpVars
<1>12. CASE VerifyPassed
  BY <1>12 DEF VerifyPassed, Verified, Ladder, CollectionOrder, Untouched, WorkInOrder,
               WorkDone, VerifiedHTTP, Fresh, DealtWith, dialVars, tlsVars, httpVars
<1>13. CASE VerifyRefused
  BY <1>13, <1>a DEF VerifyRefused, Verified, Ladder, CollectionOrder, Untouched,
               WorkInOrder, WorkDone, VerifiedHTTP, Fresh, DealtWith, TypeOK, dialVars,
               tlsVars, httpVars
<1>14. ASSUME NEW s \in Strategy, TlsTimerFires(s) \/ Watcher(s)
       PROVE  Ladder'
  BY <1>14, <1>a, QuietStepKeepsLadder
  DEF TlsTimerFires, Watcher, WatcherPark, WatcherSelect, WatcherClose, TypeOK, httpVars
<1>15. CASE Exchange
  <2>1. CASE TransportDial
    BY <2>1, <1>a DEF TransportDial, Ladder, CollectionOrder, Untouched, WorkInOrder,
                WorkDone, VerifiedHTTP, Fresh, DealtWith, TypeOK, dialVars, tlsVars
  <2>2. ASSUME NEW outcome \in HttpOutcome \ {"none"},
               HttpReturn(outcome) \/ TransportRedial
        PROVE  Ladder'
    <3>1. /\ pc = "http" /\ pc' = "loop" /\ http'[cur] # "none"
          /\ \A t \in Strategy \ {cur} :
               http'[t] = http[t] /\ dials'[t] = dials[t] /\ sock'[t] = sock[t]
          /\ UNCHANGED <<scheme, dial, tcp, pending, cur, tls>>
      BY <2>2, <1>a DEF HttpReturn, TransportRedial, TypeOK, dialVars, tlsVars
    <3>c. CollectionOrder'
      BY <1>a, <3>1 DEF Ladder, CollectionOrder
    <3>u. Untouched'
      BY <1>a, <3>1 DEF Ladder, Untouched, WorkInOrder, Fresh
    <3>w. WorkInOrder'
      BY <1>a, <3>1 DEF Ladder, CollectionOrder, WorkInOrder
    <3>d. WorkDone'
      BY <1>a, <3>1 DEF Ladder, WorkInOrder, WorkDone, DealtWith, NoTls
    <3>v. VerifiedHTTP'
      BY <1>a, <3>1 DEF Ladder, Untouched, WorkInOrder, VerifiedHTTP, Fresh
    <3> QED
      BY <3>c, <3>u, <3>w, <3>d, <3>v DEF Ladder
  <2> QED
    BY <1>15, <2>1, <2>2, ExchangeCases DEF HttpOutcome
<1>16. CASE Assemble
  BY <1>16 DEF Assemble, Ladder, CollectionOrder, Untouched, WorkInOrder, WorkDone,
               VerifiedHTTP, Fresh, DealtWith, dialVars, tlsVars, httpVars
<1>17. CASE Tick
  BY <1>17, <1>a, QuietStepKeepsLadder DEF Tick, tlsVars
<1>18. CASE UNCHANGED vars
  BY <1>18, <1>a, QuietStepKeepsLadder DEF vars, dialVars, httpVars
<1> QED
  BY <1>1, <1>2, <1>3, <1>4, <1>5, <1>6, <1>7, <1>8, <1>9, <1>10, <1>11, <1>12,
     <1>13, <1>14, <1>15, <1>16, <1>17, <1>18
  DEF Next, Loop, AfterHandshake, Terminated

\* The order of the work over all behaviours of the run.
LEMMA LadderHolds == Spec => []Ladder
<1>1. Init => Ladder
  BY DEF Init, Ladder, CollectionOrder, Untouched, WorkInOrder, WorkDone, VerifiedHTTP,
         Fresh, DealtWith, Working, Dialled, NoTls
<1> QED
  BY <1>1, LadderInductive, TypeCorrect, PTL DEF Spec

\* On an https run HTTP follows only a completed and verified handshake over the
\* same connection.
THEOREM HTTPIsVerified == Spec => []VerifiedHTTP
<1>1. Ladder => VerifiedHTTP
  BY DEF Ladder
<1> QED
  BY <1>1, LadderHolds, PTL

\* No order of dials, timers and watchers loses a fact or adds one.
THEOREM FactsAreComplete == Spec => []FactsComplete
<1>1. TypeOK /\ Ladder => FactsComplete
  <2> SUFFICES ASSUME TypeOK, Ladder, pc = "done", NEW s \in Strategy
               PROVE  /\ tls[s] # NoTls <=> tcp[s].outcome = "accepted" /\ scheme = "https"
                      /\ http[s] # "none" <=>
                           /\ tcp[s].outcome = "accepted"
                           /\ scheme = "https" => PeerVerified(s)
    BY DEF FactsComplete
  <2>1. scheme \in {"http", "https"}
    BY ValueAssumption DEF TypeOK
  <2>2. CASE tcp[s].outcome # "accepted"
    BY <2>2 DEF Ladder, Untouched, Fresh, PeerVerified
  <2>3. CASE tcp[s].outcome = "accepted"
    <3>1. DealtWith(s)
      BY <2>3 DEF NoFact, Dialled, Ladder, CollectionOrder, DealtWith, Working
    <3> QED
      BY <2>1, <2>3, <3>1 DEF Ladder, WorkDone
  <2> QED
    BY <2>2, <2>3
<1> QED
  BY <1>1, TypeCorrect, LadderHolds, PTL

----
(***************************************************************************)
(* The hand-over.  Besides the order of the work it rests on what a single *)
(* attempt can bring back, and on no strategy being left out.              *)
(***************************************************************************)
NotStarted(s) ==
    resolution.addresses = {} \/ s \notin StrategiesFor(resolution.addresses)

\* The tcpFacts the goroutine of s can send.
Sendable(s) ==
    [outcome : {"accepted"}, endpoint : Reachable(s, resolution.addresses)]
      \cup [outcome : {"refused", "timed_out", "failed", "endpoint_unknown"},
            endpoint : Planned(s, resolution.addresses)]

AttemptsInOrder ==
    /\ pc \in {"parse", "rejected", "resolve"} =>
         resolution.addresses = {} /\ \A s \in Strategy : dial[s] = "off"
    /\ pc \notin {"parse", "rejected", "resolve"} =>
         \A s \in Strategy : dial[s] = "off" <=> NotStarted(s)
    /\ \A s \in Strategy :
         IF dial[s] \in {"sent", "received"} THEN tcp[s] \in Sendable(s)
                                            ELSE tcp[s] = NoFact
    /\ \A s \in Strategy : tls[s] \in HandshakeFacts \cup {NoTls}

\* What a dialling goroutine sends is one of the facts its strategy can send.
LEMMA DialSendsSendable ==
    ASSUME NEW s \in Strategy, Dial(s), tcp \in [Strategy -> TcpFact],
           dial \in [Strategy -> {"off", "dialing", "sent", "received"}]
    PROVE  /\ dial[s] = "dialing" /\ dial'[s] = "sent" /\ tcp'[s] \in Sendable(s)
           /\ \A t \in Strategy \ {s} : dial'[t] = dial[t] /\ tcp'[t] = tcp[t]
           /\ UNCHANGED <<pc, resolution, tls>>
<1>1. CASE DialAccepted(s)
  BY <1>1 DEF DialAccepted, Send, Sendable, tlsVars
<1>2. CASE DialEndpointUnknown(s)
  BY <1>2 DEF DialEndpointUnknown, Send, Sendable, tlsVars
<1>3. CASE DialError(s)
  BY <1>3 DEF DialError, Send, Sendable, tlsVars
<1>4. CASE DialDeadline(s)
  BY <1>4 DEF DialDeadline, Send, Sendable, tlsVars
<1> QED
  BY <1>1, <1>2, <1>3, <1>4 DEF Dial

\* Every step of the run keeps the attempts in order.
LEMMA AttemptsInOrderInductive ==
    TypeOK /\ AttemptsInOrder /\ [Next]_vars => AttemptsInOrder'
<1> SUFFICES ASSUME TypeOK, AttemptsInOrder, [Next]_vars
             PROVE  AttemptsInOrder'
  OBVIOUS
\* A step that touches none of what AttemptsInOrder is about.
<1>q. ASSUME UNCHANGED <<resolution, dial, tcp, tls>>,
             pc \in {"parse", "rejected", "resolve"}
               <=> pc' \in {"parse", "rejected", "resolve"}
      PROVE  AttemptsInOrder'
  BY <1>q DEF AttemptsInOrder, NotStarted, Sendable
<1>1. CASE ParseError \/ ParseTarget
  BY <1>1, <1>q DEF ParseError, ParseTarget, dialVars, tlsVars
<1>2. ASSUME NEW raw \in SUBSET RawAnswer, ResolveCompleted(raw)
      PROVE  AttemptsInOrder'
  <2>1. /\ resolution'.addresses = Unmapped(raw)
        /\ \A s \in Strategy : dial'[s] = IF Unmapped(raw) # {} /\ s \in StrategiesFor(Unmapped(raw))
                                          THEN "dialing" ELSE "off"
        /\ pc' \in {"assemble", "collect"} /\ UNCHANGED <<tcp, tls>>
    BY <1>2 DEF ResolveCompleted, tlsVars
  <2>2. \A s \in Strategy : tcp[s] = NoFact
    BY <1>2 DEF AttemptsInOrder, ResolveCompleted
  <2> QED
    BY <2>1, <2>2 DEF AttemptsInOrder, NotStarted
<1>3. ASSUME NEW reason, ResolveFailed(reason)
      PROVE  AttemptsInOrder'
  BY <1>3 DEF ResolveFailed, AttemptsInOrder, NotStarted, dialVars, tlsVars
<1>4. ASSUME NEW s \in Strategy, Dial(s)
      PROVE  AttemptsInOrder'
  <2>1. /\ dial[s] = "dialing" /\ dial'[s] = "sent" /\ tcp'[s] \in Sendable(s)
        /\ \A t \in Strategy \ {s} : dial'[t] = dial[t] /\ tcp'[t] = tcp[t]
        /\ UNCHANGED <<pc, resolution, tls>>
    BY <1>4, DialSendsSendable DEF TypeOK
  <2> QED
    BY <2>1 DEF AttemptsInOrder, NotStarted, Sendable
<1>5. ASSUME NEW s \in Strategy, Receive(s)
      PROVE  AttemptsInOrder'
  BY <1>5 DEF Receive, AttemptsInOrder, NotStarted, Sendable, tlsVars, TypeOK
<1>6. ASSUME NEW s \in Strategy, Loop(s)
      PROVE  AttemptsInOrder'
  BY <1>6, <1>q DEF Loop, SkipFact, VisitHTTP, VisitTLS, NextFact, dialVars, tlsVars
<1>7. CASE LoopDone \/ Assemble
  BY <1>7, <1>q DEF LoopDone, Assemble, dialVars, tlsVars
<1>8. CASE Handshake
  <2>1. \E fact \in HandshakeFacts : HandshakeReturn(fact.result, fact.cert)
    <3>1. CASE HandshakeCompleted
      <4>1. PICK cert \in CertResults : HandshakeReturn("COMPLETED", cert)
        BY <3>1 DEF HandshakeCompleted
      <4>2. [result |-> "COMPLETED", cert |-> cert] \in HandshakeFacts
        BY DEF HandshakeFacts
      <4> QED
        BY <4>1, <4>2
    <3>2. CASE HandshakeFailed
      <4>1. PICK result \in {"FAILED", "TIMED_OUT"}, cert \in CertResults \cup {"no_peer"} :
              HandshakeReturn(result, cert)
        BY <3>2 DEF HandshakeFailed
      <4>2. [result |-> result, cert |-> cert] \in HandshakeFacts
        BY DEF HandshakeFacts
      <4> QED
        BY <4>1, <4>2
    <3>3. CASE HandshakeDeadline
      <4>1. [result |-> "TIMED_OUT", cert |-> "no_peer"] \in HandshakeFacts
        BY DEF HandshakeFacts
      <4> QED
        BY <3>3, <4>1 DEF HandshakeDeadline
    <3> QED
      BY <1>8, <3>1, <3>2, <3>3 DEF Handshake
  <2>2. PICK fact \in HandshakeFacts : HandshakeReturn(fact.result, fact.cert)
    BY <2>1
  <2>3. fact = [result |-> fact.result, cert |-> fact.cert]
    BY DEF HandshakeFacts
  <2>4. /\ tls' = [tls EXCEPT ![cur] = fact] /\ pc = "handshake" /\ pc' = "signal"
        /\ UNCHANGED <<resolution, dial, tcp>>
    BY <2>2, <2>3 DEF HandshakeReturn, dialVars
  <2> QED
    BY <2>4 DEF AttemptsInOrder, NotStarted, Sendable, TypeOK
<1>9. CASE AfterHandshake
  BY <1>9, <1>q DEF AfterHandshake, CloseHandshakeDone, CancelTLS, VerifyPassed,
                    VerifyRefused, dialVars, tlsVars
<1>10. ASSUME NEW s \in Strategy, TlsTimerFires(s) \/ Watcher(s)
       PROVE  AttemptsInOrder'
  BY <1>10, <1>q DEF TlsTimerFires, Watcher, WatcherPark, WatcherSelect, WatcherClose,
                     dialVars
<1>11. CASE Exchange
  BY <1>11, <1>q, ExchangeCases DEF TransportDial, TransportRedial, HttpReturn,
                                    dialVars, tlsVars
<1>12. CASE Tick
  BY <1>12, <1>q DEF Tick, dialVars, tlsVars
<1>13. CASE UNCHANGED vars
  BY <1>13, <1>q DEF vars
<1> QED
  BY <1>1, <1>2, <1>3, <1>4, <1>5, <1>6, <1>7, <1>8, <1>9, <1>10, <1>11, <1>12, <1>13
  DEF Next, Resolve, ResolveError, ResolveDeadline, Terminated

\* The facts a run hands over are facts AttemptFacts allows for its scheme and its
\* addresses: the initial states of Diagnosis leave out no run of the probe.
THEOREM FactsAreAsPromised == Spec => []FactsAsPromised
<1>1. Init => AttemptsInOrder
  BY DEF Init, AttemptsInOrder
<1>2. TypeOK /\ Ladder /\ FactsComplete /\ AttemptsInOrder => FactsAsPromised
  <2> SUFFICES ASSUME TypeOK, Ladder, FactsComplete, AttemptsInOrder, pc = "done",
                      NEW s \in Strategy
               PROVE  [tcp |-> tcp[s], tls |-> tls[s], http |-> http[s]]
                        \in AttemptFacts(s, scheme, resolution.addresses)
    BY DEF FactsAsPromised
  <2> DEFINE handed == [tcp |-> tcp[s], tls |-> tls[s], http |-> http[s]]
             addresses == resolution.addresses
  <2>0. /\ scheme \in {"http", "https"} /\ http[s] \in HttpOutcome
        /\ dial[s] \in {"off", "received"}
    BY ValueAssumption DEF TypeOK, Ladder, CollectionOrder, Dialled
  <2>1. /\ tls[s] # NoTls <=> tcp[s].outcome = "accepted" /\ scheme = "https"
        /\ http[s] # "none" <=>
             /\ tcp[s].outcome = "accepted"
             /\ scheme = "https" => PeerVerified(s)
    BY DEF FactsComplete
  <2>2. CASE dial[s] = "off"
    <3>1. NotStarted(s) /\ tcp[s] = NoFact
      BY <2>2 DEF AttemptsInOrder
    <3>2. handed = Unconnected(NoFact)
      BY <2>1, <3>1 DEF NoFact, Unconnected
    <3> QED
      BY <3>1, <3>2 DEF NotStarted, AttemptFacts
  <2>3. CASE dial[s] = "received"
    <3>1. ~NotStarted(s) /\ tcp[s] \in Sendable(s)
      BY <2>3 DEF AttemptsInOrder
    <3>2. CASE tcp[s].outcome # "accepted"
      <4>1. handed = Unconnected(tcp[s])
        BY <2>1, <3>2 DEF Unconnected
      <4>2. tcp[s] \in [outcome : {"refused", "timed_out", "failed", "endpoint_unknown"},
                        endpoint : Planned(s, addresses)]
        BY <3>1, <3>2 DEF Sendable
      <4> QED
        BY <3>1, <4>1, <4>2 DEF NotStarted, AttemptFacts
    <3>3. CASE tcp[s].outcome = "accepted"
      <4> DEFINE accepted == [outcome : {"accepted"}, endpoint : Reachable(s, addresses)]
      <4>1. tcp[s] \in accepted
        BY <3>1, <3>3 DEF Sendable
      <4>2. CASE scheme = "http"
        <5>1. tls[s] = NoTls /\ http[s] \in HttpOutcome \ {"none"}
          BY <2>0, <2>1, <3>3, <4>2
        <5> QED
          BY <3>1, <4>1, <4>2, <5>1 DEF NotStarted, AttemptFacts, ConnectedFacts
      <4>3. CASE scheme = "https"
        <5> DEFINE proven == [result |-> "COMPLETED", cert |-> "VERIFIED"]
        <5>1. tls[s] \in HandshakeFacts
          BY <2>1, <3>3, <4>3 DEF AttemptsInOrder
        <5>2. tls[s] = proven <=> PeerVerified(s)
          BY <5>1 DEF HandshakeFacts, PeerVerified
        <5>3. IF tls[s] = proven THEN http[s] \in HttpOutcome \ {"none"}
                                 ELSE http[s] = "none"
          BY <2>0, <2>1, <3>3, <4>3, <5>2
        <5>4. handed \in ConnectedFacts(scheme, accepted)
          BY <4>1, <4>3, <5>1, <5>3 DEF ConnectedFacts
        <5> QED
          BY <3>1, <5>4 DEF NotStarted, AttemptFacts
      <4> QED
        BY <2>0, <4>2, <4>3
    <3> QED
      BY <3>2, <3>3
  <2> QED
    BY <2>0, <2>2, <2>3
<1> QED
  BY <1>1, <1>2, AttemptsInOrderInductive, TypeCorrect, LadderHolds, FactsAreComplete,
     PTL DEF Spec

----
(***************************************************************************)
(* Refinement of ProbeContract.                                            *)
(***************************************************************************)
Over == pc \in {"done", "rejected"}

\* A step that leaves the facts alone and does not end the run is invisible.
LEMMA InvisibleStep ==
    ASSUME UNCHANGED <<scheme, dial, tcp, tls, http>>, Over' = Over
    PROVE  UNCHANGED Contract!vars
<1>1. \A s \in Strategy : StageOf(s)' = StageOf(s)
  BY DEF StageOf, PeerVerified
<1> QED
  BY <1>1 DEF Contract!vars, Over

\* A step that changes the stage of one strategy is a move of the contract.
LEMMA OneStageMoves ==
    ASSUME NEW s \in Strategy, NEW to,
           UNCHANGED scheme, Over' = Over, StageOf(s)' = to,
           \A t \in Strategy \ {s} : StageOf(t)' = StageOf(t)
    PROVE  Contract!Move(s, StageOf(s), to)
BY DEF Contract!Move, Over

\* While the loop runs every attempt has connected or failed.
LEMMA NobodyDials ==
    ASSUME Ladder, Dialled
    PROVE  Contract!AllDialed
BY DEF Ladder, CollectionOrder, Contract!AllDialed, StageOf

\* A run that hands over its facts has settled every attempt.
LEMMA FinishedIsSettled ==
    ASSUME TypeOK, Ladder, pc \in {"parse", "assemble"}, NEW s \in Strategy
    PROVE  Contract!Settled(s)
<1>1. scheme \in {"http", "https"} /\ dial[s] \in {"off", "received"}
  BY ValueAssumption DEF TypeOK, Ladder, CollectionOrder, Dialled
<1>2. CASE dial[s] = "off" \/ tcp[s].outcome # "accepted"
  BY <1>1, <1>2 DEF Contract!Settled, StageOf
<1>3. CASE dial[s] = "received" /\ tcp[s].outcome = "accepted"
  <2>1. DealtWith(s)
    BY <1>3 DEF Ladder, CollectionOrder, DealtWith, Working
  <2>2. CASE scheme = "http"
    BY <1>3, <2>1, <2>2 DEF Ladder, WorkDone, Contract!Settled, StageOf, Answered
  <2>3. CASE scheme = "https"
    <3>1. tls[s] # NoTls /\ (http[s] # "none" <=> PeerVerified(s))
      BY <2>1, <2>3 DEF Ladder, WorkDone
    <3> QED
      BY <1>3, <3>1 DEF Contract!Settled, StageOf, Answered
  <2> QED
    BY <1>1, <2>2, <2>3
<1> QED
  BY <1>1, <1>2, <1>3

\* The run implements ProbeContract: whatever the interleaving, no attempt is lost,
\* settled twice, taken further before all have connected or failed, or asked for
\* HTTP out of turn.
THEOREM ProbeRefinesContract == Spec => KeepsContract
<1>1. Init => Contract!Init
  BY DEF Init, Contract!Init, StageOf
<1>2. TypeOK /\ Ladder /\ [Next]_vars => [Contract!Next]_(Contract!vars)
  <2> SUFFICES ASSUME TypeOK, Ladder, [Next]_vars
               PROVE  Contract!Next \/ UNCHANGED Contract!vars
    OBVIOUS
  <2>a. scheme \in {"http", "https"} /\ cur \in Strategy
    BY ValueAssumption DEF TypeOK
  <2>1. CASE ParseError \/ Assemble
    <3>1. /\ pc \in {"parse", "assemble"} /\ Over'
          /\ UNCHANGED <<scheme, dial, tcp, tls, http>>
      BY <2>1 DEF ParseError, Assemble, Over, dialVars, tlsVars, httpVars
    <3>2. \A s \in Strategy : StageOf(s)' = StageOf(s)
      BY <3>1 DEF StageOf, PeerVerified
    <3>3. Contract!Finish
      BY <3>1, <3>2, FinishedIsSettled DEF Contract!Finish, Over
    <3> QED
      BY <3>3 DEF Contract!Next
  <2>2. CASE ParseTarget
    BY <2>2, InvisibleStep DEF ParseTarget, Over, dialVars, tlsVars, httpVars
  <2>3. ASSUME NEW reason, ResolveFailed(reason)
        PROVE  UNCHANGED Contract!vars
    BY <2>3, InvisibleStep DEF ResolveFailed, Over, dialVars, tlsVars, httpVars
  <2>4. ASSUME NEW raw, ResolveCompleted(raw)
        PROVE  Contract!Next
    <3> DEFINE started == IF Unmapped(raw) = {} THEN {} ELSE StrategiesFor(Unmapped(raw))
    <3>1. /\ pc = "resolve" /\ pc' \in {"assemble", "collect"}
          /\ dial' = [s \in Strategy |-> IF s \in started THEN "dialing" ELSE "off"]
          /\ UNCHANGED <<scheme, tcp, tls, http>>
      BY <2>4 DEF ResolveCompleted, tlsVars, httpVars
    <3>2. \A s \in Strategy : StageOf(s) = "idle"
      BY <3>1 DEF Ladder, CollectionOrder, StageOf
    <3> DEFINE going == started \cap Strategy
    <3> HIDE DEF started
    <3>3. \A s \in Strategy : StageOf(s)' = IF s \in going THEN "dialing" ELSE "idle"
      BY <3>1 DEF StageOf
    <3>4. going \in SUBSET Strategy
      OBVIOUS
    <3>5. Contract!Start
      <4> HIDE DEF going
      <4> QED
        BY <3>1, <3>2, <3>3, <3>4 DEF Contract!Start
    <3> QED
      BY <3>5 DEF Contract!Next
  <2>5. ASSUME NEW s \in Strategy, Dial(s)
        PROVE  Contract!Next
    <3>1. PICK outcome \in {"accepted", "refused", "timed_out", "failed",
                            "endpoint_unknown"},
               a \in Addr \cup {NoAddr},
               holder \in {"none", "open", "closed"} : Send(s, outcome, a, holder)
      BY <2>5, DialSends
    <3>0. dial[s] = "dialing"
      BY <2>5, DialSends
    <3>2. /\ dial[s] = "dialing" /\ dial'[s] = "sent" /\ tcp'[s].outcome = outcome
          /\ \A t \in Strategy \ {s} : dial'[t] = dial[t] /\ tcp'[t] = tcp[t]
          /\ UNCHANGED <<scheme, pc, tls, http>>
      BY <3>0, <3>1 DEF Send, TypeOK, tlsVars, httpVars
    <3>3. tls[s] = NoTls /\ http[s] = "none"
      BY <3>2 DEF Ladder, Untouched, Fresh
    <3>4. StageOf(s) = "dialing" /\ StageOf(s)' \in {"connected", "unreachable"}
      BY <3>2, <3>3 DEF StageOf, Answered
    <3>5. \A t \in Strategy \ {s} : StageOf(t)' = StageOf(t)
      BY <3>2 DEF StageOf, PeerVerified
    <3>6. Contract!Move(s, "dialing", StageOf(s)')
      BY <3>2, <3>4, <3>5, OneStageMoves DEF Over
    <3> QED
      BY <3>4, <3>6 DEF Contract!Connect, Contract!Next
  <2>6. ASSUME NEW s \in Strategy, Receive(s)
        PROVE  UNCHANGED Contract!vars
    <3>1. /\ dial[s] = "sent" /\ dial'[s] = "received" /\ Over' = Over
          /\ \A t \in Strategy \ {s} : dial'[t] = dial[t]
          /\ UNCHANGED <<scheme, tcp, tls, http>>
      BY <2>6 DEF Receive, Over, TypeOK, tlsVars, httpVars
    <3>2. \A t \in Strategy : StageOf(t)' = StageOf(t)
      BY <3>1 DEF StageOf, PeerVerified
    <3> QED
      BY <3>1, <3>2 DEF Contract!vars, Over
  <2>7. ASSUME NEW s \in Strategy, Loop(s)
        PROVE  UNCHANGED Contract!vars
    BY <2>7, InvisibleStep
    DEF Loop, SkipFact, VisitHTTP, VisitTLS, NextFact, Over, dialVars, tlsVars, httpVars
  <2>8. CASE Handshake
    <3>1. PICK result \in {"COMPLETED", "FAILED", "TIMED_OUT"},
               cert \in CertResults \cup {"no_peer"} : HandshakeReturn(result, cert)
      BY <2>8, HandshakeReturns
    <3>0. PICK c \in Strategy : c = cur
      BY <2>a
    <3>2. /\ pc = "handshake" /\ Over' = Over /\ tls'[c] # NoTls
          /\ \A t \in Strategy \ {c} : tls'[t] = tls[t]
          /\ UNCHANGED <<scheme, dial, tcp, http>>
      BY <3>0, <3>1 DEF HandshakeReturn, NoTls, Over, TypeOK, dialVars, httpVars
    <3>3. /\ scheme = "https" /\ dial[c] = "received" /\ tcp[c].outcome = "accepted"
          /\ tls[c] = NoTls /\ http[c] = "none"
      BY <3>0, <3>2 DEF Ladder, WorkInOrder, Working
    <3>4. StageOf(c) = "connected" /\ StageOf(c)' \in {"trusted", "distrusted"}
      BY <3>2, <3>3 DEF StageOf, Answered
    <3>5. \A t \in Strategy \ {c} : StageOf(t)' = StageOf(t)
      BY <3>2 DEF StageOf, PeerVerified
    <3>6. Contract!Move(c, "connected", StageOf(c)')
      BY <3>2, <3>4, <3>5, OneStageMoves
    <3>7. Contract!AllDialed
      BY <3>2, NobodyDials DEF Dialled, Working
    <3> QED
      BY <3>3, <3>4, <3>6, <3>7 DEF Contract!Trust, Contract!Next
  <2>9. CASE LoopDone \/ AfterHandshake
    BY <2>9, InvisibleStep
    DEF LoopDone, AfterHandshake, CloseHandshakeDone, CancelTLS, VerifyPassed,
        VerifyRefused, Over, dialVars, tlsVars, httpVars
  <2>10. ASSUME NEW s \in Strategy, TlsTimerFires(s) \/ Watcher(s)
         PROVE  UNCHANGED Contract!vars
    BY <2>10, InvisibleStep
    DEF TlsTimerFires, Watcher, WatcherPark, WatcherSelect, WatcherClose, Over,
        dialVars, httpVars
  <2>11. CASE Exchange
    <3>1. CASE TransportDial
      BY <3>1, InvisibleStep DEF TransportDial, Over, dialVars, tlsVars
    <3>2. ASSUME NEW outcome \in HttpOutcome \ {"none"},
                 HttpReturn(outcome) \/ TransportRedial
          PROVE  Contract!Next
      <4>0. PICK c \in Strategy : c = cur
        BY <2>a
      <4>1. /\ pc = "http" /\ Over' = Over /\ http'[c] # "none"
            /\ \A t \in Strategy \ {c} : http'[t] = http[t]
            /\ UNCHANGED <<scheme, dial, tcp, tls>>
        BY <3>2, <4>0 DEF HttpReturn, TransportRedial, Over, TypeOK, dialVars, tlsVars
      <4>2. /\ dial[c] = "received" /\ tcp[c].outcome = "accepted"
            /\ http[c] = "none"
            /\ scheme = "https" => PeerVerified(c)
            /\ scheme = "http" => tls[c] = NoTls
        BY <4>0, <4>1, <2>a DEF Ladder, WorkInOrder, WorkDone, Working
      <4>3. StageOf(c) = IF scheme = "https" THEN "trusted" ELSE "connected"
        <5>1. PeerVerified(c) => tls[c] # NoTls
          BY DEF PeerVerified, NoTls
        <5> QED
          BY <2>a, <4>2, <5>1 DEF StageOf, Answered
      <4>4. StageOf(c)' \in {"answered", "unanswered"}
        BY <4>1, <4>2 DEF StageOf, Answered
      <4>5. \A t \in Strategy \ {c} : StageOf(t)' = StageOf(t)
        BY <4>1 DEF StageOf, PeerVerified
      <4>6. Contract!Move(c, StageOf(c), StageOf(c)')
        BY <4>1, <4>5, OneStageMoves
      <4>7. Contract!AllDialed
        BY <4>1, NobodyDials DEF Dialled, Working
      <4> QED
        BY <2>a, <4>3, <4>4, <4>6, <4>7 DEF Contract!Ask, Contract!Next
    <3> QED
      BY <2>11, <3>1, <3>2, ExchangeCases DEF HttpOutcome
  <2>12. CASE Tick
    BY <2>12, InvisibleStep DEF Tick, Over, dialVars, tlsVars, httpVars
  <2>13. CASE UNCHANGED vars
    BY <2>13, InvisibleStep DEF vars, Over, dialVars, tlsVars, httpVars
  <2> QED
    BY <2>1, <2>2, <2>3, <2>4, <2>5, <2>6, <2>7, <2>8, <2>9, <2>10, <2>11,
       <2>12, <2>13 DEF Next, Resolve, ResolveError, ResolveDeadline, Terminated
<1> QED
  BY <1>1, <1>2, TypeCorrect, LadderHolds, PTL DEF Spec, KeepsContract, Contract!Spec

----
(***************************************************************************)
(* The watcher of a handshake.                                             *)
(***************************************************************************)
\* handshakeDone is closed before the context is cancelled, and nobody waits for a
\* channel that is closed.
SignalledFirst ==
    /\ pc = "cancel" => hsDone[cur]
    /\ \A s \in Strategy : tlsCtx[s] = "cancelled" => hsDone[s]
    /\ \A s \in Strategy : hsDone[s] => watcher[s] # "parked"
    /\ \A s \in Strategy : watcher[s] = "spawned" => tlsCtx[s] # "none"

\* The order of the two calls keeps cancel() from waking a watcher.
LEMMA SignalledInductive == TypeOK /\ SignalledFirst /\ [Next]_vars => SignalledFirst'
<1> SUFFICES ASSUME TypeOK, SignalledFirst, [Next]_vars
             PROVE  SignalledFirst'
  OBVIOUS
<1>a. /\ cur \in Strategy /\ hsDone \in [Strategy -> BOOLEAN]
      /\ tlsCtx \in [Strategy -> {"none", "live", "expired", "cancelled"}]
      /\ watcher \in [Strategy -> {"none", "spawned", "parked", "closing", "exited"}]
  BY DEF TypeOK
<1>q. ASSUME UNCHANGED <<cur, tlsCtx, hsDone, watcher>>, pc' # "cancel" \/ pc = "cancel"
      PROVE  SignalledFirst'
  BY <1>q DEF SignalledFirst
<1>1. CASE ParseError \/ ParseTarget \/ LoopDone \/ Assemble \/ Tick
  BY <1>1, <1>q DEF ParseError, ParseTarget, LoopDone, Assemble, Tick, tlsVars
<1>2. CASE Resolve
  BY <1>2, <1>q DEF Resolve, ResolveError, ResolveDeadline, ResolveFailed, ResolveCompleted, tlsVars
<1>3. ASSUME NEW s \in Strategy, Dial(s) \/ Receive(s) PROVE SignalledFirst'
  <2>1. CASE Dial(s)
    BY <2>1, <1>q, DialSends DEF Send, tlsVars
  <2>2. CASE Receive(s)
    BY <2>2, <1>q DEF Receive, tlsVars
  <2> QED
    BY <1>3, <2>1, <2>2
<1>4. ASSUME NEW s \in Strategy, Loop(s) PROVE SignalledFirst'
  <2>1. CASE SkipFact(s)
    BY <2>1, <1>q DEF SkipFact, tlsVars
  <2>2. CASE VisitHTTP(s)
    BY <2>2 DEF VisitHTTP, tlsVars, SignalledFirst
  <2>3. CASE VisitTLS(s)
    BY <2>3, <1>a DEF VisitTLS, SignalledFirst
  <2> QED
    BY <1>4, <2>1, <2>2, <2>3 DEF Loop
<1>5. CASE Handshake
  BY <1>5, <1>q, HandshakeReturns DEF HandshakeReturn
<1>6. CASE CloseHandshakeDone
  BY <1>6, <1>a DEF CloseHandshakeDone, SignalledFirst
<1>7. CASE CancelTLS
  BY <1>7, <1>a DEF CancelTLS, SignalledFirst
<1>8. CASE VerifyPassed \/ VerifyRefused
  BY <1>8, <1>q DEF VerifyPassed, VerifyRefused, tlsVars
<1>9. ASSUME NEW s \in Strategy, TlsTimerFires(s) PROVE SignalledFirst'
  BY <1>9, <1>a DEF TlsTimerFires, SignalledFirst
<1>10. ASSUME NEW s \in Strategy, Watcher(s) PROVE SignalledFirst'
  BY <1>10, <1>a DEF Watcher, WatcherPark, WatcherSelect, WatcherClose, SignalledFirst
<1>11. CASE Exchange
  BY <1>11, <1>q, ExchangeCases DEF TransportDial, TransportRedial, HttpReturn, tlsVars
<1>12. CASE UNCHANGED vars
  BY <1>12, <1>q DEF vars
<1> QED
  BY <1>1, <1>2, <1>3, <1>4, <1>5, <1>6, <1>7, <1>8, <1>9, <1>10, <1>11, <1>12
     DEF Next, AfterHandshake, Terminated

\* A watcher closes its connection because the deadline came, or because it reached its
\* select after both signals; one that waits there is never woken by the cancellation.
THEOREM WatchersWait == Spec => WatcherClosesOnDeadlineOrLate
<1>1. Init => SignalledFirst
  BY DEF Init, SignalledFirst
<1>2. TypeOK /\ SignalledFirst /\ [Next]_vars =>
        [\A s \in Strategy :
           watcher[s] # "closing" /\ watcher'[s] = "closing" =>
             \/ tlsCtx'[s] = "expired"
             \/ watcher[s] = "spawned" /\ hsDone[s] /\ tlsCtx[s] = "cancelled"]_vars
  <2> DEFINE Late(s) == watcher[s] = "spawned" /\ hsDone[s] /\ tlsCtx[s] = "cancelled"
  <2> SUFFICES ASSUME TypeOK, SignalledFirst, Next, NEW s \in Strategy,
                      watcher[s] # "closing", watcher'[s] = "closing"
               PROVE  tlsCtx'[s] = "expired" \/ Late(s)
    OBVIOUS
  <2>a. /\ cur \in Strategy
        /\ tlsCtx \in [Strategy -> {"none", "live", "expired", "cancelled"}]
        /\ watcher \in [Strategy -> {"none", "spawned", "parked", "closing", "exited"}]
    BY DEF TypeOK
  <2>1. watcher' # watcher
    BY <2>a
  <2>2. ASSUME NEW t \in Strategy, TlsTimerFires(t) PROVE tlsCtx'[s] = "expired"
    BY <2>2, <2>a DEF TlsTimerFires
  <2>3. ASSUME NEW t \in Strategy, Watcher(t) PROVE tlsCtx'[s] = "expired" \/ Late(s)
    <3>1. WatcherSelect(t) /\ t = s
      BY <2>3, <2>a DEF Watcher, WatcherPark, WatcherSelect, WatcherClose
    <3>2. watcher[s] = "spawned" /\ tlsCtx[s] # "live" /\ tlsCtx' = tlsCtx
      BY <3>1, <2>a DEF WatcherSelect
    <3>3. tlsCtx[s] \in {"expired", "cancelled"}
      BY <3>2, <2>a DEF SignalledFirst
    <3> QED
      BY <3>2, <3>3 DEF SignalledFirst
  <2>4. CASE Handshake \/ AfterHandshake
    <3>1. CASE CloseHandshakeDone
      BY <3>1, <2>a DEF CloseHandshakeDone
    <3>2. CASE CancelTLS
      BY <3>2, <2>a DEF CancelTLS, SignalledFirst
    <3> QED
      BY <2>1, <2>4, <3>1, <3>2, HandshakeReturns
         DEF AfterHandshake, HandshakeReturn, VerifyPassed, VerifyRefused, tlsVars
  <2>5. ASSUME NEW t \in Strategy, Dial(t) \/ Receive(t) \/ Loop(t) PROVE FALSE
    <3>1. CASE Dial(t) \/ Receive(t)
      BY <2>1, <3>1, DialSends DEF Send, Receive, tlsVars
    <3>2. CASE Loop(t)
      BY <2>1, <2>a, <3>2 DEF Loop, SkipFact, VisitHTTP, VisitTLS, tlsVars
    <3> QED
      BY <2>5, <3>1, <3>2
  <2>6. CASE Resolve
    BY <2>1, <2>6 DEF Resolve, ResolveError, ResolveDeadline, ResolveFailed, ResolveCompleted, tlsVars
  <2>7. CASE Exchange
    BY <2>1, <2>7, ExchangeCases DEF TransportDial, TransportRedial, HttpReturn, tlsVars
  <2>8. CASE ParseError \/ ParseTarget \/ LoopDone \/ Assemble \/ Tick \/ Terminated
    BY <2>1, <2>8 DEF ParseError, ParseTarget, LoopDone, Assemble, Tick, Terminated, tlsVars, vars
  <2> QED
    BY <2>2, <2>3, <2>4, <2>5, <2>6, <2>7, <2>8 DEF Next
<1> QED
  BY <1>1, <1>2, SignalledInductive, TypeCorrect, PTL DEF Spec, WatcherClosesOnDeadlineOrLate

----
(***************************************************************************)
(* The first connection.  Its timeouts are whole because nothing but the   *)
(* resolution and the dials has taken time before it.                      *)
(***************************************************************************)
Unvisited == \A s \in Strategy : tls[s] = NoTls /\ http[s] = "none"

FirstBudget ==
    /\ pc = "parse" => now = 0
    /\ pc = "resolve" => now <= ResolutionTimeout /\ due <= ResolutionTimeout
    /\ pc = "collect" => /\ now <= ResolutionTimeout + TcpTimeout
                         /\ due <= ResolutionTimeout + TcpTimeout
    /\ pc = "loop" /\ Unvisited => now <= ResolutionTimeout + TcpTimeout
    /\ FirstVisit =>
         /\ pc \in {"handshake", "signal", "cancel"} =>
              /\ due = began + TlsTimeout /\ now <= due
              /\ began <= ResolutionTimeout + TcpTimeout
         /\ pc = "verify" => now <= ResolutionTimeout + TcpTimeout + TlsTimeout
         /\ pc = "http" => due = began + HttpTimeout

\* A stage that fits into the total budget has its whole timeout.
LEMMA WholeDeadline ==
    ASSUME now \in Nat, NEW timeout \in Nat, now + timeout <= TotalRunTimeout
    PROVE  Deadline(timeout) = now + timeout
BY TimeoutAssumption DEF Deadline

\* Every step of a run whose timeouts fit keeps the first connection's share.
LEMMA FirstBudgetInductive ==
    ASSUME ResolutionTimeout + TcpTimeout + TlsTimeout + HttpTimeout <= TotalRunTimeout
    PROVE  TypeOK /\ Ladder /\ FirstBudget /\ [Next]_vars => FirstBudget'
<1> SUFFICES ASSUME TypeOK, Ladder, FirstBudget, [Next]_vars
             PROVE  FirstBudget'
  OBVIOUS
<1>a. /\ now \in Nat /\ due \in Nat /\ began \in Nat /\ cur \in Strategy /\ pending \subseteq Strategy
      /\ ResolutionTimeout \in Nat /\ TcpTimeout \in Nat /\ TlsTimeout \in Nat
      /\ HttpTimeout \in Nat /\ TotalRunTimeout \in Nat
  BY TimeoutAssumption DEF TypeOK
\* A step that leaves the clock, the place and the TLS and HTTP facts alone.
<1>q. ASSUME UNCHANGED <<pc, now, due, began, cur, tls, http>> PROVE FirstBudget'
  BY <1>q DEF FirstBudget, Unvisited, FirstVisit
<1>1. CASE ParseError
  BY <1>1 DEF ParseError, FirstBudget
<1>2. CASE ParseTarget
  <2>1. /\ pc = "parse" /\ pc' = "resolve" /\ now' = now
        /\ due' = Deadline(ResolutionTimeout)
    BY <1>2 DEF ParseTarget, Block
  <2>2. now = 0 /\ due' <= ResolutionTimeout
    BY <1>a, <2>1, DeadlineIsTime DEF FirstBudget
  <2> QED
    BY <1>a, <2>1, <2>2 DEF FirstBudget
<1>3. CASE Resolve
  <2>1. ASSUME NEW reason, ResolveFailed(reason) PROVE FirstBudget'
    BY <2>1 DEF ResolveFailed, FirstBudget
  <2>2. ASSUME NEW raw, ResolveCompleted(raw) PROVE FirstBudget'
    <3>1. /\ pc = "resolve"
          /\ \/ pc' = "assemble"
             \/ pc' = "collect" /\ now' = now /\ due' = Deadline(TcpTimeout)
      BY <2>2 DEF ResolveCompleted, Block
    <3>2. CASE pc' = "assemble"
      BY <3>2 DEF FirstBudget
    <3>3. CASE pc' = "collect" /\ now' = now /\ due' = Deadline(TcpTimeout)
      <4>1. Deadline(TcpTimeout) \in Nat /\ Deadline(TcpTimeout) <= now + TcpTimeout
        BY <1>a, DeadlineIsTime
      <4>2. now <= ResolutionTimeout
        BY <3>1 DEF FirstBudget
      <4>3. now' <= ResolutionTimeout + TcpTimeout /\ due' <= ResolutionTimeout + TcpTimeout
        BY <1>a, <3>3, <4>1, <4>2
      <4> QED
        BY <3>3, <4>3 DEF FirstBudget
    <3> QED
      BY <3>1, <3>2, <3>3
  <2> QED
    BY <1>3, <2>1, <2>2 DEF Resolve, ResolveError, ResolveDeadline
<1>4. ASSUME NEW s \in Strategy, Dial(s) PROVE FirstBudget'
  BY <1>4, <1>q, DialSends DEF Send, clockVars, tlsVars, httpVars
<1>5. ASSUME NEW s \in Strategy, Receive(s) PROVE FirstBudget'
  <2>1. /\ pc = "collect" /\ pc' \in {"loop", "collect"}
        /\ UNCHANGED <<now, due, began, cur, tls, http>>
    BY <1>5 DEF Receive, clockVars, tlsVars, httpVars
  <2> QED
    BY <2>1 DEF FirstBudget
<1>6. ASSUME NEW s \in Strategy, VisitTLS(s) \/ VisitHTTP(s) PROVE FirstBudget'
  <2>1. /\ pc = "loop" /\ s \in pending /\ cur' = s /\ UNCHANGED <<tls, http>>
        /\ now' = now /\ began' = now
        /\ \/ pc' = "handshake" /\ due' = Deadline(TlsTimeout)
           \/ pc' = "http" /\ due' = Deadline(HttpTimeout)
    BY <1>6 DEF VisitTLS, VisitHTTP, NextFact, Block, httpVars, tlsVars
  <2>2. tls[s] = NoTls /\ http[s] = "none"
    BY <1>a, <2>1 DEF Ladder, Untouched, Fresh
  <2>3. FirstVisit' => Unvisited
    BY <2>1, <2>2 DEF FirstVisit, Unvisited
  <2>4. Unvisited => now <= ResolutionTimeout + TcpTimeout
    BY <2>1 DEF FirstBudget
  <2>5. Unvisited => /\ Deadline(TlsTimeout) = now + TlsTimeout
                     /\ Deadline(HttpTimeout) = now + HttpTimeout
    <3>1. Unvisited => now + TlsTimeout <= TotalRunTimeout /\ now + HttpTimeout <= TotalRunTimeout
      BY <1>a, <2>4
    <3> QED
      BY <1>a, <3>1, WholeDeadline
  <2>6. CASE pc' = "handshake" /\ due' = Deadline(TlsTimeout)
    <3>1. FirstVisit' => /\ due' = began' + TlsTimeout /\ now' <= due'
                         /\ began' <= ResolutionTimeout + TcpTimeout
      BY <1>a, <2>1, <2>3, <2>4, <2>5, <2>6
    <3> QED
      BY <2>6, <3>1 DEF FirstBudget
  <2>7. CASE pc' = "http" /\ due' = Deadline(HttpTimeout)
    <3>1. FirstVisit' => due' = began' + HttpTimeout
      BY <2>1, <2>3, <2>5, <2>7
    <3> QED
      BY <2>7, <3>1 DEF FirstBudget
  <2> QED
    BY <2>1, <2>6, <2>7
<1>7. ASSUME NEW s \in Strategy, SkipFact(s) PROVE FirstBudget'
  BY <1>7, <1>q DEF SkipFact, clockVars, tlsVars, httpVars
<1>8. CASE LoopDone \/ Assemble
  BY <1>8 DEF LoopDone, Assemble, FirstBudget
<1>9. CASE Handshake
  <2>1. /\ pc = "handshake" /\ pc' = "signal" /\ UNCHANGED <<now, due, began, cur, http>>
        /\ \A t \in Strategy \ {cur} : tls'[t] = tls[t]
    BY <1>9, HandshakeReturns DEF HandshakeReturn, TypeOK, clockVars, httpVars
  <2>2. FirstVisit' => FirstVisit
    BY <2>1 DEF FirstVisit
  <2> QED
    BY <2>1, <2>2 DEF FirstBudget
<1>10. CASE CloseHandshakeDone
  <2>1. /\ pc = "signal" /\ pc' = "cancel" /\ UNCHANGED <<now, due, began, cur, tls, http>>
    BY <1>10 DEF CloseHandshakeDone, clockVars, httpVars
  <2> QED
    BY <2>1 DEF FirstBudget, FirstVisit
<1>11. CASE CancelTLS
  <2>1. /\ pc = "cancel" /\ pc' = "verify" /\ UNCHANGED <<now, due, began, cur, tls, http>>
    BY <1>11 DEF CancelTLS, clockVars, httpVars
  <2>2. FirstVisit => now <= ResolutionTimeout + TcpTimeout + TlsTimeout
    BY <1>a, <2>1 DEF FirstBudget
  <2> QED
    BY <2>1, <2>2 DEF FirstBudget, FirstVisit
<1>12. CASE VerifyPassed
  <2>1. /\ pc = "verify" /\ pc' = "http" /\ UNCHANGED <<now, cur, tls, http>>
        /\ began' = now /\ due' = Deadline(HttpTimeout)
    BY <1>12 DEF VerifyPassed, Block, tlsVars, httpVars
  <2>2. FirstVisit => now + HttpTimeout <= TotalRunTimeout
    BY <1>a, <2>1 DEF FirstBudget
  <2>3. FirstVisit => due' = began' + HttpTimeout
    BY <1>a, <2>1, <2>2, WholeDeadline
  <2> QED
    BY <2>1, <2>3 DEF FirstBudget, FirstVisit
<1>13. CASE VerifyRefused
  <2>1. pc = "verify" /\ pc' = "loop" /\ UNCHANGED <<cur, tls, http>>
    BY <1>13 DEF VerifyRefused, tlsVars, httpVars
  <2>2. tls[cur] # NoTls
    BY <2>1 DEF Ladder, WorkInOrder
  <2>3. ~Unvisited'
    BY <1>a, <2>1, <2>2 DEF Unvisited
  <2> QED
    BY <2>1, <2>3 DEF FirstBudget
<1>14. ASSUME NEW s \in Strategy, TlsTimerFires(s) \/ Watcher(s) PROVE FirstBudget'
  BY <1>14, <1>q DEF TlsTimerFires, Watcher, WatcherPark, WatcherSelect, WatcherClose,
                     clockVars, httpVars
<1>15. CASE Exchange
  <2>1. CASE TransportDial
    BY <2>1, <1>q DEF TransportDial, clockVars, tlsVars
  <2>2. CASE pc' = "loop" /\ http'[cur] # "none" /\ cur' = cur
    <3>1. ~Unvisited'
      BY <1>a, <2>2 DEF Unvisited
    <3> QED
      BY <2>2, <3>1 DEF FirstBudget
  <2>3. TransportDial \/ (pc' = "loop" /\ http'[cur] # "none" /\ cur' = cur)
    BY <1>a, <1>15, ExchangeCases DEF TransportRedial, HttpReturn, TypeOK
  <2> QED
    BY <2>1, <2>2, <2>3
<1>16. CASE Tick
  <2>1. /\ now < due /\ now' = now + 1 /\ UNCHANGED <<pc, due, began, cur, tls, http>>
        /\ pc \in {"resolve", "handshake", "http"} \/ \E s \in Strategy : dial[s] = "dialing"
    BY <1>16 DEF Tick, Blocked, tlsVars, httpVars
  <2>2. pc \notin {"parse", "loop", "signal", "cancel", "verify"}
    BY <2>1 DEF Ladder, CollectionOrder, Dialled, Working
  <2>3. now' <= due
    BY <1>a, <2>1
  <2>4. due <= ResolutionTimeout => now' <= ResolutionTimeout
    BY <1>a, <2>1, <2>3
  <2>5. due <= ResolutionTimeout + TcpTimeout => now' <= ResolutionTimeout + TcpTimeout
    BY <1>a, <2>1, <2>3
  <2> QED
    BY <2>1, <2>2, <2>3, <2>4, <2>5 DEF FirstBudget, FirstVisit
<1>17. CASE UNCHANGED vars
  BY <1>17, <1>q DEF vars
<1> QED
  BY <1>1, <1>2, <1>3, <1>4, <1>5, <1>6, <1>7, <1>8, <1>9, <1>10, <1>11, <1>12, <1>13,
     <1>14, <1>15, <1>16, <1>17 DEF Next, Loop, AfterHandshake, Terminated

\* Where the timeouts of policy.go fit into the total one, as they do there, the
\* handshake and the exchange over the first connection have all of their time.
THEOREM FirstIsUnstarved ==
    ASSUME ResolutionTimeout + TcpTimeout + TlsTimeout + HttpTimeout <= TotalRunTimeout
    PROVE  Spec => []FirstConnectionUnstarved
<1>1. Init => FirstBudget
  BY TimeoutAssumption DEF Init, FirstBudget
<1>2. FirstBudget => FirstConnectionUnstarved
  BY DEF FirstBudget, FirstConnectionUnstarved
<1> QED
  BY <1>1, <1>2, FirstBudgetInductive, TypeCorrect, LadderHolds, PTL DEF Spec

----
(***************************************************************************)
(* Who closes the connections.  A connection that is still open when the   *)
(* loop has left it was never asked for: its exchange began with the total *)
(* budget spent, so that the request context had ended before the dial.    *)
(***************************************************************************)
\* Only an accepted connection is held, and only the exchange lends it out.
HeldInOrder ==
    \A s \in Strategy :
        /\ tcp[s].outcome # "accepted" => sock[s] # "open"
        /\ sock[s] = "lent" => pc = "http" /\ s = cur

\* Until the transport has dialled, no time has passed; from then on the
\* connection is no longer merely open.
ExchangeInOrder ==
    pc = "http" =>
        /\ dials[cur] = 0 =>
             now = began /\ due \in {began + HttpTimeout, TotalRunTimeout}
        /\ dials[cur] # 0 => sock[cur] # "open"

\* What the loop has left open.
LeftOpen ==
    \A s \in Strategy :
        DealtWith(s) /\ sock[s] = "open" =>
            /\ scheme = "https" /\ PeerVerified(s)
            /\ dials[s] = 0 /\ http[s] = "http_timeout"
            /\ now = TotalRunTimeout

SocketsKept == HeldInOrder /\ ExchangeInOrder /\ LeftOpen

\* A step outside the exchange that gives the loop nothing more to have dealt
\* with, and opens nothing, keeps the sockets.
LEMMA IdleStepKeepsSockets ==
    ASSUME SocketsKept, TypeOK,
           UNCHANGED <<scheme, now, tcp, tls, httpVars>>,
           pc' # "http", pc # "http",
           \A s \in Strategy : sock'[s] = sock[s] \/ sock'[s] = "closed",
           \A s \in Strategy : DealtWith(s)' /\ sock'[s] = "open" => DealtWith(s)
    PROVE  SocketsKept'
BY DEF SocketsKept, HeldInOrder, ExchangeInOrder, LeftOpen, PeerVerified, httpVars

\* Every step of the run keeps the sockets.
LEMMA SocketsKeptInductive ==
    TypeOK /\ Ladder /\ DeadlinesKept /\ SocketsKept /\ [Next]_vars => SocketsKept'
<1> SUFFICES ASSUME TypeOK, Ladder, DeadlinesKept, SocketsKept, [Next]_vars
             PROVE  SocketsKept'
  OBVIOUS
<1>a. /\ now \in Nat /\ due \in Nat /\ began \in Nat /\ cur \in Strategy
      /\ HttpTimeout \in Nat \ {0} /\ TotalRunTimeout \in Nat \ {0}
      /\ due <= TotalRunTimeout /\ now <= TotalRunTimeout
      /\ scheme \in {"http", "https"}
  BY TimeoutAssumption, ValueAssumption DEF TypeOK, DeadlinesKept
<1>1. CASE ParseError \/ ParseTarget
  <2>1. /\ pc = "parse" /\ pc' \in {"rejected", "resolve"}
        /\ UNCHANGED <<scheme, now, dial, tcp, pending, cur, sock, tls, httpVars>>
    BY <1>1 DEF ParseError, ParseTarget, Block, clockVars, dialVars, tlsVars
  <2> QED
    BY <2>1, IdleStepKeepsSockets DEF DealtWith, Working
<1>2. CASE Resolve
  <2>1. ASSUME NEW reason, ResolveFailed(reason) PROVE SocketsKept'
    <3>1. /\ pc = "resolve" /\ pc' = "assemble"
          /\ UNCHANGED <<scheme, now, dial, tcp, pending, cur, sock, tls, httpVars>>
      BY <2>1 DEF ResolveFailed, clockVars, dialVars, tlsVars
    <3> QED
      BY <3>1, IdleStepKeepsSockets DEF DealtWith, Working
  <2>2. ASSUME NEW raw, ResolveCompleted(raw) PROVE SocketsKept'
    <3> DEFINE started == IF Unmapped(raw) = {} THEN {} ELSE StrategiesFor(Unmapped(raw))
    <3>1. /\ pc = "resolve" /\ pc' \in {"assemble", "collect"}
          /\ dial' = [s \in Strategy |-> IF s \in started THEN "dialing" ELSE "off"]
          /\ UNCHANGED <<scheme, now, tcp, sock, tls, httpVars>>
      BY <2>2 DEF ResolveCompleted, Block, clockVars, tlsVars
    <3>2. \A s \in Strategy : dial'[s] # "received"
      <4> HIDE DEF started
      <4> QED
        BY <3>1
    <3> QED
      BY <3>1, <3>2, IdleStepKeepsSockets DEF DealtWith
  <2> QED
    BY <1>2, <2>1, <2>2 DEF Resolve, ResolveError, ResolveDeadline
<1>3. ASSUME NEW s \in Strategy, Dial(s) PROVE SocketsKept'
  <2>1. PICK outcome, a, holder :
          /\ Send(s, outcome, a, holder) /\ dial[s] = "dialing"
          /\ holder \in {"none", "open", "closed"}
          /\ outcome # "accepted" => holder # "open"
    BY <1>3, SMT DEF Dial, DialAccepted, DialEndpointUnknown, DialError, DialDeadline
  <2>2. ~Dialled
    BY <2>1 DEF Ladder, CollectionOrder
  <2>3. /\ dial'[s] = "sent" /\ sock'[s] # "lent"
        /\ tcp'[s].outcome # "accepted" => sock'[s] # "open"
        /\ \A t \in Strategy \ {s} :
             dial'[t] = dial[t] /\ tcp'[t] = tcp[t] /\ sock'[t] = sock[t]
        /\ UNCHANGED <<scheme, pc, now, pending, cur, tls, dials, http>>
    BY <2>1 DEF Send, TypeOK, clockVars, tlsVars, httpVars
  <2>4. HeldInOrder'
    BY <2>3 DEF SocketsKept, HeldInOrder
  <2>5. ExchangeInOrder'
    BY <2>2, <2>3 DEF ExchangeInOrder, Dialled, Working
  <2>6. LeftOpen'
    BY <2>3 DEF SocketsKept, LeftOpen, DealtWith, Working, PeerVerified
  <2> QED
    BY <2>4, <2>5, <2>6 DEF SocketsKept
<1>4. ASSUME NEW s \in Strategy, Receive(s) PROVE SocketsKept'
  <2>1. /\ pc = "collect" /\ pc' \in {"loop", "collect"}
        /\ dial'[s] = "received" /\ pending' = pending \cup {s}
        /\ \A t \in Strategy \ {s} : dial'[t] = dial[t]
        /\ UNCHANGED <<scheme, now, tcp, cur, sock, tls, httpVars>>
    BY <1>4 DEF Receive, TypeOK, clockVars, tlsVars
  <2> QED
    BY <2>1, IdleStepKeepsSockets DEF DealtWith, Working
<1>5. ASSUME NEW s \in Strategy, SkipFact(s) PROVE SocketsKept'
  <2>1. /\ pc = "loop" /\ pc' = pc /\ tcp[s].outcome # "accepted"
        /\ pending' = pending \ {s}
        /\ UNCHANGED <<scheme, now, dial, tcp, cur, sock, tls, httpVars>>
    BY <1>5 DEF SkipFact, NextFact, clockVars, dialVars, tlsVars
  <2> QED
    BY <2>1, IdleStepKeepsSockets DEF DealtWith, Working
<1>6. ASSUME NEW s \in Strategy, VisitTLS(s) PROVE SocketsKept'
  <2>1. /\ pc = "loop" /\ pc' = "handshake" /\ pending' = pending \ {s} /\ cur' = s
        /\ UNCHANGED <<scheme, now, dial, tcp, sock, tls, httpVars>>
    BY <1>6 DEF VisitTLS, NextFact, Block, dialVars
  <2> QED
    BY <2>1, IdleStepKeepsSockets DEF DealtWith, Working
<1>7. ASSUME NEW s \in Strategy, VisitHTTP(s) PROVE SocketsKept'
  <2>1. /\ pc = "loop" /\ pc' = "http" /\ s \in pending
        /\ pending' = pending \ {s} /\ cur' = s
        /\ began' = now /\ due' = Deadline(HttpTimeout)
        /\ UNCHANGED <<scheme, now, dial, tcp, sock, tls, dials, http>>
    BY <1>7 DEF VisitHTTP, NextFact, Block, dialVars, tlsVars, httpVars
  <2>2. dials[s] = 0
    BY <2>1 DEF Ladder, Untouched, Fresh
  <2>3. HeldInOrder'
    BY <2>1 DEF SocketsKept, HeldInOrder
  <2>4. ExchangeInOrder'
    BY <2>1, <2>2 DEF ExchangeInOrder, Deadline
  <2>5. LeftOpen'
    BY <2>1 DEF SocketsKept, LeftOpen, DealtWith, Working, PeerVerified
  <2> QED
    BY <2>3, <2>4, <2>5 DEF SocketsKept
<1>8. CASE LoopDone \/ Assemble
  <2>1. /\ pc \in {"loop", "assemble"} /\ pc' \in {"assemble", "done"}
        /\ UNCHANGED <<scheme, now, dial, tcp, pending, cur, sock, tls, httpVars>>
    BY <1>8 DEF LoopDone, Assemble, clockVars, dialVars, tlsVars
  <2> QED
    BY <2>1, IdleStepKeepsSockets DEF DealtWith, Working
<1>9. CASE Handshake
  <2>1. /\ pc = "handshake" /\ pc' = "signal"
        /\ \A t \in Strategy \ {cur} : tls'[t] = tls[t]
        /\ UNCHANGED <<scheme, now, dial, tcp, pending, cur, sock, dials, http>>
    BY <1>9, HandshakeReturns DEF HandshakeReturn, TypeOK, clockVars, dialVars, httpVars
  <2>2. HeldInOrder' /\ ExchangeInOrder'
    BY <2>1 DEF SocketsKept, HeldInOrder, ExchangeInOrder
  <2>3. LeftOpen'
    BY <2>1 DEF SocketsKept, LeftOpen, DealtWith, Working, PeerVerified
  <2> QED
    BY <2>2, <2>3 DEF SocketsKept
<1>10. CASE CloseHandshakeDone \/ CancelTLS
  <2>1. /\ pc \in {"signal", "cancel"} /\ pc' \in {"cancel", "verify"}
        /\ UNCHANGED <<scheme, now, dial, tcp, pending, cur, sock, tls, httpVars>>
    BY <1>10 DEF CloseHandshakeDone, CancelTLS, clockVars, dialVars
  <2> QED
    BY <2>1, IdleStepKeepsSockets DEF DealtWith, Working
<1>11. CASE VerifyPassed
  <2>1. /\ pc = "verify" /\ pc' = "http" /\ began' = now /\ due' = Deadline(HttpTimeout)
        /\ UNCHANGED <<scheme, now, dial, tcp, pending, cur, sock, tls, dials, http>>
    BY <1>11 DEF VerifyPassed, Block, dialVars, tlsVars, httpVars
  <2>2. dials[cur] = 0
    BY <2>1 DEF Ladder, WorkInOrder
  <2>3. HeldInOrder'
    BY <2>1 DEF SocketsKept, HeldInOrder
  <2>4. ExchangeInOrder'
    BY <2>1, <2>2 DEF ExchangeInOrder, Deadline
  <2>5. LeftOpen'
    BY <2>1 DEF SocketsKept, LeftOpen, DealtWith, Working, PeerVerified
  <2> QED
    BY <2>3, <2>4, <2>5 DEF SocketsKept
<1>12. CASE VerifyRefused
  <2>1. /\ pc = "verify" /\ pc' = "loop" /\ sock'[cur] = "closed"
        /\ \A t \in Strategy \ {cur} : sock'[t] = sock[t]
        /\ UNCHANGED <<scheme, now, dial, tcp, pending, cur, tls, httpVars>>
    BY <1>12 DEF VerifyRefused, TypeOK, clockVars, dialVars, tlsVars
  <2> QED
    BY <2>1, IdleStepKeepsSockets DEF DealtWith, Working
<1>13. ASSUME NEW s \in Strategy, TlsTimerFires(s) \/ Watcher(s) PROVE SocketsKept'
  <2>1. /\ \A t \in Strategy : sock'[t] = sock[t] \/ sock'[t] = "closed"
        /\ UNCHANGED <<scheme, pc, now, due, began, dial, tcp, pending, cur, tls, dials, http>>
    BY <1>13 DEF TlsTimerFires, Watcher, WatcherPark, WatcherSelect, WatcherClose,
                 TypeOK, clockVars, dialVars, httpVars
  <2>2. HeldInOrder' /\ ExchangeInOrder'
    BY <1>a, <2>1 DEF SocketsKept, HeldInOrder, ExchangeInOrder
  <2>3. LeftOpen'
    BY <2>1 DEF SocketsKept, LeftOpen, DealtWith, Working, PeerVerified
  <2> QED
    BY <2>2, <2>3 DEF SocketsKept
<1>14. CASE TransportDial
  <2>1. /\ pc = "http" /\ dials'[cur] = 1 /\ sock'[cur] # "open"
        /\ \A t \in Strategy \ {cur} : sock'[t] = sock[t] /\ dials'[t] = dials[t]
        /\ UNCHANGED <<scheme, pc, now, dial, tcp, pending, cur, tls, http>>
    BY <1>14, <1>a DEF TransportDial, TypeOK, clockVars, dialVars, tlsVars
  <2>2. HeldInOrder'
    BY <2>1 DEF SocketsKept, HeldInOrder
  <2>3. ExchangeInOrder'
    BY <2>1 DEF ExchangeInOrder
  <2>4. LeftOpen'
    BY <2>1 DEF SocketsKept, LeftOpen, DealtWith, Working, PeerVerified
  <2> QED
    BY <2>2, <2>3, <2>4 DEF SocketsKept
<1>15. CASE Exchange /\ ~TransportDial
  <2>1. /\ pc = "http" /\ pc' = "loop" /\ sock'[cur] = AfterHTTP(sock[cur])
        /\ \A t \in Strategy \ {cur} :
             sock'[t] = sock[t] /\ dials'[t] = dials[t] /\ http'[t] = http[t]
        /\ UNCHANGED <<scheme, now, dial, tcp, pending, cur, tls>>
    BY <1>15, <1>a, ExchangeCases
    DEF HttpReturn, TransportRedial, TypeOK, clockVars, dialVars, tlsVars
  <2>2. \/ sock[cur] = "lent"
        \/ dials[cur] = 1
        \/ now >= due /\ http'[cur] = "http_timeout" /\ dials' = dials
    BY <1>15, <1>a DEF Exchange, HttpCompleted, HttpFailed, TransportRedial, HttpDeadline,
                       HttpReturn, TypeOK
  <2>3. sock'[cur] # "lent" /\ (sock'[cur] = "open" => scheme = "https" /\ sock[cur] = "open")
    BY <1>a, <2>1 DEF AfterHTTP
  <2>4. ASSUME sock'[cur] = "open"
        PROVE  /\ scheme = "https" /\ PeerVerified(cur) /\ dials'[cur] = 0
               /\ http'[cur] = "http_timeout" /\ now = TotalRunTimeout
    <3>1. scheme = "https" /\ sock[cur] = "open" /\ dials[cur] = 0
      BY <2>1, <2>3, <2>4, <1>a DEF SocketsKept, ExchangeInOrder
    <3>2. now >= due /\ http'[cur] = "http_timeout" /\ dials' = dials
      BY <2>2, <3>1
    <3>3. now = began /\ due \in {began + HttpTimeout, TotalRunTimeout}
      BY <2>1, <3>1 DEF SocketsKept, ExchangeInOrder
    <3>4. now = TotalRunTimeout
      BY <1>a, <3>2, <3>3
    <3> QED
      BY <2>1, <3>1, <3>2, <3>4 DEF Ladder, WorkInOrder
  <2>5. HeldInOrder'
    BY <1>a, <2>1, <2>3 DEF SocketsKept, HeldInOrder, Ladder, WorkInOrder, Working
  <2>6. ExchangeInOrder'
    BY <2>1 DEF ExchangeInOrder
  <2>7. LeftOpen'
    BY <2>1, <2>4 DEF SocketsKept, LeftOpen, DealtWith, Working, PeerVerified
  <2> QED
    BY <2>5, <2>6, <2>7 DEF SocketsKept
<1>16. CASE Tick
  <2>1. /\ now < due /\ now' = now + 1
        /\ UNCHANGED <<scheme, pc, due, began, dial, tcp, pending, cur, sock, tls, dials, http>>
        /\ \/ pc \in {"resolve", "handshake"}
           \/ pc = "http" /\ dials[cur] = 1
           \/ \E s \in Strategy : dial[s] = "dialing"
    BY <1>16 DEF Tick, Blocked, dialVars, tlsVars, httpVars
  <2>2. pc = "http" => dials[cur] = 1
    BY <2>1 DEF Ladder, CollectionOrder, Dialled, Working
  <2>3. HeldInOrder' /\ ExchangeInOrder'
    BY <2>1, <2>2 DEF SocketsKept, HeldInOrder, ExchangeInOrder
  <2>4. now # TotalRunTimeout
    BY <1>a, <2>1
  <2>5. LeftOpen'
    BY <2>1, <2>4 DEF SocketsKept, LeftOpen, DealtWith, Working
  <2> QED
    BY <2>3, <2>5 DEF SocketsKept
<1>17. CASE UNCHANGED vars
  BY <1>17 DEF vars, SocketsKept, HeldInOrder, ExchangeInOrder, LeftOpen, DealtWith,
               Working, PeerVerified
<1> QED
  BY <1>1, <1>2, <1>3, <1>4, <1>5, <1>6, <1>7, <1>8, <1>9, <1>10, <1>11, <1>12, <1>13,
     <1>14, <1>15, <1>16, <1>17 DEF Next, Loop, AfterHandshake, Terminated

\* The only connection a finished run can leave open is a verified one whose
\* exchange began with the total budget already spent.
THEOREM OnlyTheStarvedLeak == Spec => []LeakOnlyWhenBudgetSpent
<1>1. Init => SocketsKept
  BY DEF Init, SocketsKept, HeldInOrder, ExchangeInOrder, LeftOpen
<1>2. TypeOK /\ Ladder /\ SocketsKept => LeakOnlyWhenBudgetSpent
  <2> SUFFICES ASSUME TypeOK, Ladder, SocketsKept, pc = "done", NEW s \in Strategy,
                      sock[s] \in {"open", "lent"}
               PROVE  /\ scheme = "https" /\ PeerVerified(s)
                      /\ sock[s] = "open" /\ dials[s] = 0
                      /\ http[s] = "http_timeout"
                      /\ now = TotalRunTimeout
    BY DEF LeakOnlyWhenBudgetSpent
  <2>1. sock[s] = "open" /\ tcp[s].outcome = "accepted"
    BY DEF SocketsKept, HeldInOrder
  <2>2. DealtWith(s)
    BY <2>1 DEF NoFact, Dialled, Ladder, CollectionOrder, DealtWith, Working
  <2> QED
    BY <2>1, <2>2 DEF SocketsKept, LeftOpen
<1> QED
  BY <1>1, <1>2, SocketsKeptInductive, DeadlinesHold, LadderHolds, TypeCorrect, PTL
  DEF Spec
====
