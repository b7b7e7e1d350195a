---- MODULE DiagnosisProofs ----
(***************************************************************************)
(* Proofs about Diagnosis: which facts cost a run its report, and what the *)
(* executions, the primary blockers and the status of a report say of the  *)
(* facts, for every set of addresses, retention bound and concurrency.     *)
(***************************************************************************)
EXTENDS Diagnosis, FiniteSetTheorems, WellFoundedInduction, TLAPS

----
(***************************************************************************)
(* What is known of the facts diagnose starts from.                        *)
(***************************************************************************)
FactsOK ==
    /\ scheme \in Schemes
    /\ addresses \in SUBSET Addr
    /\ facts \in [Strategy -> [tcp : TcpFact, tls : TlsFact, http : HttpOutcome]]
    /\ \A s \in Strategy : facts[s] \in AttemptFacts(s, scheme, addresses)

\* What an attempt that did not connect leaves, and one that did.
Shape(s) ==
    /\ Exact(s) => EndpointOf(s) \in Addr
    /\ Exact(s) /\ s # "normal" => EndpointOf(s) \in Family(s)
    /\ ~Accepted(s) => facts[s].tls = NoTls /\ facts[s].http = "none"
    /\ Accepted(s) /\ scheme = "http" => facts[s].tls = NoTls /\ facts[s].http # "none"
    /\ Accepted(s) /\ scheme = "https" =>
         /\ facts[s].tls # NoTls
         /\ facts[s].http # "none" <=> facts[s].tls = [result |-> "COMPLETED", cert |-> "VERIFIED"]

\* Retained addresses are resolved ones, and a pinned dial keeps to its family.
LEMMA KeptAddresses ==
    ASSUME NEW s \in Strategy, NEW A \in SUBSET Addr
    PROVE  /\ Retained(A) \subseteq Addr
           /\ Pinned(s, A) \subseteq Family(s) /\ Pinned(s, A) \subseteq Addr
BY DEF Retained, RetainedOf, Pinned

\* What an attempt can leave has the types of its facts.
LEMMA AttemptsTyped ==
    ASSUME NEW s \in Strategy, NEW c \in Schemes, NEW A \in SUBSET Addr
    PROVE  AttemptFacts(s, c, A) \subseteq [tcp : TcpFact, tls : TlsFact, http : HttpOutcome]
<1>1. /\ Planned(s, A) \subseteq Addr \cup {NoAddr} /\ Reachable(s, A) \subseteq Addr
      /\ NoTls \in TlsFact /\ NoFact \in TcpFact /\ "none" \in HttpOutcome
  BY KeptAddresses DEF Planned, Reachable, NoTls, NoFact, TlsFact, TcpFact, HttpOutcome
<1>2. \A f \in TcpFact : Unconnected(f) \in [tcp : TcpFact, tls : TlsFact, http : HttpOutcome]
  BY <1>1 DEF Unconnected
<1>3. [outcome : {"refused", "timed_out", "failed", "endpoint_unknown"},
       endpoint : Planned(s, A)] \subseteq TcpFact
  BY <1>1 DEF TcpFact
<1>4. HandshakeFacts \subseteq TlsFact /\ [result |-> "COMPLETED", cert |-> "VERIFIED"] \in TlsFact
  BY ValueAssumption DEF HandshakeFacts, TlsFact
<1>5. ConnectedFacts(c, [outcome : {"accepted"}, endpoint : Reachable(s, A)])
        \subseteq [tcp : TcpFact, tls : TlsFact, http : HttpOutcome]
  <2>1. [outcome : {"accepted"}, endpoint : Reachable(s, A)] \subseteq TcpFact
    BY <1>1 DEF TcpFact
  <2> QED
    BY <1>1, <1>4, <2>1 DEF ConnectedFacts
<1> QED
  BY <1>1, <1>2, <1>3, <1>5 DEF AttemptFacts

\* Every attempt the facts can be about has that shape.
LEMMA FactsHaveShape == FactsOK => \A s \in Strategy : Shape(s)
<1> SUFFICES ASSUME FactsOK, NEW s \in Strategy PROVE Shape(s)
  OBVIOUS
<1>1. /\ facts[s] \in AttemptFacts(s, scheme, addresses) /\ scheme \in {"http", "https"}
      /\ addresses \in SUBSET Addr
  BY ValueAssumption DEF FactsOK
<1>2. CASE facts[s] = Unconnected(NoFact)
  BY <1>2 DEF Unconnected, NoFact, Shape, Exact, Accepted
<1>3. CASE facts[s] \in {Unconnected(f) :
                           f \in [outcome : {"refused", "timed_out", "failed", "endpoint_unknown"},
                                  endpoint : Planned(s, addresses)]}
  <2>1. PICK f \in [outcome : {"refused", "timed_out", "failed", "endpoint_unknown"},
                    endpoint : Planned(s, addresses)] : facts[s] = Unconnected(f)
    BY <1>3
  <2>2. /\ facts[s].tcp = f /\ facts[s].tls = NoTls /\ facts[s].http = "none"
        /\ f.outcome # "accepted" /\ f.endpoint \in Planned(s, addresses)
    BY <2>1 DEF Unconnected
  <2>3. s # "normal" => f.endpoint \in Family(s) /\ f.endpoint \in Addr
    BY <1>1, <2>2, KeptAddresses DEF Planned
  <2> QED
    BY <2>2, <2>3 DEF Shape, Exact, Accepted, EndpointOf
<1>4. CASE facts[s] \in ConnectedFacts(scheme, [outcome : {"accepted"},
                                                endpoint : Reachable(s, addresses)])
  <2>1. facts[s].tcp \in [outcome : {"accepted"}, endpoint : Reachable(s, addresses)]
    BY <1>4 DEF ConnectedFacts
  <2>2. /\ EndpointOf(s) \in Addr /\ Accepted(s)
        /\ s # "normal" => EndpointOf(s) \in Family(s)
    BY <1>1, <2>1, KeptAddresses DEF Reachable, EndpointOf, Accepted
  <2>3. scheme = "http" => facts[s].tls = NoTls /\ facts[s].http # "none"
    BY <1>4 DEF ConnectedFacts
  <2>4. scheme = "https" =>
          /\ facts[s].tls \in HandshakeFacts
          /\ facts[s].http # "none" <=> facts[s].tls = [result |-> "COMPLETED", cert |-> "VERIFIED"]
    BY <1>4, ValueAssumption DEF ConnectedFacts, HandshakeFacts
  <2>5. NoTls \notin HandshakeFacts
    BY DEF NoTls, HandshakeFacts
  <2> QED
    BY <2>2, <2>3, <2>4, <2>5 DEF Shape
<1> QED
  BY <1>1, <1>2, <1>3, <1>4 DEF AttemptFacts

\* The branches of a run are addresses; the zero address is none of them.
LEMMA BranchesAreAddresses ==
    ASSUME FactsOK
    PROVE  /\ Branches \subseteq Addr /\ NoAddr \notin Branches
           /\ \A s \in Strategy : Exact(s) => EndpointOf(s) \in Branches
           /\ \A e \in Addr : e \in Nat
<1>1. Branches \subseteq Addr
  <2>1. Retained(addresses) \subseteq Addr
    BY KeptAddresses DEF FactsOK, Strategy
  <2>2. \A s \in Strategy : Exact(s) => EndpointOf(s) \in Addr
    BY FactsHaveShape DEF Shape
  <2> QED
    BY <2>1, <2>2 DEF Branches
<1>2. NoAddr \notin Addr /\ Addr \subseteq Nat
  BY AddressAssumption DEF Addr
<1> QED
  BY <1>1, <1>2 DEF Branches

----
(***************************************************************************)
(* The path of a branch and where a reported observation stands on it.     *)
(***************************************************************************)
EdgeName == {"resolution", "tcp", "tls", "cert", "http"} \X (Strategy \cup {"all"})
Holds(path, o) == \E i \in DOMAIN path : path[i] = o

\* A joined path holds what its parts hold.
LEMMA Joined ==
    ASSUME NEW a \in Seq(EdgeName), NEW b \in Seq(EdgeName)
    PROVE  /\ a \o b \in Seq(EdgeName)
           /\ \A o : Holds(a \o b, o) <=> Holds(a, o) \/ Holds(b, o)
<1>1. /\ a \o b \in Seq(EdgeName) /\ Len(a) \in Nat /\ Len(b) \in Nat
      /\ DOMAIN a = 1..Len(a) /\ DOMAIN b = 1..Len(b) /\ DOMAIN (a \o b) = 1..(Len(a) + Len(b))
      /\ \A i \in 1..(Len(a) + Len(b)) :
           (a \o b)[i] = IF i <= Len(a) THEN a[i] ELSE b[i - Len(a)]
  OBVIOUS
<1>2. ASSUME NEW o, Holds(a, o) PROVE Holds(a \o b, o)
  BY <1>1, <1>2 DEF Holds
<1>3. ASSUME NEW o, Holds(b, o) PROVE Holds(a \o b, o)
  <2>1. PICK i \in 1..Len(b) : b[i] = o
    BY <1>1, <1>3 DEF Holds
  <2>2. /\ i + Len(a) \in 1..(Len(a) + Len(b)) /\ ~(i + Len(a) <= Len(a))
        /\ i + Len(a) - Len(a) = i
    BY <1>1
  <2>3. (a \o b)[i + Len(a)] = o
    BY <1>1, <2>1, <2>2
  <2> QED
    BY <1>1, <2>2, <2>3 DEF Holds
<1>4. ASSUME NEW o, Holds(a \o b, o) PROVE Holds(a, o) \/ Holds(b, o)
  <2>1. PICK i \in 1..(Len(a) + Len(b)) : (a \o b)[i] = o
    BY <1>1, <1>4 DEF Holds
  <2>2. i > Len(a) => i - Len(a) \in 1..Len(b)
    BY <1>1
  <2> QED
    BY <1>1, <2>1, <2>2 DEF Holds
<1> QED
  BY <1>1, <1>2, <1>3, <1>4

\* Edges has one edge for each of the attempts.
LEMMA EdgesHold ==
    ASSUME NEW kind \in {"resolution", "tcp", "tls", "cert", "http"}, NEW A \in SUBSET Strategy
    PROVE  /\ Edges(kind, A) \in Seq(EdgeName)
           /\ \A o : Holds(Edges(kind, A), o) <=> \E s \in A : o = <<kind, s>>
<1>1. ASSUME NEW s \in Strategy
      PROVE  /\ Edge(kind, s, A) \in Seq(EdgeName)
             /\ \A o : Holds(Edge(kind, s, A), o) <=> s \in A /\ o = <<kind, s>>
  <2>1. CASE s \in A
    <3>1. Edge(kind, s, A) = <<<<kind, s>>>> /\ <<kind, s>> \in EdgeName
      BY <2>1 DEF Edge, EdgeName
    <3> QED
      BY <2>1, <3>1 DEF Holds
  <2>2. CASE s \notin A
    <3>1. Edge(kind, s, A) = <<>>
      BY <2>2 DEF Edge
    <3> QED
      BY <2>2, <3>1 DEF Holds
  <2> QED
    BY <2>1, <2>2
<1> DEFINE normal == Edge(kind, "normal", A)
           pinned4 == Edge(kind, "pinned4", A)
           pinned6 == Edge(kind, "pinned6", A)
<1>2. /\ normal \in Seq(EdgeName) /\ pinned4 \in Seq(EdgeName) /\ pinned6 \in Seq(EdgeName)
      /\ \A o : Holds(normal, o) \/ Holds(pinned4, o) \/ Holds(pinned6, o)
                  <=> \E s \in A : o = <<kind, s>>
  BY <1>1 DEF Strategy
<1>3. Edges(kind, A) = (normal \o pinned4) \o pinned6
  BY DEF Edges
<1> HIDE DEF normal, pinned4, pinned6
<1>4. /\ normal \o pinned4 \in Seq(EdgeName)
      /\ \A o : Holds(normal \o pinned4, o) <=> Holds(normal, o) \/ Holds(pinned4, o)
  BY <1>2, Joined
<1>5. /\ (normal \o pinned4) \o pinned6 \in Seq(EdgeName)
      /\ \A o : Holds((normal \o pinned4) \o pinned6, o)
                  <=> Holds(normal \o pinned4, o) \/ Holds(pinned6, o)
  BY <1>2, <1>4, Joined
<1> QED
  BY <1>2, <1>3, <1>4, <1>5

\* A path holds a connect edge of the last attempt at its endpoint, and a certificate
\* edge of each attempt there that saw one.
LEMMA PathHolds ==
    ASSUME NEW e
    PROVE  /\ Path(e) \in Seq(EdgeName)
           /\ \A s \in Strategy :
                /\ Holds(Path(e), <<"tcp", s>>) <=> s \in LastTried(e)
                /\ Holds(Path(e), <<"cert", s>>) <=> s \in Tried(e) /\ HasPeer(s)
<1> DEFINE peers == {s \in Tried(e) : HasPeer(s)}
           answers == {s \in Tried(e) : HasAnswer(s)}
           resolved == IF e \in Retained(addresses) THEN <<<<"resolution", "all">>>> ELSE <<>>
           tcp == Edges("tcp", LastTried(e))
           tls == Edges("tls", peers)
           cert == Edges("cert", peers)
           http == Edges("http", answers)
<1>1. peers \subseteq Strategy /\ answers \subseteq Strategy /\ LastTried(e) \subseteq Strategy
  BY DEF Tried, LastTried
<1>2. /\ resolved \in Seq(EdgeName)
      /\ \A o : Holds(resolved, o) => o = <<"resolution", "all">>
  <2>1. CASE e \in Retained(addresses)
    <3>1. resolved = <<<<"resolution", "all">>>> /\ <<"resolution", "all">> \in EdgeName
      BY <2>1 DEF EdgeName
    <3> QED
      BY <3>1 DEF Holds
  <2>2. CASE e \notin Retained(addresses)
    BY <2>2 DEF Holds
  <2> QED
    BY <2>1, <2>2
<1>3. /\ tcp \in Seq(EdgeName)
      /\ \A o : Holds(tcp, o) <=> \E s \in LastTried(e) : o = <<"tcp", s>>
  BY <1>1, EdgesHold
<1>4. /\ tls \in Seq(EdgeName)
      /\ \A o : Holds(tls, o) <=> \E s \in peers : o = <<"tls", s>>
  BY <1>1, EdgesHold
<1>5. /\ cert \in Seq(EdgeName)
      /\ \A o : Holds(cert, o) <=> \E s \in peers : o = <<"cert", s>>
  BY <1>1, EdgesHold
<1>6. /\ http \in Seq(EdgeName)
      /\ \A o : Holds(http, o) <=> \E s \in answers : o = <<"http", s>>
  BY <1>1, EdgesHold
<1>7. Path(e) = (((resolved \o tcp) \o tls) \o cert) \o http
  BY DEF Path
<1>8. \A s \in Strategy : s \in peers <=> s \in Tried(e) /\ HasPeer(s)
  OBVIOUS
<1> HIDE DEF peers, answers, resolved, tcp, tls, cert, http
<1>9. /\ resolved \o tcp \in Seq(EdgeName)
      /\ \A o : Holds(resolved \o tcp, o) <=> Holds(resolved, o) \/ Holds(tcp, o)
  BY <1>2, <1>3, Joined
<1>10. /\ (resolved \o tcp) \o tls \in Seq(EdgeName)
       /\ \A o : Holds((resolved \o tcp) \o tls, o) <=> Holds(resolved \o tcp, o) \/ Holds(tls, o)
  BY <1>4, <1>9, Joined
<1>11. /\ ((resolved \o tcp) \o tls) \o cert \in Seq(EdgeName)
       /\ \A o : Holds(((resolved \o tcp) \o tls) \o cert, o)
                   <=> Holds((resolved \o tcp) \o tls, o) \/ Holds(cert, o)
  BY <1>5, <1>10, Joined
<1>12. /\ Path(e) \in Seq(EdgeName)
       /\ \A o : Holds(Path(e), o)
                   <=> Holds(((resolved \o tcp) \o tls) \o cert, o) \/ Holds(http, o)
  <2> DEFINE front == ((resolved \o tcp) \o tls) \o cert
  <2>1. front \in Seq(EdgeName) /\ Path(e) = front \o http
    BY <1>7, <1>11
  <2> HIDE DEF front
  <2>2. /\ front \o http \in Seq(EdgeName)
        /\ \A o : Holds(front \o http, o) <=> Holds(front, o) \/ Holds(http, o)
    BY <1>6, <2>1, Joined
  <2>3. /\ Path(e) \in Seq(EdgeName)
        /\ \A o : Holds(Path(e), o) <=> Holds(front, o) \/ Holds(http, o)
    BY <2>1, <2>2
  <2> QED
    BY <2>3 DEF front
<1>13. \A o : Holds(Path(e), o) <=>
         Holds(resolved, o) \/ Holds(tcp, o) \/ Holds(tls, o) \/ Holds(cert, o) \/ Holds(http, o)
  BY <1>9, <1>10, <1>11, <1>12
<1>14. ASSUME NEW s \in Strategy PROVE Holds(Path(e), <<"tcp", s>>) <=> s \in LastTried(e)
  BY <1>2, <1>3, <1>4, <1>5, <1>6, <1>13
<1>15. ASSUME NEW s \in Strategy
       PROVE  Holds(Path(e), <<"cert", s>>) <=> s \in Tried(e) /\ HasPeer(s)
  BY <1>2, <1>3, <1>4, <1>5, <1>6, <1>8, <1>13
<1> QED
  BY <1>12, <1>14, <1>15

\* A reported observation was made by an attempt that reached its endpoint, and stands
\* on the path of that endpoint alone.
LEMMA ReportedStands ==
    ASSUME FactsOK, NEW o \in Reported
    PROVE  /\ o[1] \in {"tcp", "cert"} /\ o[2] \in Strategy /\ o = <<o[1], o[2]>>
           /\ Exact(o[2]) /\ EndpointOf(o[2]) \in Branches
           /\ o[1] = "tcp" => Refusal(o[2])
           /\ o[1] = "cert" => Mismatch(o[2]) /\ Accepted(o[2])
           /\ \A e : Holds(Path(e), o) <=> e = EndpointOf(o[2])
<1>1. PICK s \in Strategy : \/ o = <<"tcp", s>> /\ Refusal(s)
                            \/ o = <<"cert", s>> /\ Mismatch(s)
  BY DEF Reported
<1>2. \A t \in Strategy : Shape(t)
  BY FactsHaveShape
<1>3. CASE o = <<"tcp", s>> /\ Refusal(s)
  <2>1. Exact(s) /\ ~Accepted(s) /\ s # "normal"
    BY <1>3 DEF Refusal, Exact, Accepted
  <2>2. ASSUME NEW t \in Strategy, Exact(t), EndpointOf(t) = EndpointOf(s) PROVE t = s
    <3>1. ~Accepted(t) /\ t # "normal"
      BY <1>3, <2>2 DEF Refusal, Exact, Accepted
    <3>2. EndpointOf(t) \in Family(s) /\ EndpointOf(t) \in Family(t)
      BY <1>2, <2>1, <2>2, <3>1 DEF Shape
    <3>3. V4 \cap V6 = {}
      BY AddressAssumption
    <3> QED
      BY <2>1, <3>1, <3>2, <3>3 DEF Family, Strategy
  <2>3. \A e : s \in LastTried(e) <=> e = EndpointOf(s)
    <3>1. \A e : s \in Tried(e) <=> e = EndpointOf(s)
      BY <2>1 DEF Tried
    <3>2. \A t \in Tried(EndpointOf(s)) : t = s
      BY <2>2 DEF Tried
    <3>3. Mode(s) <= Mode(s)
      BY DEF Mode
    <3> QED
      BY <3>1, <3>2, <3>3 DEF LastTried
  <2> QED
    BY <1>3, <2>1, <2>3, PathHolds, BranchesAreAddresses
<1>4. CASE o = <<"cert", s>> /\ Mismatch(s)
  <2>1. Accepted(s) /\ HasPeer(s)
    BY <1>2, <1>4 DEF Mismatch, Shape, NoTls, HasPeer
  <2>2. Exact(s) /\ \A e : s \in Tried(e) <=> e = EndpointOf(s)
    BY <2>1 DEF Exact, Tried
  <2> QED
    BY <1>4, <2>1, <2>2, PathHolds, BranchesAreAddresses
<1> QED
  BY <1>1, <1>3, <1>4

\* The finding of a reported observation: on one branch, at an edge of its path.
LEMMA FindingStands ==
    ASSUME FactsOK, NEW o \in Reported
    PROVE  LET e == EndpointOf(o[2])
               at == FindingFor(o).at
           IN  /\ FindingFor(o).level = "OBSERVED" /\ DOMAIN at = {e}
               /\ at[e] \in Nat /\ at[e] < Len(Path(e)) /\ Path(e)[at[e] + 1] = o
<1> DEFINE e == EndpointOf(o[2])
           at == FindingFor(o).at
<1>1. /\ e \in Branches /\ \A b : Holds(Path(b), o) <=> b = e
  BY ReportedStands
<1>2. /\ at = [b \in {c \in Branches : \E i \in DOMAIN Path(c) : Path(c)[i] = o} |->
                 (CHOOSE i \in DOMAIN Path(b) : Path(b)[i] = o) - 1]
      /\ FindingFor(o).level = "OBSERVED"
  BY DEF FindingFor
<1>3. {c \in Branches : \E i \in DOMAIN Path(c) : Path(c)[i] = o} = {e}
  BY <1>1 DEF Holds
<1>4. DOMAIN at = {e} /\ at[e] = (CHOOSE i \in DOMAIN Path(e) : Path(e)[i] = o) - 1
  BY <1>2, <1>3
<1>5. PICK i \in DOMAIN Path(e) : /\ at[e] = i - 1 /\ Path(e)[i] = o
  BY <1>1, <1>4 DEF Holds
<1>6. Len(Path(e)) \in Nat /\ DOMAIN Path(e) = 1..Len(Path(e))
  BY PathHolds
<1>7. at[e] \in Nat /\ at[e] < Len(Path(e)) /\ at[e] + 1 = i
  BY <1>5, <1>6
<1> QED
  BY <1>2, <1>4, <1>5, <1>7

----
(***************************************************************************)
(* The numbers of the findings.                                            *)
(***************************************************************************)
\* Attempts that reached an endpoint are told apart by the endpoint and the mode.
LEMMA AttemptsOrdered ==
    ASSUME FactsOK
    PROVE  \A s, t \in {u \in Strategy : Exact(u)} :
             /\ s # t => Earlier(s, t) \/ Earlier(t, s)
             /\ ~Earlier(s, s)
             /\ \A u \in {v \in Strategy : Exact(v)} : Earlier(s, t) /\ Earlier(t, u) => Earlier(s, u)
<1> SUFFICES ASSUME NEW s \in Strategy, NEW t \in Strategy, Exact(s), Exact(t)
             PROVE  /\ s # t => Earlier(s, t) \/ Earlier(t, s)
                    /\ ~Earlier(s, s)
                    /\ \A u \in {v \in Strategy : Exact(v)} :
                         Earlier(s, t) /\ Earlier(t, u) => Earlier(s, u)
  OBVIOUS
<1>1. \A u \in {v \in Strategy : Exact(v)} : EndpointOf(u) \in Nat /\ Mode(u) \in {0, 1}
  BY FactsHaveShape, BranchesAreAddresses DEF Shape, Mode
<1>2. s # t /\ Mode(s) = Mode(t) => EndpointOf(s) # EndpointOf(t)
  <2> SUFFICES ASSUME s # t, Mode(s) = Mode(t) PROVE EndpointOf(s) # EndpointOf(t)
    OBVIOUS
  <2>1. s # "normal" /\ t # "normal"
    BY DEF Mode, Strategy
  <2>2. EndpointOf(s) \in Family(s) /\ EndpointOf(t) \in Family(t)
    BY <2>1, FactsHaveShape DEF Shape
  <2>3. V4 \cap V6 = {}
    BY AddressAssumption
  <2> QED
    BY <2>1, <2>2, <2>3 DEF Family, Strategy
<1>3. s # t => Earlier(s, t) \/ Earlier(t, s)
  BY <1>1, <1>2 DEF Earlier
<1>4. ~Earlier(s, s)
  BY <1>1 DEF Earlier
<1>5. ASSUME NEW u \in Strategy, Exact(u), Earlier(s, t), Earlier(t, u) PROVE Earlier(s, u)
  BY <1>1, <1>5 DEF Earlier
<1> QED
  BY <1>3, <1>4, <1>5

Ahead(s) == {t \in Strategy : Exact(t) /\ Earlier(t, s)}

\* There are three attempts.
LEMMA ThreeStrategies == IsFiniteSet(Strategy) /\ Cardinality(Strategy) = 3
<1>1. Strategy = {"normal"} \cup {"pinned4"} \cup {"pinned6"}
  BY DEF Strategy
<1>2. IsFiniteSet({"normal"}) /\ Cardinality({"normal"}) = 1
  BY FS_Singleton
<1>3. /\ IsFiniteSet({"normal"} \cup {"pinned4"}) /\ Cardinality({"normal"} \cup {"pinned4"}) = 2
  BY <1>2, FS_AddElement
<1>4. "pinned6" \notin {"normal"} \cup {"pinned4"}
  OBVIOUS
<1> QED
  BY <1>1, <1>3, <1>4, FS_AddElement

\* Of two attempts the earlier one has fewer ahead of it, and at most two are ahead.
LEMMA AheadCounts ==
    ASSUME FactsOK, NEW s \in Strategy, Exact(s)
    PROVE  /\ Cardinality(Ahead(s)) \in 0..2
           /\ \A t \in Strategy : Exact(t) /\ Earlier(s, t) =>
                Cardinality(Ahead(s)) < Cardinality(Ahead(t))
<1>1. ASSUME NEW t \in Strategy, Exact(t)
      PROVE  /\ IsFiniteSet(Ahead(t)) /\ Cardinality(Ahead(t)) \in Nat /\ t \notin Ahead(t)
             /\ Ahead(t) \subseteq Strategy
  <2>1. Ahead(t) \subseteq Strategy
    BY DEF Ahead
  <2>2. t \notin Ahead(t)
    BY <1>1, AttemptsOrdered DEF Ahead
  <2> QED
    BY <2>1, <2>2, ThreeStrategies, FS_Subset, FS_CardinalityType
<1>2. Cardinality(Ahead(s)) \in 0..2
  <2>1. /\ Cardinality(Ahead(s)) <= Cardinality(Strategy)
        /\ Cardinality(Strategy) = Cardinality(Ahead(s)) => Strategy = Ahead(s)
    BY <1>1, ThreeStrategies, FS_Subset
  <2> QED
    BY <1>1, <2>1, ThreeStrategies
<1>3. ASSUME NEW t \in Strategy, Exact(t), Earlier(s, t)
      PROVE  Cardinality(Ahead(s)) < Cardinality(Ahead(t))
  <2>1. Ahead(s) \subseteq Ahead(t) /\ s \in Ahead(t) /\ s \notin Ahead(s)
    BY <1>1, <1>3, AttemptsOrdered DEF Ahead
  <2>2. /\ Cardinality(Ahead(s)) <= Cardinality(Ahead(t))
        /\ Cardinality(Ahead(t)) = Cardinality(Ahead(s)) => Ahead(t) = Ahead(s)
    BY <1>1, <1>3, <2>1, FS_Subset
  <2> QED
    BY <1>1, <1>3, <2>1, <2>2
<1> QED
  BY <1>2, <1>3

\* lessFinding order: no two reported observations have one number.
LEMMA NumbersDiffer ==
    ASSUME FactsOK
    PROVE  /\ \A o \in Reported : Number(o) \in 0..5
           /\ \A o, p \in Reported : Number(o) = Number(p) => o = p
<1>1. ASSUME NEW o \in Reported
      PROVE  /\ Number(o) = (IF o[1] = "tcp" THEN 0 ELSE 3) + Cardinality(Ahead(o[2]))
             /\ Cardinality(Ahead(o[2])) \in 0..2 /\ Exact(o[2]) /\ o[2] \in Strategy
             /\ o = <<o[1], o[2]>> /\ o[1] \in {"tcp", "cert"}
  BY ReportedStands, AheadCounts, ThreeStrategies DEF Number, Ahead
<1>2. ASSUME NEW o \in Reported, NEW p \in Reported, Number(o) = Number(p) PROVE o = p
  <2>1. /\ o[1] = p[1] /\ Cardinality(Ahead(o[2])) = Cardinality(Ahead(p[2]))
    BY <1>1, <1>2
  <2>2. ~Earlier(o[2], p[2]) /\ ~Earlier(p[2], o[2])
    BY <1>1, <2>1, AheadCounts
  <2>3. o[2] = p[2]
    BY <1>1, <2>2, AttemptsOrdered
  <2> QED
    BY <1>1, <2>1, <2>3
<1> QED
  BY <1>1, <1>2

----
(***************************************************************************)
(* The findings and the selection made of them.                            *)
(***************************************************************************)
FindingsMade ==
    [n \in {Number(o) : o \in Reported} |->
       FindingFor(CHOOSE o \in Reported : Number(o) = n)]

\* Each finding is that of one observation, under its number.
LEMMA FindingOfNumber ==
    ASSUME FactsOK
    PROVE  /\ DOMAIN FindingsMade = {Number(o) : o \in Reported}
           /\ \A o \in Reported : FindingsMade[Number(o)] = FindingFor(o)
<1>1. DOMAIN FindingsMade = {Number(o) : o \in Reported}
  BY DEF FindingsMade
<1>2. ASSUME NEW o \in Reported PROVE FindingsMade[Number(o)] = FindingFor(o)
  <2>1. (CHOOSE p \in Reported : Number(p) = Number(o)) = o
    BY NumbersDiffer
  <2>2. Number(o) \in {Number(p) : p \in Reported}
    OBVIOUS
  <2> QED
    BY <2>1, <2>2 DEF FindingsMade
<1> QED
  BY <1>1, <1>2

\* Every finding stands on one branch, at an edge no other finding of it has.
Placed ==
    /\ \A n \in DOMAIN findings :
         /\ n \in 0..5 /\ findings[n].level = "OBSERVED"
         /\ \E e \in Branches :
              /\ DOMAIN findings[n].at = {e}
              /\ findings[n].at[e] \in Nat /\ findings[n].at[e] < Len(Path(e))
    /\ \A n, m \in DOMAIN findings : \A e \in DOMAIN findings[n].at \cap DOMAIN findings[m].at :
         findings[n].at[e] = findings[m].at[e] => n = m

\* What the rules find of the facts is placed so.
LEMMA FindingsArePlaced == FactsOK /\ findings = FindingsMade => Placed
<1> SUFFICES ASSUME FactsOK, findings = FindingsMade PROVE Placed
  OBVIOUS
<1>1. ASSUME NEW n \in DOMAIN findings
      PROVE  \E o \in Reported : n = Number(o) /\ findings[n] = FindingFor(o)
  BY <1>1, FindingOfNumber
<1>2. ASSUME NEW n \in DOMAIN findings
      PROVE  /\ n \in 0..5 /\ findings[n].level = "OBSERVED"
             /\ \E e \in Branches :
                  /\ DOMAIN findings[n].at = {e}
                  /\ findings[n].at[e] \in Nat /\ findings[n].at[e] < Len(Path(e))
  <2>1. PICK o \in Reported : n = Number(o) /\ findings[n] = FindingFor(o)
    BY <1>1, <1>2
  <2> QED
    BY <2>1, NumbersDiffer, ReportedStands, FindingStands
<1>3. ASSUME NEW n \in DOMAIN findings, NEW m \in DOMAIN findings,
             NEW e \in DOMAIN findings[n].at \cap DOMAIN findings[m].at,
             findings[n].at[e] = findings[m].at[e]
      PROVE  n = m
  <2>1. PICK o \in Reported : n = Number(o) /\ findings[n] = FindingFor(o)
    BY <1>1, <1>3
  <2>2. PICK p \in Reported : m = Number(p) /\ findings[m] = FindingFor(p)
    BY <1>1, <1>3
  <2>3. Path(e)[findings[n].at[e] + 1] = o
    BY <1>3, <2>1, FindingStands
  <2>4. Path(e)[findings[m].at[e] + 1] = p
    BY <1>3, <2>2, FindingStands
  <2> QED
    BY <1>3, <2>1, <2>2, <2>3, <2>4
<1> QED
  BY <1>2, <1>3 DEF Placed

\* A non-empty set of numbers has a smallest one.
LEMMA SmallestOf ==
    ASSUME NEW S \in SUBSET Nat, S # {}
    PROVE  \E m \in S : \A n \in S : m <= n
<1>1. PICK m \in S : \A n \in S : <<n, m>> \notin OpToRel(<, Nat)
  BY NatLessThanWellFounded, WFMin
<1>2. \A n \in S : ~(n < m)
  BY <1>1 DEF OpToRel
<1> QED
  BY <1>2

Here(e) == {n \in DOMAIN findings : e \in DOMAIN findings[n].at}
First(e) == {n \in Here(e) : \A m \in Here(e) : findings[n].at[e] <= findings[m].at[e]}

\* On a branch with findings, one of them stands before the others.
LEMMA OneComesFirst ==
    ASSUME Placed, NEW e, Here(e) # {}
    PROVE  \E p \in Here(e) : First(e) = {p}
<1>1. \A n \in Here(e) : findings[n].at[e] \in Nat
  BY DEF Placed, Here
<1> DEFINE places == {findings[n].at[e] : n \in Here(e)}
<1>2. places \in SUBSET Nat /\ places # {}
  BY <1>1
<1>3. PICK p \in Here(e) : \A n \in Here(e) : findings[p].at[e] <= findings[n].at[e]
  <2>1. \E k \in places : \A j \in places : k <= j
    BY <1>2, SmallestOf
  <2> QED
    BY <2>1
<1>4. \A n \in First(e) : n = p
  <2> TAKE n \in First(e)
  <2>1. /\ n \in Here(e) /\ findings[n].at[e] <= findings[p].at[e]
        /\ findings[p].at[e] <= findings[n].at[e]
    BY <1>3 DEF First
  <2>2. findings[n].at[e] = findings[p].at[e]
    BY <1>1, <2>1
  <2> QED
    BY <2>1, <2>2 DEF Placed, Here
<1>5. p \in First(e)
  BY <1>3 DEF First
<1> QED
  BY <1>4, <1>5

\* What selection.Apply makes of findings so placed: the branches have no parents, so
\* each is a leaf; a finding is proven global when its branch is the only one.
LEMMA SelectionOfPlaced ==
    ASSUME Placed, Branches \subseteq Nat
    PROVE  /\ \A e \in Selector!Leaves : ~Selector!OutOfBranch(e)
           /\ \A n \in DOMAIN findings :
                /\ Selector!GlobalPrimaryProof(n) <=> DOMAIN findings[n].at = Branches
                /\ Selector!Selected(n) =
                     IF DOMAIN findings[n].at = Branches
                     THEN IF \A m \in DOMAIN findings : n <= m THEN "GLOBAL_PRIMARY"
                                                               ELSE "ADDITIONAL"
                     ELSE IF \E e \in DOMAIN findings[n].at : n \in First(e)
                          THEN "BRANCH_PRIMARY" ELSE "NONE"
<1>1. ASSUME NEW n \in DOMAIN findings
      PROVE  /\ n \in Int /\ findings[n].level = "OBSERVED" /\ Selector!Eligible(n)
             /\ \E e \in Branches :
                  /\ DOMAIN findings[n].at = {e}
                  /\ findings[n].at[e] \in Nat /\ findings[n].at[e] < Len(Path(e))
  BY <1>1 DEF Placed, Selector!Eligible
<1>2. Selector!Leaves = Branches
  BY DEF Selector!Leaves
<1>3. ASSUME NEW n \in DOMAIN findings, NEW e \in Branches
      PROVE  /\ Selector!AttachedBranch(n, e) = IF n \in Here(e) THEN {e} ELSE {}
             /\ n \in Here(e) => /\ findings[n].at[e] \in Nat
                                 /\ findings[n].at[e] < Len(Path(e))
                                 /\ ~(findings[n].at[e] >= Len(Path(e)))
                                 /\ Selector!PositionOn(n, e) = findings[n].at[e]
  <2>1. Selector!AttachedBranch(n, e) = IF n \in Here(e) THEN {e} ELSE {}
    BY DEF Selector!AttachedBranch, Here
  <2>2. n \in Here(e) => findings[n].at[e] \in Nat /\ findings[n].at[e] < Len(Path(e))
    BY <1>1 DEF Here
  <2>3. Len(Path(e)) \in Nat
    BY PathHolds
  <2>4. n \in Here(e) => Selector!PositionOn(n, e) = findings[n].at[e]
    BY <2>1 DEF Selector!PositionOn
  <2> QED
    BY <2>1, <2>2, <2>3, <2>4
<1>4. ASSUME NEW e \in Branches
      PROVE  /\ ~Selector!OutOfBranch(e) /\ Selector!Candidates(e) = Here(e)
             /\ Selector!Earliest(e) = First(e)
  <2>1. Selector!Candidates(e) = Here(e)
    <3>1. Here(e) \subseteq DOMAIN findings
      BY DEF Here
    <3>2. ASSUME NEW n \in DOMAIN findings
          PROVE  n \in Selector!Candidates(e) <=> n \in Here(e)
      <4>1. CASE n \in Here(e)
        BY <1>1, <1>3, <4>1 DEF Selector!Candidates
      <4>2. CASE n \notin Here(e)
        BY <1>3, <4>2 DEF Selector!Candidates
      <4> QED
        BY <4>1, <4>2
    <3>3. Selector!Candidates(e) \subseteq DOMAIN findings
      BY DEF Selector!Candidates
    <3> QED
      BY <3>1, <3>2, <3>3
  <2>2. ~Selector!OutOfBranch(e)
    <3> SUFFICES ASSUME NEW n \in DOMAIN findings, NEW b \in Selector!AttachedBranch(n, e)
                 PROVE  ~(findings[n].at[b] >= [c \in Branches |-> Len(Path(c))][b])
      BY DEF Selector!OutOfBranch
    <3>1. b = e /\ n \in Here(e)
      BY <1>3
    <3> QED
      BY <1>3, <3>1
  <2>3. Selector!Earliest(e) = First(e)
    <3>1. \A n \in Here(e) : Selector!PositionOn(n, e) = findings[n].at[e]
      BY <1>3 DEF Here
    <3> QED
      BY <2>1, <3>1 DEF Selector!Earliest, First
  <2> QED
    BY <2>1, <2>2, <2>3
<1>5. ASSUME NEW e \in Branches, NEW p \in First(e)
      PROVE  p \in Selector!Primaries(First(e))
  <2>1. p \in Here(e) /\ First(e) = {p} /\ p \in DOMAIN findings
    BY <1>5, OneComesFirst DEF First, Here
  <2>2. ~Selector!Yields(p, First(e)) /\ ~(p < p)
    BY <1>1, <2>1 DEF Selector!Yields
  <2> QED
    BY <2>1, <2>2 DEF Selector!Primaries
<1>6. ASSUME NEW n \in DOMAIN findings
      PROVE  Selector!GlobalPrimaryProof(n) <=> DOMAIN findings[n].at = Branches
  <2>1. PICK e \in Branches : /\ DOMAIN findings[n].at = {e}
                              /\ findings[n].at[e] < Len(Path(e))
    BY <1>1, <1>6
  <2>2. Selector!GlobalPrimaryProof(n) <=> \A leaf \in Branches : e \in {leaf}
    BY <1>1, <1>2, <2>1 DEF Selector!GlobalPrimaryProof
  <2> QED
    BY <2>1, <2>2
<1>7. ASSUME NEW n \in DOMAIN findings, DOMAIN findings[n].at = Branches
      PROVE  Selector!Selected(n) =
               IF \A m \in DOMAIN findings : n <= m THEN "GLOBAL_PRIMARY" ELSE "ADDITIONAL"
  <2>1. Selector!GlobalCandidates = DOMAIN findings
    <3>1. PICK e \in Branches : DOMAIN findings[n].at = {e}
      BY <1>1, <1>7
    <3>2. \A m \in DOMAIN findings : DOMAIN findings[m].at = Branches
      BY <1>1, <1>7, <3>1
    <3> QED
      BY <1>6, <3>2 DEF Selector!GlobalCandidates
  <2>2. \A m \in DOMAIN findings : Selector!GlobalBefore(n, m) <=> n < m
    BY <1>1 DEF Selector!GlobalBefore
  <2>3. (\A m \in DOMAIN findings \ {n} : n < m) <=> \A m \in DOMAIN findings : n <= m
    BY <1>1
  <2> QED
    BY <2>1, <2>2, <2>3 DEF Selector!Selected
<1>8. ASSUME NEW n \in DOMAIN findings, DOMAIN findings[n].at # Branches
      PROVE  Selector!Selected(n) =
               IF \E e \in DOMAIN findings[n].at : n \in First(e) THEN "BRANCH_PRIMARY"
                                                                  ELSE "NONE"
  <2>1. n \notin Selector!GlobalCandidates
    BY <1>6, <1>8 DEF Selector!GlobalCandidates
  <2>2. PICK e \in Branches : DOMAIN findings[n].at = {e}
    BY <1>1, <1>8
  <2>3. \A leaf \in Branches : n \in Selector!Earliest(leaf) <=> leaf = e /\ n \in First(e)
    BY <1>4, <2>2 DEF First, Here
  <2>4. CASE n \in First(e)
    <3>1. {leaf \in Selector!Leaves : n \in Selector!Earliest(leaf)} = {e}
      BY <1>2, <2>3, <2>4
    <3>2. n \in Selector!Primaries(Selector!Earliest(e)) /\ e <= e
      BY <1>4, <1>5, <2>4
    <3> QED
      BY <2>1, <2>2, <2>4, <3>1, <3>2 DEF Selector!Selected, Selector!AfterLeaves
  <2>5. CASE n \notin First(e)
    <3>1. {leaf \in Selector!Leaves : n \in Selector!Earliest(leaf)} = {}
      BY <1>2, <2>3, <2>5
    <3> QED
      BY <2>1, <2>2, <2>5, <3>1 DEF Selector!Selected, Selector!AfterLeaves
  <2> QED
    BY <2>4, <2>5
<1> QED
  BY <1>2, <1>4, <1>6, <1>7, <1>8

SelectionMade ==
    [n \in DOMAIN findings |->
       IF DOMAIN findings[n].at = Branches
       THEN IF \A m \in DOMAIN findings : n <= m THEN "GLOBAL_PRIMARY" ELSE "ADDITIONAL"
       ELSE IF \E e \in DOMAIN findings[n].at : n \in First(e)
            THEN "BRANCH_PRIMARY" ELSE "NONE"]
Primary(e) == {n \in Here(e) : selection[n] \in {"BRANCH_PRIMARY", "GLOBAL_PRIMARY"}}
Globals == {n \in DOMAIN findings : selection[n] = "GLOBAL_PRIMARY"}

\* One primary on each branch that has a finding, and at most one for the run, which
\* has no other branch then.
LEMMA OnePrimaryEach ==
    ASSUME Placed, Branches \subseteq Nat, selection = SelectionMade
    PROVE  /\ \A e \in Branches :
                /\ Here(e) # {} => Cardinality(Primary(e)) = 1
                /\ \A n \in Primary(e) : selection[n] = "GLOBAL_PRIMARY" => Branches = {e}
           /\ Cardinality(Globals) <= 1
           /\ \A n \in Globals : Selector!GlobalPrimaryProof(n)
           /\ \A n \in DOMAIN findings :
                selection[n] \in {"NONE", "BRANCH_PRIMARY", "ADDITIONAL", "GLOBAL_PRIMARY"}
<1>1. ASSUME NEW n \in DOMAIN findings
      PROVE  selection[n] =
               IF DOMAIN findings[n].at = Branches
               THEN IF \A m \in DOMAIN findings : n <= m THEN "GLOBAL_PRIMARY" ELSE "ADDITIONAL"
               ELSE IF \E e \in DOMAIN findings[n].at : n \in First(e)
                    THEN "BRANCH_PRIMARY" ELSE "NONE"
  BY <1>1 DEF SelectionMade
<1>2. \A n \in DOMAIN findings : n \in Nat /\ \E e \in Branches : DOMAIN findings[n].at = {e}
  BY DEF Placed
<1>3. ASSUME NEW e \in Branches, Here(e) # {} PROVE Cardinality(Primary(e)) = 1
  <2>1. CASE Branches = {e}
    <3>1. Here(e) = DOMAIN findings /\ \A n \in DOMAIN findings : DOMAIN findings[n].at = Branches
      BY <1>2, <2>1 DEF Here
    <3>2. PICK p \in DOMAIN findings : \A m \in DOMAIN findings : p <= m
      <4>1. DOMAIN findings \in SUBSET Nat
        BY <1>2
      <4> QED
        BY <1>3, <3>1, <4>1, SmallestOf
    <3>3. \A n \in DOMAIN findings : (\A m \in DOMAIN findings : n <= m) <=> n = p
      BY <1>2, <3>2
    <3>4. Primary(e) = {p}
      BY <1>1, <3>1, <3>3 DEF Primary
    <3> QED
      BY <3>4, FS_Singleton
  <2>2. CASE Branches # {e}
    <3>1. \A n \in Here(e) : DOMAIN findings[n].at = {e} /\ n \in DOMAIN findings
      BY <1>2 DEF Here
    <3>2. PICK p \in Here(e) : First(e) = {p}
      BY <1>3, OneComesFirst
    <3>3. \A n \in Here(e) : selection[n] = IF n = p THEN "BRANCH_PRIMARY" ELSE "NONE"
      BY <1>1, <2>2, <3>1, <3>2
    <3>4. Primary(e) = {p}
      BY <3>2, <3>3 DEF Primary
    <3> QED
      BY <3>4, FS_Singleton
  <2> QED
    BY <2>1, <2>2
<1>4. ASSUME NEW n \in DOMAIN findings, selection[n] = "GLOBAL_PRIMARY"
      PROVE  DOMAIN findings[n].at = Branches /\ \A m \in DOMAIN findings : n <= m
  BY <1>1, <1>4
<1>5. ASSUME NEW e \in Branches, NEW n \in Primary(e), selection[n] = "GLOBAL_PRIMARY"
      PROVE  Branches = {e}
  BY <1>2, <1>4, <1>5 DEF Primary, Here
<1>6. Cardinality(Globals) <= 1
  <2>1. \A n, m \in Globals : n = m
    BY <1>2, <1>4 DEF Globals
  <2>2. Globals = {} \/ \E n \in Globals : Globals = {n}
    BY <2>1
  <2>3. Cardinality(Globals) = 0 \/ Cardinality(Globals) = 1
    BY <2>2, FS_EmptySet, FS_Singleton
  <2> QED
    BY <2>3
<1>7. \A n \in Globals : Selector!GlobalPrimaryProof(n)
  BY <1>4, SelectionOfPlaced DEF Globals
<1> QED
  BY <1>1, <1>3, <1>5, <1>6, <1>7

----
(***************************************************************************)
(* The check executions.                                                   *)
(***************************************************************************)
Check == {"tcp", "tls", "peer", "cert", "http"}

\* Exactly one execution of each of the five checks.
OneOfEach(runs) ==
    /\ \A x \in runs : x.check \in Check
    /\ \A check \in Check : \E r \in runs : {x \in runs : x.check = check} = {r}

\* Five executions of the five checks.
LEMMA FiveRuns ==
    ASSUME NEW tcp, NEW tls, NEW peer, NEW cert, NEW http,
           tcp.check = "tcp", tls.check = "tls", peer.check = "peer", cert.check = "cert",
           http.check = "http"
    PROVE  OneOfEach({tcp, tls, peer, cert, http})
<1> DEFINE runs == {tcp, tls, peer, cert, http}
<1>1. {x \in runs : x.check = "tcp"} = {tcp}
  OBVIOUS
<1>2. {x \in runs : x.check = "tls"} = {tls}
  OBVIOUS
<1>3. {x \in runs : x.check = "peer"} = {peer}
  OBVIOUS
<1>4. {x \in runs : x.check = "cert"} = {cert}
  OBVIOUS
<1>5. {x \in runs : x.check = "http"} = {http}
  OBVIOUS
<1>6. tcp \in runs /\ tls \in runs /\ peer \in runs /\ cert \in runs /\ http \in runs
  OBVIOUS
<1>7. \A x \in runs : x.check \in Check
  BY DEF Check
<1> HIDE DEF runs
<1>8. \A check \in Check : \E r \in runs : {x \in runs : x.check = check} = {r}
  BY <1>1, <1>2, <1>3, <1>4, <1>5, <1>6 DEF Check
<1> QED
  BY <1>7, <1>8 DEF OneOfEach, runs

\* The HTTP execution, run or not, is one of its check at its endpoint.
LEMMA HttpRunIs ==
    ASSUME NEW s
    PROVE  /\ HttpRun(s).check = "http" /\ HttpRun(s).branch = EndpointOf(s)
           /\ HttpRun(s).attempt = s
           /\ facts[s].http = "none" => HttpRun(s).state = Skipped /\ HttpRun(s).cites = {}
           /\ facts[s].http # "none" => /\ HttpRun(s).state = HttpState(facts[s].http)
                                        /\ HttpRun(s).cites = HttpCitations(s)
BY DEF HttpRun, NotRun, Ran

\* An attempt that reached its endpoint runs or skips each check there once.
LEMMA AttemptRunsEach ==
    ASSUME NEW s \in Strategy
    PROVE  /\ OneOfEach(AttemptRuns(s))
           /\ \A x \in AttemptRuns(s) : x.branch = EndpointOf(s) /\ x.attempt = s
<1> DEFINE e == EndpointOf(s)
           tcp == Ran("tcp", e, s, TcpState(facts[s].tcp.outcome), {<<"tcp", s>>})
<1>1. tcp.check = "tcp" /\ tcp.branch = e /\ tcp.attempt = s
  BY DEF Ran
<1>2. \A check, reason : /\ NotRun(check, e, s, reason).check = check
                         /\ NotRun(check, e, s, reason).branch = e
                         /\ NotRun(check, e, s, reason).attempt = s
  BY DEF NotRun
<1>3. \A check, state, cites : /\ Ran(check, e, s, state, cites).check = check
                               /\ Ran(check, e, s, state, cites).branch = e
                               /\ Ran(check, e, s, state, cites).attempt = s
  BY DEF Ran
<1>4. CASE Accepted(s) /\ scheme = "http"
  <2>1. AttemptRuns(s) = {tcp, NotRun("tls", e, s, "not_applicable"),
                          NotRun("peer", e, s, "not_applicable"),
                          NotRun("cert", e, s, "not_applicable"), HttpRun(s)}
    BY <1>4 DEF AttemptRuns, PlainRuns, NotRunAll
  <2> HIDE DEF tcp
  <2> QED
    BY <1>1, <1>2, <2>1, FiveRuns, HttpRunIs
<1>5. CASE Accepted(s) /\ scheme # "http" /\ facts[s].tls # NoTls
  <2> DEFINE tls == Ran("tls", e, s, TlsState(facts[s].tls.result), {<<"tls", s>>})
  <2>1. CASE ~HasPeer(s)
    <3>1. AttemptRuns(s) = {tcp, tls, NotRun("peer", e, s, "tls_peer_missing"),
                            NotRun("cert", e, s, "skipped_dependency"),
                            NotRun("http", e, s, "tls_peer_unverified")}
      BY <1>5, <2>1 DEF AttemptRuns, SecureRuns
    <3>2. tls.check = "tls" /\ tls.branch = e /\ tls.attempt = s
      BY <1>3
    <3> HIDE DEF tcp, tls
    <3> QED
      BY <1>1, <1>2, <3>1, <3>2, FiveRuns
  <2>2. CASE HasPeer(s)
    <3> DEFINE peer == Ran("peer", e, s, Passed, {<<"peer", s>>})
               cert == Ran("cert", e, s, CertState(facts[s].tls.cert), {<<"cert", s>>})
               http == IF facts[s].tls.cert = "VERIFIED" THEN HttpRun(s)
                       ELSE NotRun("http", e, s, "tls_peer_unverified")
    <3>1. AttemptRuns(s) = {tcp, tls, peer, cert, http}
      BY <1>5, <2>2 DEF AttemptRuns, SecureRuns
    <3>2. /\ tls.check = "tls" /\ tls.branch = e /\ tls.attempt = s
          /\ peer.check = "peer" /\ peer.branch = e /\ peer.attempt = s
          /\ cert.check = "cert" /\ cert.branch = e /\ cert.attempt = s
      BY <1>3
    <3>3. http.check = "http" /\ http.branch = e /\ http.attempt = s
      BY <1>2, HttpRunIs
    <3> HIDE DEF tcp, tls, peer, cert, http
    <3> QED
      BY <1>1, <3>1, <3>2, <3>3, FiveRuns
  <2> QED
    BY <2>1, <2>2
<1>6. CASE ~Accepted(s) \/ (scheme # "http" /\ facts[s].tls = NoTls)
  <2>1. AttemptRuns(s) = {tcp, NotRun("tls", e, s, "skipped_dependency"),
                          NotRun("peer", e, s, "skipped_dependency"),
                          NotRun("cert", e, s, "skipped_dependency"),
                          NotRun("http", e, s, "skipped_dependency")}
    BY <1>6 DEF AttemptRuns, NotRunAll
  <2> HIDE DEF tcp
  <2> QED
    BY <1>1, <1>2, <2>1, FiveRuns
<1> QED
  BY <1>4, <1>5, <1>6

\* So does a branch nobody tried.
LEMMA UntriedRunsEach ==
    ASSUME NEW e
    PROVE  /\ OneOfEach(UntriedRuns(e))
           /\ \A x \in UntriedRuns(e) : /\ x.branch = e /\ x.attempt = "none"
                                        /\ x.state = Skipped /\ x.cites = {}
<1>1. \A check, reason : /\ NotRun(check, e, "none", reason).check = check
                         /\ NotRun(check, e, "none", reason).branch = e
                         /\ NotRun(check, e, "none", reason).attempt = "none"
                         /\ NotRun(check, e, "none", reason).state = Skipped
                         /\ NotRun(check, e, "none", reason).cites = {}
  BY DEF NotRun
<1>2. PICK reason : UntriedRuns(e) =
        {NotRun("tcp", e, "none", reason), NotRun("tls", e, "none", "skipped_dependency"),
         NotRun("peer", e, "none", "skipped_dependency"),
         NotRun("cert", e, "none", "skipped_dependency"),
         NotRun("http", e, "none", "skipped_dependency")}
  BY DEF UntriedRuns, NotRunAll
<1> QED
  BY <1>1, <1>2, FiveRuns

\* The check of the dial by name stands at no branch and cites only what was seen.
LEMMA NormalRunIs ==
    /\ NormalRun.check = "tcp" /\ NormalRun.branch = NoAddr /\ NormalRun.attempt = "normal"
    /\ LegalState(NormalRun.state) /\ NormalRun.cites \subseteq Observations
<1>1. CASE facts["normal"].tcp = NoFact
  BY <1>1 DEF NormalRun, NotRun, Skipped, LegalState
<1>2. CASE facts["normal"].tcp # NoFact
  <2>1. /\ NormalRun.check = "tcp" /\ NormalRun.branch = NoAddr /\ NormalRun.attempt = "normal"
        /\ NormalRun.state = TcpState(facts["normal"].tcp.outcome)
        /\ NormalRun.cites = IF Exact("normal") THEN {<<"tcp", "normal">>} ELSE {}
    BY <1>2 DEF NormalRun, Ran
  <2>2. LegalState(TcpState(facts["normal"].tcp.outcome))
    BY DEF TcpState, LegalState, Passed, Failed, TimedOut
  <2>3. Exact("normal") => <<"tcp", "normal">> \in Observations
    BY DEF Observations, Strategy
  <2> QED
    BY <2>1, <2>2, <2>3
<1> QED
  BY <1>1, <1>2

\* The executions of a run, by the attempts they belong to.
LEMMA RunsByAttempt ==
    ASSUME NEW x \in AllRuns
    PROVE  \/ x = NormalRun
           \/ \E s \in Strategy : Exact(s) /\ x \in AttemptRuns(s)
           \/ \E e \in Branches : Tried(e) = {} /\ x \in UntriedRuns(e)
<1>1. \/ x = NormalRun
      \/ \E s \in {t \in Strategy : Exact(t)} : x \in AttemptRuns(s)
      \/ \E e \in {b \in Branches : Tried(b) = {}} : x \in UntriedRuns(e)
  BY DEF AllRuns
<1> QED
  BY <1>1

\* On every branch, each attempt or the absence of one has one execution of each check.
LEMMA ChecksComplete ==
    ASSUME FactsOK, NEW e \in Branches, NEW check \in Check,
           NEW s \in (IF Tried(e) = {} THEN {"none"} ELSE Tried(e))
    PROVE  Cardinality({x \in AllRuns : x.branch = e /\ x.attempt = s /\ x.check = check}) = 1
<1>1. e # NoAddr /\ e \in Branches
  BY BranchesAreAddresses
<1>2. NormalRun.branch # e
  BY <1>1, NormalRunIs
<1>3. CASE Tried(e) = {}
  <2>1. s = "none" /\ UntriedRuns(e) \subseteq AllRuns
    <3>1. e \in {b \in Branches : Tried(b) = {}}
      BY <1>3
    <3>2. UntriedRuns(e) \subseteq AllRuns
      BY <3>1 DEF AllRuns
    <3> QED
      BY <1>3, <3>2
  <2>2. \A x \in AllRuns : x.branch = e /\ x.attempt = s => x \in UntriedRuns(e)
    <3> SUFFICES ASSUME NEW x \in AllRuns, x.branch = e, x.attempt = s
                 PROVE  x \in UntriedRuns(e)
      OBVIOUS
    <3>1. ~\E t \in Strategy : Exact(t) /\ x \in AttemptRuns(t)
      BY <2>1, AttemptRunsEach DEF Strategy
    <3> QED
      BY <1>2, <3>1, RunsByAttempt, UntriedRunsEach
  <2>3. PICK r : {x \in UntriedRuns(e) : x.check = check} = {r}
    <3>1. OneOfEach(UntriedRuns(e))
      BY UntriedRunsEach
    <3> QED
      BY <3>1 DEF OneOfEach
  <2>4. \A x \in UntriedRuns(e) : x \in AllRuns /\ x.branch = e /\ x.attempt = s
    BY <2>1, UntriedRunsEach
  <2>5. {x \in AllRuns : x.branch = e /\ x.attempt = s /\ x.check = check} = {r}
    BY <2>2, <2>3, <2>4
  <2> QED
    BY <2>5, FS_Singleton
<1>4. CASE Tried(e) # {}
  <2>1. s \in Strategy /\ Exact(s) /\ EndpointOf(s) = e
    BY <1>4 DEF Tried
  <2>2. \A x \in AllRuns : x.branch = e /\ x.attempt = s => x \in AttemptRuns(s)
    <3> SUFFICES ASSUME NEW x \in AllRuns, x.branch = e, x.attempt = s
                 PROVE  x \in AttemptRuns(s)
      OBVIOUS
    <3>1. ~\E b \in Branches : Tried(b) = {} /\ x \in UntriedRuns(b)
      BY <2>1, UntriedRunsEach DEF Strategy
    <3> QED
      BY <1>2, <3>1, RunsByAttempt, AttemptRunsEach
  <2>3. AttemptRuns(s) \subseteq AllRuns
    BY <2>1 DEF AllRuns
  <2>4. PICK r : {x \in AttemptRuns(s) : x.check = check} = {r}
    BY <2>1, AttemptRunsEach DEF OneOfEach
  <2>5. \A x \in AttemptRuns(s) : x \in AllRuns /\ x.branch = e /\ x.attempt = s
    BY <2>1, <2>3, AttemptRunsEach
  <2>6. {x \in AllRuns : x.branch = e /\ x.attempt = s /\ x.check = check} = {r}
    BY <2>2, <2>4, <2>5
  <2> QED
    BY <2>6, FS_Singleton
<1> QED
  BY <1>3, <1>4

----
(***************************************************************************)
(* What the validators say of the executions.                              *)
(***************************************************************************)
Legal(x) == LegalState(x.state) /\ x.cites \subseteq Observations
FailedPlainly(s) == scheme = "http" /\ facts[s].http \in {"http_failed", "http_timeout"}
Lost == \E s \in Strategy : FailedPlainly(s)

\* A skipped check is legal, and so is one that ran and cites what was seen.
LEMMA LegalRuns ==
    /\ \A check, e, s, reason : Legal(NotRun(check, e, s, reason))
    /\ \A outcome : LegalState(TcpState(outcome))
    /\ \A result : LegalState(TlsState(result))
    /\ \A cert : LegalState(CertState(cert))
    /\ \A outcome : LegalState(HttpState(outcome))
    /\ LegalState(Passed)
<1>1. /\ LegalState(Passed) /\ LegalState(Failed) /\ LegalState(TimedOut)
      /\ LegalState(Erred) /\ LegalState(Skipped)
  BY DEF LegalState, Passed, Failed, TimedOut, Erred, Skipped
<1>2. \A check, e, s, reason : Legal(NotRun(check, e, s, reason))
  BY <1>1 DEF Legal, NotRun
<1> QED
  BY <1>1, <1>2 DEF TcpState, TlsState, CertState, HttpState

\* Over https an HTTP execution cites answers only; over plain http it cites its own.
LEMMA HttpRunLegal ==
    ASSUME FactsOK, NEW s \in Strategy, Accepted(s)
    PROVE  Legal(HttpRun(s)) <=> ~FailedPlainly(s)
<1>1. /\ facts[s].http \in HttpOutcome /\ scheme \in {"http", "https"} /\ Shape(s)
  BY FactsHaveShape, ValueAssumption DEF FactsOK
<1>2. CASE scheme = "http"
  <2>1. facts[s].http # "none"
    BY <1>1, <1>2 DEF Shape
  <2>2. HttpRun(s).cites = {<<"http", s>>} /\ LegalState(HttpRun(s).state)
    BY <1>2, <2>1, HttpRunIs, LegalRuns DEF HttpCitations
  <2>3. <<"http", s>> \in Observations <=> HasAnswer(s)
    BY DEF Observations
  <2>4. HasAnswer(s) <=> facts[s].http \notin {"http_failed", "http_timeout"}
    BY <1>1, <2>1 DEF HasAnswer, Answered, HttpOutcome
  <2> QED
    BY <1>2, <2>2, <2>3, <2>4 DEF Legal, FailedPlainly
<1>3. CASE scheme = "https"
  <2>1. CASE facts[s].http = "none"
    <3>1. HttpRun(s) = NotRun("http", EndpointOf(s), s, "probe_pending")
      BY <2>1 DEF HttpRun
    <3> QED
      BY <1>3, <3>1, LegalRuns DEF FailedPlainly
  <2>2. CASE facts[s].http # "none"
    <3>1. /\ LegalState(HttpRun(s).state)
          /\ HttpRun(s).cites = {<<"http", t>> :
               t \in {u \in Strategy : HasAnswer(u) /\ EndpointOf(u) = EndpointOf(s)}}
      BY <1>3, <2>2, HttpRunIs, LegalRuns DEF HttpCitations
    <3>2. HttpRun(s).cites \subseteq Observations
      BY <3>1 DEF Observations
    <3> QED
      BY <1>3, <3>1, <3>2 DEF Legal, FailedPlainly
  <2> QED
    BY <2>1, <2>2
<1> QED
  BY <1>1, <1>2, <1>3

\* The executions of an attempt are refused for a failed exchange over plain http only.
LEMMA AttemptRunsLegal ==
    ASSUME FactsOK, NEW s \in Strategy, Exact(s)
    PROVE  (\A x \in AttemptRuns(s) : Legal(x)) <=> ~(Accepted(s) /\ FailedPlainly(s))
<1> DEFINE e == EndpointOf(s)
           tcp == Ran("tcp", e, s, TcpState(facts[s].tcp.outcome), {<<"tcp", s>>})
<1>1. Legal(tcp)
  <2>1. <<"tcp", s>> \in Observations
    BY DEF Observations
  <2> QED
    BY <2>1, LegalRuns DEF Legal, Ran
<1>2. CASE Accepted(s) /\ scheme = "http"
  <2>1. AttemptRuns(s) = {tcp, NotRun("tls", e, s, "not_applicable"),
                          NotRun("peer", e, s, "not_applicable"),
                          NotRun("cert", e, s, "not_applicable"), HttpRun(s)}
    BY <1>2 DEF AttemptRuns, PlainRuns, NotRunAll
  <2> HIDE DEF tcp
  <2>2. (\A x \in AttemptRuns(s) : Legal(x)) <=> Legal(HttpRun(s))
    BY <1>1, <2>1, LegalRuns
  <2> QED
    BY <1>2, <2>2, HttpRunLegal
<1>3. CASE Accepted(s) /\ scheme # "http" /\ facts[s].tls # NoTls
  <2> DEFINE tls == Ran("tls", e, s, TlsState(facts[s].tls.result), {<<"tls", s>>})
  <2>1. ~FailedPlainly(s) /\ Legal(HttpRun(s))
    BY <1>3, HttpRunLegal DEF FailedPlainly
  <2>2. Legal(tls)
    <3>1. <<"tls", s>> \in Observations
      BY <1>3 DEF Observations
    <3> QED
      BY <3>1, LegalRuns DEF Legal, Ran
  <2>3. CASE ~HasPeer(s)
    <3>1. AttemptRuns(s) = {tcp, tls, NotRun("peer", e, s, "tls_peer_missing"),
                            NotRun("cert", e, s, "skipped_dependency"),
                            NotRun("http", e, s, "tls_peer_unverified")}
      BY <1>3, <2>3 DEF AttemptRuns, SecureRuns
    <3> HIDE DEF tcp, tls
    <3> QED
      BY <1>1, <2>1, <2>2, <3>1, LegalRuns
  <2>4. CASE HasPeer(s)
    <3> DEFINE peer == Ran("peer", e, s, Passed, {<<"peer", s>>})
               cert == Ran("cert", e, s, CertState(facts[s].tls.cert), {<<"cert", s>>})
               http == IF facts[s].tls.cert = "VERIFIED" THEN HttpRun(s)
                       ELSE NotRun("http", e, s, "tls_peer_unverified")
    <3>1. AttemptRuns(s) = {tcp, tls, peer, cert, http}
      BY <1>3, <2>4 DEF AttemptRuns, SecureRuns
    <3>2. <<"peer", s>> \in Observations /\ <<"cert", s>> \in Observations
      BY <2>4 DEF Observations
    <3>3. Legal(peer) /\ Legal(cert)
      BY <3>2, LegalRuns DEF Legal, Ran
    <3>4. Legal(http)
      BY <2>1, LegalRuns
    <3> HIDE DEF tcp, tls, peer, cert, http
    <3> QED
      BY <1>1, <2>1, <2>2, <3>1, <3>3, <3>4
  <2> QED
    BY <2>3, <2>4
<1>4. CASE ~Accepted(s) \/ (scheme # "http" /\ facts[s].tls = NoTls)
  <2>1. AttemptRuns(s) = {tcp, NotRun("tls", e, s, "skipped_dependency"),
                          NotRun("peer", e, s, "skipped_dependency"),
                          NotRun("cert", e, s, "skipped_dependency"),
                          NotRun("http", e, s, "skipped_dependency")}
    BY <1>4 DEF AttemptRuns, NotRunAll
  <2>2. ~(Accepted(s) /\ FailedPlainly(s))
    BY <1>4 DEF FailedPlainly
  <2> HIDE DEF tcp
  <2> QED
    BY <1>1, <2>1, <2>2, LegalRuns
<1> QED
  BY <1>2, <1>3, <1>4

\* The evidence of a run is refused exactly when an exchange over plain http failed.
LEMMA RefusedWhenLost ==
    ASSUME FactsOK
    PROVE  (\A x \in AllRuns : LegalState(x.state) /\ x.cites \subseteq Observations) <=> ~Lost
<1>1. ASSUME NEW s \in Strategy, FailedPlainly(s) PROVE Accepted(s) /\ Exact(s)
  BY <1>1, FactsHaveShape DEF FailedPlainly, Shape, Exact
<1>2. ASSUME Lost PROVE \E x \in AllRuns : ~Legal(x)
  <2>1. PICK s \in Strategy : FailedPlainly(s)
    BY <1>2 DEF Lost
  <2>2. AttemptRuns(s) \subseteq AllRuns
    BY <1>1, <2>1 DEF AllRuns
  <2> QED
    BY <1>1, <2>1, <2>2, AttemptRunsLegal
<1>3. ASSUME ~Lost, NEW x \in AllRuns PROVE Legal(x)
  <2>1. CASE x = NormalRun
    BY <2>1, NormalRunIs DEF Legal
  <2>2. CASE \E s \in Strategy : Exact(s) /\ x \in AttemptRuns(s)
    BY <1>3, <2>2, AttemptRunsLegal DEF Lost
  <2>3. CASE \E e \in Branches : Tried(e) = {} /\ x \in UntriedRuns(e)
    <3>1. x.state = Skipped /\ x.cites = {}
      BY <2>3, UntriedRunsEach
    <3> QED
      BY <3>1 DEF Legal, LegalState, Skipped
  <2> QED
    BY <2>1, <2>2, <2>3, RunsByAttempt
<1> QED
  BY <1>2, <1>3 DEF Legal

----
(***************************************************************************)
(* What the status says of the executions.                                 *)
(***************************************************************************)
\* An answer over https is an answer over a verified connection.
LEMMA AnswersAreReached ==
    ASSUME FactsOK, NEW s \in Strategy, HasAnswer(s)
    PROVE  Reached(s) /\ Exact(s)
<1>1. facts[s].http # "none" /\ Shape(s) /\ scheme \in {"http", "https"}
  BY FactsHaveShape, ValueAssumption DEF FactsOK, HasAnswer, Answered
<1>2. Accepted(s)
  BY <1>1 DEF Shape
<1> QED
  BY <1>1, <1>2 DEF Shape, Reached, Exact

\* Who reached the goal has a passed HTTP execution, and over https a passed
\* certificate execution, on the branch of its endpoint.
LEMMA ReachedPasses ==
    ASSUME FactsOK, executions = AllRuns, NEW s \in Strategy, Reached(s)
    PROVE  /\ EndpointOf(s) \in Branches /\ HttpPass(EndpointOf(s))
           /\ scheme = "http" \/ CertPass(EndpointOf(s))
<1>1. /\ Accepted(s) /\ HasAnswer(s) /\ Exact(s) /\ scheme \in {"http", "https"}
      /\ scheme = "https" => facts[s].tls = [result |-> "COMPLETED", cert |-> "VERIFIED"]
  BY ValueAssumption DEF Reached, Exact, FactsOK
<1>2. EndpointOf(s) \in Branches /\ AttemptRuns(s) \subseteq executions
  BY <1>1, BranchesAreAddresses DEF AllRuns
<1>3. /\ HttpRun(s).state = Passed /\ <<"http", s>> \in HttpRun(s).cites
      /\ HttpRun(s).check = "http" /\ HttpRun(s).branch = EndpointOf(s)
  <2>1. facts[s].http # "none" /\ facts[s].http \in Answered
    BY <1>1 DEF HasAnswer, Answered
  <2>2. HttpState(facts[s].http) = Passed
    BY <2>1 DEF HttpState, Answered
  <2>3. <<"http", s>> \in HttpCitations(s)
    BY <1>1 DEF HttpCitations
  <2> QED
    BY <2>1, <2>2, <2>3, HttpRunIs
<1>4. CASE scheme = "http"
  <2>1. HttpRun(s) \in executions
    BY <1>1, <1>2, <1>4 DEF AttemptRuns, PlainRuns
  <2> QED
    BY <1>2, <1>3, <1>4, <2>1 DEF HttpPass
<1>5. CASE scheme = "https"
  <2>1. facts[s].tls.cert = "VERIFIED" /\ facts[s].tls # NoTls /\ HasPeer(s)
    BY <1>1, <1>5, ValueAssumption DEF HasPeer, NoTls
  <2> DEFINE cert == Ran("cert", EndpointOf(s), s, CertState(facts[s].tls.cert), {<<"cert", s>>})
  <2>2. HttpRun(s) \in executions /\ cert \in executions
    BY <1>1, <1>2, <1>5, <2>1 DEF AttemptRuns, SecureRuns
  <2>3. /\ cert.check = "cert" /\ cert.branch = EndpointOf(s) /\ cert.state = Passed
        /\ cert.cites = {<<"cert", s>>}
    BY <2>1 DEF Ran, CertState
  <2>4. CertPass(EndpointOf(s))
    <3> HIDE DEF cert
    <3>1. <<"cert", s>>[1] = "cert" /\ <<"cert", s>>[2] = s /\ <<"cert", s>> \in cert.cites
      BY <2>3
    <3> QED
      BY <2>1, <2>2, <2>3, <3>1 DEF CertPass
  <2>5. HttpPass(EndpointOf(s))
    BY <1>3, <2>2 DEF HttpPass
  <2> QED
    BY <1>2, <2>4, <2>5
<1> QED
  BY <1>1, <1>4, <1>5

\* An HTTP execution passes only for an attempt that was answered.
LEMMA PassesAreReached ==
    ASSUME FactsOK, executions = AllRuns, NEW e, HttpPass(e)
    PROVE  \E s \in Strategy : Reached(s)
<1>1. PICK x \in AllRuns : x.check = "http" /\ x.state = Passed
  BY DEF HttpPass
<1>2. x # NormalRun /\ Passed # Skipped
  BY <1>1, NormalRunIs DEF Passed, Skipped
<1>3. PICK s \in Strategy : Exact(s) /\ x \in AttemptRuns(s)
  BY <1>1, <1>2, RunsByAttempt, UntriedRunsEach
<1>4. \A check, reason : NotRun(check, EndpointOf(s), s, reason).state = Skipped
  BY DEF NotRun
<1>5. \A check \in {"tcp", "tls", "peer", "cert"} : \A state, cites :
        Ran(check, EndpointOf(s), s, state, cites).check # "http"
  BY DEF Ran
<1>6. x = HttpRun(s)
  BY <1>1, <1>2, <1>3, <1>4, <1>5 DEF AttemptRuns, PlainRuns, SecureRuns, NotRunAll
<1>7. facts[s].http # "none" /\ HttpState(facts[s].http) = Passed
  BY <1>1, <1>2, <1>6, HttpRunIs
<1>8. HasAnswer(s)
  BY <1>7 DEF HttpState, Passed, TimedOut, Erred, HasAnswer
<1> QED
  BY <1>8, AnswersAreReached

\* A reported status is SATISFIED exactly when some attempt reached the goal.
LEMMA SatisfiedWhenReached ==
    ASSUME FactsOK, executions = AllRuns
    PROVE  StatusOf = "SATISFIED" <=> \E s \in Strategy : Reached(s)
<1>1. ASSUME StatusOf = "SATISFIED" PROVE \E s \in Strategy : Reached(s)
  <2>1. \E e \in Branches : HttpPass(e)
    BY <1>1 DEF StatusOf
  <2> QED
    BY <2>1, PassesAreReached
<1>2. ASSUME NEW s \in Strategy, Reached(s) PROVE StatusOf = "SATISFIED"
  BY <1>2, ReachedPasses DEF StatusOf
<1> QED
  BY <1>1, <1>2

\* A blocked branch has a finding of its own, which an attempt at its endpoint made.
LEMMA CoveredIsBlocked ==
    ASSUME FactsOK, findings = FindingsMade, selection = SelectionMade,
           NEW e \in Branches, Covered(e)
    PROVE  \E s \in Tried(e) : Mismatch(s) \/ Refusal(s)
<1>1. Placed /\ Branches \subseteq Nat
  BY FindingsArePlaced, BranchesAreAddresses
<1>2. PICK n \in DOMAIN findings : \/ selection[n] = "GLOBAL_PRIMARY"
                                   \/ e \in DOMAIN findings[n].at
  BY DEF Covered
<1>3. e \in DOMAIN findings[n].at
  <2>1. CASE selection[n] = "GLOBAL_PRIMARY"
    <3>1. \E b \in Branches : DOMAIN findings[n].at = {b}
      BY <1>1 DEF Placed
    <3>2. n \in Globals
      BY <2>1 DEF Globals
    <3>3. Selector!GlobalPrimaryProof(n)
      BY <1>1, <3>2, OnePrimaryEach
    <3>4. DOMAIN findings[n].at = Branches
      BY <1>1, <3>3, SelectionOfPlaced
    <3> QED
      BY <3>4
  <2> QED
    BY <1>2, <2>1
<1>4. PICK o \in Reported : findings[n] = FindingFor(o)
  BY FindingOfNumber
<1>5. EndpointOf(o[2]) = e
  BY <1>3, <1>4, FindingStands
<1>6. o[2] \in Tried(e) /\ (Mismatch(o[2]) \/ Refusal(o[2]))
  BY <1>5, ReportedStands DEF Tried
<1> QED
  BY <1>6

----
(***************************************************************************)
(* What diagnose has made at each of its phases.                           *)
(***************************************************************************)
DiagnosisInv ==
    /\ FactsOK
    /\ phase \in {"assemble", "validate", "evaluate", "select", "accept", "report",
                  "reported", "internal_error"}
    /\ executions = IF phase = "assemble" THEN {} ELSE AllRuns
    /\ findings = IF phase \in {"select", "accept", "report", "reported"} THEN FindingsMade
                                                                          ELSE <<>>
    /\ selection = IF phase \in {"accept", "report", "reported"} THEN SelectionMade ELSE <<>>
    /\ status = IF phase = "reported" THEN StatusOf ELSE "none"
    /\ phase = "internal_error" => Lost
    /\ phase \in {"evaluate", "select", "accept", "report", "reported"} => ~Lost

\* The facts are never written again, so what is made of them stands.
LEMMA FactsStand ==
    UNCHANGED input =>
        /\ FactsOK => FactsOK'
        /\ AllRuns' = AllRuns /\ FindingsMade' = FindingsMade /\ (Lost' <=> Lost)
<1> SUFFICES ASSUME scheme' = scheme, addresses' = addresses, facts' = facts
             PROVE  /\ FactsOK => FactsOK'
                    /\ AllRuns' = AllRuns /\ FindingsMade' = FindingsMade /\ (Lost' <=> Lost)
  BY DEF input
<1>1. FactsOK => FactsOK'
  BY DEF FactsOK
<1>2. Lost' <=> Lost
  BY DEF Lost, FailedPlainly
<1>3. AllRuns' = AllRuns
  BY DEF AllRuns, NormalRun, AttemptRuns, PlainRuns, SecureRuns, HttpRun, HttpCitations, UntriedRuns,
         NotRunAll, Branches, PinnedPlans, Tried, Exact, Accepted, EndpointOf, HasPeer, HasAnswer
<1>4. FindingsMade' = FindingsMade
  BY DEF FindingsMade, Reported, Number, Earlier, FindingFor, Refusal, Mismatch, Branches, Path, Edges,
         Edge, LastTried, Tried, Exact, Accepted, EndpointOf, HasPeer, HasAnswer
<1> QED
  BY <1>1, <1>2, <1>3, <1>4

\* And so does what is made of the findings and of the executions.
LEMMA SelectionStands == UNCHANGED <<input, findings>> => SelectionMade' = SelectionMade
<1> SUFFICES ASSUME scheme' = scheme, addresses' = addresses, facts' = facts,
                    findings' = findings
             PROVE  SelectionMade' = SelectionMade
  BY DEF input
<1> QED
  BY DEF SelectionMade, First, Here, Branches, Exact, Accepted, EndpointOf

\* The status is a function of these.
LEMMA StatusStands ==
    UNCHANGED <<input, executions, findings, selection>> => StatusOf' = StatusOf
<1> SUFFICES ASSUME scheme' = scheme, addresses' = addresses, facts' = facts,
                    executions' = executions, findings' = findings, selection' = selection
             PROVE  StatusOf' = StatusOf
  BY DEF input
<1> QED
  BY DEF StatusOf, Branches, Exact, Accepted, EndpointOf, Truncated, HttpPass, CertPass,
         Incomplete, Covered

\* Nothing is made yet of the facts diagnose starts from.
LEMMA InitDiagnosis == Init => DiagnosisInv
<1> SUFFICES ASSUME Init PROVE DiagnosisInv
  OBVIOUS
<1>1. FactsOK
  <2>1. PICK normal \in AttemptFacts("normal", scheme, addresses),
             pinned4 \in AttemptFacts("pinned4", scheme, addresses),
             pinned6 \in AttemptFacts("pinned6", scheme, addresses) :
               facts = [s \in Strategy |-> CASE s = "normal" -> normal
                                             [] s = "pinned4" -> pinned4
                                             [] s = "pinned6" -> pinned6]
    BY DEF Init
  <2>2. \A s \in Strategy : facts[s] \in AttemptFacts(s, scheme, addresses)
    BY <2>1 DEF Strategy
  <2>3. scheme \in Schemes /\ addresses \in SUBSET Addr
    BY DEF Init
  <2>4. \A s \in Strategy : facts[s] \in [tcp : TcpFact, tls : TlsFact, http : HttpOutcome]
    BY <2>2, <2>3, AttemptsTyped
  <2>5. facts \in [Strategy -> [tcp : TcpFact, tls : TlsFact, http : HttpOutcome]]
    BY <2>1, <2>4
  <2> QED
    BY <2>2, <2>3, <2>5 DEF FactsOK
<1> QED
  BY <1>1 DEF Init, DiagnosisInv

\* Each step makes what the next one starts from; none but Validate loses the run.
LEMMA DiagnosisKept == DiagnosisInv /\ [Next]_vars => DiagnosisInv'
<1> SUFFICES ASSUME DiagnosisInv, [Next]_vars PROVE DiagnosisInv'
  OBVIOUS
<1>1. UNCHANGED input
  BY DEF Next, vars, input, Assemble, Validate, EvaluateRules, SelectPrimaries, Accept, Report,
         Finished
<1>2. /\ FactsOK /\ FactsOK' /\ AllRuns' = AllRuns /\ FindingsMade' = FindingsMade
      /\ Lost' <=> Lost
  BY <1>1, FactsStand DEF DiagnosisInv
<1>3. CASE Assemble
  BY <1>2, <1>3 DEF Assemble, DiagnosisInv
<1>4. CASE Validate
  <2>1. /\ phase = "validate" /\ executions = AllRuns
        /\ phase' = IF Lost THEN "internal_error" ELSE "evaluate"
    BY <1>2, <1>4, RefusedWhenLost DEF Validate, DiagnosisInv
  <2>2. UNCHANGED <<executions, findings, selection, status>>
    BY <1>4 DEF Validate
  <2> QED
    BY <1>2, <2>1, <2>2 DEF DiagnosisInv
<1>5. CASE EvaluateRules
  <2>1. /\ phase = "evaluate" /\ phase' = "select" /\ findings' = FindingsMade
        /\ UNCHANGED <<executions, selection, status>>
    BY <1>5 DEF EvaluateRules, FindingsMade
  <2> QED
    BY <1>2, <2>1 DEF DiagnosisInv
<1>6. CASE SelectPrimaries
  <2>1. Placed /\ Branches \subseteq Nat
    BY <1>2, <1>6, FindingsArePlaced, BranchesAreAddresses DEF SelectPrimaries, DiagnosisInv
  <2>2. /\ phase = "select" /\ phase' = "accept"
        /\ selection' = [n \in DOMAIN findings |-> Selector!Selected(n)]
        /\ UNCHANGED <<executions, findings, status>>
    BY <1>6, <2>1, SelectionOfPlaced DEF SelectPrimaries
  <2>3. [n \in DOMAIN findings |-> Selector!Selected(n)] = SelectionMade
    BY <2>1, SelectionOfPlaced DEF SelectionMade
  <2>4. selection' = SelectionMade'
    BY <1>1, <2>2, <2>3, SelectionStands
  <2> QED
    BY <1>2, <2>2, <2>4 DEF DiagnosisInv
<1>7. CASE Accept
  <2>1. /\ phase = "accept" /\ findings = FindingsMade /\ selection = SelectionMade
        /\ UNCHANGED <<executions, findings, selection, status>>
    BY <1>7 DEF Accept, DiagnosisInv
  <2>2. /\ Cardinality(Globals) <= 1 /\ \A n \in Globals : Selector!GlobalPrimaryProof(n)
    BY <1>2, <2>1, FindingsArePlaced, BranchesAreAddresses, OnePrimaryEach
  <2>3. phase' = "report"
    BY <1>7, <2>2 DEF Accept, Globals
  <2>4. SelectionMade' = SelectionMade
    BY <1>1, <2>1, SelectionStands
  <2> QED
    BY <1>2, <2>1, <2>3, <2>4 DEF DiagnosisInv
<1>8. CASE Report
  <2>1. /\ phase = "report" /\ phase' = "reported" /\ status' = StatusOf
        /\ UNCHANGED <<executions, findings, selection>>
    BY <1>8 DEF Report
  <2>2. StatusOf' = StatusOf /\ SelectionMade' = SelectionMade
    BY <1>1, <2>1, StatusStands, SelectionStands
  <2> QED
    BY <1>2, <2>1, <2>2 DEF DiagnosisInv
<1>9. CASE UNCHANGED vars
  <2>1. UNCHANGED <<input, executions, findings, selection, phase, status>>
    BY <1>9 DEF vars, input
  <2>2. StatusOf' = StatusOf /\ SelectionMade' = SelectionMade
    BY <2>1, StatusStands, SelectionStands
  <2> QED
    BY <1>2, <2>1, <2>2 DEF DiagnosisInv
<1> QED
  BY <1>3, <1>4, <1>5, <1>6, <1>7, <1>8, <1>9 DEF Next, Finished

\* The invariant over all behaviours.
LEMMA DiagnosisInvariant == Spec => []DiagnosisInv
BY InitDiagnosis, DiagnosisKept, PTL DEF Spec

----
(***************************************************************************)
(* The properties of the report.                                           *)
(***************************************************************************)
\* Type correctness: every execution, finding and selection has its shape.
THEOREM DiagnosisTyped == Spec => []TypeOK
<1>1. DiagnosisInv => TypeOK
  <2> SUFFICES ASSUME DiagnosisInv PROVE TypeOK
    OBVIOUS
  <2>1. FactsOK /\ scheme \in Schemes /\ addresses \subseteq Addr
    BY DEF DiagnosisInv, FactsOK
  <2>2. ASSUME NEW x \in executions
        PROVE  /\ x.check \in Check /\ x.branch \in Branches \cup {NoAddr}
               /\ x.attempt \in Strategy \cup {"none"}
    <3>1. x \in AllRuns
      BY <2>2 DEF DiagnosisInv
    <3>2. CASE x = NormalRun
      BY <3>2, NormalRunIs DEF Check, Strategy
    <3>3. CASE \E s \in Strategy : Exact(s) /\ x \in AttemptRuns(s)
      BY <2>1, <3>3, AttemptRunsEach, BranchesAreAddresses DEF OneOfEach
    <3>4. CASE \E e \in Branches : Tried(e) = {} /\ x \in UntriedRuns(e)
      BY <3>4, UntriedRunsEach DEF OneOfEach
    <3> QED
      BY <3>1, <3>2, <3>3, <3>4, RunsByAttempt
  <2>3. CASE findings = <<>>
    <3>1. selection = <<>>
      <4>1. CASE phase \in {"accept", "report", "reported"}
        BY <2>3, <4>1 DEF DiagnosisInv, SelectionMade
      <4> QED
        BY <4>1 DEF DiagnosisInv
    <3>2. DOMAIN findings = {} /\ DOMAIN selection = {}
      BY <2>3, <3>1
    <3> QED
      BY <2>1, <2>2, <3>2 DEF TypeOK, DiagnosisInv, FactsOK, Check, StatusOf
  <2>4. CASE findings # <<>>
    <3>1. findings = FindingsMade
      BY <2>4 DEF DiagnosisInv
    <3>2. Placed /\ Branches \subseteq Nat
      BY <2>1, <3>1, FindingsArePlaced, BranchesAreAddresses
    <3>3. \A n \in DOMAIN findings : n \in 0..5 /\ DOMAIN findings[n].at \subseteq Branches
      BY <3>2 DEF Placed
    <3>4. /\ DOMAIN selection \subseteq DOMAIN findings
          /\ \A n \in DOMAIN selection :
               selection[n] \in {"NONE", "BRANCH_PRIMARY", "ADDITIONAL", "GLOBAL_PRIMARY"}
      <4>1. CASE selection = SelectionMade
        <5>1. DOMAIN selection = DOMAIN findings
          BY <4>1 DEF SelectionMade
        <5> QED
          BY <3>2, <4>1, <5>1, OnePrimaryEach
      <4>2. CASE selection = <<>>
        BY <4>2
      <4> QED
        BY <4>1, <4>2 DEF DiagnosisInv
    <3> QED
      BY <2>1, <2>2, <3>3, <3>4 DEF TypeOK, DiagnosisInv, FactsOK, Check, StatusOf
  <2> QED
    BY <2>3, <2>4
<1> QED
  BY <1>1, DiagnosisInvariant, PTL

\* The validators, the rules and the selection accept every mixture of facts but a
\* failed exchange over plain http.
THEOREM LostToPlainFailure == Spec => []OnlyPlainFailureIsLost
<1>1. DiagnosisInv => OnlyPlainFailureIsLost
  BY DEF DiagnosisInv, OnlyPlainFailureIsLost, Lost, FailedPlainly
<1> QED
  BY <1>1, DiagnosisInvariant, PTL

\* SATISFIED is what one attempt did by itself.
THEOREM SatisfactionEarned == Spec => []SatisfiedIsEarned
<1>1. DiagnosisInv => SatisfiedIsEarned
  BY SatisfiedWhenReached DEF DiagnosisInv, SatisfiedIsEarned
<1> QED
  BY <1>1, DiagnosisInvariant, PTL

\* BLOCKED leaves no address untried, no endpoint unblocked and nobody answered.
THEOREM BlockedSoundly == Spec => []BlockedIsSound
<1>1. DiagnosisInv => BlockedIsSound
  <2> SUFFICES ASSUME DiagnosisInv, phase = "reported", status = "BLOCKED"
               PROVE  /\ Branches # {} /\ ~Truncated(addresses)
                      /\ \A e \in Branches :
                           \E s \in Tried(e) :
                              \/ facts[s].tls.cert = "HOSTNAME_MISMATCH"
                              \/ /\ facts[s].tcp.outcome = "refused"
                                 /\ \A t \in Strategy : Accepted(t) => EndpointOf(t) # e
                      /\ \A s \in Strategy : ~HasAnswer(s)
    BY DEF BlockedIsSound
  <2>1. /\ FactsOK /\ executions = AllRuns /\ findings = FindingsMade
        /\ selection = SelectionMade /\ StatusOf = "BLOCKED"
    BY DEF DiagnosisInv
  <2>2. Branches # {} /\ ~Truncated(addresses) /\ \A e \in Branches : Covered(e)
    BY <2>1 DEF StatusOf
  <2>3. ASSUME NEW e \in Branches
        PROVE  \E s \in Tried(e) :
                  \/ facts[s].tls.cert = "HOSTNAME_MISMATCH"
                  \/ /\ facts[s].tcp.outcome = "refused"
                     /\ \A t \in Strategy : Accepted(t) => EndpointOf(t) # e
    <3>1. PICK s \in Tried(e) : Mismatch(s) \/ Refusal(s)
      BY <2>1, <2>2, CoveredIsBlocked
    <3>2. EndpointOf(s) = e
      BY DEF Tried
    <3> QED
      BY <3>1, <3>2 DEF Mismatch, Refusal
  <2>4. \A s \in Strategy : ~HasAnswer(s)
    BY <2>1, SatisfiedWhenReached, AnswersAreReached
  <2> QED
    BY <2>2, <2>3, <2>4
<1> QED
  BY <1>1, DiagnosisInvariant, PTL

\* A branch with findings has one primary, and a global one has no other branch.
THEOREM OnePrimary == Spec => []OnePrimaryPerBlockedBranch
<1>1. DiagnosisInv => OnePrimaryPerBlockedBranch
  <2> SUFFICES ASSUME DiagnosisInv, phase \in {"accept", "report", "reported"}
               PROVE  OnePrimaryPerBlockedBranch
    BY DEF OnePrimaryPerBlockedBranch
  <2>1. FactsOK /\ findings = FindingsMade /\ selection = SelectionMade
    BY DEF DiagnosisInv
  <2>2. \A e \in Branches :
          /\ Here(e) # {} => Cardinality(Primary(e)) = 1
          /\ \A n \in Primary(e) : selection[n] = "GLOBAL_PRIMARY" => Branches = {e}
    BY <2>1, FindingsArePlaced, BranchesAreAddresses, OnePrimaryEach
  <2> QED
    BY <2>2 DEF OnePrimaryPerBlockedBranch, Here, Primary
<1> QED
  BY <1>1, DiagnosisInvariant, PTL

\* The findings of the client probe meet what Selection asks for the order of the leaves
\* not to show: two that say the same and contest one leaf stand on that leaf's branch
\* alone.  One bad certificate at two endpoints gives two findings that say the same and
\* contest no common leaf.
THEOREM FindingsMeet ==
    Spec => [](phase \in {"select", "accept", "report", "reported"} => Selector!EquivalentsMeet)
<1> DEFINE Chosen == phase \in {"select", "accept", "report", "reported"}
<1>1. DiagnosisInv => (Chosen => Selector!EquivalentsMeet)
  <2> SUFFICES ASSUME DiagnosisInv, Chosen,
                      NEW n \in DOMAIN findings, NEW m \in DOMAIN findings,
                      Selector!Contests(n) \cap Selector!Contests(m) # {}
               PROVE  Selector!Contests(n) = Selector!Contests(m)
    BY DEF Selector!EquivalentsMeet
  <2>1. Placed
    BY FindingsArePlaced DEF DiagnosisInv
  <2>2. ASSUME NEW k \in DOMAIN findings
        PROVE  Selector!Contests(k) \subseteq DOMAIN findings[k].at
    <3> SUFFICES ASSUME NEW e \in Selector!Contests(k) PROVE e \in DOMAIN findings[k].at
      OBVIOUS
    <3>1. e \in Branches /\ k \in Selector!Candidates(e)
      BY DEF Selector!Contests, Selector!Earliest, Selector!Leaves
    <3>2. Selector!AttachedBranch(k, e) # {}
      BY <3>1 DEF Selector!Candidates
    <3>3. Selector!AttachedBranch(k, e) \subseteq {e} \cap DOMAIN findings[k].at
      BY <3>1 DEF Selector!AttachedBranch
    <3> QED
      BY <3>2, <3>3
  <2>3. PICK e \in Selector!Contests(n) \cap Selector!Contests(m) : TRUE
    OBVIOUS
  <2>4. DOMAIN findings[n].at = {e} /\ DOMAIN findings[m].at = {e}
    BY <2>1, <2>2, <2>3 DEF Placed
  <2> QED
    BY <2>2, <2>3, <2>4
<1> QED
  BY <1>1, DiagnosisInvariant, PTL

\* On every branch each attempt, or the absence of one, has each of the five checks.
THEOREM ChecksAccountedFor == Spec => []ChecksNeverDisappear
<1>1. DiagnosisInv => ChecksNeverDisappear
  <2> SUFFICES ASSUME DiagnosisInv, phase # "assemble" PROVE ChecksNeverDisappear
    BY DEF ChecksNeverDisappear
  <2>1. FactsOK /\ executions = AllRuns
    BY DEF DiagnosisInv
  <2> QED
    BY <2>1, ChecksComplete DEF ChecksNeverDisappear, Check
<1> QED
  BY <1>1, DiagnosisInvariant, PTL
====
