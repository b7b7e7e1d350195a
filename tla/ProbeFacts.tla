---- MODULE ProbeFacts ----
(***************************************************************************)
(* The facts of a client probe (probe.go, transport.go): which addresses   *)
(* are kept and pinned, which connection attempts are made, and what an    *)
(* attempt can leave behind.  ClientProbe collects these facts, Diagnosis  *)
(* turns them into a report.                                               *)
(*                                                                         *)
(* The port of an endpoint is the target's port in every fact, so an       *)
(* address stands for an endpointKey.                                      *)
(***************************************************************************)
EXTENDS Integers, FiniteSets

CONSTANTS
    V4,                      \* IPv4 addresses, as numbers in netip.Addr order
    V6,                      \* IPv6 addresses
    NoAddr,                  \* the zero netip.Addr of a normal dial that failed
    Schemes,                 \* URL schemes the run is tried with
    CertResults,             \* results normalizeVerification can return
    MaxRetainedPerFamily,
    MaxConcurrentStrategies

\* netip.Addr.Compare puts IPv4 below IPv6; the zero Addr is not Is4 and
\* compares below every IPv6 address.
ASSUME AddressAssumption ==
    /\ V4 \subseteq Nat /\ V6 \subseteq Nat /\ NoAddr \in Nat
    /\ IsFiniteSet(V4) /\ IsFiniteSet(V6)
    /\ \A a \in V4 : a < NoAddr
    /\ \A a \in V6 : NoAddr < a

ASSUME ValueAssumption ==
    /\ Schemes \subseteq {"http", "https"}
    /\ "VERIFIED" \in CertResults
    /\ "no_peer" \notin CertResults
    /\ MaxConcurrentStrategies \in Nat

----
\* The normal dial by name, and one dial pinned to an address of each family.
Strategy == {"normal", "pinned4", "pinned6"}
Mode(s) == IF s = "normal" THEN 0 ELSE 1

Addr == V4 \cup V6
Family(s) == IF s = "pinned4" THEN V4 ELSE V6

\* retainAddresses: the numerically smallest addresses of each family.
RetainedOf(family, addresses) ==
    {a \in addresses \cap family :
        Cardinality({b \in addresses \cap family : b < a}) < MaxRetainedPerFamily}
Retained(addresses) == RetainedOf(V4, addresses) \cup RetainedOf(V6, addresses)
Truncated(addresses) == Retained(addresses) # addresses

\* planEndpoints pins the first retained address of each family.
Pinned(s, addresses) ==
    {a \in Retained(addresses) \cap Family(s) :
        \A b \in Retained(addresses) \cap Family(s) : a <= b}

\* The strategies executeTCPStrategies starts, cut to the concurrency bound:
\* the normal dial first, then IPv4, then IPv6.
StrategiesFor(addresses) ==
    LET wanted == {"normal"}
                    \cup {s \in {"pinned4", "pinned6"} :
                            Retained(addresses) \cap Family(s) # {}}
        rank(s) == CASE s = "normal" -> 0 [] s = "pinned4" -> 1 [] OTHER -> 2
    IN  {s \in wanted :
            Cardinality({t \in wanted : rank(t) < rank(s)}) < MaxConcurrentStrategies}

----
NoFact == [outcome |-> "none", endpoint |-> NoAddr]
TcpFact == [outcome : {"none", "accepted", "refused", "timed_out", "failed",
                       "endpoint_unknown"},
            endpoint : Addr \cup {NoAddr}]
NoTls == [result |-> "none", cert |-> "no_peer"]
TlsFact == [result : {"none", "COMPLETED", "FAILED", "TIMED_OUT"},
            cert : CertResults \cup {"no_peer"}]
HttpOutcome == {"none", "response", "redirect", "http_failed", "http_timeout"}
Answered == {"response", "redirect"}

\* The facts of a strategy that was not started, or did not connect.
Unconnected(tcpFact) == [tcp |-> tcpFact, tls |-> NoTls, http |-> "none"]

\* What executeTLS can return: certificates may be known of a failed handshake.
HandshakeFacts ==
    [result : {"COMPLETED"}, cert : CertResults]
        \cup [result : {"FAILED", "TIMED_OUT"}, cert : CertResults \cup {"no_peer"}]

\* What is known of an accepted connection: https asks for HTTP only over a
\* completed handshake with a verified certificate.
ConnectedFacts(scheme, accepted) ==
    IF scheme = "http"
    THEN [tcp : accepted, tls : {NoTls}, http : HttpOutcome \ {"none"}]
    ELSE LET proven == [result |-> "COMPLETED", cert |-> "VERIFIED"]
         IN  [tcp : accepted, tls : {proven}, http : HttpOutcome \ {"none"}]
               \cup [tcp : accepted, tls : HandshakeFacts \ {proven}, http : {"none"}]

\* The endpoint a strategy's fact starts from: the pinned one, or none.
Planned(s, addresses) == IF s = "normal" THEN {NoAddr} ELSE Pinned(s, addresses)
\* The endpoints it may connect to: the normal dial resolves the name again and
\* may reach any address.
Reachable(s, addresses) == IF s = "normal" THEN Addr ELSE Pinned(s, addresses)

\* Every fact an attempt can leave when the name resolves to these addresses.
AttemptFacts(s, scheme, addresses) ==
    IF addresses = {} \/ s \notin StrategiesFor(addresses)
    THEN {Unconnected(NoFact)}
    ELSE {Unconnected(f) :
            f \in [outcome : {"refused", "timed_out", "failed", "endpoint_unknown"},
                   endpoint : Planned(s, addresses)]}
           \cup ConnectedFacts(scheme, [outcome : {"accepted"},
                                        endpoint : Reachable(s, addresses)])
====
