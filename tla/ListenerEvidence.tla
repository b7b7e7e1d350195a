---- MODULE ListenerEvidence ----
(***************************************************************************)
(* The evidence contract of listener absence (model/listener_absence.go):  *)
(* when a visibility assessment v of a run r is complete for its scope,    *)
(* when that proves that no listener matches a port, and which issue the   *)
(* validators report otherwise.  The listener rule and the validators use  *)
(* the same operators.                                                     *)
(*                                                                         *)
(* A bucket is a namespace entity, an address family and a binding; the    *)
(* protocol is always TCP.  r has entities, vantages and observations by   *)
(* ID and the coherence window; an observation of no kind named here is    *)
(* "OTHER", and every observation has a vantage.                           *)
(***************************************************************************)
EXTENDS Integers, Sequences, FiniteSets

Basis(r, v) == {r.observations[v.basis[i]] : i \in DOMAIN v.basis}
OfKind(kind, S) == {o \in S : o.kind = kind}

Coherent(r, o, v) ==
    /\ r.window >= 0
    /\ o.at - v.at <= r.window /\ v.at - o.at <= r.window

NamespaceMatchesVantage(r, v) ==
    /\ v.bucket[1] \in DOMAIN r.entities /\ v.vantage \in DOMAIN r.vantages
    /\ r.entities[v.bucket[1]].kind = "NETWORK_NAMESPACE"
    /\ r.vantages[v.vantage].kind = "HOST_NAMESPACE"
    /\ r.vantages[v.vantage].inode = r.entities[v.bucket[1]].inode

\* A result is about the whole scope, an entry about a port in it.
ResultMatches(o, v) ==
    o.bucket = v.bucket /\ o.ports[1] <= v.ports[1] /\ v.ports[2] <= o.ports[2]
EntryMatches(o, v) ==
    o.bucket = v.bucket /\ v.ports[1] <= o.ports[1] /\ o.ports[1] <= v.ports[2]

Fits(o, v) ==
    \/ o.kind = "RESULT" /\ ResultMatches(o, v)
    \/ o.kind = "ENTRY" /\ EntryMatches(o, v)
    \/ o.kind = "OWNERSHIP" /\ v.ownershipRequired

IsListener(r, id) == id \in DOMAIN r.entities /\ r.entities[id].kind = "LISTENER"

\* Where the scope asks for owners: every counted listener is listed and owned, and
\* an empty inventory has no owners at all.
OwnershipProved(r, v) ==
    LET result == CHOOSE o \in OfKind("RESULT", Basis(r, v)) : TRUE
        listed == {o.listener : o \in OfKind("ENTRY", Basis(r, v))}
        owned == OfKind("OWNERSHIP", Basis(r, v))
    IN  IF result.count = 0 THEN owned = {}
        ELSE /\ result.ports = v.ports
             /\ \A id \in listed : IsListener(r, id)
             /\ Cardinality(listed) = result.count
             /\ \A o \in owned : o.owned /\ o.listener \in listed
             /\ listed = {o.listener : o \in owned}

\* ListenerVisibilityComplete.
VisibilityComplete(r, v) ==
    /\ v.level = "COMPLETE_FOR_SCOPE" /\ v.basis # <<>> /\ ~v.limited
    /\ v.ports[1] <= v.ports[2]
    /\ NamespaceMatchesVantage(r, v)
    /\ \A i, j \in DOMAIN v.basis : v.basis[i] = v.basis[j] => i = j
    /\ \A i \in DOMAIN v.basis : v.basis[i] \in DOMAIN r.observations
    /\ \A o \in Basis(r, v) :
         o.vantage = v.vantage /\ ~o.limited /\ Coherent(r, o, v) /\ Fits(o, v)
    /\ OfKind("RESULT", Basis(r, v)) # {}
    /\ \A o, p \in OfKind("RESULT", Basis(r, v)) : o.ports = p.ports /\ o.count = p.count
    /\ v.ownershipRequired => OwnershipProved(r, v)

\* What would contradict an absence at the port, in the basis or outside it.
Contradicts(o, v, port) ==
    /\ o.bucket = v.bucket
    /\ \/ o.kind = "ENTRY" /\ o.ports[1] = port
       \/ o.kind = "RESULT" /\ o.count # 0 /\ o.ports[1] >= port /\ o.ports[2] <= port

\* ListenerAbsenceEvidenceValid.
AbsenceValid(r, v, port) ==
    /\ VisibilityComplete(r, v)
    /\ v.ports[1] <= port /\ port <= v.ports[2]
    /\ \A o \in OfKind("RESULT", Basis(r, v)) : o.count = 0
    /\ \A id \in DOMAIN r.observations :
         LET o == r.observations[id]
         IN  o.vantage = v.vantage /\ Coherent(r, o, v) => ~Contradicts(o, v, port)

\* listenerVisibilityBasisIssueCode: the first result of the same vantage that does
\* not do decides, unless there is no such result.
BasisIssue(r, v) ==
    LET results == {i \in DOMAIN v.basis :
                      /\ v.basis[i] \in DOMAIN r.observations
                      /\ r.observations[v.basis[i]].kind = "RESULT"}
        here == {i \in results : r.observations[v.basis[i]].vantage = v.vantage}
        mismatched == {i \in here : ~ResultMatches(r.observations[v.basis[i]], v)}
        unusable == {i \in here : \/ r.observations[v.basis[i]].limited
                                  \/ ~Coherent(r, r.observations[v.basis[i]], v)}
        bad == mismatched \cup unusable
    IN  IF results = {} THEN "INSUFFICIENT"
        ELSE IF here = {} THEN "VANTAGE_MISMATCH"
        ELSE IF bad = {} THEN "NONE"
        ELSE IF \E i \in mismatched : \A j \in bad : i <= j THEN "SCOPE_MISMATCH"
        ELSE "INSUFFICIENT"

\* Mutant: only the basis is looked at for what contradicts the absence.
AbsenceIssueOfBasis(r, v, port) ==
    IF port < v.ports[1] \/ v.ports[2] < port THEN "SCOPE_MISMATCH"
    ELSE IF BasisIssue(r, v) \in {"VANTAGE_MISMATCH", "SCOPE_MISMATCH"} THEN BasisIssue(r, v)
    ELSE IF ~VisibilityComplete(r, v) \/ \E o \in OfKind("RESULT", Basis(r, v)) : o.count # 0
         THEN "INSUFFICIENT" ELSE "NONE"

\* ListenerAbsenceEvidenceIssueCode, which repeats the conditions of
\* ListenerAbsenceEvidenceValid in its own order.
AbsenceIssue(r, v, port) ==
    IF port < v.ports[1] \/ v.ports[2] < port THEN "SCOPE_MISMATCH"
    ELSE IF BasisIssue(r, v) \in {"VANTAGE_MISMATCH", "SCOPE_MISMATCH"} THEN BasisIssue(r, v)
    ELSE IF \/ ~VisibilityComplete(r, v)
            \/ \E o \in OfKind("RESULT", Basis(r, v)) : o.count # 0
            \/ ~AbsenceValid(r, v, port)
         THEN "INSUFFICIENT" ELSE "NONE"

\* validateVisibility: v is accepted, complete or not.
VisibilityAccepted(r, v) ==
    /\ v.vantage \in DOMAIN r.vantages /\ v.bucket[1] \in DOMAIN r.entities
    /\ v.ports[1] <= v.ports[2]
    /\ \A i \in DOMAIN v.basis :
         /\ v.basis[i] \in DOMAIN r.observations
         /\ r.observations[v.basis[i]].vantage = v.vantage
    /\ v.level = "COMPLETE_FOR_SCOPE" =>
         /\ v.basis # <<>>
         /\ BasisIssue(r, v) \notin {"VANTAGE_MISMATCH", "SCOPE_MISMATCH"}
         /\ VisibilityComplete(r, v)
====
