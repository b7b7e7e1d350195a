---- MODULE LocalDiagnosisProofs ----
(***************************************************************************)
(* Proofs about routedoc local: what its scan of procfs may be relied on   *)
(* for, for any number of sockets, processes and descriptors and any host  *)
(* that changes while it is read.                                          *)
(***************************************************************************)
EXTENDS LocalDiagnosis, FiniteSetTheorems, WellFoundedInduction, TLAPS

----
(***************************************************************************)
(* The scan keeps its types.                                               *)
(***************************************************************************)

\* What the host does is no step of the scan, and leaves the histories typed.
LEMMA HostTyped ==
    ASSUME ScanTypeOK, Host
    PROVE  /\ UNCHANGED <<bound, pc, table, visit, owned, faults>>
           /\ ScanTypeOK'
<1> USE ScanAssumption
<1>1. /\ UNCHANGED <<bound, pc, table, visit, owned, faults>>
      /\ events' = events + 1 /\ events + faults < MaxUpsets /\ Witness
  BY DEF Host, Bind, Share, Close, Exit, Start, Change
<1>2. events' \in 0..MaxUpsets /\ faults' \in 0..MaxUpsets
  BY <1>1 DEF ScanTypeOK
<1>3. /\ life' \in [Inode -> {"new", "open", "closed"}]
      /\ fds' \in [Pid -> [Fd -> Inode \cup {Free, File}]]
      /\ alive' \in [Pid -> BOOLEAN] /\ inc' \in [Pid -> Nat]
  <2>1. ASSUME NEW i \in Inode, Bind(i) PROVE <1>3
    <3>1. CASE UNCHANGED fds
      BY <2>1, <3>1 DEF Bind, ScanTypeOK
    <3>2. CASE \E p \in Pid, s \in Fd : fds' = [fds EXCEPT ![p][s] = i]
      BY <2>1, <3>2 DEF Bind, ScanTypeOK
    <3> QED
      BY <2>1, <3>1, <3>2 DEF Bind
  <2>2. ASSUME NEW i \in Inode, NEW p \in Pid, NEW s \in Fd, Share(i, p, s) PROVE <1>3
    BY <2>2 DEF Share, ScanTypeOK
  <2>3. ASSUME NEW p \in Pid, NEW s \in Fd, Close(p, s) PROVE <1>3
    BY <2>3 DEF Close, Release, ScanTypeOK
  <2>4. ASSUME NEW p \in Pid, Exit(p) PROVE <1>3
    BY <2>4 DEF Exit, Release, ScanTypeOK
  <2>5. ASSUME NEW p \in Pid, Start(p) PROVE <1>3
    BY <2>5 DEF Start, ScanTypeOK
  <2> QED
    BY <2>1, <2>2, <2>3, <2>4, <2>5 DEF Host
<1>4. \A f \in Family : Open(f)' \subseteq Inode
  BY DEF Open
<1>5. span' \in [Family -> [must : SUBSET Inode, may : SUBSET Inode]]
  BY <1>1, <1>4 DEF Witness, ScanTypeOK
<1>6. held' \subseteq Pid \X Nat \X Inode
  BY <1>1, <1>3 DEF Witness, ScanTypeOK
<1>7. steady' \subseteq Pid \X Fd \X Inode
  BY <1>1 DEF Witness, ScanTypeOK
<1> QED
  BY <1>1, <1>2, <1>3, <1>5, <1>6, <1>7 DEF ScanTypeOK, table, visit, owned

\* While descriptors are visited there is a process they are of.
Visiting == pc \in {"descriptor", "name"} => proc \in Pid

\* A read changes nothing of the host, and keeps every type of the scan.
LEMMA ScanTyped ==
    ASSUME ScanTypeOK, Visiting, Scan
    PROVE  UNCHANGED <<host, held, steady>> /\ ScanTypeOK'
<1> USE ScanAssumption DEF host, table, visit, owned, history, Sound, Fault, Return
<1>f. /\ Fault => faults' \in 0..MaxUpsets
      /\ Sound => faults' \in 0..MaxUpsets
  BY DEF ScanTypeOK
<1>1. ASSUME NEW f \in Family, BeginTable(f)
      PROVE  UNCHANGED <<host, held, steady>> /\ ScanTypeOK'
  <2>1. Open(f) \subseteq Inode
    BY DEF Open
  <2> QED
    BY <1>1, <2>1 DEF BeginTable, ScanTypeOK, End, Family
<1>2. ASSUME NEW f \in Family, NEW seen \in SUBSET Inode, EndTable(f, seen)
      PROVE  UNCHANGED <<host, held, steady>> /\ ScanTypeOK'
  <2>1. faults' \in 0..MaxUpsets /\ tableOK' \in [Family -> BOOLEAN]
    BY <1>2, <1>f DEF EndTable, ParseTable, ScanTypeOK
  <2> QED
    BY <1>2, <2>1 DEF EndTable, ScanTypeOK
<1>3. CASE StatNamespace
  BY <1>3, <1>f DEF StatNamespace, ScanTypeOK
<1>4. CASE NothingToOwn
  BY <1>4, <1>f DEF NothingToOwn, ScanTypeOK
<1>5. CASE ListProcesses
  BY <1>5, <1>f DEF ListProcesses, ScanTypeOK
<1>6. CASE ListProcessesFailed
  BY <1>6, <1>f DEF ListProcessesFailed, ScanTypeOK
<1>7. ASSUME NEW p \in Pid, ListDescriptors(p)
      PROVE  UNCHANGED <<host, held, steady>> /\ ScanTypeOK'
  BY <1>7, <1>f DEF ListDescriptors, ScanTypeOK
<1>8. CASE NoProcessLeft
  BY <1>8, <1>f DEF NoProcessLeft, ScanTypeOK
<1>9. ASSUME NEW s \in Fd, ReadLink(s)
      PROVE  UNCHANGED <<host, held, steady>> /\ ScanTypeOK'
  <2>1. Wanted(fds[proc][s]) => fds[proc][s] \in Inode
    BY DEF Wanted, Listeners, ScanTypeOK, Family
  <2> QED
    BY <1>9, <2>1, <1>f DEF ReadLink, ScanTypeOK
<1>10. CASE NoDescriptorLeft
  BY <1>10, <1>f DEF NoDescriptorLeft, ScanTypeOK
<1>11. CASE ReadName
  <2>0. proc \in Pid
    BY <1>11 DEF ReadName, Visiting
  <2>1. PICK name \in Nat, odd \in BOOLEAN :
             owners' = [owners EXCEPT ![found] = [pid |-> proc, name |-> name, odd |-> odd]]
    BY <1>11, <2>0 DEF ReadName, ScanTypeOK
  <2> QED
    BY <1>11, <2>0, <2>1, <1>f DEF ReadName, ScanTypeOK
<1> QED
  BY <1>1, <1>2, <1>3, <1>4, <1>5, <1>6, <1>7, <1>8, <1>9, <1>10, <1>11 DEF Scan

----
(***************************************************************************)
(* Owners.  What OwnersAreHolders needs besides itself: nobody owns before *)
(* the processes are read; whoever holds a socket now is in the history;   *)
(* and the socket whose owner is being named was held by that PID.         *)
(***************************************************************************)
OwnedLate ==
    pc \in {"open4", "read4", "open6", "read6", "namespace", "processes"} =>
        \A i \in Inode : ~Owned(i)
HeldNow ==
    \A p \in Pid, s \in Fd : fds[p][s] \in Inode => <<p, inc[p], fds[p][s]>> \in held
Naming ==
    pc = "name" =>
        /\ found \in Inode /\ found \in Listeners /\ ~Owned(found)
        /\ \E h \in held : h[1] = proc /\ h[2] <= inc[proc] /\ h[3] = found

OwnerInv ==
    /\ ScanTypeOK /\ Visiting
    /\ OwnedLate /\ HeldNow /\ Naming /\ OwnersAreHolders

\* A host that changes disturbs none of it: it only adds to what was ever held.
LEMMA HostKeepsOwners == OwnerInv /\ Host => OwnerInv'
<1> SUFFICES ASSUME OwnerInv, Host PROVE OwnerInv'
  OBVIOUS
<1> USE DEF OwnerInv
<1>1. ScanTypeOK' /\ UNCHANGED <<bound, pc, table, visit, owned, faults>>
  BY HostTyped
<1>2. Witness /\ held \subseteq held'
  BY DEF Host, Bind, Share, Close, Exit, Start, Change, Witness
<1>3. \A p \in Pid : inc[p] \in Nat /\ inc'[p] \in Nat /\ inc[p] <= inc'[p]
  <2>1. \A p \in Pid : inc[p] \in Nat
    BY DEF ScanTypeOK
  <2>2. CASE UNCHANGED inc
    BY <2>1, <2>2
  <2>3. ASSUME NEW q \in Pid, inc' = [inc EXCEPT ![q] = @ + 1] PROVE <1>3
    BY <2>1, <2>3 DEF ScanTypeOK
  <2> QED
    BY <2>2, <2>3 DEF Host, Bind, Share, Close, Exit, Start
<1>4. HeldNow'
  <2> SUFFICES ASSUME NEW p \in Pid, NEW s \in Fd, fds'[p][s] \in Inode
               PROVE  <<p, inc'[p], fds'[p][s]>> \in held'
    BY DEF HeldNow
  <2> DEFINE h == <<p, inc'[p], fds'[p][s]>>
  <2>1. h \in Pid \X {inc'[q] : q \in Pid} \X Inode
    OBVIOUS
  <2> QED
    BY <1>2, <2>1 DEF Witness
<1>5. Listeners' = Listeners /\ \A i \in Inode : Owned(i)' = Owned(i)
  BY <1>1 DEF table, owned, Listeners, Owned
<1>6. Visiting' /\ OwnedLate'
  BY <1>1, <1>5 DEF visit, Visiting, OwnedLate
<1>7. Naming'
  <2> SUFFICES ASSUME pc = "name" PROVE Naming'
    BY <1>1 DEF Naming
  <2>1. proc \in Pid /\ proc' = proc /\ found' = found
    BY <1>1 DEF Visiting, visit
  <2>2. PICK h \in held : h[1] = proc /\ h[2] <= inc[proc] /\ h[3] = found
    BY DEF Naming
  <2>3. h \in held' /\ h[2] <= inc'[proc]
    BY <1>2, <1>3, <2>1, <2>2 DEF ScanTypeOK
  <2> QED
    BY <2>1, <2>2, <2>3, <1>5 DEF Naming
<1>8. OwnersAreHolders'
  BY <1>1, <1>2, <1>5 DEF OwnersAreHolders, owned
<1> QED
  BY <1>1, <1>4, <1>6, <1>7, <1>8

\* Only the reading of a link finds a socket, and only the reading of a name gives it
\* an owner.
LEMMA ScanKeepsOwners == OwnerInv /\ Scan => OwnerInv'
<1> SUFFICES ASSUME OwnerInv, Scan PROVE OwnerInv'
  OBVIOUS
<1> USE DEF OwnerInv
<1>1. ScanTypeOK' /\ UNCHANGED <<fds, alive, inc, held>>
  BY ScanTyped DEF host
<1>2. HeldNow'
  BY <1>1 DEF HeldNow
<1>3. ASSUME NEW f \in Family,
             BeginTable(f) \/ \E seen \in SUBSET Inode : EndTable(f, seen)
      PROVE  OwnerInv'
  <2>1. /\ pc \in {"open4", "read4", "open6", "read6"} /\ UNCHANGED owners
        /\ pc' \in {"read4", "open6", "read6", "namespace"}
    BY <1>3 DEF BeginTable, EndTable, Begin, End, owned, Family
  <2>2. \A i \in Inode : ~Owned(i) /\ ~Owned(i)'
    BY <2>1 DEF OwnedLate, Owned
  <2> QED
    BY <1>1, <1>2, <2>1, <2>2 DEF Visiting, OwnedLate, Naming, OwnersAreHolders
<1>4. CASE UNCHANGED <<table, owners>> /\ pc' # "name"
  <2>1. Listeners' = Listeners /\ \A i \in Inode : Owned(i)' = Owned(i)
    BY <1>4 DEF table, Listeners, Owned
  <2>2. OwnersAreHolders' /\ Naming'
    BY <1>1, <1>4, <2>1 DEF OwnersAreHolders, Naming
  <2>3. OwnedLate'
    <3>1. pc' \in {"open4", "read4", "open6", "read6", "namespace", "processes"} =>
            pc \in {"open4", "read4", "open6", "read6", "namespace", "processes"}
      BY <1>4 DEF Scan, BeginTable, EndTable, StatNamespace, NothingToOwn, ListProcesses,
                  ListProcessesFailed, ListDescriptors, NoProcessLeft, ReadLink,
                  NoDescriptorLeft, ReadName, Begin, End, Return
    <3> QED
      BY <2>1, <3>1 DEF OwnedLate
  <2>4. Visiting'
    BY <1>4 DEF Scan, BeginTable, EndTable, StatNamespace, NothingToOwn, ListProcesses,
                ListProcessesFailed, ListDescriptors, NoProcessLeft, ReadLink,
                NoDescriptorLeft, ReadName, Begin, End, Return, Family, Visiting, visit
  <2> QED
    BY <1>1, <1>2, <2>2, <2>3, <2>4
<1>5. CASE StatNamespace
  <2>1. UNCHANGED <<rows, owners>> /\ pc = "namespace" /\ pc' = "processes"
    BY <1>5 DEF StatNamespace, owned
  <2>2. Listeners' = Listeners /\ \A i \in Inode : Owned(i)' = Owned(i)
    BY <2>1 DEF Listeners, Owned
  <2> QED
    BY <1>1, <1>2, <2>1, <2>2 DEF Visiting, OwnedLate, Naming, OwnersAreHolders
<1>6. ASSUME NEW s \in Fd, ReadLink(s), pc' = "name"
      PROVE  OwnerInv'
  <2>1. /\ UNCHANGED <<table, proc, owners>> /\ pc = "descriptor" /\ s \in Fd
        /\ found' = fds[proc][s] /\ Wanted(fds[proc][s])
    BY <1>6 DEF ReadLink
  <2>2. /\ Listeners' = Listeners /\ \A i \in Inode : Owned(i)' = Owned(i)
        /\ Listeners \subseteq Inode
    BY <2>1 DEF table, Listeners, Owned, ScanTypeOK, Family
  <2>3. proc \in Pid /\ fds[proc][s] \in Inode /\ ~Owned(fds[proc][s])
    BY <2>1, <2>2 DEF Visiting, Wanted, Owned
  <2>4. <<proc, inc[proc], fds[proc][s]>> \in held /\ inc[proc] \in Nat
    BY <2>3 DEF HeldNow, ScanTypeOK
  <2>5. Naming'
    BY <1>1, <2>1, <2>2, <2>3, <2>4 DEF Naming, Wanted
  <2> QED
    BY <1>1, <1>2, <1>6, <2>1, <2>2, <2>3, <2>5 DEF Visiting, OwnedLate, OwnersAreHolders
<1>7. CASE ReadName
  <2>1. PICK name \in {0, inc[proc]}, odd \in BOOLEAN :
           owners' = [owners EXCEPT ![found] = [pid |-> proc, name |-> name, odd |-> odd]]
    BY <1>7 DEF ReadName
  <2>2. /\ pc = "name" /\ pc' = "descriptor" /\ UNCHANGED <<table, visit>>
        /\ proc \in Pid /\ proc # 0 /\ found \in Inode /\ found \in Listeners
    BY <1>7, ScanAssumption DEF ReadName, Visiting, Naming
  <2>3. Listeners' = Listeners
    BY <2>2 DEF table, Listeners
  <2>4. PICK h \in held : h[1] = proc /\ h[2] <= inc[proc] /\ h[3] = found
    BY <2>2 DEF Naming
  <2>5. \A i \in Inode \ {found} : owners'[i] = owners[i]
    BY <2>1 DEF ScanTypeOK
  <2>6. owners'[found] = [pid |-> proc, name |-> name, odd |-> odd]
    BY <2>1, <2>2 DEF ScanTypeOK
  <2>7. OwnersAreHolders'
    <3> SUFFICES ASSUME NEW i \in Inode, Owned(i)'
                 PROVE  /\ i \in Listeners
                        /\ \E g \in held :
                             /\ g[1] = owners'[i].pid /\ g[3] = i
                             /\ owners'[i].name # 0 => g[2] <= owners'[i].name
      BY <1>1, <2>3 DEF OwnersAreHolders
    <3>1. CASE i = found
      BY <3>1, <2>2, <2>4, <2>6
    <3>2. CASE i # found
      BY <3>2, <2>5 DEF OwnersAreHolders, Owned
    <3> QED
      BY <3>1, <3>2
  <2> QED
    BY <1>1, <1>2, <2>2, <2>7 DEF Visiting, OwnedLate, Naming, visit
<1> QED
  BY <1>3, <1>4, <1>5, <1>6, <1>7
  DEF Scan, NothingToOwn, ListProcesses, ListProcessesFailed, ListDescriptors, NoProcessLeft,
      ReadLink, NoDescriptorLeft, Return, owned

\* Before the first read nothing is attributed.
LEMMA InitOwners == Init => OwnerInv
<1> SUFFICES ASSUME Init PROVE OwnerInv
  OBVIOUS
<1> USE ScanAssumption
<1>1. inc \in [Pid -> Nat]
  BY DEF Init, InitScan, InitHost
<1>2. fds \in [Pid -> [Fd -> Inode \cup {Free, File}]]
  BY DEF Init, InitScan, InitHost
<1>3. ScanTypeOK
  <2>1. owners \in [Inode -> [pid : Pid \cup {0}, name : Nat, odd : BOOLEAN]]
    BY DEF Init, InitScan, Nobody
  <2>2. span \in [Family -> [must : SUBSET Inode, may : SUBSET Inode]]
    BY DEF Init, InitScan
  <2>3. held \subseteq Pid \X Nat \X Inode /\ steady \subseteq Pid \X Fd \X Inode
    BY DEF Init, InitScan
  <2>4. /\ life \in [Inode -> {"new", "open", "closed"}] /\ bound \in [Inode -> BindAddr]
        /\ alive \in [Pid -> BOOLEAN]
    BY DEF Init, InitScan, InitHost
  <2>5. rows \in [Family -> SUBSET Inode] /\ tableOK \in [Family -> BOOLEAN]
    BY DEF Init, InitScan
  <2>6. /\ events \in 0..MaxUpsets /\ faults \in 0..MaxUpsets
        /\ pc = "open4" /\ queue = {} /\ slots = {} /\ proc = 0 /\ found = 0
    BY DEF Init, InitScan, InitHost
  <2>7. nsOK \in BOOLEAN /\ complete \in BOOLEAN
    BY ZenonT(20) DEF Init, InitScan
  <2> QED
    BY <1>1, <1>2, <2>1, <2>2, <2>3, <2>4, <2>5, <2>6, <2>7 DEF ScanTypeOK
<1>4. HeldNow
  <2> SUFFICES ASSUME NEW p \in Pid, NEW s \in Fd, fds[p][s] \in Inode
               PROVE  <<p, inc[p], fds[p][s]>> \in held
    BY DEF HeldNow
  <2>1. fds[p][s] # Free
    BY DEF Free
  <2>2. inc[p] = 1
    BY <2>1 DEF Init, InitScan, InitHost
  <2> QED
    BY <2>2 DEF Init, InitScan
<1>5. pc = "open4" /\ \A i \in Inode : ~Owned(i)
  BY DEF Owned, Nobody, Init, InitScan
<1> QED
  BY <1>3, <1>4, <1>5 DEF OwnerInv, Visiting, OwnedLate, Naming, OwnersAreHolders

\* The probe and the evaluation leave the scan alone.
LEMMA LaterSteps ==
    ASSUME [Next]_vars
    PROVE  Host \/ Scan \/ UNCHANGED scanVars
BY DEF Next, HostStep, ScanStep, Probe, Evaluate, Finished, vars

\* No step of the command breaks what is known of the owners.
LEMMA OwnersKept == OwnerInv /\ [Next]_vars => OwnerInv'
<1> SUFFICES ASSUME OwnerInv, UNCHANGED scanVars PROVE OwnerInv'
  BY HostKeepsOwners, ScanKeepsOwners, LaterSteps
<1> QED
  BY DEF OwnerInv, scanVars, host, table, visit, owned, history, ScanTypeOK, Visiting,
         OwnedLate, HeldNow, Naming, OwnersAreHolders, Owned, Listeners

\* What the scan attributes, over all behaviours of the command.
THEOREM OwnersHeld == Spec => []OwnersAreHolders
<1>1. OwnerInv => OwnersAreHolders
  BY DEF OwnerInv
<1> QED
  BY <1>1, InitOwners, OwnersKept, PTL DEF Spec

----
(***************************************************************************)
(* A complete attribution.  A descriptor that held one listed socket all   *)
(* along is either already accounted for or still on the way of the scan,  *)
(* unless the scan knows that it may have missed it; processes are visited *)
(* in ascending order.                                                     *)
(***************************************************************************)
LivingHold == \A p \in Pid, s \in Fd : fds[p][s] # Free => alive[p]
StillHeld == \A d \in steady : fds[d[1]][d[2]] = d[3]

Ascending ==
    /\ pc \in {"process", "descriptor", "name"} =>
         \A q \in queue : \A i \in Inode : Owned(i) => owners[i].pid < q
    /\ pc \in {"descriptor", "name"} =>
         /\ \A q \in queue : proc < q
         /\ \A i \in Inode : Owned(i) => owners[i].pid <= proc

Accounted(d) == Owned(d[3]) /\ owners[d[3]].pid <= d[1]
ToVisit(d) ==
    \/ pc \in {"process", "descriptor", "name"} /\ d[1] \in queue
    \/ pc \in {"descriptor", "name"} /\ d[1] = proc /\ d[2] \in slots
    \/ pc = "name" /\ d[1] = proc /\ d[3] = found

Unmissed ==
    pc \in {"process", "descriptor", "name", "collected"} /\ complete =>
        \A d \in steady : d[3] \in Listeners => Accounted(d) \/ ToVisit(d)

CompleteInv ==
    /\ OwnerInv
    /\ LivingHold /\ StillHeld /\ Ascending /\ Unmissed

\* Every non-empty set of numbers has a smallest member, which ReadName picks.
LEMMA LeastExists ==
    ASSUME NEW S \in SUBSET Nat, S # {}
    PROVE  Least(S) \in S /\ \A y \in S : Least(S) <= y
<1>1. \E x \in S : \A y \in S : <<y, x>> \notin OpToRel(<, Nat)
  BY NatLessThanWellFounded, WFMin
<1>2. \E x \in S : \A y \in S : x <= y
  <2>1. PICK x \in S : \A y \in S : <<y, x>> \notin OpToRel(<, Nat)
    BY <1>1
  <2>2. \A y \in S : ~(y < x)
    BY <2>1 DEF OpToRel
  <2> QED
    BY <2>2
<1> QED
  BY <1>2 DEF Least

\* The host can only end what is steady, never start it.
LEMMA HostKeepsComplete == CompleteInv /\ Host => CompleteInv'
<1> SUFFICES ASSUME CompleteInv, Host PROVE CompleteInv'
  OBVIOUS
<1> USE DEF CompleteInv
<1>1. OwnerInv' /\ UNCHANGED <<bound, pc, table, visit, owned, faults>>
  BY HostKeepsOwners, HostTyped DEF OwnerInv
<1>2. steady' \subseteq steady /\ StillHeld'
  BY DEF Host, Bind, Share, Close, Exit, Start, Change, Witness, StillHeld
<1>3. LivingHold'
  <2>t. /\ fds \in [Pid -> [Fd -> Inode \cup {Free, File}]] /\ alive \in [Pid -> BOOLEAN]
        /\ ScanTypeOK'
    BY <1>1 DEF OwnerInv, ScanTypeOK
  <2>1. ASSUME NEW i \in Inode, Bind(i) PROVE LivingHold'
    BY <2>1, <2>t DEF Bind, LivingHold
  <2>2. ASSUME NEW i \in Inode, NEW p \in Pid, NEW s \in Fd, Share(i, p, s)
        PROVE  LivingHold'
    BY <2>2, <2>t DEF Share, LivingHold
  <2>3. ASSUME NEW p \in Pid, NEW s \in Fd, Close(p, s) PROVE LivingHold'
    <3>1. fds[p][s] # Free
      BY <2>3, ScanAssumption DEF Close, Free
    <3> QED
      BY <2>3, <2>t, <3>1 DEF Close, LivingHold
  <2>4. ASSUME NEW p \in Pid, Exit(p) PROVE LivingHold'
    BY <2>4, <2>t DEF Exit, LivingHold
  <2>5. ASSUME NEW p \in Pid, Start(p) PROVE LivingHold'
    BY <2>5, <2>t DEF Start, LivingHold
  <2> QED
    BY <2>1, <2>2, <2>3, <2>4, <2>5 DEF Host
<1>4. /\ Listeners' = Listeners
      /\ \A i \in Inode : Owned(i)' = Owned(i)
      /\ \A d : Accounted(d)' = Accounted(d) /\ ToVisit(d)' = ToVisit(d)
  BY <1>1 DEF table, visit, owned, Listeners, Owned, Accounted, ToVisit
<1>5. Ascending' /\ Unmissed'
  BY <1>1, <1>2, <1>4 DEF Ascending, Unmissed, visit, owned
<1> QED
  BY <1>1, <1>2, <1>3, <1>5

\* A read that may have lost something ends completeness; any other one takes what it
\* visits off the way only when it is accounted for.
LEMMA ScanKeepsComplete == CompleteInv /\ Scan => CompleteInv'
<1> SUFFICES ASSUME CompleteInv, Scan PROVE CompleteInv'
  OBVIOUS
<1> USE DEF CompleteInv
<1>1. OwnerInv' /\ UNCHANGED <<fds, alive, steady>>
  BY ScanKeepsOwners, ScanTyped DEF OwnerInv, host
<1>2. LivingHold' /\ StillHeld'
  BY <1>1 DEF LivingHold, StillHeld
<1>3. SUFFICES Ascending' /\ Unmissed'
  BY <1>1, <1>2
<1>t. /\ Pid \subseteq Nat \ {0} /\ queue \subseteq Pid /\ queue' \subseteq Pid
      /\ steady \subseteq Pid \X Fd \X Inode
      /\ \A i \in Inode : owners[i].pid \in Nat
      /\ \A d \in steady : /\ d[1] \in Pid /\ d[2] \in Fd /\ d[3] \in Inode
                           /\ fds[d[1]][d[2]] = d[3] /\ d[3] # Free /\ alive[d[1]]
  <2>1. /\ Inode \subseteq Nat \ {0} /\ Pid \subseteq Nat \ {0}
        /\ queue \subseteq Pid /\ queue' \subseteq Pid /\ steady \subseteq Pid \X Fd \X Inode
    BY <1>1, ScanAssumption DEF OwnerInv, ScanTypeOK
  <2>2. \A i \in Inode : owners[i].pid \in Nat
    <3>1. owners \in [Inode -> [pid : Pid \cup {0}, name : Nat, odd : BOOLEAN]]
      BY DEF OwnerInv, ScanTypeOK
    <3>2. \A i \in Inode : owners[i].pid \in Pid \cup {0}
      BY <3>1
    <3>3. \A p \in Pid \cup {0} : p \in Nat
      BY <2>1
    <3> HIDE DEF CompleteInv
    <3> QED
      BY <3>2, <3>3
  <2>3. ASSUME NEW d \in steady
        PROVE  /\ d[1] \in Pid /\ d[2] \in Fd /\ d[3] \in Inode
               /\ fds[d[1]][d[2]] = d[3] /\ d[3] # Free /\ alive[d[1]]
    BY <2>1 DEF StillHeld, LivingHold, Free
  <2> QED
    BY <2>1, <2>2, <2>3
<1>4. ASSUME pc' \notin {"process", "descriptor", "name", "collected"}
      PROVE  Ascending' /\ Unmissed'
  BY <1>4 DEF Ascending, Unmissed
<1>5. ASSUME NEW f \in Family,
             BeginTable(f) \/ \E seen \in SUBSET Inode : EndTable(f, seen)
      PROVE  Ascending' /\ Unmissed'
  BY <1>4, <1>5 DEF BeginTable, EndTable, End, Family
<1>6. CASE StatNamespace
  BY <1>4, <1>6 DEF StatNamespace
<1>7. ASSUME UNCHANGED <<table, owners>>
      PROVE  /\ Listeners' = Listeners
             /\ \A i \in Inode : Owned(i)' = Owned(i) /\ owners'[i] = owners[i]
             /\ \A d \in steady : Accounted(d)' = Accounted(d)
  BY <1>7 DEF table, Listeners, Owned, Accounted
<1>8. CASE NothingToOwn
  BY <1>7, <1>8 DEF NothingToOwn, Return, owned, Ascending, Unmissed
<1>9. CASE ListProcessesFailed
  BY <1>9 DEF ListProcessesFailed, Return, Ascending, Unmissed
<1>10. CASE ListProcesses
  <2>1. UNCHANGED <<table, owners>> /\ pc' = "process" /\ \A i \in Inode : ~Owned(i)
    BY <1>10 DEF ListProcesses, OwnerInv, OwnedLate
  <2>2. Ascending'
    BY <1>7, <2>1 DEF Ascending
  <2>3. complete' => queue' = {p \in Pid : alive[p]}
    BY <1>10 DEF ListProcesses
  <2>4. Unmissed'
    BY <1>1, <1>t, <2>1, <2>3 DEF Unmissed, ToVisit
  <2> QED
    BY <2>2, <2>4
<1>11. ASSUME NEW p \in Pid, ListDescriptors(p)
       PROVE  Ascending' /\ Unmissed'
  <2>1. /\ pc = "process" /\ UNCHANGED <<table, found, owners>>
        /\ queue' = queue \ {p}
        /\ p \in queue /\ \A q \in queue : p <= q
    BY <1>11, <1>t, LeastExists DEF ListDescriptors, owned
  <2>2. \/ pc' = "descriptor" /\ proc' = p
        \/ pc' = "process" /\ complete' = FALSE
    BY <1>11, <2>1 DEF ListDescriptors
  <2>3. \A i \in Inode : Owned(i) => \A q \in queue : owners[i].pid < q
    BY <2>1 DEF Ascending
  <2>4. Ascending'
    BY <1>7, <1>t, <2>1, <2>2, <2>3 DEF Ascending
  <2>5. complete' => /\ complete /\ pc' = "descriptor" /\ proc' = p
                     /\ slots' = {s \in Fd : fds[p][s] # Free}
    BY <1>11, <2>2 DEF ListDescriptors
  <2>6. Unmissed'
    <3> SUFFICES ASSUME complete', NEW d \in steady, d[3] \in Listeners
                 PROVE  Accounted(d) \/ ToVisit(d)'
      BY <1>1, <1>7, <2>1 DEF Unmissed
    <3>1. Accounted(d) \/ d[1] \in queue
      BY <2>1, <2>5 DEF Unmissed, ToVisit
    <3> QED
      BY <1>t, <2>1, <2>5, <3>1 DEF ToVisit
  <2> QED
    BY <2>4, <2>6
<1>12. CASE NoProcessLeft
  <2>1. /\ pc = "process" /\ queue = {} /\ pc' = "collected"
        /\ UNCHANGED <<table, owners, complete>>
    BY <1>12 DEF NoProcessLeft, Return
  <2> QED
    BY <1>1, <1>7, <2>1 DEF Ascending, Unmissed, ToVisit
<1>13. ASSUME NEW s \in Fd, ReadLink(s)
       PROVE  Ascending' /\ Unmissed'
  <2>1. /\ pc = "descriptor" /\ slots' = slots \ {s}
        /\ UNCHANGED <<table, queue, proc, owners>>
        /\ pc' \in {"descriptor", "name"}
    BY <1>13 DEF ReadLink
  <2>2. Ascending'
    BY <1>7, <2>1 DEF Ascending
  <2>3. complete' =>
          /\ complete
          /\ \/ ~Wanted(fds[proc][s]) /\ pc' = "descriptor"
             \/ pc' = "name" /\ found' = fds[proc][s]
    BY <1>13, <2>1 DEF ReadLink
  <2>4. Unmissed'
    <3> SUFFICES ASSUME complete', NEW d \in steady, d[3] \in Listeners
                 PROVE  Accounted(d) \/ ToVisit(d)'
      BY <1>1, <1>7, <2>1 DEF Unmissed
    <3>1. Accounted(d) \/ ToVisit(d)
      BY <2>1, <2>3 DEF Unmissed
    <3>2. CASE d[1] = proc /\ d[2] = s
      <4>1. d[3] = fds[proc][s]
        BY <1>t, <3>2
      <4>2. ~Wanted(fds[proc][s]) => Accounted(d)
        BY <1>t, <2>1, <3>2, <4>1 DEF Wanted, Owned, Accounted, Ascending
      <4> QED
        BY <2>1, <2>3, <3>2, <4>1, <4>2 DEF ToVisit
    <3>3. CASE ~(d[1] = proc /\ d[2] = s)
      BY <2>1, <3>1, <3>3 DEF ToVisit
    <3> QED
      BY <3>2, <3>3
  <2> QED
    BY <2>2, <2>4
<1>14. CASE NoDescriptorLeft
  <2>1. /\ pc = "descriptor" /\ slots = {} /\ pc' = "process"
        /\ UNCHANGED <<table, queue, owners, complete>>
    BY <1>14 DEF NoDescriptorLeft, visit, owned
  <2> QED
    BY <1>1, <1>7, <2>1 DEF Ascending, Unmissed, ToVisit
<1>15. CASE ReadName
  <2>1. /\ pc = "name" /\ pc' = "descriptor" /\ UNCHANGED <<table, visit, complete>>
        /\ proc \in Pid /\ found \in Inode /\ ~Owned(found)
    BY <1>15 DEF ReadName, OwnerInv, Visiting, Naming
  <2>2. UNCHANGED <<queue, proc, slots, found>> /\ Listeners' = Listeners
    BY <2>1 DEF visit, table, Listeners
  <2>3. /\ owners'[found].pid = proc
        /\ \A i \in Inode \ {found} : owners'[i] = owners[i]
    BY <1>15, <2>1 DEF ReadName, OwnerInv, ScanTypeOK
  <2>4. Ascending'
    BY <1>t, <2>1, <2>2, <2>3 DEF Ascending, Owned
  <2>5. Unmissed'
    <3> SUFFICES ASSUME complete, NEW d \in steady, d[3] \in Listeners
                 PROVE  Accounted(d)' \/ ToVisit(d)'
      BY <1>1, <2>1, <2>2 DEF Unmissed
    <3>1. Accounted(d) \/ ToVisit(d)
      BY <2>1 DEF Unmissed
    <3>2. CASE d[3] = found
      <4>1. d[1] \in queue \/ d[1] = proc
        BY <2>1, <3>1, <3>2 DEF ToVisit, Accounted
      <4>2. proc <= d[1]
        <5>1. proc \in Nat /\ d[1] \in Nat
          BY <1>t, <2>1
        <5>2. \A q \in queue : proc < q
          BY <2>1 DEF Ascending
        <5> QED
          BY <4>1, <5>1, <5>2
      <4> QED
        BY <1>t, <2>1, <2>3, <3>2, <4>2 DEF Accounted, Owned
    <3>3. CASE d[3] # found
      BY <1>t, <2>1, <2>2, <2>3, <3>1, <3>3 DEF Accounted, Owned, ToVisit
    <3> QED
      BY <3>2, <3>3
  <2> QED
    BY <2>4, <2>5
<1> QED
  BY <1>5, <1>6, <1>8, <1>9, <1>10, <1>11, <1>12, <1>13, <1>14, <1>15 DEF Scan

\* What a complete attribution promises, over all behaviours of the command.
THEOREM HoldersFound == Spec => []CompleteFindsHolders
<1>1. Init => CompleteInv
  <2> SUFFICES ASSUME Init PROVE CompleteInv
    OBVIOUS
  <2>1. /\ \A p \in Pid, s \in Fd : fds[p][s] # Free => alive[p]
        /\ \A d \in steady : fds[d[1]][d[2]] = d[3]
        /\ pc = "open4"
    BY DEF Init, InitScan, InitHost
  <2> QED
    BY <2>1, InitOwners DEF CompleteInv, LivingHold, StillHeld, Ascending, Unmissed
<1>2. CompleteInv /\ [Next]_vars => CompleteInv'
  <2> SUFFICES ASSUME CompleteInv, UNCHANGED scanVars PROVE CompleteInv'
    BY HostKeepsComplete, ScanKeepsComplete, LaterSteps
  <2> QED
    BY DEF CompleteInv, scanVars, host, table, visit, owned, history, OwnerInv, ScanTypeOK,
           Visiting, OwnedLate, HeldNow, Naming, OwnersAreHolders, Owned, Listeners,
           LivingHold, StillHeld, Ascending, Unmissed, Accounted, ToVisit
<1>3. CompleteInv => CompleteFindsHolders
  BY DEF CompleteInv, Unmissed, ToVisit, Accounted, CompleteFindsHolders
<1> QED
  BY <1>1, <1>2, <1>3, PTL DEF Spec

----
(***************************************************************************)
(* Absence.  A table counts as complete only after its read, and then it   *)
(* lists every socket that was open throughout; nothing moves once the     *)
(* inventory is collected.                                                 *)
(***************************************************************************)
\* A bucket whose absence the evidence proves: its table was read whole, and no listed
\* socket is in it.
LEMMA AbsentIsEmpty ==
    ASSUME ScanTypeOK, NEW f \in Family, NEW b \in Binding,
           AbsenceValid(LocalEvidence, Visibility(f, b), Port)
    PROVE  Seen(f) /\ \A i \in Inventory : BucketOf(i) # <<Namespace, f, b>>
<1> DEFINE v == Visibility(f, b)
           id == <<"result", f, b>>
           o == ObservationAt(id)
           bucket == <<Namespace, f, b>>
<1>1. VisibilityComplete(LocalEvidence, v)
  BY DEF AbsenceValid
<1>2. v.level = "COMPLETE_FOR_SCOPE"
  BY <1>1 DEF VisibilityComplete
<1>3. Seen(f) /\ v.basis = <<id>>
  BY <1>2 DEF Visibility
<1>4. id \in DOMAIN LocalEvidence.observations /\ LocalEvidence.observations[id] = o
  BY <1>3 DEF LocalEvidence
<1>5. o = Observed("RESULT", bucket, Count(bucket), Namespace, FALSE)
  BY DEF ObservationAt
<1>6. o.kind = "RESULT" /\ o.count = Count(bucket)
  BY <1>5 DEF Observed
<1>7. o \in OfKind("RESULT", Basis(LocalEvidence, v))
  <2>1. 1 \in DOMAIN v.basis /\ v.basis[1] = id
    BY <1>3
  <2>2. o \in Basis(LocalEvidence, v)
    BY <2>1, <1>4 DEF Basis
  <2> QED
    BY <2>2, <1>6 DEF OfKind
<1>8. Count(bucket) = 0
  BY <1>6, <1>7 DEF AbsenceValid
<1>9. {i \in Inventory : BucketOf(i) = bucket} = {}
  <2>1. Inventory \subseteq Inode
    BY DEF Inventory, ScanTypeOK, Family
  <2>2. IsFiniteSet({i \in Inventory : BucketOf(i) = bucket})
    BY <2>1, ScanAssumption, FS_Subset
  <2> QED
    BY <1>8, <2>2, FS_EmptySet DEF Count
<1> QED
  BY <1>3, <1>9

Reading(f) == IF f = "IPv4" THEN {"open4", "read4"} ELSE {"open4", "read4", "open6", "read6"}

TableSeen ==
    \A f \in Family :
        /\ tableOK[f] => pc \notin Reading(f) /\ span[f].must \subseteq rows[f]
        /\ \A i \in span[f].must : FamilyOf(bound[i]) = f
Collected == phase # "scan" => pc = "collected"
Probed == dest \in Targets \cup {{}} /\ server \in [dest -> Inode \cup {Elsewhere}]

\* While the host stands still, a read of a table starts with what is open now; a socket
\* that answered is open and reaches what it answered.
NotBegun(f) == IF f = "IPv4" THEN {"open4"} ELSE {"open4", "read4", "open6"}
OpenSeen ==
    events = 0 => \A f \in Family : pc \notin NotBegun(f) => Open(f) \subseteq span[f].must
Answered ==
    phase # "scan" => \A d \in dest : server[d] # Elsewhere =>
        server[d] \in Inode /\ life[server[d]] = "open" /\ Reaches(bound[server[d]], d)

LocalInv == OwnerInv /\ TableSeen /\ OpenSeen /\ Collected /\ Probed /\ Answered

\* After the scan the tables and what they were read from stand still.
LEMMA NothingMovesLater ==
    ASSUME pc = "collected"
    PROVE  ~Host /\ ~Scan
BY DEF Host, Bind, Share, Close, Exit, Start, Change, Scan, BeginTable, EndTable,
       StatNamespace, NothingToOwn, ListProcesses, ListProcessesFailed, ListDescriptors,
       NoProcessLeft, ReadLink, NoDescriptorLeft, ReadName, Begin, End, Family

\* A socket bound or closed during a read only widens what the table may show.
LEMMA HostKeepsTables == OwnerInv /\ TableSeen /\ Host => TableSeen'
<1> SUFFICES ASSUME OwnerInv, TableSeen, Host PROVE TableSeen'
  OBVIOUS
<1>1. /\ UNCHANGED <<bound, pc, rows, tableOK>> /\ Witness
      /\ span \in [Family -> [must : SUBSET Inode, may : SUBSET Inode]]
  BY DEF Host, Bind, Share, Close, Exit, Start, Change, table, OwnerInv, ScanTypeOK
<1>2. \A f \in Family : span'[f].must \subseteq span[f].must
  BY <1>1 DEF Witness
<1> QED
  BY <1>1, <1>2 DEF TableSeen

\* What ParseTable yields lies between what was open throughout and at some time.
LEMMA ScanKeepsTables == OwnerInv /\ TableSeen /\ Scan => TableSeen'
<1> SUFFICES ASSUME OwnerInv, TableSeen, Scan PROVE TableSeen'
  OBVIOUS
<1>t. /\ span \in [Family -> [must : SUBSET Inode, may : SUBSET Inode]]
      /\ rows \in [Family -> SUBSET Inode] /\ tableOK \in [Family -> BOOLEAN]
      /\ UNCHANGED bound
  BY ScanTyped DEF OwnerInv, ScanTypeOK, host
<1>1. ASSUME NEW f \in Family, BeginTable(f) PROVE TableSeen'
  <2>1. /\ pc = Begin(f) /\ pc' = End(f) /\ UNCHANGED <<rows, tableOK>>
        /\ span'[f].must = Open(f) /\ \A g \in Family \ {f} : span'[g] = span[g]
    BY <1>1, <1>t DEF BeginTable, table
  <2>2. ASSUME NEW g \in Family
        PROVE  /\ tableOK[g] => g # f /\ pc' \notin Reading(g)
               /\ \A i \in span'[g].must : FamilyOf(bound[i]) = g
    BY <2>1 DEF TableSeen, Reading, Begin, End, Family, Open
  <2>3. \A g \in Family : tableOK[g] => span'[g].must \subseteq rows[g]
    BY <2>1, <2>2 DEF TableSeen
  <2> QED
    BY <1>t, <2>1, <2>2, <2>3 DEF TableSeen
<1>2. ASSUME NEW f \in Family, NEW seen \in SUBSET Inode, EndTable(f, seen)
      PROVE  TableSeen'
  <2>1. /\ pc = End(f) /\ pc' = IF f = "IPv6" THEN "namespace" ELSE "open6"
        /\ rows'[f] = seen /\ UNCHANGED span
        /\ \A g \in Family \ {f} : rows'[g] = rows[g] /\ tableOK'[g] = tableOK[g]
        /\ tableOK'[f] => span[f].must \subseteq seen
    BY <1>2, <1>t DEF EndTable, ParseTable, history
  <2>2. \A g \in Family : tableOK'[g] => pc' \notin Reading(g)
    BY <2>1 DEF TableSeen, Reading, End, Family
  <2> QED
    BY <1>t, <2>1, <2>2 DEF TableSeen
<1>3. CASE UNCHANGED <<rows, tableOK, span>> /\ pc' \notin Reading("IPv6")
  BY <1>t, <1>3 DEF TableSeen, Reading
<1> QED
  BY <1>1, <1>2, <1>3
  DEF Scan, StatNamespace, NothingToOwn, ListProcesses, ListProcessesFailed, ListDescriptors,
      NoProcessLeft, ReadLink, NoDescriptorLeft, ReadName, Return, table, history, Reading

\* A table read whole holds the sockets open from its first byte to its last.
LEMMA ScanKeepsOpen == OwnerInv /\ OpenSeen /\ Scan => OpenSeen'
<1> SUFFICES ASSUME OwnerInv, OpenSeen, Scan, events' = 0 PROVE OpenSeen'
  BY DEF OpenSeen
<1>t. /\ span \in [Family -> [must : SUBSET Inode, may : SUBSET Inode]]
      /\ UNCHANGED <<bound, life>> /\ events = 0
  BY ScanTyped DEF OwnerInv, ScanTypeOK, host
<1>1. \A f \in Family : Open(f)' = Open(f)
  BY <1>t DEF Open
<1>2. ASSUME NEW f \in Family, BeginTable(f) PROVE OpenSeen'
  <2>1. /\ pc = Begin(f) /\ pc' = End(f)
        /\ span'[f].must = Open(f) /\ \A g \in Family \ {f} : span'[g] = span[g]
    BY <1>2, <1>t DEF BeginTable
  <2>2. \A g \in Family \ {f} : pc' \notin NotBegun(g) => pc \notin NotBegun(g)
    BY <2>1 DEF NotBegun, Begin, End, Family
  <2> QED
    BY <1>t, <1>1, <2>1, <2>2 DEF OpenSeen
<1>3. CASE UNCHANGED span /\ \A g \in Family : pc' \notin NotBegun(g) => pc \notin NotBegun(g)
  BY <1>t, <1>1, <1>3 DEF OpenSeen
<1>4. ASSUME NEW f \in Family, NEW seen \in SUBSET Inode, EndTable(f, seen)
      PROVE  OpenSeen'
  BY <1>3, <1>4 DEF EndTable, history, NotBegun, End, Family
<1> QED
  BY <1>2, <1>3, <1>4
  DEF Scan, StatNamespace, NothingToOwn, ListProcesses, ListProcessesFailed, ListDescriptors,
      NoProcessLeft, ReadLink, NoDescriptorLeft, ReadName, Return, history, NotBegun

\* The findings of the listener rule are told from those of the TCP rule by number.
LEMMA AbsenceNumbers ==
    /\ \A s \in Family \X Binding : ScopeNumber(s) \in 1..6
    /\ \A s, t \in Family \X Binding : ScopeNumber(s) = ScopeNumber(t) => s = t
BY DEF ScopeNumber, Family, Binding

\* A listener that reaches a destination of its own family covers it.
LEMMA ReachedIsCovered ==
    ASSUME NEW a \in 1..9, NEW d \in {2, 3, 5, 9}, FamilyOf(a) = FamilyOf(d),
           Reaches(a, d)
    PROVE  BindingCovers(a, d)
<1>1. BindingOf(a) \in Binding /\ (BindingOf(a) = "WILDCARD" <=> a \in {1, 4})
  BY DEF BindingOf, Binding
<1>2. BindingOf(a) = "LOOPBACK" => a \in {2, 5}
  BY DEF BindingOf
<1>3. CASE a \in {1, 4}
  BY <1>1, <1>3 DEF BindingCovers
<1>4. CASE a \notin {1, 4}
  <2>1. a = d
    BY <1>4 DEF Reaches, FamilyOf
  <2> QED
    BY <1>1, <1>2, <1>4, <2>1 DEF BindingCovers, Binding
<1> QED
  BY <1>3, <1>4

\* What the rule finds absent, no socket open throughout the read of the table belies.
LEMMA AbsentWasTrue ==
    ASSUME OwnerInv, TableSeen, Probed, NEW s \in Absent(LocalEvidence)
    PROVE  \A i \in span[s[1]].must :
             /\ BindingOf(bound[i]) # s[2]
             /\ \A d \in Destinations(s[1]) : ~Reaches(bound[i], d)
<1>1. /\ s \in Family \X Binding /\ ~HasCompatibleListener(s[1])
      /\ AbsenceValid(LocalEvidence, Visibility(s[1], s[2]), Port)
  BY DEF Absent
<1>2. s[1] \in Family /\ s[2] \in Binding
  BY <1>1
<1>3. /\ tableOK[s[1]]
      /\ \A i \in Inventory : BucketOf(i) # <<Namespace, s[1], s[2]>>
  BY <1>1, <1>2, AbsentIsEmpty DEF OwnerInv, Seen
<1>4. ASSUME NEW i \in span[s[1]].must
      PROVE  i \in Inventory /\ FamilyOf(bound[i]) = s[1] /\ bound[i] \in 1..9
  <2>1. i \in rows[s[1]] /\ FamilyOf(bound[i]) = s[1]
    BY <1>2, <1>3 DEF TableSeen
  <2>2. i \in Inode /\ i \in Inventory
    BY <1>2, <2>1 DEF OwnerInv, ScanTypeOK, Inventory, Family
  <2>3. bound[i] \in BindAddr
    BY <2>2 DEF OwnerInv, ScanTypeOK
  <2> QED
    BY <2>1, <2>2, <2>3, ScanAssumption
<1>5. ASSUME NEW i \in span[s[1]].must PROVE BindingOf(bound[i]) # s[2]
  BY <1>3, <1>4, <1>5 DEF BucketOf
<1>6. ASSUME NEW i \in span[s[1]].must, NEW d \in Destinations(s[1])
      PROVE  ~Reaches(bound[i], d)
  <2>1. d \in {2, 3, 5, 9} /\ FamilyOf(d) = s[1]
    BY TargetAssumption DEF Destinations, Probed
  <2>2. ~BindingCovers(bound[i], d)
    BY <1>1, <1>4 DEF HasCompatibleListener
  <2> QED
    BY <1>4, <2>1, <2>2, ReachedIsCovered
<1> QED
  BY <1>5, <1>6

\* No step of the command breaks the invariant of the scan and its report.
LEMMA LocalKept == LocalInv /\ [Next]_vars => LocalInv'
<1> SUFFICES ASSUME LocalInv, [Next]_vars PROVE LocalInv'
  OBVIOUS
<1> USE DEF LocalInv
<1>1. OwnerInv'
  BY OwnersKept
<1>2. CASE HostStep \/ ScanStep
  <2>1. pc # "collected" /\ phase = "scan" /\ UNCHANGED <<dest, server, phase>>
    BY <1>2, NothingMovesLater DEF HostStep, ScanStep, report, Collected
  <2>2. TableSeen'
    BY <1>2, HostKeepsTables, ScanKeepsTables DEF HostStep, ScanStep
  <2>3. OpenSeen'
    <3>1. CASE HostStep
      <4>1. events' # 0
        <5>1. events' = events + 1
          BY <3>1 DEF HostStep, Host, Bind, Share, Close, Exit, Start, Change
        <5>2. events \in 0..MaxUpsets
          BY DEF OwnerInv, ScanTypeOK
        <5> QED
          BY <5>1, <5>2, ScanAssumption
      <4> QED
        BY <4>1 DEF OpenSeen
    <3>2. CASE ScanStep
      BY <3>2, ScanKeepsOpen DEF ScanStep
    <3> QED
      BY <1>2, <3>1, <3>2
  <2> QED
    BY <1>1, <2>1, <2>2, <2>3 DEF Collected, Probed, Answered
<1>3. ASSUME UNCHANGED scanVars PROVE TableSeen' /\ OpenSeen'
  BY <1>3 DEF scanVars, host, table, history, TableSeen, OpenSeen, Open
<1>4. CASE Probe
  <2>1. /\ phase = "scan" /\ pc = "collected" /\ UNCHANGED scanVars
        /\ dest' \in Targets /\ server' \in [dest' -> Inode \cup {Elsewhere}]
        /\ \A d \in dest' : server'[d] # Elsewhere =>
             life[server'[d]] = "open" /\ Reaches(bound[server'[d]], d)
    BY <1>4 DEF Probe
  <2>2. UNCHANGED <<pc, life, bound>>
    BY <2>1 DEF scanVars, host
  <2>3. Collected' /\ Probed' /\ Answered'
    BY <2>1, <2>2 DEF Collected, Probed, Answered
  <2> QED
    BY <1>1, <1>3, <2>1, <2>3
<1>5. CASE Evaluate
  BY <1>1, <1>3, <1>5 DEF Evaluate, Collected, Probed, Answered, scanVars, host
<1>6. CASE UNCHANGED vars
  BY <1>1, <1>3, <1>6 DEF vars, Collected, Probed, Answered, scanVars, host
<1> QED
  BY <1>2, <1>4, <1>5, <1>6 DEF Next, Finished

\* The invariant over all behaviours of the command.
LEMMA LocalInvariant == Spec => []LocalInv
<1>1. Init => LocalInv
  <2> SUFFICES ASSUME Init PROVE LocalInv
    OBVIOUS
  <2>1. /\ \A f \in Family : tableOK[f] = FALSE /\ span[f].must = {}
        /\ phase = "scan" /\ dest = {} /\ server = <<>> /\ pc = "open4"
    BY DEF Init, InitScan
  <2> QED
    BY <2>1, InitOwners
    DEF LocalInv, TableSeen, OpenSeen, NotBegun, Collected, Probed, Answered
<1> QED
  BY <1>1, LocalKept, PTL DEF Spec

\* A report is made in one step, and is the last thing that happens.
LEMMA ReportedOnce ==
    ASSUME LocalInv, [Next]_vars
    PROVE  phase' \in {"scan", "evaluate"} \/ Evaluate \/ UNCHANGED vars
BY NothingMovesLater DEF LocalInv, Collected, Next, HostStep, ScanStep, Probe, Finished

\* The listener findings of a report name exactly the buckets the rule found absent.
LEMMA FindingsTellAbsences ==
    ASSUME LocalInv, Evaluate, phase' = "reported"
    PROVE  Absences' = Absent(LocalEvidence)
<1>1. findings' = Findings(LocalEvidence)
  BY DEF Evaluate
<1>2. Absences' = {s \in Family \X Binding : ScopeNumber(s) \in DOMAIN findings'}
  BY DEF Absences
<1>3. DOMAIN findings' = {ScopeNumber(s) : s \in Absent(LocalEvidence)}
                           \cup {6 + d : d \in {e \in dest : outcome[e] = "refused"}}
  BY <1>1 DEF Findings
<1>4. \A d \in dest : d \in {2, 3, 5, 9}
  BY TargetAssumption DEF LocalInv, Probed
<1>5. Absent(LocalEvidence) \subseteq Family \X Binding
  BY DEF Absent
<1>6. \A s \in Absences' : s \in Absent(LocalEvidence)
  BY <1>2, <1>3, <1>4, <1>5, AbsenceNumbers
<1> QED
  BY <1>2, <1>3, <1>5, <1>6

\* An inferred absence, and the sentence that nothing listens, were true of the tables
\* they were read from.
THEOREM AbsenceIsTrue == Spec => []AbsenceWasTrue
<1>1. Init => AbsenceWasTrue
  BY DEF Init, AbsenceWasTrue
<1>2. LocalInv /\ AbsenceWasTrue /\ [Next]_vars => AbsenceWasTrue'
  <2> SUFFICES ASSUME LocalInv, AbsenceWasTrue, [Next]_vars PROVE AbsenceWasTrue'
    OBVIOUS
  <2>1. CASE phase' \in {"scan", "evaluate"}
    BY <2>1 DEF AbsenceWasTrue
  <2>2. CASE Evaluate
    <3>1. UNCHANGED <<rows, tableOK, nsOK, bound, span, dest>>
      BY <2>2 DEF Evaluate, scanVars, host, table, history
    <3>2. SUFFICES ASSUME phase' = "reported"
          PROVE  /\ \A s \in Absences' : \A i \in span[s[1]].must :
                      /\ BindingOf(bound[i]) # s[2]
                      /\ \A d \in Destinations(s[1]) : ~Reaches(bound[i], d)
                 /\ Conclusion = "no listener" => \A f \in Family : span[f].must = {}
      BY <3>1 DEF AbsenceWasTrue, Destinations, Conclusion, AllComplete, Seen, Inventory
    <3>3. ASSUME Conclusion = "no listener", NEW f \in Family PROVE span[f].must = {}
      <4>1. Inventory = {} /\ tableOK[f]
        BY <3>3 DEF Conclusion, AllComplete, Seen
      <4>2. span[f].must \subseteq rows[f] /\ rows[f] \subseteq Inventory
        BY <4>1 DEF LocalInv, TableSeen, Inventory, Family
      <4> QED
        BY <4>1, <4>2
    <3> QED
      BY <2>2, <3>2, <3>3, FindingsTellAbsences, AbsentWasTrue DEF LocalInv
  <2>3. CASE UNCHANGED vars
    BY <2>3 DEF vars, scanVars, host, table, history, AbsenceWasTrue, Absences,
                Destinations, Conclusion, AllComplete, Seen, Inventory
  <2> QED
    BY <2>1, <2>2, <2>3, ReportedOnce
<1> QED
  BY <1>1, <1>2, LocalInvariant, PTL DEF Spec

----
(***************************************************************************)
(* The evidence is accepted whatever the scan met.                         *)
(***************************************************************************)

\* Of a table that was read whole, every bucket is complete for its scope.
LEMMA SeenIsComplete ==
    ASSUME NEW f \in Family, NEW b \in Binding, Seen(f)
    PROVE  LET v == Visibility(f, b)
           IN  /\ VisibilityComplete(LocalEvidence, v)
               /\ BasisIssue(LocalEvidence, v) = "NONE"
               /\ \A o \in Basis(LocalEvidence, v) : o = ObservationAt(<<"result", f, b>>)
<1> DEFINE v == Visibility(f, b)
           id == <<"result", f, b>>
           o == ObservationAt(id)
<1>1. /\ v.vantage = "host" /\ v.bucket = <<Namespace, f, b>> /\ v.ports = <<Port, Port>>
      /\ v.level = "COMPLETE_FOR_SCOPE" /\ v.basis = <<id>> /\ v.at = 0
      /\ v.limited = FALSE /\ v.ownershipRequired = FALSE
  BY DEF Visibility
<1>2. id \in DOMAIN LocalEvidence.observations /\ LocalEvidence.observations[id] = o
  BY DEF LocalEvidence
<1>3. /\ o.kind = "RESULT" /\ o.bucket = <<Namespace, f, b>> /\ o.ports = <<Port, Port>>
      /\ o.vantage = "host" /\ o.at = 0 /\ o.limited = FALSE
  BY DEF ObservationAt, Observed
<1>4. DOMAIN v.basis = {1} /\ v.basis[1] = id
  BY <1>1
<1>5. Basis(LocalEvidence, v) = {o}
  BY <1>2, <1>4 DEF Basis
<1>6. NamespaceMatchesVantage(LocalEvidence, v)
  BY <1>1 DEF NamespaceMatchesVantage, LocalEvidence, Seen
<1>7. LocalEvidence.window = 0
  BY DEF LocalEvidence
<1>8. Coherent(LocalEvidence, o, v)
  BY <1>1, <1>3, <1>7 DEF Coherent
<1>9. ResultMatches(o, v)
  BY <1>1, <1>3 DEF ResultMatches, Port
<1>10. OfKind("RESULT", Basis(LocalEvidence, v)) = {o}
  BY <1>3, <1>5 DEF OfKind
<1>11. VisibilityComplete(LocalEvidence, v)
  BY <1>1, <1>2, <1>3, <1>4, <1>5, <1>6, <1>8, <1>9, <1>10 DEF VisibilityComplete, Fits, Port
<1>12. BasisIssue(LocalEvidence, v) = "NONE"
  BY <1>1, <1>2, <1>3, <1>4, <1>8, <1>9 DEF BasisIssue
<1> QED
  BY <1>5, <1>11, <1>12

\* What the scan says of its visibility passes the validators, whatever was read.
LEMMA EvidenceIsAccepted ==
    ASSUME NEW f \in Family, NEW b \in Binding
    PROVE  /\ VisibilityAccepted(LocalEvidence, Visibility(f, b))
           /\ <<"result", f, b>> \in DOMAIN LocalEvidence.observations =>
                NamespaceMatchesVantage(LocalEvidence, Visibility(f, b))
<1> DEFINE v == Visibility(f, b)
<1>1. /\ v.vantage = "host" /\ v.vantage \in DOMAIN LocalEvidence.vantages
      /\ v.bucket[1] \in DOMAIN LocalEvidence.entities /\ v.ports[1] <= v.ports[2]
  BY DEF Visibility, LocalEvidence, Port
<1>2. CASE Seen(f)
  <2>1. /\ VisibilityComplete(LocalEvidence, v) /\ BasisIssue(LocalEvidence, v) = "NONE"
    BY <1>2, SeenIsComplete
  <2>2. VisibilityAccepted(LocalEvidence, v)
    BY <1>1, <2>1 DEF VisibilityAccepted, VisibilityComplete, Basis
  <2> QED
    BY <2>1, <2>2 DEF VisibilityComplete
<1>3. CASE ~Seen(f)
  <2>1. v.basis = <<>> /\ v.level = "PARTIAL"
    BY <1>3 DEF Visibility
  <2>2. <<"result", f, b>> \notin DOMAIN LocalEvidence.observations
    BY <1>3 DEF LocalEvidence
  <2> QED
    BY <1>1, <2>1, <2>2 DEF VisibilityAccepted
<1> QED
  BY <1>2, <1>3

\* Only a process name can cost the report.
THEOREM LostToLabels == Spec => []LostOnlyToLabels
<1>1. Init => LostOnlyToLabels
  BY DEF Init, LostOnlyToLabels
<1>2. LocalInv /\ LostOnlyToLabels /\ [Next]_vars => LostOnlyToLabels'
  <2> SUFFICES ASSUME LocalInv, LostOnlyToLabels, [Next]_vars PROVE LostOnlyToLabels'
    OBVIOUS
  <2>1. CASE phase' \in {"scan", "evaluate"}
    BY <2>1 DEF LostOnlyToLabels
  <2>2. CASE Evaluate
    <3>1. UNCHANGED <<rows, owners>>
      BY <2>2 DEF Evaluate, scanVars, table, owned
    <3>2. ASSUME phase' = "internal_error" PROVE \E i \in Listeners : owners[i].odd
      <4>1. ~EvidenceAccepted(LocalEvidence)
        BY <2>2, <3>2 DEF Evaluate
      <4>2. PICK p \in Processes : LabelledBy(p).odd
        BY <4>1, EvidenceIsAccepted DEF EvidenceAccepted
      <4> DEFINE own == {i \in Inventory : owners[i].pid = p}
      <4>3. own # {}
        BY <4>2 DEF Processes
      <4>4. own \in SUBSET Nat
        BY ScanAssumption DEF LocalInv, OwnerInv, ScanTypeOK, Inventory, Family
      <4>5. Least(own) \in own
        BY <4>3, <4>4, LeastExists
      <4> QED
        BY <4>2, <4>5 DEF LabelledBy, Inventory, Listeners
    <3> QED
      BY <3>1, <3>2 DEF LostOnlyToLabels, Listeners
  <2>3. CASE UNCHANGED vars
    BY <2>3 DEF vars, scanVars, table, owned, LostOnlyToLabels, Listeners
  <2> QED
    BY <2>1, <2>2, <2>3, ReportedOnce
<1> QED
  BY <1>1, <1>2, LocalInvariant, PTL DEF Spec

----
(***************************************************************************)
(* What a report says of one and the same host.                            *)
(***************************************************************************)

\* While the host stands still, a socket that answers a destination whose family is
\* found absent is one of the other family.
LEMMA AnswerBesideAbsence ==
    ASSUME LocalInv, phase # "scan", events = 0, NEW s \in Absent(LocalEvidence), NEW d \in dest,
           server[d] # Elsewhere, FamilyOf(d) = s[1]
    PROVE  s[1] = "IPv4" /\ FamilyOf(bound[server[d]]) = "IPv6"
<1> USE DEF LocalInv
<1> DEFINE a == bound[server[d]]
<1>1. server[d] \in Inode /\ life[server[d]] = "open" /\ Reaches(a, d)
  BY DEF Answered
<1>2. d \in {2, 3, 5, 9} /\ a \in 1..9
  BY <1>1, ScanAssumption, TargetAssumption DEF Probed, OwnerInv, ScanTypeOK
<1>3. s[1] \in Family /\ d \in Destinations(s[1])
  BY DEF Absent, Destinations
<1>4. FamilyOf(a) # s[1]
  <2> SUFFICES ASSUME FamilyOf(a) = s[1] PROVE FALSE
    OBVIOUS
  <2>1. server[d] \in Open(s[1])
    BY <1>1 DEF Open
  <2>2. server[d] \in span[s[1]].must
    BY <1>3, <2>1 DEF OpenSeen, Collected, NotBegun
  <2> QED
    BY <1>1, <1>3, <2>2, AbsentWasTrue
<1>5. FamilyOf(a) = "IPv4" => FamilyOf(d) = "IPv4"
  BY <1>1, <1>2 DEF Reaches, FamilyOf
<1> QED
  BY <1>3, <1>4, <1>5 DEF FamilyOf

\* On a host that stands still, a socket of the namespace answers a destination beside
\* an absence inferred for its family only over IPv4 and from an IPv6 bind, which the
\* other table lists: an IPv6 wildcard or an IPv4-mapped address.
THEOREM OnlyTheOtherTableContradicts == Spec => []ContradictionIsCrossFamily
<1>1. Init => ContradictionIsCrossFamily
  BY DEF Init, ContradictionIsCrossFamily
<1>2. LocalInv /\ ContradictionIsCrossFamily /\ [Next]_vars => ContradictionIsCrossFamily'
  <2> SUFFICES ASSUME LocalInv, ContradictionIsCrossFamily, [Next]_vars
               PROVE  ContradictionIsCrossFamily'
    OBVIOUS
  <2>1. CASE phase' \in {"scan", "evaluate"}
    BY <2>1 DEF ContradictionIsCrossFamily
  <2>2. CASE Evaluate
    <3>1. UNCHANGED <<events, dest, server, bound>> /\ phase # "scan"
      BY <2>2 DEF Evaluate, scanVars, host
    <3> QED
      BY <2>2, <3>1, FindingsTellAbsences, AnswerBesideAbsence DEF ContradictionIsCrossFamily
  <2>3. CASE UNCHANGED vars
    BY <2>3 DEF vars, scanVars, host, ContradictionIsCrossFamily, Absences
  <2> QED
    BY <2>1, <2>2, <2>3, ReportedOnce
<1> QED
  BY <1>1, <1>2, LocalInvariant, PTL DEF Spec

\* With no listener listed, every bucket of a table that was read whole is absent.
LEMMA EmptyIsAbsent ==
    ASSUME Inventory = {}, NEW f \in Family, NEW b \in Binding, Seen(f)
    PROVE  AbsenceValid(LocalEvidence, Visibility(f, b), Port)
<1> DEFINE v == Visibility(f, b)
<1>1. \A bucket : Count(bucket) = 0
  BY FS_EmptySet DEF Count
<1>2. ASSUME NEW id \in DOMAIN LocalEvidence.observations
      PROVE  /\ LocalEvidence.observations[id].kind = "RESULT"
             /\ LocalEvidence.observations[id].count = 0
  <2>1. PICK g \in Family, c \in Binding : id = <<"result", g, c>>
    BY DEF LocalEvidence
  <2>2. LocalEvidence.observations[id] = ObservationAt(id)
    BY DEF LocalEvidence
  <2> QED
    BY <1>1, <2>1, <2>2 DEF ObservationAt, Observed
<1>3. VisibilityComplete(LocalEvidence, v)
  BY SeenIsComplete
<1>4. v.ports = <<Port, Port>> /\ v.basis = <<<<"result", f, b>>>>
  BY DEF Visibility
<1>5. \A o \in Basis(LocalEvidence, v) : o.count = 0
  BY <1>2, <1>3, <1>4 DEF VisibilityComplete, Basis
<1> QED
  BY <1>2, <1>3, <1>4, <1>5 DEF AbsenceValid, OfKind, Contradicts, Port

\* The text of the report against its findings.
THEOREM TextAgrees == Spec => []TextAndFindings
<1>1. Init => TextAndFindings
  BY DEF Init, TextAndFindings
<1>2. LocalInv /\ TextAndFindings /\ [Next]_vars => TextAndFindings'
  <2> SUFFICES ASSUME LocalInv, TextAndFindings, [Next]_vars PROVE TextAndFindings'
    OBVIOUS
  <2>1. CASE phase' \in {"scan", "evaluate"}
    BY <2>1 DEF TextAndFindings
  <2>2. CASE Evaluate
    <3>1. /\ UNCHANGED <<rows, tableOK, nsOK, bound, dest, events, server>>
          /\ phase # "scan"
      BY <2>2 DEF Evaluate, scanVars, host, table
    <3>2. SUFFICES
            ASSUME phase' = "reported"
            PROVE  /\ Conclusion = "no listener" =>
                        Absent(LocalEvidence) = {s \in Family \X Binding : Applies(s[1])}
                   /\ Conclusion = "no conclusion" /\ Absent(LocalEvidence) # {} =>
                        Cardinality({f \in Family : Seen(f)}) = 1
                   /\ Conclusion = "only loopback" /\ events = 0 =>
                        \A d \in dest \ {2, 5} : server[d] = Elsewhere
      BY <2>2, <3>1, FindingsTellAbsences
      DEF TextAndFindings, Conclusion, AllComplete, Seen, Inventory, Applies, Destinations
    <3>3. ASSUME Conclusion = "no listener"
          PROVE  Absent(LocalEvidence) = {s \in Family \X Binding : Applies(s[1])}
      <4>1. Inventory = {} /\ \A f \in Family : Seen(f)
        BY <3>3 DEF Conclusion, AllComplete
      <4>2. \A f : ~HasCompatibleListener(f)
        BY <4>1 DEF HasCompatibleListener
      <4>3. \A s \in Family \X Binding : AbsenceValid(LocalEvidence, Visibility(s[1], s[2]), Port)
        BY <4>1, EmptyIsAbsent
      <4> QED
        BY <4>2, <4>3 DEF Absent
    <3>4. ASSUME Conclusion = "no conclusion", Absent(LocalEvidence) # {}
          PROVE  Cardinality({f \in Family : Seen(f)}) = 1
      <4>1. ~AllComplete
        BY <3>4 DEF Conclusion
      <4>2. PICK s \in Absent(LocalEvidence) : TRUE
        BY <3>4
      <4>3. s[1] \in Family /\ Seen(s[1])
        BY AbsentIsEmpty DEF Absent, LocalInv, OwnerInv
      <4>4. {f \in Family : Seen(f)} = {s[1]}
        BY <4>1, <4>3 DEF AllComplete, Family
      <4> QED
        BY <4>4, FS_Singleton
    <3>5. ASSUME Conclusion = "only loopback", events = 0, NEW d \in dest \ {2, 5},
                 server[d] # Elsewhere
          PROVE  FALSE
      <4> DEFINE i == server[d]
                 a == bound[server[d]]
                 f == FamilyOf(a)
      <4>1. (\A g \in Family : Seen(g)) /\ \A j \in Inventory : BindingOf(bound[j]) = "LOOPBACK"
        BY <3>5 DEF Conclusion, AllComplete
      <4>2. i \in Inode /\ life[i] = "open" /\ Reaches(a, d)
        BY <3>1, <3>5 DEF LocalInv, Answered
      <4>3. d \in {2, 3, 5, 9} /\ a \in 1..9
        BY <4>2, ScanAssumption, TargetAssumption DEF LocalInv, Probed, OwnerInv, ScanTypeOK
      <4>4. a \notin {2, 5}
        <5> HIDE DEF a
        <5>1. a = 2 \/ a = 5 => d = a
          BY <4>2 DEF Reaches
        <5> QED
          BY <3>5, <5>1
      <4>5. f \in Family /\ i \in Open(f)
        BY <4>2 DEF FamilyOf, Family, Open
      <4>6. i \in span[f].must
        BY <3>1, <3>5, <4>5 DEF LocalInv, OpenSeen, Collected, NotBegun
      <4>7. i \in Inventory
        BY <4>1, <4>5, <4>6 DEF LocalInv, TableSeen, Seen, Inventory, Family
      <4> QED
        BY <4>1, <4>3, <4>4, <4>7 DEF BindingOf
    <3> QED
      BY <3>3, <3>4, <3>5
  <2>3. CASE UNCHANGED vars
    BY <2>3 DEF vars, scanVars, host, table, TextAndFindings, Absences, Conclusion, AllComplete,
                Seen, Inventory, Applies, Destinations
  <2> QED
    BY <2>1, <2>2, <2>3, ReportedOnce
<1> QED
  BY <1>1, <1>2, LocalInvariant, PTL DEF Spec

----
(***************************************************************************)
(* The verdict.                                                            *)
(***************************************************************************)
\* The findings of one report: absences stand at no branch, refusals at their own.
OfReport(G) ==
    \A n \in DOMAIN G :
        /\ n \in 1..15
        /\ n <= 6 => DOMAIN G[n].at = {}
        /\ n > 6 => /\ n - 6 \in dest
                    /\ G[n].level = "OBSERVED" /\ G[n].at = [d \in {n - 6} |-> 1]

\* The selection made of a report's findings: a listener finding is never chosen, a
\* refusal is primary on its own branch, and for the run if there is no other.
LEMMA SelectedOfReport ==
    ASSUME NEW G, OfReport(G), NEW n \in DOMAIN G, dest \subseteq Nat
    PROVE  Selector(G)!Selected(n) =
             IF n <= 6 THEN "NONE"
             ELSE IF dest = {n - 6} THEN "GLOBAL_PRIMARY" ELSE "BRANCH_PRIMARY"
<1>0. ASSUME NEW f \in DOMAIN G
      PROVE  /\ f \in Int /\ f - 6 \in Int /\ (f <= 6 \/ f > 6)
             /\ f <= 6 => DOMAIN G[f].at = {}
             /\ f > 6 => /\ f - 6 \in dest /\ G[f].level = "OBSERVED"
                         /\ DOMAIN G[f].at = {f - 6} /\ G[f].at[f - 6] = 1
  <2>1. /\ f \in 1..15
        /\ f <= 6 => DOMAIN G[f].at = {}
        /\ f > 6 => /\ f - 6 \in dest /\ G[f].level = "OBSERVED"
                    /\ G[f].at = [d \in {f - 6} |-> 1]
    BY DEF OfReport
  <2> QED
    BY <2>1
<1>1. Selector(G)!Leaves = dest
  BY DEF Selector!Leaves
<1>2. \A f \in DOMAIN G, leaf \in dest :
        Selector(G)!AttachedBranch(f, leaf) = {leaf} \cap DOMAIN G[f].at
  BY DEF Selector!AttachedBranch
<1>3. ASSUME NEW f \in DOMAIN G
      PROVE  /\ f <= 6 => \A leaf \in dest : Selector(G)!AttachedBranch(f, leaf) = {}
             /\ f > 6 => \A leaf \in dest :
                  Selector(G)!AttachedBranch(f, leaf) = IF leaf = f - 6 THEN {leaf} ELSE {}
             /\ f > 6 => /\ G[f].at[f - 6] = 1 /\ DOMAIN G[f].at = {f - 6}
                         /\ Selector(G)!Eligible(f) /\ f - 6 \in dest
  BY <1>0, <1>2 DEF Selector!Eligible
<1>4. ASSUME NEW leaf \in dest
      PROVE  Selector(G)!Earliest(leaf) = {f \in DOMAIN G : f > 6 /\ f - 6 = leaf}
  <2>1. Selector(G)!Candidates(leaf) = {f \in DOMAIN G : f > 6 /\ f - 6 = leaf}
    BY <1>0, <1>3 DEF Selector!Candidates
  <2>2. \A f, g \in Selector(G)!Candidates(leaf) : f = g
    BY <1>0, <2>1
  <2>3. \A f \in Selector(G)!Candidates(leaf) : Selector(G)!PositionOn(f, leaf) = 1
    BY <1>3, <2>1 DEF Selector!PositionOn
  <2> QED
    BY <2>1, <2>2, <2>3 DEF Selector!Earliest
<1>5. ASSUME NEW f \in DOMAIN G, f > 6
      PROVE  Selector(G)!Primaries(Selector(G)!Earliest(f - 6)) = {f}
  <2>1. Selector(G)!Earliest(f - 6) = {f}
    BY <1>0, <1>3, <1>4, <1>5
  <2>2. ~Selector(G)!Yields(f, {f})
    BY <1>0, <1>5 DEF Selector!Yields
  <2>3. ~(f < f)
    BY <1>0
  <2>4. Selector(G)!Primaries({f}) = {f}
    BY <2>2, <2>3 DEF Selector!Primaries
  <2> QED
    BY <2>1, <2>4
<1>6. \A f \in DOMAIN G : Selector(G)!GlobalPrimaryProof(f) <=> f > 6 /\ dest = {f - 6}
  <2> TAKE f \in DOMAIN G
  <2>1. CASE f <= 6
    BY <1>0, <2>1 DEF Selector!GlobalPrimaryProof
  <2>2. CASE f > 6
    <3>1. /\ DOMAIN G[f].at = {f - 6} /\ G[f].at[f - 6] = 1 /\ f - 6 \in dest
          /\ Selector(G)!Eligible(f)
      BY <1>0, <1>3, <2>2
    <3>2. Selector(G)!GlobalPrimaryProof(f) <=> \A leaf \in dest : f - 6 \in {leaf}
      BY <1>1, <3>1 DEF Selector!GlobalPrimaryProof
    <3> QED
      BY <1>0, <2>2, <3>1, <3>2
  <2> QED
    BY <1>0, <2>1, <2>2
<1>7. CASE n <= 6
  <2>1. n \notin Selector(G)!GlobalCandidates
    BY <1>0, <1>6, <1>7 DEF Selector!GlobalCandidates
  <2>2. {leaf \in Selector(G)!Leaves : n \in Selector(G)!Earliest(leaf)} = {}
    BY <1>0, <1>1, <1>4, <1>7
  <2> QED
    BY <1>7, <2>1, <2>2 DEF Selector!Selected, Selector!AfterLeaves
<1>8. CASE n > 6
  <2>1. CASE dest = {n - 6}
    <3>1. Selector(G)!GlobalCandidates = {n}
      BY <1>0, <1>6, <1>8, <2>1 DEF Selector!GlobalCandidates
    <3> QED
      BY <1>0, <1>8, <2>1, <3>1 DEF Selector!Selected
  <2>2. CASE dest # {n - 6}
    <3>1. n \notin Selector(G)!GlobalCandidates
      BY <1>0, <1>6, <1>8, <2>2 DEF Selector!GlobalCandidates
    <3>2. {leaf \in Selector(G)!Leaves : n \in Selector(G)!Earliest(leaf)} = {n - 6}
      <4>1. n - 6 \in dest
        BY <1>0, <1>8
      <4>2. \A leaf \in dest : n \in Selector(G)!Earliest(leaf) <=> n - 6 = leaf
        BY <1>4, <1>8
      <4> QED
        BY <1>1, <4>1, <4>2
    <3>3. n \in Selector(G)!Primaries(Selector(G)!Earliest(n - 6)) /\ n - 6 \in Int
      BY <1>0, <1>5, <1>8
    <3> QED
      BY <1>0, <1>8, <2>2, <3>1, <3>2, <3>3 DEF Selector!Selected, Selector!AfterLeaves
  <2> QED
    BY <2>1, <2>2
<1> QED
  BY <1>0, <1>7, <1>8

\* The rules give findings of that shape, a refusal for each refused destination.
LEMMA FindingsOfReport ==
    ASSUME LocalInv, NEW evidence
    PROVE  /\ OfReport(Findings(evidence))
           /\ \A d \in dest : outcome[d] = "refused" <=> 6 + d \in DOMAIN Findings(evidence)
<1> DEFINE F == Findings(evidence)
<1>1. \A d \in dest : d \in {2, 3, 5, 9}
  BY TargetAssumption DEF LocalInv, Probed
<1>2. DOMAIN F = {ScopeNumber(s) : s \in Absent(evidence)}
                   \cup {6 + d : d \in {e \in dest : outcome[e] = "refused"}}
  BY DEF Findings
<1>3. \A s \in Absent(evidence) : ScopeNumber(s) \in 1..6
  BY AbsenceNumbers DEF Absent
<1>4. ASSUME NEW n \in DOMAIN F
      PROVE  /\ n \in 1..15
             /\ n <= 6 => F[n].at = AttachedTo
             /\ n > 6 => /\ n - 6 \in dest
                         /\ F[n].level = "OBSERVED" /\ F[n].at = [d \in {n - 6} |-> 1]
  <2>1. n \in 1..6 \/ \E d \in dest : n = 6 + d
    BY <1>2, <1>3
  <2>2. n \in 1..15 /\ (n > 6 => n - 6 \in dest)
    BY <1>1, <2>1
  <2> QED
    BY <2>2 DEF Findings
<1>5. OfReport(F)
  BY <1>4 DEF OfReport, AttachedTo
<1>6. ASSUME NEW d \in dest PROVE outcome[d] = "refused" <=> 6 + d \in DOMAIN F
  BY <1>1, <1>2, <1>3
<1> QED
  BY <1>5, <1>6

\* What a report holds, once it is made.
ReportMade ==
    /\ phase \in {"scan", "evaluate", "reported", "internal_error"}
    /\ outcome \in [dest -> Outcome]
    /\ phase # "reported" => findings = <<>> /\ selection = <<>>
    /\ phase = "reported" =>
         /\ OfReport(findings)
         /\ \A d \in dest : outcome[d] = "refused" <=> 6 + d \in DOMAIN findings
         /\ selection = [n \in DOMAIN findings |->
                           IF n <= 6 THEN "NONE"
                           ELSE IF dest = {n - 6} THEN "GLOBAL_PRIMARY" ELSE "BRANCH_PRIMARY"]

\* What every report consists of, over all behaviours of the command.
LEMMA ReportInvariant == Spec => []ReportMade
<1>1. Init => ReportMade
  BY DEF Init, ReportMade
<1>2. LocalInv /\ ReportMade /\ [Next]_vars => ReportMade'
  <2> SUFFICES ASSUME LocalInv, ReportMade, [Next]_vars PROVE ReportMade'
    OBVIOUS
  <2>1. CASE UNCHANGED <<dest, outcome, phase, findings, selection>>
    BY <2>1 DEF ReportMade, OfReport
  <2>2. CASE Probe
    BY <2>2 DEF Probe, ReportMade
  <2>3. CASE Evaluate
    <3>1. UNCHANGED <<dest, outcome>> /\ phase = "evaluate"
      BY <2>3 DEF Evaluate
    <3>2. CASE phase' = "reported"
      <4> DEFINE F == Findings(LocalEvidence)
      <4>1. findings' = F /\ selection' = [n \in DOMAIN F |-> Selector(F)!Selected(n)]
        BY <2>3, <3>2 DEF Evaluate
      <4>2. dest \subseteq Nat
        BY TargetAssumption DEF LocalInv, Probed
      <4>3. OfReport(F) /\ \A d \in dest : outcome[d] = "refused" <=> 6 + d \in DOMAIN F
        BY FindingsOfReport
      <4>4. selection' = [n \in DOMAIN F |->
                           IF n <= 6 THEN "NONE"
                           ELSE IF dest = {n - 6} THEN "GLOBAL_PRIMARY" ELSE "BRANCH_PRIMARY"]
        BY <4>1, <4>2, <4>3, SelectedOfReport
      <4>5. OfReport(findings)'
        BY <3>1, <4>1, <4>3 DEF OfReport
      <4> QED
        BY <3>1, <3>2, <4>1, <4>3, <4>4, <4>5 DEF ReportMade
    <3>3. CASE phase' # "reported"
      BY <2>3, <3>1, <3>3 DEF Evaluate, ReportMade
    <3> QED
      BY <3>2, <3>3
  <2> QED
    BY <2>1, <2>2, <2>3 DEF Next, HostStep, ScanStep, Finished, report, vars
<1> QED
  BY <1>1, <1>2, LocalInvariant, PTL DEF Spec

\* Type correctness of the scan and of the report made of it.
THEOREM LocalTyped == Spec => []TypeOK
<1>1. LocalInv /\ ReportMade => TypeOK
  <2> SUFFICES ASSUME LocalInv, ReportMade PROVE TypeOK
    OBVIOUS
  <2>1. /\ ScanTypeOK /\ dest \in Targets \cup {{}}
        /\ server \in [dest -> Inode \cup {Elsewhere}]
    BY DEF LocalInv, OwnerInv, Probed
  <2>2. CASE phase = "reported"
    <3>1. ASSUME NEW n \in DOMAIN findings
          PROVE  n \in 1..15 /\ DOMAIN findings[n].at \subseteq dest
      <4>1. /\ n \in 1..15 /\ (n <= 6 => DOMAIN findings[n].at = {})
            /\ n > 6 => n - 6 \in dest /\ findings[n].at = [d \in {n - 6} |-> 1]
        BY <2>2 DEF ReportMade, OfReport
      <4> QED
        BY <4>1
    <3>2. /\ DOMAIN selection = DOMAIN findings
          /\ \A n \in DOMAIN selection :
               selection[n] \in {"NONE", "BRANCH_PRIMARY", "ADDITIONAL", "GLOBAL_PRIMARY"}
      BY <2>2 DEF ReportMade
    <3> QED
      BY <2>1, <3>1, <3>2 DEF ReportMade, TypeOK
  <2>3. CASE phase # "reported"
    BY <2>1, <2>3 DEF ReportMade, TypeOK
  <2> QED
    BY <2>2, <2>3
<1> QED
  BY <1>1, LocalInvariant, ReportInvariant, PTL

\* The listener findings change neither the selection of the client findings nor the
\* status.
THEOREM VerdictIsTheClients == Spec => []LocalKeepsVerdict
<1>1. LocalInv /\ ReportMade => LocalKeepsVerdict
  <2> SUFFICES ASSUME LocalInv, ReportMade, phase = "reported" PROVE LocalKeepsVerdict
    BY DEF LocalKeepsVerdict
  <2> DEFINE client == [n \in DOMAIN findings \cap 7..15 |-> findings[n]]
  <2>0. dest \subseteq Nat /\ \A d \in dest : d \in {2, 3, 5, 9}
    BY TargetAssumption DEF LocalInv, Probed
  <2>1. OfReport(findings) /\ OfReport(client)
    BY DEF ReportMade, OfReport
  <2>2. ASSUME NEW n \in DOMAIN client PROVE selection[n] = Selector(client)!Selected(n)
    <3>1. n \in DOMAIN findings /\ n \in 7..15
      OBVIOUS
    <3>2. Selector(client)!Selected(n) =
            IF n <= 6 THEN "NONE"
            ELSE IF dest = {n - 6} THEN "GLOBAL_PRIMARY" ELSE "BRANCH_PRIMARY"
      BY <2>0, <2>1, SelectedOfReport
    <3> QED
      BY <3>1, <3>2 DEF ReportMade
  <2>3. Status = "BLOCKED" <=> dest # {} /\ \A d \in dest : outcome[d] = "refused"
    <3>1. \A n \in DOMAIN findings :
            /\ Blocks(n) <=> n > 6
            /\ selection[n] = "GLOBAL_PRIMARY" => n > 6 /\ dest = {n - 6}
            /\ n > 6 => n \in Nat /\ n - 6 \in dest /\ DOMAIN findings[n].at = {n - 6}
            /\ n <= 6 => DOMAIN findings[n].at = {}
      <4> TAKE n \in DOMAIN findings
      <4>1. /\ n \in 1..15 /\ (n <= 6 => DOMAIN findings[n].at = {})
            /\ n > 6 => n - 6 \in dest /\ findings[n].at = [d \in {n - 6} |-> 1]
        BY <2>1 DEF OfReport
      <4>2. selection[n] = IF n <= 6 THEN "NONE"
                           ELSE IF dest = {n - 6} THEN "GLOBAL_PRIMARY" ELSE "BRANCH_PRIMARY"
        BY DEF ReportMade
      <4> QED
        BY <4>1, <4>2 DEF Blocks
    <3>2. ASSUME NEW d \in dest
          PROVE  outcome[d] = "refused" <=>
                   \E n \in DOMAIN findings :
                     Blocks(n) /\ (selection[n] = "GLOBAL_PRIMARY" \/ d \in DOMAIN findings[n].at)
      <4>1. outcome[d] = "refused" <=> 6 + d \in DOMAIN findings
        BY DEF ReportMade
      <4>2. ASSUME 6 + d \in DOMAIN findings
            PROVE  Blocks(6 + d) /\ d \in DOMAIN findings[6 + d].at
        BY <2>0, <3>1, <4>2
      <4>3. ASSUME NEW n \in DOMAIN findings,
                   Blocks(n), selection[n] = "GLOBAL_PRIMARY" \/ d \in DOMAIN findings[n].at
            PROVE  6 + d \in DOMAIN findings
        <5>1. n > 6 /\ n \in Nat /\ d = n - 6
          BY <3>1, <4>3
        <5> QED
          BY <2>0, <5>1
      <4> QED
        BY <4>1, <4>2, <4>3
    <3>3. Status = "BLOCKED" <=>
            /\ ~\E d \in dest : outcome[d] = "answered"
            /\ dest # {} /\ \A d \in dest : outcome[d] = "refused"
      BY <3>2 DEF Status
    <3> QED
      BY <3>3
  <2> QED
    BY <2>2, <2>3 DEF LocalKeepsVerdict
<1> QED
  BY <1>1, LocalInvariant, ReportInvariant, PTL

----
(***************************************************************************)
(* The rule and the validators judge an absence by two functions of the    *)
(* code.  They agree on every run, so that no absence the rule infers is   *)
(* refused, and none is accepted that the rule would not infer.            *)
(***************************************************************************)
THEOREM AbsenceIssueAgrees ==
    ASSUME NEW r, NEW v, NEW port \in Int, v.ports[1] \in Int, v.ports[2] \in Int
    PROVE  AbsenceIssue(r, v, port) = "NONE" <=> AbsenceValid(r, v, port)
<1>1. ASSUME VisibilityComplete(r, v)
      PROVE  BasisIssue(r, v) \notin {"VANTAGE_MISMATCH", "SCOPE_MISMATCH"}
  <2> DEFINE results == {i \in DOMAIN v.basis :
                           /\ v.basis[i] \in DOMAIN r.observations
                           /\ r.observations[v.basis[i]].kind = "RESULT"}
  <2>1. \A i \in results : /\ r.observations[v.basis[i]].vantage = v.vantage
                           /\ ResultMatches(r.observations[v.basis[i]], v)
    BY <1>1 DEF VisibilityComplete, Basis, Fits
  <2>2. results # {}
    BY <1>1 DEF VisibilityComplete, Basis, OfKind
  <2> QED
    BY <2>1, <2>2 DEF BasisIssue
<1>2. AbsenceValid(r, v, port) =>
        /\ VisibilityComplete(r, v)
        /\ v.ports[1] <= port /\ port <= v.ports[2]
        /\ \A o \in OfKind("RESULT", Basis(r, v)) : o.count = 0
  BY DEF AbsenceValid
<1>3. AbsenceValid(r, v, port) => AbsenceIssue(r, v, port) = "NONE"
  BY <1>1, <1>2 DEF AbsenceIssue
<1>4. AbsenceIssue(r, v, port) = "NONE" => AbsenceValid(r, v, port)
  BY DEF AbsenceIssue
<1> QED
  BY <1>3, <1>4
====
