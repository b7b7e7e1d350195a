---- MODULE ProcScan ----
(***************************************************************************)
(* collectWithProcFS (procfs.go): the inventory of the TCP listeners on    *)
(* one port, read from a procfs that changes while it is read.             *)
(*                                                                         *)
(* The reads are steps, and between any two of them the host may bind,     *)
(* share or close a socket, end a process, or start another one under its  *)
(* PID.  Only listeners on the target port are modelled; the other rows    *)
(* and files of /proc matter by their number and their damage alone.       *)
(*                                                                         *)
(* An address is a number, in the order of netip.Addr.Compare within the   *)
(* family: 1 is 0.0.0.0, 2 is 127.0.0.1, 3 any other IPv4 address; 4 is    *)
(* ::, 5 is ::1, 6, 7 and 8 are the IPv4-mapped forms of 1, 2 and 3, which *)
(* net/tcp6 lists and decodeProcAddress does not unmap, and 9 is any other *)
(* IPv6 address.  PIDs are numbers in the order of their names, sockets in *)
(* the order of sortListeners: by address, then by inode.                  *)
(***************************************************************************)
EXTENDS Integers, FiniteSets

CONSTANTS
    Inode,      \* sockets listening on the port, now or later
    Pid,        \* PIDs that may hold one
    Fd,         \* descriptor slots looked at in each process
    BindAddr,   \* addresses the sockets may be bound to
    MaxUpsets   \* bound: changes of the host while it is scanned, and reads that
                \* fail, are cut short or are damaged, together

ASSUME ScanAssumption ==
    /\ Inode \subseteq Nat \ {0} /\ IsFiniteSet(Inode)
    /\ Pid \subseteq Nat \ {0} /\ IsFiniteSet(Pid)
    /\ Fd \subseteq Nat /\ IsFiniteSet(Fd)
    /\ BindAddr \subseteq 1..9
    /\ MaxUpsets \in Nat

VARIABLES
    bound, life,      \* of each socket: its address; new, open or closed
    fds, alive, inc,  \* of each PID: its descriptors, whether a process has it,
                      \* and which one since the scan began
    events,           \* host changes so far
    pc,               \* the next read of the scan
    rows, tableOK,    \* of each family: its Listeners, its TableComplete
    nsOK,             \* NamespaceComplete
    queue, proc, slots,  \* PIDs and descriptors still to visit, and the visited PID
    found,            \* the socket whose owner's name is read next
    owners, complete, \* Attribution
    faults,           \* bad reads so far
    span,             \* history: sockets open throughout, or at some time in, a table's read
    held,             \* history: process p, its incarnation k and the socket it held
    steady            \* history: descriptors that held one socket since the scan began

host == <<bound, life, fds, alive, inc, events>>
table == <<rows, tableOK, nsOK>>
visit == <<queue, proc, slots, found>>
owned == <<owners, complete>>
history == <<span, held, steady>>
scanVars == <<host, pc, table, visit, owned, faults, history>>

----
Family == {"IPv4", "IPv6"}
FamilyOf(a) == IF a <= 3 THEN "IPv4" ELSE "IPv6"
Binding == {"EXACT", "LOOPBACK", "WILDCARD"}
\* bindingFor: 0.0.0.0 and :: are wildcards, 127.0.0.1 and ::1 loopback; an
\* IPv4-mapped address is neither, whatever it maps.
BindingOf(a) == CASE a \in {1, 4} -> "WILDCARD" [] a \in {2, 5} -> "LOOPBACK"
                  [] OTHER -> "EXACT"

Free == 0     \* a descriptor that is not open
File == -1    \* a descriptor of anything but a listener on the port
Nobody == [pid |-> 0, name |-> 0, odd |-> FALSE]

Least(S) == CHOOSE x \in S : \A y \in S : x <= y
Holders(i) == {p \in Pid : \E s \in Fd : fds[p][s] = i}
Open(f) == {i \in Inode : life[i] = "open" /\ FamilyOf(bound[i]) = f}

----
(***************************************************************************)
(* The host.                                                               *)
(***************************************************************************)
Begin(f) == IF f = "IPv4" THEN "open4" ELSE "open6"
End(f) == IF f = "IPv4" THEN "read4" ELSE "read6"

\* What a change of the host leaves to the histories.
Witness ==
    /\ span' = [f \in Family |->
                   IF pc = End(f)
                   THEN [must |-> span[f].must \cap Open(f)', may |-> span[f].may \cup Open(f)']
                   ELSE span[f]]
    /\ held' = held \cup
         {h \in Pid \X {inc'[p] : p \in Pid} \X Inode :
             inc'[h[1]] = h[2] /\ \E s \in Fd : fds'[h[1]][s] = h[3]}
    /\ steady' = {d \in steady : fds'[d[1]][d[2]] = d[3]}

Change ==
    /\ pc # "collected" /\ events + faults < MaxUpsets
    /\ events' = events + 1
    /\ UNCHANGED <<bound, pc, table, visit, owned, faults>>
    /\ Witness

\* A process starts to listen, or a process the scan cannot see does.
Bind(i) ==
    /\ life[i] = "new" /\ life' = [life EXCEPT ![i] = "open"]
    /\ \/ \E p \in Pid, s \in Fd :
            alive[p] /\ fds[p][s] = Free /\ fds' = [fds EXCEPT ![p][s] = i]
       \/ UNCHANGED fds
    /\ UNCHANGED <<alive, inc>> /\ Change

\* A process is given a listening socket that is already open.
Share(i, p, s) ==
    /\ life[i] = "open" /\ alive[p] /\ fds[p][s] = Free
    /\ fds' = [fds EXCEPT ![p][s] = i]
    /\ UNCHANGED <<life, alive, inc>> /\ Change

\* Sockets that nobody visible holds any more are closed, unless others hold them.
Release(dropped) ==
    \E gone \in SUBSET {i \in dropped : life[i] = "open" /\ Holders(i)' = {}} :
        life' = [i \in Inode |-> IF i \in gone THEN "closed" ELSE life[i]]

\* The descriptor is closed, and may at once be used for another file.
Close(p, s) ==
    /\ fds[p][s] \in Inode
    /\ \E new \in {Free, File} : fds' = [fds EXCEPT ![p][s] = new]
    /\ Release({fds[p][s]})
    /\ UNCHANGED <<alive, inc>> /\ Change

Exit(p) ==
    /\ alive[p] /\ alive' = [alive EXCEPT ![p] = FALSE]
    /\ fds' = [fds EXCEPT ![p] = [s \in Fd |-> Free]]
    /\ Release({fds[p][s] : s \in Fd} \cap Inode)
    /\ UNCHANGED inc /\ Change

\* A new process takes the PID: a fork of a visible one has all its descriptors.
Start(p) ==
    /\ ~alive[p] /\ alive' = [alive EXCEPT ![p] = TRUE]
    /\ inc' = [inc EXCEPT ![p] = @ + 1]
    /\ \E parent \in Pid : fds' = [fds EXCEPT ![p] = fds[parent]]
    /\ UNCHANGED life /\ Change

Host ==
    \/ \E i \in Inode : Bind(i)
    \/ \E i \in Inode, p \in Pid, s \in Fd : Share(i, p, s)
    \/ \E p \in Pid, s \in Fd : Close(p, s)
    \/ \E p \in Pid : Exit(p)
    \/ \E p \in Pid : Start(p)

----
(***************************************************************************)
(* The tables.                                                             *)
(***************************************************************************)
Fault == events + faults < MaxUpsets /\ faults' = faults + 1
Sound == UNCHANGED faults

\* The table of a family is read row by row: a socket that is open all the time is
\* seen, one that is open only part of it may be.
BeginTable(f) ==
    /\ pc = Begin(f) /\ pc' = End(f)
    /\ span' = [span EXCEPT ![f] = [must |-> Open(f), may |-> Open(f)]]
    /\ Sound /\ UNCHANGED <<host, table, visit, owned, held, steady>>

\* Mutant: a damaged row is skipped and the table still taken as complete.
ParseTableLenient(f, seen) ==
    \/ /\ span[f].must \subseteq seen /\ seen \subseteq span[f].may
       /\ tableOK' = [tableOK EXCEPT ![f] = TRUE] /\ Sound
    \/ /\ seen \subseteq span[f].may
       /\ tableOK' = [tableOK EXCEPT ![f] = TRUE] /\ Fault

\* parseProcTableWithStatus: rows that do not parse are skipped, and they or the
\* rows lost with them make the table incomplete; a table that cannot be read, or
\* is too long, has no rows at all.
ParseTable(f, seen) ==
    \/ /\ span[f].must \subseteq seen /\ seen \subseteq span[f].may
       /\ tableOK' = [tableOK EXCEPT ![f] = TRUE] /\ Sound
    \/ /\ seen \subseteq span[f].may
       /\ tableOK' = [tableOK EXCEPT ![f] = FALSE] /\ Fault

EndTable(f, seen) ==
    /\ pc = End(f) /\ ParseTable(f, seen)
    /\ rows' = [rows EXCEPT ![f] = seen]
    /\ pc' = IF f = "IPv6" THEN "namespace" ELSE "open6"
    /\ UNCHANGED <<host, nsOK, visit, owned, history>>

StatNamespace ==
    /\ pc = "namespace" /\ pc' = "processes"
    /\ \/ nsOK' = TRUE /\ Sound
       \/ nsOK' = FALSE /\ Fault
    /\ UNCHANGED <<host, rows, tableOK, visit, owned, history>>

----
(***************************************************************************)
(* Attribution (attributeWithProcFS).                                      *)
(***************************************************************************)
Listeners == rows["IPv4"] \cup rows["IPv6"]

Return ==
    /\ pc' = "collected"
    /\ queue' = {} /\ proc' = 0 /\ slots' = {} /\ found' = 0
    /\ UNCHANGED <<host, table, owners, history>>

NothingToOwn ==
    /\ pc = "processes" /\ Listeners = {} /\ complete' = TRUE
    /\ Sound /\ Return

\* The root of procfs is listed: all processes, a part of them (more than
\* maxProcessCount).  Without it nothing is attributed.
ListProcesses ==
    /\ pc = "processes" /\ Listeners # {}
    /\ \/ queue' = {p \in Pid : alive[p]} /\ complete' = TRUE /\ pc' = "process" /\ Sound
       \/ /\ queue' \in SUBSET {p \in Pid : alive[p]}
          /\ complete' = FALSE /\ pc' = "process" /\ Fault
    /\ UNCHANGED <<host, table, proc, slots, found, owners, history>>

ListProcessesFailed ==
    /\ pc = "processes" /\ Listeners # {} /\ complete' = FALSE
    /\ Fault /\ Return

\* The descriptors of the next process: all, a part of them (more than
\* maxFDCount), or an error, always when the process is gone.
ListDescriptors(p) ==
    /\ pc = "process" /\ queue # {} /\ p = Least(queue)
    /\ queue' = queue \ {p}
    /\ \/ /\ alive[p] /\ proc' = p /\ pc' = "descriptor"
          /\ \/ /\ slots' = {s \in Fd : fds[p][s] # Free}
                /\ Sound /\ UNCHANGED complete
             \/ /\ slots' \in SUBSET {s \in Fd : fds[p][s] # Free}
                /\ complete' = FALSE /\ Fault
       \/ /\ IF alive[p] THEN Fault ELSE Sound
          /\ complete' = FALSE /\ UNCHANGED <<pc, proc, slots>>
    /\ UNCHANGED <<host, table, found, owners, history>>

NoProcessLeft ==
    /\ pc = "process" /\ queue = {}
    /\ Sound /\ Return /\ UNCHANGED complete

\* Mutant: a later process takes the socket over.
WantedFromAny(i) == i \in Listeners

\* Mutant: the link is not parsed, any file will do.
WantedFile(i) == i = File \/ (i \in Listeners /\ owners[i].pid = 0)

\* A link to a listed socket that has no owner yet.
Wanted(i) == i \in Listeners /\ owners[i].pid = 0

\* A link that cannot be read, because the descriptor was closed since, makes the
\* attribution incomplete; any other one is skipped.
ReadLink(s) ==
    /\ pc = "descriptor" /\ slots # {} /\ s = Least(slots)
    /\ slots' = slots \ {s}
    /\ LET target == fds[proc][s]
       IN  \/ /\ target # Free /\ ~Wanted(target)
              /\ Sound /\ UNCHANGED <<pc, found, complete>>
           \/ /\ Wanted(target) /\ found' = target /\ pc' = "name"
              /\ Sound /\ UNCHANGED complete
           \/ /\ IF target = Free THEN Sound ELSE Fault
              /\ complete' = FALSE /\ UNCHANGED <<pc, found>>
    /\ UNCHANGED <<host, table, queue, proc, owners, history>>

NoDescriptorLeft ==
    /\ pc = "descriptor" /\ slots = {} /\ pc' = "process"
    /\ Sound /\ UNCHANGED <<host, table, visit, owned, history>>

\* Mutant: names are those of the processes there when the scan began.
ReadNameEarly ==
    /\ pc = "name" /\ pc' = "descriptor"
    /\ owners' = [owners EXCEPT ![found] = [pid |-> proc, name |-> 1, odd |-> FALSE]]
    /\ Sound /\ UNCHANGED <<host, table, visit, complete, history>>

\* The name in comm: of the process that has the PID now, or none, and then
\* "process PID" stands for it.  An odd name passes safeProcessLabel but not
\* validateDisplayLabel.
ReadName ==
    /\ pc = "name" /\ pc' = "descriptor"
    /\ \E name \in IF alive[proc] THEN {0, inc[proc]} ELSE {0}, odd \in BOOLEAN :
          /\ owners' = [owners EXCEPT ![found] = [pid |-> proc, name |-> name, odd |-> odd]]
          /\ odd => name # 0
          /\ IF odd \/ (alive[proc] /\ name = 0) THEN Fault ELSE Sound
    /\ UNCHANGED <<host, table, visit, complete, history>>

Scan ==
    \/ \E f \in Family : BeginTable(f)
    \/ \E f \in Family : \E seen \in SUBSET Inode : EndTable(f, seen)
    \/ StatNamespace \/ NothingToOwn \/ ListProcesses \/ ListProcessesFailed
    \/ \E p \in Pid : ListDescriptors(p)
    \/ NoProcessLeft
    \/ \E s \in Fd : ReadLink(s)
    \/ NoDescriptorLeft \/ ReadName

----
\* Any host: each open socket has any visible holders, or none.
InitHost ==
    /\ bound \in [Inode -> BindAddr]
    /\ \A i, j \in Inode : i <= j => bound[i] <= bound[j]
    /\ life \in [Inode -> {"new", "open"}]
    /\ alive \in [Pid -> BOOLEAN]
    /\ inc = [p \in Pid |-> IF alive[p] THEN 1 ELSE 0]
    /\ fds \in [Pid -> [Fd -> {Free} \cup {i \in Inode : life[i] = "open"}]]
    /\ \A p \in Pid : alive[p] \/ fds[p] = [s \in Fd |-> Free]
    /\ events = 0

InitScan ==
    /\ InitHost
    /\ pc = "open4" /\ nsOK = FALSE
    /\ rows = [f \in Family |-> {}] /\ tableOK = [f \in Family |-> FALSE]
    /\ queue = {} /\ proc = 0 /\ slots = {} /\ found = 0
    /\ owners = [i \in Inode |-> Nobody] /\ complete = FALSE
    /\ faults = 0
    /\ span = [f \in Family |-> [must |-> {}, may |-> {}]]
    /\ held = {h \in Pid \X {1} \X Inode : \E s \in Fd : fds[h[1]][s] = h[3]}
    /\ steady = {d \in Pid \X Fd \X Inode : fds[d[1]][d[2]] = d[3]}

----
(***************************************************************************)
(* Properties                                                              *)
(***************************************************************************)
Owned(i) == owners[i].pid # 0

\* Every variable keeps the shape of the Go value it stands for.
ScanTypeOK ==
    /\ bound \in [Inode -> BindAddr]
    /\ life \in [Inode -> {"new", "open", "closed"}]
    /\ fds \in [Pid -> [Fd -> Inode \cup {Free, File}]]
    /\ alive \in [Pid -> BOOLEAN] /\ inc \in [Pid -> Nat]
    /\ events \in 0..MaxUpsets /\ faults \in 0..MaxUpsets
    /\ pc \in {"open4", "read4", "open6", "read6", "namespace", "processes", "process",
               "descriptor", "name", "collected"}
    /\ rows \in [Family -> SUBSET Inode]
    /\ tableOK \in [Family -> BOOLEAN] /\ nsOK \in BOOLEAN
    /\ queue \subseteq Pid /\ slots \subseteq Fd
    /\ proc \in Pid \cup {0} /\ found \in Inode \cup {0}
    /\ owners \in [Inode -> [pid : Pid \cup {0}, name : Nat, odd : BOOLEAN]]
    /\ complete \in BOOLEAN
    /\ span \in [Family -> [must : SUBSET Inode, may : SUBSET Inode]]
    /\ held \subseteq Pid \X Nat \X Inode
    /\ steady \subseteq Pid \X Fd \X Inode

\* A socket is attributed only to a PID that a holder of it had at some time in the
\* scan, and the name beside it is never the name of an earlier process than that
\* holder: it may be a later one's, that took the PID before comm was read.
OwnersAreHolders ==
    \A i \in Inode : Owned(i) =>
        /\ i \in Listeners
        /\ \E h \in held :
             /\ h[1] = owners[i].pid /\ h[3] = i
             /\ owners[i].name # 0 => h[2] <= owners[i].name

\* What Attribution.Complete, and the AVAILABLE ownership capability made from it, may
\* be relied on for: a listed socket that some process held in one descriptor all
\* along is attributed, and not to a process listed after that one.
CompleteFindsHolders ==
    pc = "collected" /\ complete =>
        \A d \in steady : d[3] \in Listeners => Owned(d[3]) /\ owners[d[3]].pid <= d[1]
====
