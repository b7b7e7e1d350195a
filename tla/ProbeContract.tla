---- MODULE ProbeContract ----
(***************************************************************************)
(* What the client probe promises about its connection attempts, without   *)
(* goroutines, contexts, clocks or sockets: every attempt that is started  *)
(* is settled exactly once and never reopened, no attempt is taken further *)
(* before all of them have connected or failed, HTTP is asked only over a  *)
(* connection the scheme allows, and the run is over only when every       *)
(* attempt is settled.                                                     *)
(***************************************************************************)
CONSTANTS Attempts, Schemes

VARIABLES
    scheme,  \* scheme of the target
    stage,   \* how far each attempt has come
    over     \* the facts have been handed over

vars == <<scheme, stage, over>>

Stages == {"idle", "dialing", "unreachable", "connected", "distrusted",
           "trusted", "answered", "unanswered"}

Init ==
    /\ scheme \in Schemes
    /\ stage = [a \in Attempts |-> "idle"]
    /\ over = FALSE

Settled(a) ==
    stage[a] \in {"idle", "unreachable", "distrusted", "answered", "unanswered"}

Move(a, from, to) ==
    /\ stage[a] = from
    /\ stage' = [stage EXCEPT ![a] = to]
    /\ UNCHANGED <<scheme, over>>

\* All attempts of a run start together.
Start ==
    /\ ~over
    /\ \A a \in Attempts : stage[a] = "idle"
    /\ \E started \in SUBSET Attempts :
         stage' = [a \in Attempts |-> IF a \in started THEN "dialing" ELSE "idle"]
    /\ UNCHANGED <<scheme, over>>

Connect(a) == \E to \in {"connected", "unreachable"} : Move(a, "dialing", to)

AllDialed == \A a \in Attempts : stage[a] # "dialing"

Trust(a) ==
    /\ scheme = "https" /\ AllDialed
    /\ \E to \in {"trusted", "distrusted"} : Move(a, "connected", to)

Ask(a) ==
    /\ AllDialed
    /\ \E to \in {"answered", "unanswered"} :
         Move(a, IF scheme = "https" THEN "trusted" ELSE "connected", to)

Finish ==
    /\ \A a \in Attempts : Settled(a)
    /\ over' = TRUE
    /\ UNCHANGED <<scheme, stage>>

Next ==
    \/ Start
    \/ \E a \in Attempts : Connect(a) \/ Trust(a) \/ Ask(a)
    \/ Finish

Spec == Init /\ [][Next]_vars
====
