---- MODULE MCSelection ----
(* Three branches in every forest they can form, the second one edge long. *)
EXTENDS Selection

Edges == [b \in Branch |-> IF b = 2 THEN 1 ELSE 2]
====
