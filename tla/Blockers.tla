---- MODULE Blockers ----
(***************************************************************************)
(* What selection.Apply and model.GlobalPrimaryProof decide about one set  *)
(* of findings on one set of branches, as pure operators: no loop, no      *)
(* order of visits.  Selection models the loop, Diagnosis uses the result. *)
(*                                                                         *)
(* A finding is a number: the numbers are in the order of lessFinding      *)
(* (rule ID, then finding ID).  Findings with one statement value are the  *)
(* ones sameStatement equates.  A finding that is no BLOCKER is treated by *)
(* the code as a suspected one is: level "SUSPECTED" stands for both.      *)
(***************************************************************************)
EXTENDS Integers, FiniteSets

CONSTANTS
    Branch,     \* branch IDs, as numbers in ID order
    Finding,    \* finding IDs, as numbers in lessFinding order
    EdgeCount,  \* number of ordered edges of each branch
    lineage,    \* branches met from each branch by its ParentBranchID links
    findings    \* level, statement and attachments of each finding

Level == {"OBSERVED", "INFERRED", "SUSPECTED"}

Leaves == {b \in Branch : \A c \in Branch \ {b} : b \notin lineage[c]}

\* Mutant: suspected findings are not excluded.
AnyLevel(f) == findings[f].level \in Level

Eligible(f) == findings[f].level \in {"OBSERVED", "INFERRED"}

Same(f, g) == findings[f].statement = findings[g].statement

\* findingBranchPosition: the nearest branch towards the root that f is
\* attached to; an empty set if there is none.
AttachedBranch(f, leaf) ==
    LET met == lineage[leaf] \cap DOMAIN findings[f].at
    IN  {b \in met : met \subseteq lineage[b]}

PositionOn(f, leaf) ==
    findings[f].at[CHOOSE b \in AttachedBranch(f, leaf) : TRUE]

\* A position at or beyond the end of its branch is an issue, not a candidate.
Candidates(leaf) ==
    {f \in Finding :
        Eligible(f) /\ \E b \in AttachedBranch(f, leaf) : findings[f].at[b] < EdgeCount[b]}
OutOfBranch(leaf) ==
    \E f \in Finding :
        Eligible(f) /\ \E b \in AttachedBranch(f, leaf) : findings[f].at[b] >= EdgeCount[b]

\* Mutant: the candidates are not cut to the earliest position.
AnyPosition(leaf) == Candidates(leaf)

Earliest(leaf) ==
    LET candidates == Candidates(leaf)
    IN  {f \in candidates :
            \A g \in candidates : PositionOn(f, leaf) <= PositionOn(g, leaf)}

\* Among findings at one place, an INFERRED one yields to an OBSERVED one that
\* says the same.
Yields(f, place) ==
    /\ findings[f].level # "OBSERVED"
    /\ \E g \in place : findings[g].level = "OBSERVED" /\ Same(f, g)

\* One finding of each class of equivalent ones: the first that does not yield.
Primaries(place) ==
    {f \in place :
        /\ ~Yields(f, place)
        /\ \A g \in place : g < f /\ Same(f, g) => Yields(g, place)}

\* Mutant: coverage of some leaf is enough.
ProvenForSomeLeaf(f) ==
    /\ Eligible(f)
    /\ \E b \in DOMAIN findings[f].at :
         findings[f].at[b] < EdgeCount[b] /\ \E leaf \in Leaves : b \in lineage[leaf]

\* model.GlobalPrimaryProof: f sits before the split shared by all leaves.
GlobalPrimaryProof(f) ==
    /\ Eligible(f)
    /\ Leaves # {}
    /\ \E b \in DOMAIN findings[f].at :
         findings[f].at[b] < EdgeCount[b] /\ \A leaf \in Leaves : b \in lineage[leaf]

GlobalCandidates == {f \in Finding : GlobalPrimaryProof(f)}

\* The order of the global candidates: OBSERVED before INFERRED, then lessFinding.
GlobalBefore(f, g) ==
    IF findings[f].level # findings[g].level THEN findings[f].level = "OBSERVED"
                                             ELSE f < g

\* The leaves on which a finding competes for primary.
Contests(f) == {leaf \in Leaves : f \in Earliest(leaf)}

\* Equivalent findings that compete on one leaf compete on the same leaves.
EquivalentsMeet ==
    \A f, g \in Finding :
        Same(f, g) /\ Contests(f) \cap Contests(g) # {} => Contests(f) = Contests(g)

\* What the leaf loop leaves behind: the last leaf a finding contests decides.
AfterLeaves(f) ==
    LET contested == {leaf \in Leaves : f \in Earliest(leaf)}
    IN  IF contested = {} THEN "NONE"
        ELSE IF \E last \in contested :
                  f \in Primaries(Earliest(last)) /\ \A leaf \in contested : leaf <= last
             THEN "BRANCH_PRIMARY" ELSE "ADDITIONAL"

\* What selection.Apply answers for f.
Selected(f) ==
    IF f \notin GlobalCandidates THEN AfterLeaves(f)
    ELSE IF \A g \in GlobalCandidates \ {f} : GlobalBefore(f, g)
         THEN "GLOBAL_PRIMARY" ELSE "ADDITIONAL"
====
