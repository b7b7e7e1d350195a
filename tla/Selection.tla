---- MODULE Selection ----
(***************************************************************************)
(* Choosing the primary blockers of an evaluated run: selection.Apply      *)
(* (internal/selection/selection.go), which rules.Evaluate calls once the  *)
(* findings exist, and model.ValidateSelection, which judges its result.   *)
(*                                                                         *)
(* Apply visits the leaf branches one after the other in ID order and      *)
(* overwrites the Selection field of findings as it goes, so a finding     *)
(* attached to several leaves is decided several times; then one more pass *)
(* over all findings looks for a global primary.  One action here is one   *)
(* iteration of the leaf loop, or the global pass.                         *)
(*                                                                         *)
(* A finding is a number: the numbers are in the order of lessFinding      *)
(* (rule ID, then finding ID).  Findings with one statement value are the  *)
(* ones sameStatement equates.  A finding that is no BLOCKER is treated by *)
(* the code as a suspected one is: level "SUSPECTED" stands for both.      *)
(***************************************************************************)
EXTENDS Integers, FiniteSets

CONSTANTS
    Branch,      \* branch IDs, as numbers in ID order
    Finding,     \* finding IDs, as numbers in lessFinding order
    Statement,   \* classes of sameStatement
    EdgeCount,   \* number of ordered edges of each branch
    MaxPosition  \* bound on the path positions findings are tried with

ASSUME SelectionAssumption ==
    /\ Branch \subseteq Nat /\ IsFiniteSet(Branch)
    /\ Finding \subseteq Nat /\ IsFiniteSet(Finding)
    /\ EdgeCount \in [Branch -> Nat]
    /\ MaxPosition \in Nat

VARIABLES
    lineage,    \* branches reached from each branch by its ParentBranchID links
    findings,   \* the findings, without their Selection field
    selection,  \* the Selection field of every finding
    todo,       \* leaves the loop has not visited
    issues,     \* Apply has reported a position outside its branch
    phase       \* what rules.Evaluate is doing

INSTANCE Blockers

vars == <<lineage, findings, selection, todo, issues, phase>>
input == <<lineage, findings>>

\* BranchIDs and PathPositions together: the branches a finding is attached to
\* with a position.
Attachments == UNION {[B -> 0..MaxPosition] : B \in SUBSET Branch}

----
\* The forests validated evidence can have, each as the branches met on the way
\* from a branch, itself included, to its root: a way holds the ways of the
\* branches on it, never returns, and meets one of any set of its branches first.
Forest ==
    {way \in [Branch -> SUBSET Branch] :
        \A b \in Branch :
            /\ b \in way[b]
            /\ \A a \in way[b] : way[a] \subseteq way[b] /\ (b \in way[a] => a = b)
            /\ \A S \in SUBSET way[b] : S # {} => \E a \in S : S \subseteq way[a]}

----
\* Mutant: the findings come with the zero value of Selection, not reset.
InitUnreset ==
    /\ lineage \in Forest
    /\ findings \in
         [Finding -> [level : Level, statement : Statement, at : Attachments]]
    /\ selection = [f \in Finding |-> ""]
    /\ todo = Leaves
    /\ issues = FALSE
    /\ phase = "branches"

Init ==
    /\ lineage \in Forest
    /\ findings \in
         [Finding -> [level : Level, statement : Statement, at : Attachments]]
    /\ selection = [f \in Finding |-> "NONE"]
    /\ todo = Leaves
    /\ issues = FALSE
    /\ phase = "branches"

\* Mutant: the list of selected findings is kept from leaf to leaf.
SelectBranchOnce(leaf) ==
    /\ phase = "branches"
    /\ leaf \in todo
    /\ \A other \in todo : leaf <= other
    /\ LET earliest == Earliest(leaf)
           selected == {g \in Finding : selection[g] = "BRANCH_PRIMARY"}
           primaries == {f \in Primaries(earliest) : ~\E g \in selected : Same(f, g)}
       IN  selection' = [f \in Finding |->
             IF f \in primaries THEN "BRANCH_PRIMARY"
             ELSE IF f \in earliest THEN "ADDITIONAL" ELSE selection[f]]
    /\ issues' = (issues \/ OutOfBranch(leaf))
    /\ todo' = todo \ {leaf}
    /\ UNCHANGED <<input, phase>>

\* One iteration of the leaf loop.
SelectBranch(leaf) ==
    /\ phase = "branches"
    /\ leaf \in todo
    /\ \A other \in todo : leaf <= other
    /\ LET earliest == Earliest(leaf)
           primaries == Primaries(earliest)
       IN  selection' = [f \in Finding |->
             IF f \in primaries THEN "BRANCH_PRIMARY"
             ELSE IF f \in earliest THEN "ADDITIONAL" ELSE selection[f]]
    /\ issues' = (issues \/ OutOfBranch(leaf))
    /\ todo' = todo \ {leaf}
    /\ UNCHANGED <<input, phase>>

\* Mutant: the losing global candidates keep the selection they had.
SelectAllGlobals ==
    /\ phase = "branches"
    /\ todo = {}
    /\ selection' = [f \in Finding |->
         IF f \in GlobalCandidates THEN "GLOBAL_PRIMARY" ELSE selection[f]]
    /\ phase' = "selected"
    /\ UNCHANGED <<input, todo, issues>>

\* The global pass.
SelectGlobal ==
    /\ phase = "branches"
    /\ todo = {}
    /\ LET candidates == GlobalCandidates
       IN  selection' = [f \in Finding |->
             IF f \notin candidates THEN selection[f]
             ELSE IF \A g \in candidates \ {f} : GlobalBefore(f, g)
                  THEN "GLOBAL_PRIMARY" ELSE "ADDITIONAL"]
    /\ phase' = "selected"
    /\ UNCHANGED <<input, todo, issues>>

Globals == {f \in Finding : selection[f] = "GLOBAL_PRIMARY"}

\* What ValidateSelection accepts.
ValidSelection ==
    /\ \A f \in Globals : GlobalPrimaryProof(f)
    /\ Cardinality(Globals) <= 1

\* rules.Evaluate returns Apply's issues, or canonicalizes and validates the run.
Judge ==
    /\ phase = "selected"
    /\ phase' = IF issues THEN "position_refused"
                ELSE IF ValidSelection THEN "accepted" ELSE "selection_refused"
    /\ UNCHANGED <<input, selection, todo, issues>>

Finished ==
    /\ phase \in {"accepted", "position_refused", "selection_refused"}
    /\ UNCHANGED vars

Next == (\E leaf \in Branch : SelectBranch(leaf)) \/ SelectGlobal \/ Judge \/ Finished

Spec == Init /\ [][Next]_vars

----
(***************************************************************************)
(* Properties                                                              *)
(***************************************************************************)
\* Every variable keeps the shape of the Go value it stands for.
TypeOK ==
    /\ lineage \in Forest
    /\ findings \in
         [Finding -> [level : Level, statement : Statement, at : Attachments]]
    /\ selection \in
         [Finding -> {"NONE", "BRANCH_PRIMARY", "ADDITIONAL", "GLOBAL_PRIMARY"}]
    /\ todo \subseteq Branch
    /\ issues \in BOOLEAN
    /\ phase \in {"branches", "selected", "accepted", "position_refused",
                  "selection_refused"}

\* Apply and ValidateSelection agree: the validator, which knows nothing of how
\* the selection was made, never refuses what Apply produced.
NeverRefused == phase # "selection_refused"

\* A global primary really stops every leaf: on each of them it is a candidate
\* blocker itself, so no leaf is explained by a finding of another branch.
GlobalBlocksEveryLeaf ==
    phase = "accepted" =>
        \A f \in Globals, leaf \in Leaves : f \in Candidates(leaf)

\* A branch primary is earned: on some leaf already visited no eligible finding
\* blocks earlier, and no equivalent finding at the same place was observed while
\* this one was only inferred, or comes first in the stable order at its level.
PrimaryEarned ==
    \A f \in Finding :
        selection[f] = "BRANCH_PRIMARY" =>
            \E leaf \in Leaves \ todo :
                /\ f \in Candidates(leaf)
                /\ \A g \in Candidates(leaf) :
                     /\ PositionOn(f, leaf) <= PositionOn(g, leaf)
                     /\ PositionOn(f, leaf) = PositionOn(g, leaf) /\ Same(f, g)
                          /\ f # g => GlobalBefore(f, g)

\* Suspicions stay unselected explanations (architecture.md, section 10), and what
\* Apply selects is never left without a position inside its branch.
OnlyConfirmedSelected ==
    \A f \in Finding :
        selection[f] # "NONE" =>
            /\ findings[f].level # "SUSPECTED"
            /\ \E b \in DOMAIN findings[f].at : findings[f].at[b] < EdgeCount[b]

\* As long as equivalent findings that meet on a leaf meet on all the leaves they
\* compete on, the order in which the leaves are visited does not show: the branch
\* primaries are the ones each leaf names on its own.  A finding of the client probe
\* stands on one flat branch and so meets any equivalent on that branch or nowhere,
\* one bad certificate at two endpoints included (DiagnosisProofs, FindingsMeet).
LeafOrderInvisible ==
    phase = "branches" /\ todo = {} /\ EquivalentsMeet =>
        \A f \in Finding :
            selection[f] = "BRANCH_PRIMARY" <=>
                \E leaf \in Leaves : f \in Primaries(Earliest(leaf))

\* The loop that overwrites as it goes computes the loop-free result Diagnosis
\* relies on: among the leaves a finding contests the last one decides, whatever
\* the leaves before it and the other findings did.
LoopComputesSelected ==
    phase # "branches" => selection = [f \in Finding |-> Selected(f)]

\* Confirmed blockers are selected independently by branch (milestone 0 plan, Task
\* 3): without a global primary, every leaf that has a blocker has a primary.
BranchesIndependent ==
    phase = "accepted" /\ Globals = {} =>
        \A leaf \in Leaves :
            Candidates(leaf) # {} =>
                \E f \in Earliest(leaf) : selection[f] = "BRANCH_PRIMARY"

\* Co-primary blockers that say different things are preserved, and only a single
\* finding before the split becomes global (milestone 0 plan, Task 3): of two that
\* every leaf names for the same place, none is preferred to the other.
CoPrimariesKept ==
    phase = "accepted" /\ Cardinality(Leaves) > 1 =>
        \A f \in Globals, g \in Finding :
            ~Same(f, g) /\ (\A leaf \in Leaves : {f, g} \subseteq Primaries(Earliest(leaf)))
                => selection[g] # "ADDITIONAL"
====
