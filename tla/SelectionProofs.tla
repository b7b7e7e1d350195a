---- MODULE SelectionProofs ----
(***************************************************************************)
(* Proofs about Selection, for every forest, every set of findings and     *)
(* every number of edges.                                                  *)
(***************************************************************************)
EXTENDS Selection, FiniteSetTheorems, TLAPS

\* One leaf's choice: what is selected there is a candidate, and the primaries are
\* selected.
LEMMA PlaceIsCandidates ==
    ASSUME NEW leaf
    PROVE  /\ Earliest(leaf) \subseteq Candidates(leaf)
           /\ Candidates(leaf) \subseteq Finding
           /\ Primaries(Earliest(leaf)) \subseteq Earliest(leaf)
BY DEF Earliest, Candidates, Primaries

\* What the loop looks at is fixed by the input, which no step changes.
LEMMA InputFixesContest ==
    ASSUME UNCHANGED input
    PROVE  /\ Leaves' = Leaves
           /\ GlobalCandidates' = GlobalCandidates
           /\ \A f, g \in Finding :
                /\ Eligible(f)' = Eligible(f)
                /\ Same(f, g)' = Same(f, g)
                /\ GlobalBefore(f, g)' = GlobalBefore(f, g)
           /\ \A leaf \in Branch :
                /\ Candidates(leaf)' = Candidates(leaf)
                /\ Earliest(leaf)' = Earliest(leaf)
                /\ Primaries(Earliest(leaf))' = Primaries(Earliest(leaf))
                /\ OutOfBranch(leaf)' = OutOfBranch(leaf)
                /\ \A f \in Finding : PositionOn(f, leaf)' = PositionOn(f, leaf)
<1> USE DEF input
<1>1. \A f \in Finding, leaf \in Branch : AttachedBranch(f, leaf)' = AttachedBranch(f, leaf)
  BY DEF AttachedBranch
<1>2. Leaves' = Leaves /\ GlobalCandidates' = GlobalCandidates
  BY DEF Leaves, GlobalCandidates, GlobalPrimaryProof, Eligible
<1>3. \A f, g \in Finding :
         /\ Eligible(f)' = Eligible(f) /\ Same(f, g)' = Same(f, g)
         /\ GlobalBefore(f, g)' = GlobalBefore(f, g)
  BY DEF Eligible, Same, GlobalBefore
<1>4. \A leaf \in Branch :
         Candidates(leaf)' = Candidates(leaf) /\ OutOfBranch(leaf)' = OutOfBranch(leaf)
  BY <1>1 DEF Candidates, OutOfBranch, Eligible
<1>5. \A leaf \in Branch, f \in Finding : PositionOn(f, leaf)' = PositionOn(f, leaf)
  BY <1>1 DEF PositionOn
<1>6. \A leaf \in Branch : Earliest(leaf)' = Earliest(leaf)
  BY <1>4, <1>5, PlaceIsCandidates DEF Earliest
<1>7. \A leaf \in Branch : Primaries(Earliest(leaf))' = Primaries(Earliest(leaf))
  BY <1>6 DEF Primaries, Yields, Same
<1> QED
  BY <1>2, <1>3, <1>4, <1>5, <1>6, <1>7

----
\* Type correctness: every pass leaves each finding with one of the four values of
\* model.Selection, and touches no other field.
THEOREM SelectionTyped == Spec => []TypeOK
<1>1. Init => TypeOK
  BY DEF Init, TypeOK, Leaves
<1>2. TypeOK /\ [Next]_vars => TypeOK'
  <2> SUFFICES ASSUME TypeOK, [Next]_vars
               PROVE  TypeOK'
    OBVIOUS
  <2>1. ASSUME NEW leaf \in Branch, SelectBranch(leaf)
        PROVE  TypeOK'
    BY <2>1 DEF SelectBranch, TypeOK, input
  <2>2. CASE SelectGlobal
    BY <2>2 DEF SelectGlobal, TypeOK, input
  <2>3. CASE Judge
    BY <2>3 DEF Judge, TypeOK, input
  <2>4. CASE UNCHANGED vars
    BY <2>4 DEF vars, TypeOK
  <2> QED
    BY <2>1, <2>2, <2>3, <2>4 DEF Next, Finished
<1> QED
  BY <1>1, <1>2, PTL DEF Spec

----
(***************************************************************************)
(* The global primary.                                                     *)
(***************************************************************************)
\* No global exists before the global pass; after it a global is proven and comes
\* before every other candidate.  The issues reported are the visited leaves'.
GlobalInv ==
    /\ phase = "branches" => Globals = {}
    /\ phase # "branches" => todo = {}
    /\ \A f \in Globals :
         /\ f \in GlobalCandidates
         /\ \A g \in GlobalCandidates \ {f} : GlobalBefore(f, g)
    /\ todo \subseteq Leaves
    /\ ~issues => \A leaf \in Leaves \ todo : ~OutOfBranch(leaf)
    /\ phase = "accepted" => ~issues

\* Two global candidates cannot both come first.
LEMMA GlobalOrderStrict ==
    ASSUME NEW f \in Finding, NEW g \in Finding, f # g,
           GlobalBefore(f, g), GlobalBefore(g, f)
    PROVE  FALSE
BY SelectionAssumption DEF GlobalBefore

LEMMA GlobalInvHolds == Spec => []GlobalInv
<1>1. Init => GlobalInv
  BY DEF Init, GlobalInv, Globals
<1>2. TypeOK /\ GlobalInv /\ [Next]_vars => GlobalInv'
  <2> SUFFICES ASSUME TypeOK, GlobalInv, [Next]_vars
               PROVE  GlobalInv'
    OBVIOUS
  <2>1. ASSUME NEW leaf \in Branch, SelectBranch(leaf)
        PROVE  GlobalInv'
    <3>1. /\ phase = "branches" /\ phase' = "branches" /\ UNCHANGED input
          /\ leaf \in todo /\ todo' = todo \ {leaf}
          /\ issues' = (issues \/ OutOfBranch(leaf))
      BY <2>1 DEF SelectBranch
    <3>2. \A f \in Finding : selection'[f] \in {"BRANCH_PRIMARY", "ADDITIONAL", selection[f]}
      BY <2>1 DEF SelectBranch
    <3>3. Globals' = {}
      BY <3>1, <3>2 DEF GlobalInv, Globals
    <3>4. Leaves' = Leaves /\ \A l \in Branch : OutOfBranch(l)' = OutOfBranch(l)
      BY <3>1, InputFixesContest
    <3>5. Leaves \subseteq Branch
      BY DEF Leaves
    <3> QED
      BY <3>1, <3>3, <3>4, <3>5 DEF GlobalInv, TypeOK
  <2>2. CASE SelectGlobal
    <3>1. /\ phase = "branches" /\ phase' = "selected" /\ UNCHANGED <<input, todo, issues>>
          /\ todo = {}
          /\ \A f \in Finding :
               selection'[f] = "GLOBAL_PRIMARY" /\ selection[f] # "GLOBAL_PRIMARY" =>
                 f \in GlobalCandidates
                 /\ \A g \in GlobalCandidates \ {f} : GlobalBefore(f, g)
      BY <2>2 DEF SelectGlobal
    <3>2. \A f \in Globals' :
            f \in GlobalCandidates /\ \A g \in GlobalCandidates \ {f} : GlobalBefore(f, g)
      BY <3>1 DEF GlobalInv, Globals
    <3>3. /\ Leaves' = Leaves /\ GlobalCandidates' = GlobalCandidates
          /\ \A l \in Branch : OutOfBranch(l)' = OutOfBranch(l)
          /\ \A f, g \in Finding : GlobalBefore(f, g)' = GlobalBefore(f, g)
      BY <3>1, InputFixesContest
    <3>4. Leaves \subseteq Branch /\ GlobalCandidates \subseteq Finding
      BY DEF Leaves, GlobalCandidates
    <3> QED
      BY <3>1, <3>2, <3>3, <3>4 DEF GlobalInv, Globals
  <2>3. CASE Judge \/ UNCHANGED vars
    <3>1. /\ UNCHANGED <<input, selection, todo, issues>>
          /\ phase' = "accepted" => phase = "accepted" \/ ~issues
          /\ phase' = "branches" <=> phase = "branches"
      BY <2>3 DEF Judge, vars, input
    <3>2. /\ Leaves' = Leaves /\ GlobalCandidates' = GlobalCandidates
          /\ \A l \in Branch : OutOfBranch(l)' = OutOfBranch(l)
          /\ \A f, g \in Finding : GlobalBefore(f, g)' = GlobalBefore(f, g)
      BY <3>1, InputFixesContest
    <3>3. Leaves \subseteq Branch /\ GlobalCandidates \subseteq Finding
      BY DEF Leaves, GlobalCandidates
    <3> QED
      BY <3>1, <3>2, <3>3 DEF GlobalInv, Globals
  <2> QED
    BY <2>1, <2>2, <2>3 DEF Next, Finished
<1> QED
  BY <1>1, <1>2, SelectionTyped, PTL DEF Spec

LEMMA AtMostOneGlobal ==
    ASSUME GlobalInv
    PROVE  ValidSelection
<1>1. \A f, g \in Globals : f = g
  BY GlobalOrderStrict DEF GlobalInv, Globals, GlobalCandidates
<1>2. Cardinality(Globals) <= 1
  <2>1. CASE Globals = {}
    BY <2>1, FS_EmptySet
  <2>2. CASE Globals # {}
    <3>1. PICK f : f \in Globals
      BY <2>2
    <3>2. Globals = {f}
      BY <1>1, <3>1
    <3> QED
      BY <3>2, FS_Singleton
  <2> QED
    BY <2>1, <2>2
<1>3. \A f \in Globals : GlobalPrimaryProof(f)
  BY DEF GlobalInv, GlobalCandidates
<1> QED
  BY <1>2, <1>3 DEF ValidSelection

\* The validator never refuses a selection Apply made.
THEOREM SelectionNeverRefused == Spec => []NeverRefused
<1>1. Init => NeverRefused
  BY DEF Init, NeverRefused
<1>2. GlobalInv /\ NeverRefused /\ [Next]_vars => NeverRefused'
  <2> SUFFICES ASSUME GlobalInv, NeverRefused, [Next]_vars
               PROVE  NeverRefused'
    OBVIOUS
  <2>1. CASE Judge
    BY <2>1, AtMostOneGlobal DEF Judge, NeverRefused
  <2>2. ASSUME NEW leaf \in Branch, SelectBranch(leaf)
        PROVE  NeverRefused'
    BY <2>2 DEF SelectBranch, NeverRefused
  <2> QED
    BY <2>1, <2>2 DEF Next, SelectGlobal, Finished, NeverRefused, vars
<1> QED
  BY <1>1, <1>2, GlobalInvHolds, PTL DEF Spec

\* The global primary of an accepted run is a candidate blocker of every leaf.
THEOREM GlobalReachesEveryLeaf == Spec => []GlobalBlocksEveryLeaf
<1>1. TypeOK /\ GlobalInv => GlobalBlocksEveryLeaf
  <2> SUFFICES ASSUME TypeOK, GlobalInv, phase = "accepted",
                      NEW f \in Globals, NEW leaf \in Leaves
               PROVE  f \in Candidates(leaf)
    BY DEF GlobalBlocksEveryLeaf
  <2> DEFINE met == lineage[leaf] \cap DOMAIN findings[f].at
  <2>1. f \in Finding /\ Eligible(f) /\ leaf \in Branch
    BY DEF GlobalInv, Globals, GlobalCandidates, GlobalPrimaryProof, Leaves
  <2>2. met # {}
    BY DEF GlobalInv, GlobalCandidates, GlobalPrimaryProof
  <2>3. PICK b \in met : met \subseteq lineage[b]
    <3>1. \A S \in SUBSET lineage[leaf] : S # {} => \E a \in S : S \subseteq lineage[a]
      BY <2>1 DEF TypeOK, Forest
    <3>2. met \in SUBSET lineage[leaf]
      OBVIOUS
    <3> QED
      BY <2>2, <3>1, <3>2
  <2>4. b \in AttachedBranch(f, leaf)
    BY <2>3 DEF AttachedBranch
  <2>5. ~OutOfBranch(leaf)
    BY DEF GlobalInv
  <2>6. findings[f].at[b] < EdgeCount[b]
    <3>1. b \in Branch
      BY <2>1, <2>3 DEF TypeOK, Forest
    <3>2. findings[f].at[b] \in Nat
      <4>1. findings[f].at \in Attachments
        BY <2>1 DEF TypeOK
      <4>2. PICK B \in SUBSET Branch : findings[f].at \in [B -> 0..MaxPosition]
        BY <4>1 DEF Attachments
      <4>3. b \in B
        BY <2>3, <4>2
      <4>4. findings[f].at[b] \in 0..MaxPosition
        BY <4>2, <4>3
      <4> QED
        BY <4>4, SelectionAssumption
    <3> QED
      BY <2>1, <2>4, <2>5, <3>1, <3>2, SelectionAssumption DEF OutOfBranch
  <2> QED
    BY <2>1, <2>4, <2>6 DEF Candidates
<1> QED
  BY <1>1, SelectionTyped, GlobalInvHolds, PTL

----
(***************************************************************************)
(* The branch primaries.                                                   *)
(***************************************************************************)
\* Two equivalent findings at one place: a primary was observed while the other
\* was inferred, or it comes first.
LEMMA PrimaryBeatsEquivalents ==
    ASSUME TypeOK, NEW leaf \in Branch,
           NEW f \in Primaries(Earliest(leaf)), NEW g \in Earliest(leaf),
           Same(f, g), f # g
    PROVE  GlobalBefore(f, g)
<1>1. f \in Finding /\ g \in Finding /\ f \in Earliest(leaf)
  BY PlaceIsCandidates
<1>2. findings[f].level \in {"OBSERVED", "INFERRED"} /\ findings[g].level \in {"OBSERVED", "INFERRED"}
  BY <1>1 DEF Earliest, Candidates, Eligible
<1>3. ~Yields(f, Earliest(leaf)) /\ (g < f => Yields(g, Earliest(leaf)))
  BY DEF Primaries, Same
<1>4. CASE findings[f].level # findings[g].level
  BY <1>2, <1>3, <1>4 DEF Yields, GlobalBefore
<1>5. CASE findings[f].level = findings[g].level
  <2>1. ~Yields(g, Earliest(leaf))
    BY <1>3, <1>5 DEF Yields, Same
  <2>2. f < g
    BY <1>1, <1>3, <2>1, SelectionAssumption
  <2> QED
    BY <1>5, <2>2 DEF GlobalBefore
<1> QED
  BY <1>4, <1>5

\* f is earned on this leaf.
EarnedOn(f, leaf) ==
    /\ f \in Candidates(leaf)
    /\ \A g \in Candidates(leaf) :
         /\ PositionOn(f, leaf) <= PositionOn(g, leaf)
         /\ PositionOn(f, leaf) = PositionOn(g, leaf) /\ Same(f, g)
              /\ f # g => GlobalBefore(f, g)

LEMMA PrimaryIsEarned ==
    ASSUME TypeOK, NEW leaf \in Branch, NEW f \in Primaries(Earliest(leaf))
    PROVE  EarnedOn(f, leaf)
<1>1. f \in Earliest(leaf)
  BY PlaceIsCandidates
<1>2. f \in Candidates(leaf)
      /\ \A g \in Candidates(leaf) : PositionOn(f, leaf) <= PositionOn(g, leaf)
  BY <1>1 DEF Earliest
<1>3. ASSUME NEW g \in Candidates(leaf), PositionOn(f, leaf) = PositionOn(g, leaf),
             Same(f, g), f # g
      PROVE  GlobalBefore(f, g)
  <2>1. g \in Earliest(leaf)
    BY <1>2, <1>3 DEF Earliest
  <2> QED
    BY <1>3, <2>1, PrimaryBeatsEquivalents
<1> QED
  BY <1>2, <1>3 DEF EarnedOn

\* A branch primary was chosen on a leaf where nothing blocks earlier and nothing
\* equivalent is better supported.
THEOREM PrimariesAreEarned == Spec => []PrimaryEarned
<1> DEFINE Inv == \A f \in Finding : selection[f] = "BRANCH_PRIMARY" =>
                    \E leaf \in Leaves \ todo : EarnedOn(f, leaf)
<1>1. Init => Inv
  BY DEF Init
<1>2. TypeOK /\ GlobalInv /\ Inv /\ [Next]_vars => Inv'
  <2> SUFFICES ASSUME TypeOK, GlobalInv, Inv, [Next]_vars,
                      NEW f \in Finding, selection'[f] = "BRANCH_PRIMARY"
               PROVE  \E leaf \in Leaves' \ todo' : EarnedOn(f, leaf)'
    OBVIOUS
  <2>1. UNCHANGED input
    BY DEF Next, SelectBranch, SelectGlobal, Judge, Finished, vars, input
  <2>2. Leaves' = Leaves /\ Leaves \subseteq Branch
    BY <2>1, InputFixesContest DEF Leaves
  <2>3. \A leaf \in Branch : EarnedOn(f, leaf)' <=> EarnedOn(f, leaf)
    <3>1. ASSUME NEW leaf \in Branch
          PROVE  EarnedOn(f, leaf)' <=> EarnedOn(f, leaf)
      <4>1. Candidates(leaf)' = Candidates(leaf) /\ Candidates(leaf) \subseteq Finding
        BY <2>1, InputFixesContest, PlaceIsCandidates
      <4>2. \A g \in Finding :
              /\ PositionOn(g, leaf)' = PositionOn(g, leaf)
              /\ Same(f, g)' = Same(f, g) /\ GlobalBefore(f, g)' = GlobalBefore(f, g)
        BY <2>1, InputFixesContest
      <4> QED
        BY <4>1, <4>2 DEF EarnedOn
    <3> QED
      BY <3>1
  <2>4. CASE selection[f] = "BRANCH_PRIMARY"
    <3>1. todo' \subseteq todo
      BY DEF Next, SelectBranch, SelectGlobal, Judge, Finished, vars
    <3> QED
      BY <2>2, <2>3, <2>4, <3>1
  <2>5. CASE selection[f] # "BRANCH_PRIMARY"
    <3>1. PICK leaf \in Branch : SelectBranch(leaf)
      BY <2>5 DEF Next, SelectGlobal, Judge, Finished, vars
    <3>2. leaf \in Leaves /\ leaf \notin todo'
      BY <3>1 DEF SelectBranch, GlobalInv
    <3>3. f \in Primaries(Earliest(leaf))
      BY <2>5, <3>1 DEF SelectBranch
    <3> QED
      BY <2>2, <2>3, <3>2, <3>3, PrimaryIsEarned
  <2> QED
    BY <2>4, <2>5
<1>3. Inv => PrimaryEarned
  BY DEF PrimaryEarned, EarnedOn
<1> QED
  BY <1>1, <1>2, <1>3, SelectionTyped, GlobalInvHolds, PTL DEF Spec

\* Where equivalent findings that meet on a leaf meet on all leaves they compete on, a
\* finding that is a leaf's own choice is the choice of every leaf it competes on.
LEMMA ChoiceIsUniform ==
    ASSUME EquivalentsMeet, NEW leaf \in Leaves, NEW other \in Leaves,
           NEW f \in Primaries(Earliest(leaf)), f \in Earliest(other)
    PROVE  f \in Primaries(Earliest(other))
<1>1. f \in Earliest(leaf) /\ f \in Finding /\ leaf \in Branch
  BY PlaceIsCandidates DEF Leaves
<1>2. ASSUME NEW g \in Finding, Same(f, g)
      PROVE  g \in Earliest(leaf) <=> g \in Earliest(other)
  <2>1. leaf \in Contests(f) /\ other \in Contests(f)
    BY <1>1 DEF Contests
  <2>2. leaf \in Contests(g) \/ other \in Contests(g) => Contests(f) = Contests(g)
    BY <1>1, <1>2, <2>1 DEF EquivalentsMeet
  <2> QED
    BY <2>1, <2>2 DEF Contests
<1>3. ~Yields(f, Earliest(other))
  <2>1. SUFFICES ASSUME findings[f].level # "OBSERVED", NEW g \in Earliest(other),
                        findings[g].level = "OBSERVED", Same(f, g)
                 PROVE  FALSE
    BY DEF Yields
  <2>2. g \in Earliest(leaf)
    BY <1>2, <2>1, PlaceIsCandidates
  <2> QED
    BY <2>1, <2>2 DEF Primaries, Yields
<1>4. ASSUME NEW g \in Earliest(other), g < f, Same(f, g)
      PROVE  Yields(g, Earliest(other))
  <2>1. g \in Earliest(leaf)
    BY <1>2, <1>4, PlaceIsCandidates
  <2>2. PICK h \in Earliest(leaf) :
          findings[g].level # "OBSERVED" /\ findings[h].level = "OBSERVED" /\ Same(g, h)
    BY <1>4, <2>1 DEF Primaries, Yields
  <2>3. h \in Earliest(other)
    BY <1>2, <1>4, <2>2, PlaceIsCandidates DEF Same
  <2> QED
    BY <2>2, <2>3 DEF Yields
<1> QED
  BY <1>3, <1>4 DEF Primaries

\* The order of the leaf visits does not show as long as equivalent findings that meet
\* on a leaf meet on all the leaves they compete on.
THEOREM LeafOrderDoesNotShow == Spec => []LeafOrderInvisible
<1> DEFINE Own(f) == \E leaf \in Leaves \ todo : f \in Primaries(Earliest(leaf))
           Inv == phase = "branches" /\ EquivalentsMeet =>
                    \A f \in Finding : selection[f] = "BRANCH_PRIMARY" <=> Own(f)
<1>1. Init => Inv
  BY DEF Init
<1>2. TypeOK /\ GlobalInv /\ Inv /\ [Next]_vars => Inv'
  <2> SUFFICES ASSUME TypeOK, GlobalInv, Inv, [Next]_vars,
                      phase' = "branches", EquivalentsMeet'
               PROVE  \A f \in Finding : selection'[f] = "BRANCH_PRIMARY" <=> Own(f)'
    OBVIOUS
  <2>1. UNCHANGED input /\ phase = "branches"
    BY DEF Next, SelectBranch, SelectGlobal, Judge, Finished, vars, input
  <2>2. /\ Leaves' = Leaves /\ Leaves \subseteq Branch
        /\ \A leaf \in Branch :
             /\ Earliest(leaf)' = Earliest(leaf)
             /\ Primaries(Earliest(leaf))' = Primaries(Earliest(leaf))
    BY <2>1, InputFixesContest DEF Leaves
  <2>3. EquivalentsMeet
    <3>1. \A f \in Finding : Contests(f)' = Contests(f)
      BY <2>2 DEF Contests
    <3>2. \A f, g \in Finding : Same(f, g)' = Same(f, g)
      BY <2>1, InputFixesContest
    <3> QED
      BY <3>1, <3>2 DEF EquivalentsMeet
  <2>4. CASE UNCHANGED vars
    BY <2>1, <2>2, <2>3, <2>4 DEF vars
  <2>5. ASSUME NEW leaf \in Branch, SelectBranch(leaf), NEW f \in Finding
        PROVE  selection'[f] = "BRANCH_PRIMARY" <=> Own(f)'
    <3>1. leaf \in Leaves /\ leaf \in todo /\ todo' = todo \ {leaf}
      BY <2>5 DEF SelectBranch, GlobalInv
    <3>2. Own(f)' <=> Own(f) \/ f \in Primaries(Earliest(leaf))
      BY <2>2, <3>1
    <3>3. CASE f \in Primaries(Earliest(leaf))
      BY <2>5, <3>2, <3>3 DEF SelectBranch
    <3>4. CASE f \in Earliest(leaf) /\ f \notin Primaries(Earliest(leaf))
      <4>1. ~Own(f)
        BY <2>3, <3>1, <3>4, ChoiceIsUniform
      <4> QED
        BY <2>5, <3>2, <3>4, <4>1 DEF SelectBranch
    <3>5. CASE f \notin Earliest(leaf)
      <4>1. f \notin Primaries(Earliest(leaf))
        BY <3>5, PlaceIsCandidates
      <4> QED
        BY <2>1, <2>3, <2>5, <3>2, <3>5, <4>1 DEF SelectBranch
    <3> QED
      BY <3>3, <3>4, <3>5
  <2> QED
    BY <2>1, <2>4, <2>5 DEF Next, SelectGlobal, Judge, Finished
<1>3. Inv => LeafOrderInvisible
  BY DEF LeafOrderInvisible
<1> QED
  BY <1>1, <1>2, <1>3, SelectionTyped, GlobalInvHolds, PTL DEF Spec

\* What is selected is a confirmed blocker with a place inside a branch.
THEOREM SelectedAreConfirmed == Spec => []OnlyConfirmedSelected
<1> DEFINE Confirmed(f) ==
             /\ findings[f].level # "SUSPECTED"
             /\ \E b \in DOMAIN findings[f].at : findings[f].at[b] < EdgeCount[b]
<1>1. Init => OnlyConfirmedSelected
  BY DEF Init, OnlyConfirmedSelected
<1>2. OnlyConfirmedSelected /\ [Next]_vars => OnlyConfirmedSelected'
  <2> SUFFICES ASSUME OnlyConfirmedSelected, [Next]_vars,
                      NEW f \in Finding, selection'[f] # "NONE"
               PROVE  Confirmed(f)'
    BY DEF OnlyConfirmedSelected
  <2>1. UNCHANGED input
    BY DEF Next, SelectBranch, SelectGlobal, Judge, Finished, vars, input
  <2>2. Confirmed(f)' <=> Confirmed(f)
    BY <2>1 DEF input
  <2>3. CASE selection[f] # "NONE"
    BY <2>2, <2>3 DEF OnlyConfirmedSelected
  <2>4. ASSUME NEW leaf \in Branch, SelectBranch(leaf), selection[f] = "NONE"
        PROVE  Confirmed(f)
    <3>1. f \in Candidates(leaf)
      BY <2>4, PlaceIsCandidates DEF SelectBranch
    <3> QED
      BY <3>1 DEF Candidates, AttachedBranch, Eligible
  <2>5. CASE SelectGlobal /\ selection[f] = "NONE"
    <3>1. f \in GlobalCandidates
      BY <2>5 DEF SelectGlobal
    <3> QED
      BY <2>2, <3>1 DEF GlobalCandidates, GlobalPrimaryProof, Eligible
  <2> QED
    BY <2>2, <2>3, <2>4, <2>5 DEF Next, Judge, Finished, vars
<1> QED
  BY <1>1, <1>2, PTL DEF Spec

----
(***************************************************************************)
(* The loop that overwrites computes the loop-free result.                 *)
(***************************************************************************)
\* What the visited leaves say of f: the last one it contests decides.
Decision(f, visited) ==
    LET contested == {leaf \in visited : f \in Earliest(leaf)}
    IN  IF contested = {} THEN "NONE"
        ELSE IF \E last \in contested :
                  f \in Primaries(Earliest(last)) /\ \A leaf \in contested : leaf <= last
             THEN "BRANCH_PRIMARY" ELSE "ADDITIONAL"

LoopInv ==
    /\ todo \subseteq Leaves
    /\ \A seen \in Leaves \ todo, left \in todo : seen < left
    /\ phase = "branches" => \A f \in Finding : selection[f] = Decision(f, Leaves \ todo)
    /\ phase # "branches" => todo = {} /\ \A f \in Finding : selection[f] = Selected(f)

\* A leaf greater than every visited one overrules them for what it contests, and
\* leaves the rest alone.
LEMMA LastLeafDecides ==
    ASSUME NEW visited \in SUBSET Branch, NEW leaf \in Branch,
           \A seen \in visited : seen < leaf, NEW f \in Finding
    PROVE  Decision(f, visited \cup {leaf}) =
             IF f \in Primaries(Earliest(leaf)) THEN "BRANCH_PRIMARY"
             ELSE IF f \in Earliest(leaf) THEN "ADDITIONAL" ELSE Decision(f, visited)
<1> DEFINE contested == {l \in visited : f \in Earliest(l)}
           after == {l \in visited \cup {leaf} : f \in Earliest(l)}
<1>1. f \in Primaries(Earliest(leaf)) => f \in Earliest(leaf)
  BY PlaceIsCandidates
<1>2. CASE f \notin Earliest(leaf)
  <2>1. after = contested
    BY <1>2
  <2> QED
    BY <1>1, <1>2, <2>1 DEF Decision
<1>3. CASE f \in Earliest(leaf)
  <2>1. leaf \in after /\ \A l \in after : l <= leaf
    BY <1>3, SelectionAssumption
  <2>2. \A last \in after : (\A l \in after : l <= last) => last = leaf
    BY <1>3, SelectionAssumption
  <2>3. (\E last \in after : f \in Primaries(Earliest(last)) /\ \A l \in after : l <= last)
          <=> f \in Primaries(Earliest(leaf))
    BY <2>1, <2>2
  <2>4. after # {}
    BY <2>1
  <2> HIDE DEF after
  <2>5. Decision(f, visited \cup {leaf}) =
          IF after = {} THEN "NONE"
          ELSE IF \E last \in after :
                    f \in Primaries(Earliest(last)) /\ \A l \in after : l <= last
               THEN "BRANCH_PRIMARY" ELSE "ADDITIONAL"
    BY DEF Decision, after
  <2> QED
    BY <1>3, <2>3, <2>4, <2>5
<1> QED
  BY <1>2, <1>3

\* The input fixes every decision.
LEMMA InputFixesDecision ==
    ASSUME UNCHANGED input, NEW f \in Finding
    PROVE  /\ \A visited \in SUBSET Branch : Decision(f, visited)' = Decision(f, visited)
           /\ Selected(f)' = Selected(f)
<1>1. \A leaf \in Branch :
        Earliest(leaf)' = Earliest(leaf) /\ Primaries(Earliest(leaf))' = Primaries(Earliest(leaf))
  BY InputFixesContest
<1>2. Leaves' = Leaves /\ Leaves \subseteq Branch /\ GlobalCandidates' = GlobalCandidates
  BY InputFixesContest DEF Leaves
<1>3. ASSUME NEW visited \in SUBSET Branch
      PROVE  Decision(f, visited)' = Decision(f, visited)
  <2>1. {leaf \in visited : f \in Earliest(leaf)'} = {leaf \in visited : f \in Earliest(leaf)}
    BY <1>1
  <2> QED
    BY <1>1, <2>1 DEF Decision
<1>4. AfterLeaves(f) = Decision(f, Leaves) /\ AfterLeaves(f)' = Decision(f, Leaves)'
  BY DEF AfterLeaves, Decision
<1>5. Decision(f, Leaves)' = Decision(f, Leaves)
  <2>1. {leaf \in Leaves' : f \in Earliest(leaf)'} = {leaf \in Leaves : f \in Earliest(leaf)}
    BY <1>1, <1>2
  <2> QED
    BY <1>1, <1>2, <2>1 DEF Decision
<1>6. \A g \in Finding : GlobalBefore(f, g)' = GlobalBefore(f, g)
  BY InputFixesContest
<1>7. GlobalCandidates \subseteq Finding
  BY DEF GlobalCandidates
<1> QED
  BY <1>2, <1>3, <1>4, <1>5, <1>6, <1>7 DEF Selected

LEMMA LoopInvHolds == Spec => []LoopInv
<1>1. Init => LoopInv
  <2> SUFFICES ASSUME Init
               PROVE  LoopInv
    OBVIOUS
  <2>1. Leaves \ todo = {}
    BY DEF Init
  <2>2. \A f \in Finding : Decision(f, Leaves \ todo) = "NONE"
    BY <2>1 DEF Decision
  <2> QED
    BY <2>1, <2>2 DEF Init, LoopInv
<1>2. LoopInv /\ [Next]_vars => LoopInv'
  <2> SUFFICES ASSUME LoopInv, [Next]_vars
               PROVE  LoopInv'
    OBVIOUS
  <2>1. UNCHANGED input
    BY DEF Next, SelectBranch, SelectGlobal, Judge, Finished, vars, input
  <2>2. Leaves' = Leaves /\ Leaves \subseteq Branch /\ GlobalCandidates' = GlobalCandidates
    BY <2>1, InputFixesContest DEF Leaves
  <2>3. \A f \in Finding :
          /\ \A visited \in SUBSET Branch : Decision(f, visited)' = Decision(f, visited)
          /\ Selected(f)' = Selected(f)
    BY <2>1, InputFixesDecision
  <2>4. CASE UNCHANGED <<selection, todo, phase>>
    <3>1. \A f \in Finding : Decision(f, Leaves \ todo)' = Decision(f, Leaves \ todo)
      <4>1. \A f \in Finding, leaf \in Branch :
              /\ Earliest(leaf)' = Earliest(leaf)
              /\ Primaries(Earliest(leaf))' = Primaries(Earliest(leaf))
        BY <2>1, InputFixesContest
      <4>2. ASSUME NEW f \in Finding
            PROVE  {leaf \in Leaves' \ todo' : f \in Earliest(leaf)'}
                     = {leaf \in Leaves \ todo : f \in Earliest(leaf)}
        BY <2>2, <2>4, <4>1
      <4> QED
        BY <2>2, <4>1, <4>2 DEF Decision
    <3> QED
      BY <2>2, <2>3, <2>4, <3>1 DEF LoopInv
  <2>5. ASSUME NEW leaf \in Branch, SelectBranch(leaf)
        PROVE  LoopInv'
    <3> DEFINE visited == Leaves \ todo
    <3>1. leaf \in todo /\ leaf \in Leaves /\ todo' = todo \ {leaf} /\ phase = "branches"
          /\ phase' = "branches" /\ \A other \in todo : leaf <= other
      BY <2>5 DEF SelectBranch, LoopInv
    <3>2. Leaves' \ todo' = visited \cup {leaf} /\ visited \cup {leaf} \in SUBSET Branch
      BY <2>2, <3>1
    <3>3. \A seen \in visited : seen < leaf
      BY <3>1 DEF LoopInv
    <3>4. \A seen \in visited \cup {leaf}, left \in todo' : seen < left
      BY <2>2, <3>1, <3>3, SelectionAssumption DEF LoopInv
    <3>5. ASSUME NEW f \in Finding
          PROVE  selection'[f] = Decision(f, Leaves \ todo)'
      <4>1. selection[f] = Decision(f, visited)
        BY <3>1 DEF LoopInv
      <4>2. selection'[f] = Decision(f, visited \cup {leaf})
        BY <2>2, <2>5, <3>3, <4>1, LastLeafDecides DEF SelectBranch
      <4>3. Decision(f, Leaves \ todo)' = Decision(f, visited \cup {leaf})
        <5>1. \A l \in Branch :
                Earliest(l)' = Earliest(l) /\ Primaries(Earliest(l))' = Primaries(Earliest(l))
          BY <2>1, InputFixesContest
        <5>2. {l \in Leaves' \ todo' : f \in Earliest(l)'}
                = {l \in visited \cup {leaf} : f \in Earliest(l)}
          BY <3>2, <5>1
        <5> QED
          BY <3>2, <5>1, <5>2 DEF Decision
      <4> QED
        BY <4>2, <4>3
    <3> QED
      BY <2>2, <3>1, <3>2, <3>4, <3>5 DEF LoopInv
  <2>6. CASE SelectGlobal
    <3>1. phase = "branches" /\ todo = {} /\ todo' = {} /\ phase' = "selected"
      BY <2>6 DEF SelectGlobal
    <3>2. ASSUME NEW f \in Finding
          PROVE  selection'[f] = Selected(f)
      <4>1. selection[f] = AfterLeaves(f)
        BY <3>1 DEF LoopInv, AfterLeaves, Decision
      <4> QED
        BY <2>6, <4>1 DEF SelectGlobal, Selected
    <3> QED
      BY <2>2, <2>3, <3>1, <3>2 DEF LoopInv
  <2>7. CASE Judge
    BY <2>2, <2>3, <2>7 DEF Judge, LoopInv
  <2> QED
    BY <2>4, <2>5, <2>6, <2>7 DEF Next, Finished, vars
<1> QED
  BY <1>1, <1>2, PTL DEF Spec

\* selection.Apply's loop, which overwrites what it decided before, computes the
\* loop-free result Diagnosis relies on.
THEOREM LoopIsSelected == Spec => []LoopComputesSelected
<1>1. TypeOK /\ LoopInv => LoopComputesSelected
  BY DEF TypeOK, LoopInv, LoopComputesSelected
<1> QED
  BY <1>1, SelectionTyped, LoopInvHolds, PTL
====
