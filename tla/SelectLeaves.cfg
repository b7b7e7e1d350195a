SPECIFICATION Spec
CONSTANTS
    Branch = {1, 2, 3}
    Finding = {1, 2}
    Statement = {"refused", "mismatch"}
    EdgeCount <- Edges
    MaxPosition = 1
INVARIANT
    BranchesIndependent
