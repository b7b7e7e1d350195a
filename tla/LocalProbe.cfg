SPECIFICATION Spec
CONSTANTS
    Inode = {1, 2}
    Pid = {1}
    Fd = {1}
    BindAddr = {1, 2, 4, 7, 9}
    MaxUpsets = 1
    Targets = {{}, {3}, {2, 5}, {3, 9}}
INVARIANTS
    LocalKeepsVerdict
    ContradictionIsCrossFamily
    TextAndFindings
