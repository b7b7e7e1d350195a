SPECIFICATION Spec
CONSTANTS
    Inode = {1, 2}
    Pid = {1, 2}
    Fd = {1}
    BindAddr = {2, 4}
    MaxUpsets = 2
    Targets = {{}, {2}, {5}}
INVARIANTS
    TypeOK
    OwnersAreHolders
    CompleteFindsHolders
    AbsenceWasTrue
    LostOnlyToLabels
