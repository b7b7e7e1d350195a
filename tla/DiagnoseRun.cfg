SPECIFICATION Spec
CONSTANTS
    V4 = {1, 2, 3}
    V6 = {5}
    NoAddr = 4
    Schemes = {"http", "https"}
    CertResults = {"VERIFIED", "HOSTNAME_MISMATCH"}
    MaxRetainedPerFamily = 2
    MaxConcurrentStrategies = 3
INVARIANTS
    TypeOK
    OnlyPlainFailureIsLost
    SatisfiedIsEarned
    BlockedIsSound
    OnePrimaryPerBlockedBranch
    ChecksNeverDisappear
