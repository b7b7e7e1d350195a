SPECIFICATION Spec
CONSTANTS
    V4 = {1, 2, 3}
    V6 = {5}
    NoAddr = 4
    Schemes = {"http", "https"}
    CertResults = {"VERIFIED", "HOSTNAME_MISMATCH", "EXPIRED"}
    MaxRetainedPerFamily = 2
    MaxConcurrentStrategies = 3
INVARIANT
    NetworkFailureIsEvidence
