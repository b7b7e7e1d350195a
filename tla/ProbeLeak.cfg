SPECIFICATION Spec
CONSTANTS
    V4 = {1}
    V6 = {}
    NoAddr = 2
    Schemes = {"https"}
    CertResults = {"VERIFIED", "HOSTNAME_MISMATCH"}
    MaxRetainedPerFamily = 1
    MaxConcurrentStrategies = 3
    ResolutionTimeout = 1
    TcpTimeout = 1
    TlsTimeout = 1
    HttpTimeout = 2
    TotalRunTimeout = 6
INVARIANT
    OneUseConnectionClosed
