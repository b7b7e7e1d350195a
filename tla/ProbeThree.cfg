SPECIFICATION Spec
CONSTANTS
    V4 = {1}
    V6 = {3}
    NoAddr = 2
    Schemes = {"http", "https"}
    CertResults = {"VERIFIED"}
    MaxRetainedPerFamily = 1
    MaxConcurrentStrategies = 3
    ResolutionTimeout = 1
    TcpTimeout = 1
    TlsTimeout = 1
    HttpTimeout = 1
    TotalRunTimeout = 1
INVARIANTS
    FactsComplete
PROPERTIES
    WatcherClosesOnDeadlineOrLate
