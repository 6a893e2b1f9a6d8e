SPECIFICATION MetricsSpec
CONSTANTS
    p1 = p1
    p2 = p2
    d1 = d1
    d2 = d2
    Requests <- MCPair
    Class <- MCClass
    InitialPhase <- MCPhase
    ConcurrencyLimit = 2
    QueueLimit = 3
    PrefillBurst = 1
    HasQueueTimeout = FALSE
    Cancellable <- Nobody
    MaxYields = 1
PROPERTIES YieldsToDecodeDocumented
CHECK_DEADLOCK FALSE
