SPECIFICATION MetricsSpec
CONSTANTS
    p1 = p1
    p2 = p2
    d1 = d1
    d2 = d2
    Requests <- MCRequests
    Class <- MCClass
    InitialPhase <- MCPhase
    ConcurrencyLimit = 1
    QueueLimit = 3
    PrefillBurst = 1
    HasQueueTimeout = FALSE
    Cancellable <- Nobody
    MaxYields = 0
SYMMETRY MCSymmetry
INVARIANTS OvertakingBounded
CHECK_DEADLOCK FALSE
