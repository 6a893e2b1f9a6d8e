SPECIFICATION FairSpec
CONSTANTS
    prefill = prefill
    stream = stream
    decode = decode
    Requests <- MCRequests
    Class <- MCClass
    InitialPhase <- MCPhase
    ConcurrencyLimit = 2
    QueueLimit = 2
    PrefillBurst = 1
    HasQueueTimeout = TRUE
    Cancellable <- Nobody
    MaxYields = 1
INVARIANTS SlotsCounted
PROPERTIES QueuedSettles ImplementsGate
CHECK_DEADLOCK FALSE
