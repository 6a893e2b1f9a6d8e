SPECIFICATION Spec
CONSTANTS
    prefill = prefill
    stream = stream
    decode = decode
    Requests <- MCRequests
    Class <- MCClass
    InitialPhase <- MCPhase
    ConcurrencyLimit = 1
    QueueLimit = 2
    PrefillBurst = 1
    HasQueueTimeout = TRUE
    Cancellable <- MCCancellable
    MaxYields = 1
INVARIANTS TypeOK TicketsQueued CountedOnce NoLostWakeup
PROPERTIES DecodeNotOvertaken
CHECK_DEADLOCK FALSE
