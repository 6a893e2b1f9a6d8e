SPECIFICATION LifecycleSpec
CONSTANTS
    a = a
    b = b
    Requests <- OnlyA
    Class <- AllPrefill
    InitialPhase <- AllPrefill
    ConcurrencyLimit = 1
    QueueLimit = 1
    PrefillBurst = 1
    HasQueueTimeout = FALSE
    Cancellable <- OnlyA
    MaxYields = 1
    Ids <- OnlyA
    Id <- OwnId
    Streams <- Nobody
    Disturbed <- OnlyA
INVARIANTS CompletedCounted
CHECK_DEADLOCK FALSE
