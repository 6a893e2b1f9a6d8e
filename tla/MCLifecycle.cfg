SPECIFICATION LifecycleSpec
CONSTANTS
    a = a
    b = b
    Requests <- Both
    Class <- AllPrefill
    InitialPhase <- AllPrefill
    ConcurrencyLimit = 1
    QueueLimit = 1
    PrefillBurst = 1
    HasQueueTimeout = FALSE
    Cancellable <- Both
    MaxYields = 1
    Ids <- Both
    Id <- OwnId
    Streams <- Both
    Disturbed <- OnlyA
INVARIANTS RecordedOnce PhasesAgree NoDetachedJob SlotFollowsHandles
CHECK_DEADLOCK FALSE
