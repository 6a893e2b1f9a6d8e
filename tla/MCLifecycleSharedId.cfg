SPECIFICATION LifecycleFairSpec
CONSTANTS
    a = a
    b = b
    Requests <- Both
    Class <- AllPrefill
    InitialPhase <- AllPrefill
    ConcurrencyLimit = 1
    QueueLimit = 1
    PrefillBurst = 1
    HasQueueTimeout = TRUE
    Cancellable <- Both
    MaxYields = 1
    Ids <- OnlyA
    Id <- SharedId
    Streams <- OnlyA
    Disturbed <- Both
INVARIANTS EntriesOwned CancelHonoured
PROPERTIES CancelReleases
CHECK_DEADLOCK FALSE
