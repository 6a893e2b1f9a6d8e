SPECIFICATION Spec
CONSTANTS
    MaxCharacters = 5
    Texts <- MCTexts
    StopLists <- MCStopLists
    Continuation <- MCContinuation
INVARIANTS EarliestStopApplied
CHECK_DEADLOCK FALSE
