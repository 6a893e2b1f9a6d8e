SPECIFICATION Spec
CONSTANTS
    MaxCharacters = 5
    Texts <- MCTexts
    StopLists <- MCStopLists
    Continuation <- MCContinuation
INVARIANTS CompletionComplete
CHECK_DEADLOCK FALSE
