SPECIFICATION Spec
CONSTANTS
    MaxCharacters = 5
    Texts <- MCTexts
    StopLists <- MCStopLists
    Continuation <- MCContinuation
INVARIANTS TypeOK DetectorExact NothingToTakeBack CutsBetweenCharacters ChatComplete
CHECK_DEADLOCK FALSE
