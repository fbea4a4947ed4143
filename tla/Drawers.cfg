SPECIFICATION Spec
CONSTANTS
    Cases <- MCCases
    MaxClicks = 2
    MaxMoves = 1
INVARIANTS ReadYourWritesAlone DialogHoldsDecision StoredTwiceWasWarned OneWriteAtATime FailureShownAlone
PROPERTIES ChangeMovesFromSeen BusyClears
CHECK_DEADLOCK FALSE
