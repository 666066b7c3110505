SPECIFICATION FairSpec
CONSTANTS
    a = a
    b = b
    Points <- MCPoints
    NoPoint <- MCNoPoint
    Collections = {a, b}
    Scenarios <- MCScenarios
    TimestampCursorMin = 100
    Rewind = 1
    MaxEvents = 4
    MaxInFlight = 2
INVARIANTS
    SavedCursorSafe
    StreamSkipsNothing
PROPERTIES
    SavedSeqIsCurrent
    CatchesUp
CHECK_DEADLOCK FALSE
