SPECIFICATION Spec
CONSTANTS
    a = a
    b = b
    Points <- MCPoints
    NoPoint <- MCNoPoint
    Collections = {a, b}
    Scenarios <- ReusedReplayScenarios
    TimestampCursorMin = 100
    Rewind = 1
    MaxEvents = 4
    MaxInFlight = 2
INVARIANTS
    StreamSkipsNothing
CHECK_DEADLOCK FALSE
