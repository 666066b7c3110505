SPECIFICATION FairSpec
CONSTANTS
    Keys = {k1, k2}
    Bodies <- MCBodies
    NoRow = NoRow
    MaxEvents = 4
    EntrySize = 2
    FoldBatch = 2
    Scenarios <- SettlingScenarios
INVARIANTS
    TypeOK
    NothingResurrected
    NothingStale
    NothingLost
PROPERTIES
    RunsEnd
CHECK_DEADLOCK FALSE
