SPECIFICATION FairSpec
CONSTANTS
    MaxKey = 2
    Cids = {1, 2}
    Runs = {1, 2}
    Syncs = {1, 2}
    Scenarios <- MCScenarios
CHECK_DEADLOCK FALSE
INVARIANTS
    TypeOK
    NativeHasCursor
    NothingSkipped
PROPERTIES
    NativeStays
    IndexFollowsHost
    MigrationEnds
