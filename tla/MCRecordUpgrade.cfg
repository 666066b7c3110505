SPECIFICATION FairSpec
CONSTANTS
    b1 = b1
    b2 = b2
    MaxUri = 2
    Contents = {1, 2}
    Boots = {b1, b2}
    CopyAttempts = 2
    Scenarios <- MCScenarios
INVARIANTS
    NothingLost
    RefusedOnlyIfDisturbed
PROPERTIES
    UpgradeEnds
CHECK_DEADLOCK FALSE
