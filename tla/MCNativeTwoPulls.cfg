SPECIFICATION FairSpec
CONSTANTS
    MaxKey = 2
    Cids = {1, 2}
    Runs = {1, 2}
    Syncs = {1, 2}
    Scenarios <- MCTwoPulls
CHECK_DEADLOCK FALSE
INVARIANTS
    CursorRecordsApplied
