SPECIFICATION FairSpec
CONSTANTS
    Authors = {1, 2}
    Hosted = {1}
    Keys = {1, 2}
    Cids = {1, 2}
    Handlers = {1, 2}
    PageLimit = 1
    Skew = 1
    QueueLimit = 1
    Scenarios <- MCScenarios
CHECK_DEADLOCK FALSE
INVARIANTS
    CommitDescribesRecords
    OplogExplainsCommit
    SyncerKnowsWhatItPassed
PROPERTIES
    SyncerFollowsWriters
    WebhooksAreOneQueue
