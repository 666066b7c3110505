SPECIFICATION FairSpec
CONSTANTS
    i1 = i1
    i2 = i2
    w1 = w1
    w2 = w2
    h1 = h1
    h2 = h2
    MaxJobs = 1
    Instances = {i1, i2}
    Workers = {w1, w2}
    Home <- MCHome
    MaxLostLeases = 2
    Handlers = {h1, h2}
    Scenarios <- MCScenarios
    NoOwner = NoOwner
    NoRun = NoRun
    NoRequest = NoRequest
INVARIANTS
    OneHolder
    LossesAreBounded
PROPERTIES
    LatestRunWrites
    EndIsFinal
    JobsSettle
CHECK_DEADLOCK FALSE
