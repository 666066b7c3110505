SPECIFICATION FairSpec
CONSTANTS
    a = a
    b = b
    c = c
    Dids = {a, b, c}
    Hash <- MCHash
    Points <- MCPoints
    NoPoint = NoPoint
    NoJob = NoJob
    Workers = 2
    Capacity = 1
    Delays = 1
    CounterMod = 16
    MaxTickets = 3
    MaxOutages = 1
    MaxStops = 1
INVARIANTS
    DidOrder
    RetiredIsSettled
    DepthCountsQueue
PROPERTIES
    EveryTicketRetires
CHECK_DEADLOCK FALSE
