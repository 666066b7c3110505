SPECIFICATION FairSpec
CONSTANTS
    Points = {p1, p2, p3}
    NoPoint = NoPoint
    Completers = 2
    MaxTickets = 4
PROPERTIES
    ImplementsAppliedPrefix
    DrainEnds
