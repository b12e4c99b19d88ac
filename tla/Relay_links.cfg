SPECIFICATION FairRelay
CONSTANTS
    PerTurn = 1
    DataRoom = 1
    AckRoom = 1
    MaxChunks = 3
    MaxConns = 4
    MaxWires = 3
    MaxFailures = 2
    Environments <- Links
INVARIANTS
    ReplicaIsTheTape
    FiltersMatch
PROPERTIES
    CatchesUp
CHECK_DEADLOCK FALSE
