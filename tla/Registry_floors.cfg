\* Followers and retention: what is held, what is lost, and what goes.
SPECIFICATION FairSpec
CONSTANTS
    None = None
    Missing = Missing
    Spoilt = Spoilt
    Closed = Closed
    Stores = {"s1", "s2"}
    Followers = {"x", "y"}
    Processes = {"p", "q"}
    Labels = {"web", "db"}
    Slack = 2
    MaxChunks = 3
    Environments <- Registries
CHECK_DEADLOCK FALSE
INVARIANTS
    NothingHeldIsDropped
    LossIsTold
PROPERTIES
    ConsumedGoes
