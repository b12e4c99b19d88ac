\* Senders of both protocols, answered whatever goes wrong.
SPECIFICATION FairConsole
CONSTANTS
    Clients = {"one", "two"}
    Values = {"a/b", "a_b", "web"}
    Names = {"a_b", "web"}
    StoreOf <- Sanitized
    PartialIds = {1, 2}
    ChunkSize = 3
    PartialRoom = 1
    PartialMax = 2
    RingRoom = 2
    Environments <- Intakes
INVARIANTS
    AckedIsDurable
    OutputKept
PROPERTIES
    EveryoneIsAnswered
    RunningIsTapped
