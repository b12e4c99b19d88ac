\* A consumer fed from two stores.
SPECIFICATION FairExport
CONSTANTS
    Order <- Two
    MaxLog = 2
    ChunkLen = 2
    PipeRoom = 1
    Hold = 1
    MaxHeld = 9
    MaxLives = 1
    BatchSize = 3
    MaxTroubles = 1
    FeedEnvironments <- Feeds
INVARIANTS
    FeedInOrder
    PositionsHonest
    OneShotDrains
    AttributedRight
    ReportedIsShipped
PROPERTIES
    EverythingReaches
\* A one-shot ends.
CHECK_DEADLOCK FALSE
