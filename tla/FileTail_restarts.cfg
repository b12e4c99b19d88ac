SPECIFICATION TailImportOrWriter
CONSTANTS
    ChunkSize = 2
    TailCheck = 2
    SearchMin = 2
    MaxLines = 4
    MaxFiles = 3
    MaxDeaths = 2
    Environments <- Tails
    FillsChunk = 2
    EndCheck = 2
    MaxKills = 2
    MaxImports = 4
    Importings <- Kinds
    ChunkFills = 2
    MaxDrops = 2
    MaxFalls = 1
    Writings <- Commands
INVARIANTS
    TapeIsTheLog
    ReimportIsIdempotent
    WriterLeavesWell
PROPERTIES
    LinesArrive
CHECK_DEADLOCK FALSE
