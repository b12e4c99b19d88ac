\* Crashes, failed writes and every operation, under a writer and under an import.
SPECIFICATION Spec
CONSTANTS
    ChunkSize = 2
    MaxTape = 4
    MaxSeq = 6
    Environments <- Recovery
INVARIANTS
    TypeOK
    TapeIntact
    AckedSurvives
    NumbersNotReused
PROPERTIES
    ImplementsTape
