\* Head drops, with crashes in them, alone and beside readers in another process.
SPECIFICATION Spec
CONSTANTS
    BSize = 2
    HeaderMin = 2
    MaxTries = 1
    Environments <- EveryEnvironment
INVARIANTS
    SurvivorsReadable
    FiltersMatch
    StableReads
