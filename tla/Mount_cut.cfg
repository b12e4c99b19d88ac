SPECIFICATION BothSpec
CONSTANTS
    MaxEntries = 3
    MaxInodes = 9
    MaxFailures = 2
    Environments <- NobodyElse
    Volumes <- CutBeside
INVARIANTS
    FiltersTrue
CHECK_DEADLOCK FALSE
