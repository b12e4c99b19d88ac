SPECIFICATION BothSpec
CONSTANTS
    MaxEntries = 3
    MaxInodes = 9
    MaxFailures = 2
    Environments <- Directories
    Volumes <- Mounts
INVARIANTS
    NothingVanishes
    ImagesTrue
    SidesBelong
    HandlesKeepTheirLog
    FiltersTrue
CHECK_DEADLOCK FALSE
