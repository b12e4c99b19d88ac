SPECIFICATION FairTally
CONSTANTS
    Metrics = {"requests", "latency", "rare"}
    Shapes <- ShapeSet
    Value <- Numbers
    Width = 2
    Grace = 1
    MaxTs = 4
    MaxDeaths = 2
    TallyEnvironments <- Tallies
INVARIANTS
    BucketsTrue
PROPERTIES
    NumbersShow
