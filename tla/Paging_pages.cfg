SPECIFICATION PagesOrAnswers
CONSTANTS
    Files <- TwoFiles
    Cap = 4
    MaxGrow = 2
    Requests <- Walks
    Letters <- AandB
    Fold <- Caseless
    MinToken = 2
    MaxToken = 3
    MaxPipe = 2
    Searches <- Seeks
INVARIANTS
    PagesConcatenate
    AnswersWhole
PROPERTIES
    WalkEnds
CHECK_DEADLOCK FALSE
