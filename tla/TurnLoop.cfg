SPECIFICATION FairSpec
CONSTANTS
    MaxIterations = 3
    Limit <- OnceEach
    NumCalls = 2
    MaxSteers = 2
    HasFallback = TRUE
INVARIANTS TranscriptWellFormed EachSteerOnce
PROPERTIES TurnEnds
CHECK_DEADLOCK FALSE
