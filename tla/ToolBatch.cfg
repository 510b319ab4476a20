SPECIFICATION FairSpec
CONSTANTS
    t1 = t1
    t2 = t2
    Thread <- Two
    NumCalls = 2
    PoolSize = 2
    MaxBatches = 1
    MaxInterrupts = 1
    HasDeadline = TRUE
    SubmitMayRaise = TRUE
    None = None
INVARIANTS AnswersTruthful InterruptReachesTools
PROPERTIES ReportIsFinal BatchEnds
CHECK_DEADLOCK FALSE
