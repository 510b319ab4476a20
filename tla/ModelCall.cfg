SPECIFICATION FairSpec
CONSTANTS
    Primary = "primary"
    Chain <- Fallbacks
    Portals <- ThePortal
    MaxRetries = 2
    MaxCompress = 1
    MaxCutCalls = 1
    PoolSize = 1
    Reasons <- SomeReasons
    FormatRepairs <- NoRepairs
    MaxInterrupts = 1
INVARIANTS HandsOverSoundly
PROPERTIES FailoverOnlyForwards CallEnds
CHECK_DEADLOCK FALSE
