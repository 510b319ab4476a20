SPECIFICATION ReqFairSpec
CONSTANTS
    MaxAttempts = 2
    MaxRequests = 2
    OneClient = TRUE
INVARIANTS RequestSound
PROPERTIES CutOnlyWhileInterrupted CallEnds
CHECK_DEADLOCK FALSE
