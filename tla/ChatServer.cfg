SPECIFICATION SFairSpec
CONSTANTS
    w1 = w1
    w2 = w2
    n1 = n1
    s1 = s1
    Client <- MCClient
    KeyConfigured = TRUE
    MaxPosts = 3
    MaxRestarts = 1
    NoPackage = NoPackage
    NoJob = NoJob
    Package <- MCPackage
    Issued <- MCIssued
    Nonce <- MCNonce
    Secret <- MCSecret
    MaxClock = 1
    NoCall = NoCall
    NoToken = NoToken
    NoSecret = NoSecret
    BlankNonce = BlankNonce
    BlankSignature = BlankSignature
    BadDate = BadDate
    MaxTurns = 2
    MaxCalls = 1
    Requests <- MCRequests
    Answers <- MCAnswers
    NoRequest = NoRequest
INVARIANTS ServesGrantedOnce
PROPERTIES KeepsParts EveryPostServed
CHECK_DEADLOCK FALSE
