SPECIFICATION Spec
CONSTANTS
    c1 = c1
    c2 = c2
    n1 = n1
    n2 = n2
    s1 = s1
    s2 = s2
    Caller <- MCCaller
    Package <- MCPackage
    Issued <- MCIssued
    Nonce <- MCNonce
    Secret <- MCSecret
    MaxClock = 2
    NoCall = NoCall
    NoToken = NoToken
    NoSecret = NoSecret
    BlankNonce = BlankNonce
    BlankSignature = BlankSignature
    BadDate = BadDate
INVARIANTS GrantsSound
PROPERTIES OnlyGrantsSpend RefinesPromise
