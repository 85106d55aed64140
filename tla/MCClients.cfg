SPECIFICATION Spec
CHECK_DEADLOCK FALSE
CONSTANTS
    Thread <- MCThread
    threadnum = 2
    TOTAL = 3
    Choices <- MCChoices
    WorkTicks = 1
    SizeRange = 64
    NULL = NULL
    Junk = Junk
    Key <- MCKey
    WordRange = 16
    HashAp <- MCHashAp
    MurmurHash3 <- MCMurmurHash3
    PredefCount = 3
    Predef <- MCPredef
    Draw <- MCDraw
    NumberOfHashes = 2
    TableBytes = 2
    CharWidth = 4
    RangeBloom = TRUE
    MaxValue = 4
    RangeWidth = 2
INVARIANTS
    OncePerSignature
    RangesOfKeyInvalidated
    InvalidatedAreReported
PROPERTY
    TestEnds
