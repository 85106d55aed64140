SPECIFICATION UnitSpec
CHECK_DEADLOCK FALSE
CONSTANTS
    o1 = o1
    o2 = o2
    o3 = o3
    b1 = b1
    b2 = b2
    Object <- MCObject
    Key <- MCKey
    Hash <- MCHash
    HashAp <- MCHashAp
    MurmurHash3 <- MCMurmurHash3
    Predef <- MCPredef
    Draw <- MCDraw
    Parameters <- MCParameters
    WordRange = 16
    PredefCount = 3
    CharBits = 2
    SeedFactor = 5
    SeedRange = 16
    MaxCalls = 5
    MaxSaltedCalls = 4
    BitsPerChar = 2
    Buffer <- MCBuffer
    HashCounts <- MCHashCounts
    TableSizes <- MCTableSizes
    Seeds <- MCSeeds
    MaxLen = 40
    RwThread = {0, 1, 2}
    Elem = {"x", "y"}
    SizeRange = 64
    NULL = NULL
    Junk = Junk
    MaxListCalls = 6
    Capacities <- MCCapacities
    Value = {0, 1}
    Bounds <- MCBounds
SYMMETRY MCSymmetry
INVARIANTS
    TypeOK
    NoFalseNegatives
    ExactBits
    IndexInTable
    FoundSinceInitBloom
    PrefixesShareBits
    EveryByteOnce
    LockOfOneRole
    ListIsSequence
    MovedAndNotSmall
