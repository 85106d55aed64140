\* Two threads insert and two search at the same time.
CONSTANTS
    Levels = 2
    ByteBits = {0}
    Contents <- MCContents
    Copies = {a, b}
    Meta <- MCMeta
    NoMeta = NoMeta
    Data <- MCData
    Queries <- MCQueries
    MaxNode = 5
    MaxInserts = 3
    MaxSearches = 1
    Inserters = {i1, i2}
    Searchers = {s1, s2}
SPECIFICATION Spec
SYMMETRY Twins
INVARIANTS
    TypeOK
    OneWayToNode
    StoredAtOwnLeaf
PROPERTIES
    KeepsPromise
