\* Two threads insert while a third searches.
CONSTANTS
    BloomSize = 3
    Contents <- Overlapping
    Meta <- Overlapping
    NoMeta = NoMeta
    Data <- MCData
    Queries <- MCQueries
    MaxNode = 7
    MaxInserts = 2
    MaxSearches = 1
    Inserters = {i1, i2}
    Searchers = {s1}
SPECIFICATION Spec
INVARIANTS
    TypeOK
    StoredAtExactNode
    SafeUnlessOverlapped
PROPERTIES
    KeepsPromise
    CallsEnd
