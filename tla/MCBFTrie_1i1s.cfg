\* One thread inserts and one searches at the same time; one filter is deleted by its client.
CONSTANTS
    BloomSize = 4
    MaxFout = 2
    Contents = {{}, {0}, {0, 1}, {0, 1, 2}}
    Copies = {1}
    Meta <- MCMeta
    NoMeta = NoMeta
    Data <- MCData
    Queries = {{}, {0, 1}}
    Deletable <- DeleteFar
    PerNodeNum = 1
    IndexRange = 100
    MaxNode = 4
    MaxInserts = 4
    MaxSearches = 2
    Inserters = {i1}
    Searchers = {s1}
SPECIFICATION Spec
INVARIANTS
    TypeOK
    FreeListSound
    TotalSizeExact
    StoredOnPath
    SearchComplete
PROPERTIES
    KeepsPromise
