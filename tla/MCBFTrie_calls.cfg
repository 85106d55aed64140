\* One call at a time, with every choice of three filters, one of which may be
\* deleted: the geometry of the trie.
CONSTANTS
    BloomSize = 4
    MaxFout = 2
    Contents <- Unsaturated
    Copies = {1}
    Meta <- MCMeta
    NoMeta = NoMeta
    Data <- MCData
    Queries <- AllFilters
    Deletable <- DeleteFar
    PerNodeNum = 1
    IndexRange = 100
    MaxNode = 4
    MaxInserts = 3
    MaxSearches = 1
    Inserters = {i1}
    Searchers = {s1}
SPECIFICATION OneCallSpec
INVARIANTS
    PositionsAhead
    StoredOnPath
    SearchComplete
