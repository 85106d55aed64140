\* A filter without zeros is not stored.
CONSTANTS
    BloomSize = 2
    MaxFout = 2
    Contents <- AllFilters
    Copies = {1}
    Meta <- MCMeta
    NoMeta = NoMeta
    Data <- MCData
    Queries = {{}}
    Deletable = {}
    PerNodeNum = 1
    IndexRange = 100
    MaxNode = 3
    MaxInserts = 3
    MaxSearches = 1
    Inserters = {i1}
    Searchers = {s1}
SPECIFICATION Spec
INVARIANTS
    SearchComplete
