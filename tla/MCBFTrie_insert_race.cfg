\* Two insertions create the same child: one of the two subtrees is lost.
CONSTANTS
    BloomSize = 2
    MaxFout = 2
    Contents = {{}}
    Copies = {1, 2, 3}
    Meta <- MCMeta
    NoMeta = NoMeta
    Data <- MCData
    Queries = {{}}
    Deletable = {}
    PerNodeNum = 1
    IndexRange = 100
    MaxNode = 3
    MaxInserts = 3
    MaxSearches = 1
    Inserters = {i1, i2}
    Searchers = {s1}
SPECIFICATION Spec
INVARIANTS
    SearchComplete
