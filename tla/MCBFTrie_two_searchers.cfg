\* Two searches find the same signature and give its position back twice.
CONSTANTS
    BloomSize = 1
    MaxFout = 2
    Contents = {{}}
    Copies = {a, b, c}
    Meta <- MCMeta
    NoMeta = NoMeta
    Data <- MCData
    Queries = {{}}
    Deletable = {}
    PerNodeNum = 1
    IndexRange = 100
    MaxNode = 1
    MaxInserts = 3
    MaxSearches = 2
    Inserters = {i1}
    Searchers = {s1, s2}
SPECIFICATION Spec
SYMMETRY Twins
INVARIANTS
    SearchComplete
