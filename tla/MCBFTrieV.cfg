\* One thread inserts updates and one asks for them at the same time.
CONSTANTS
    BloomSize = 5
    MaxFout = 2
    Contents = {{0}, {0, 1, 2}, {0, 1, 2, 3}}
    Copies = {1, 2}
    Meta <- MCMeta
    NoMeta = NoMeta
    Data <- MCData
    QueryId <- MCQueryId
    Queries = {{0}, {0, 1, 2}, {0, 1, 2, 3}}
    MaxTime = 2
    PerNodeNum = 1
    MaxNode = 5
    MaxInserts = 3
    MaxSearches = 1
    Inserters = {i1}
    Searchers = {s1}
SPECIFICATION Spec
INVARIANTS
    TypeOK
    EqualFound
    YesHasReason
    PositionsAhead
