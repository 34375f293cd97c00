\* Two series, one point per second and span boundary, four commits: a whole rotation,
\* the log entries it frees, and opens in between.
SPECIFICATION Spec
CONSTANTS
    k1 = k1
    k2 = k2
    Keys <- MCKeys
    NoId = NoId
    IdMax = 2
    SpanSecs = 2
    GraceSecs = 0
    ChunkPoints = 1
    MaxTime = 3
    MaxCommits = 4
SYMMETRY Sym
INVARIANT StoreSafe
PROPERTY KeepsPromise
