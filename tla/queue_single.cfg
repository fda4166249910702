CONSTANTS
    p1 = p1
    w1 = w1
    w2 = w2
    Procs = {p1}
    Workers = {w1, w2}
    Home <- HomeShared
    j = j
    k = k
    Jobs = {j, k}
    NoJob = NoJob
    MaxSize = 2
    MaxId = 4
    SkipLocked = FALSE
SPECIFICATION PSpec
INVARIANT
    PositionWasTrue
PROPERTY
    Contract
SYMMETRY Symmetry
