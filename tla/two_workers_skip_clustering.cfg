CONSTANTS
    p1 = p1
    p2 = p2
    w1 = w1
    w2 = w2
    d = d
    c = c
    Procs = {p1}
    Workers = {w1, w2}
    Home <- HomeShared
    DetectJobs = {d}
    ClusterJob = c
    Jobs = {d, c}
    NoJob = NoJob
    MaxSize = 2
    MaxRequests = 3
    MaxId = 6
    SkipLocked = FALSE
    AutoDispatch = TRUE
    Budget <- Smooth
SPECIFICATION WSpec
INVARIANT
    ClusteredWhenQuiet
