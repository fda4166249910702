CONSTANTS
    p1 = p1
    p2 = p2
    w1 = w1
    w2 = w2
    d = d
    c = c
    Procs = {p1}
    Workers = {w1}
    Home <- HomeSole
    DetectJobs = {d}
    ClusterJob = c
    Jobs = {d, c}
    NoJob = NoJob
    MaxSize = 2
    MaxRequests = 2
    MaxId = 4
    SkipLocked = FALSE
    AutoDispatch = TRUE
    Budget <- StopOnly
SPECIFICATION WSpec
INVARIANT
    NothingLost
