CONSTANTS
    p1 = p1
    p2 = p2
    w1 = w1
    w2 = w2
    d = d
    c = c
    Procs = {p1, p2}
    Workers = {w1, w2}
    Home <- HomeOwn
    DetectJobs = {d}
    ClusterJob = c
    Jobs = {d, c}
    NoJob = NoJob
    MaxSize = 2
    MaxRequests = 1
    MaxId = 2
    SkipLocked = FALSE
    AutoDispatch = FALSE
    Budget <- CrashAndStop
SPECIFICATION FairSpec
PROPERTIES
    EveryJobLeaves
    StopsWhenTold
