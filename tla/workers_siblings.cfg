CONSTANTS
    p1 = p1
    p2 = p2
    w1 = w1
    w2 = w2
    d = d
    c = c
    Procs = {p1, p2}
    Workers = {w1, w2}
    Home <- HomeOwn
    DetectJobs = {d}
    ClusterJob = c
    Jobs = {d, c}
    NoJob = NoJob
    MaxSize = 1
    MaxRequests = 2
    MaxId = 3
    SkipLocked = TRUE
    AutoDispatch = TRUE
    Budget <- Everything
SPECIFICATION WSpec
INVARIANTS
    WTypeOK
    LostOnlyByStop
    HandledAgainOnlyAfterRecovery
    LoopsInStopOnlyIfEscaped
    ExclusiveClaim
    InFlightShielded
    OvershootBound
    SoloIsOldest
SYMMETRY Symmetry
CONSTRAINT AnyTwo
VIEW BarFaces
CHECK_DEADLOCK FALSE
