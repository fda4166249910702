CONSTANTS
    Procs = {p1, p2}
    MaxSize = 1
    MaxId = 3
    Mishaps = 3
SPECIFICATION RSpec
INVARIANTS
    RTypeOK
    OnePlaceUnlessResent
    OvershootByOneEach
    SoloSeesAllButCalls
    NotFoundOnlyIfGone
SYMMETRY Symmetry
CHECK_DEADLOCK FALSE
