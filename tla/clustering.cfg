CONSTANTS
    Faces = {f1, f2, f3}
    Places <- Line
    CosDist <- Squares
    Engines <- Both
    Radius = 1
    MinSamples = 1
    MaxPerFace = 1
    Headroom = 1
    Runs = {r1, r2}
    WorkerCount = 2
    EpsChoices = {0, 1}
    MaxChanges = 2
    Mishaps = 1
SPECIFICATION CSpec
INVARIANTS
    SuggestedOnlyBeyondEps
    LeftOutOnlyIfCrowdedOrApart
    AnsweredInOrder
    AnsweredOnce
    EmptyOnlyIfSpoiled
SYMMETRY Symmetry
CHECK_DEADLOCK FALSE
