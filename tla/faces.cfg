CONSTANTS
    a = a
    b = b
    Faces = {1, 2, 3}
    Photos = {a}
    NoPhoto = NoPhoto
    KeepsFlag = FALSE
    Workers = {w1, w2}
    Found <- FoundTwo
    Budget <- Eventful
SPECIFICATION SSpec
INVARIANTS
    STypeOK
    StoredBound
    AnsweredOrUnheard
    StaleOnlyIfMissed
    MissingOnlyIfInterrupted
PROPERTY
    PurgeIsExact
SYMMETRY Symmetry
CHECK_DEADLOCK FALSE
