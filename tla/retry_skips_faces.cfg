CONSTANTS
    a = a
    b = b
    Faces = {1, 2}
    Photos = {a}
    NoPhoto = NoPhoto
    KeepsFlag = TRUE
    Workers = {w1}
    Found <- FoundTwo
    Budget <- OneCrash
SPECIFICATION SSpec
INVARIANT
    RetryPersists
CHECK_DEADLOCK FALSE
