CONSTANTS
    Procs = {p1, p2}
    Rows = {r, s}
SPECIFICATION Spec
INVARIANTS
    PTypeOK
    SoloCountsAlone
    DequeuesApart
    DeadlockOnlyByStartOrBulk
PROPERTIES
    StartEnds
