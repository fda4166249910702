CONSTANTS
    Procs = {p1, p2}
    Faces = {f, g}
    Photos = {a, b}
    NoPhoto = NoPhoto
    MaxRow = 5
SPECIFICATION QSpec
INVARIANTS
    QTypeOK
    FacesHaveVectors
    OrphansOnlyFromRaces
PROPERTY
    Implements
SYMMETRY Symmetry
