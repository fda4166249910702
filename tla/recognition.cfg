CONSTANTS
    Photos <- MCPhotos
    Selfies <- MCSelfies
    Vectors <- MCVectors
    Norm = 2
    MinScore = 1
    MinSide = 1
    MinSharp = 1
    MaxFaces = 2
    Percent = 40
    Limit = 2
SPECIFICATION RSpec
INVARIANTS
    BoxFramesFace
    CropShowsFace
    MatchesAreCosineMatches
CHECK_DEADLOCK FALSE
