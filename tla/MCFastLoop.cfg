SPECIFICATION Spec
CONSTANTS
    p1 = p1
    p2 = p2
    v1 = v1
    v2 = v2
    hero = hero
    Process = {p1, p2}
    Variant = {v1, v2}
    Candidates <- MCOne
    RootSpan <- MCRootSpan
    SafeName <- MCSafeName
    MaxObs = 2
    TornLengths = {0, 4}
    MaxPasses = 2
    MaxBeacons = 1
CHECK_DEADLOCK FALSE
INVARIANTS
    PassIsWitnessed
    PassMeansClean
    PicturesAreTrue
SYMMETRY Symmetry
