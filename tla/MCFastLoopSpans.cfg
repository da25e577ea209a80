SPECIFICATION Spec
CONSTANTS
    p1 = p1
    v1 = v1
    v2 = v2
    hero = hero
    Process = {p1}
    Variant = {v1, v2}
    Candidates <- MCBoth
    RootSpan <- MCRootSpan
    SafeName <- MCSafeName
    MaxObs = 2
    TornLengths = {0, 4}
    MaxPasses = 1
    MaxBeacons = 1
CHECK_DEADLOCK FALSE
INVARIANTS
    FailureReachesGate
