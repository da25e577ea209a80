SPECIFICATION Spec
CONSTANTS
    s1 = s1
    s2 = s2
    k1 = k1
    k2 = k2
    Sandbox = {s1, s2}
    Constellation = {k1, k2}
    Panicking = {k2}
    Nobody = Nobody
    MaxMoves = 3
    MaxToggles = 2
CHECK_DEADLOCK FALSE
INVARIANT PendingBootPicksUp
