SPECIFICATION Spec
CONSTANTS
    p1 = p1
    p2 = p2
    Port <- MCPort
    NoPort = NoPort
    Callers <- MCCallers
    Retries = 2
CHECK_DEADLOCK FALSE
INVARIANTS
    ReturnLeavesNothing
    CrashIsTold
    RetriedExactlyOnConflict
PROPERTY
    ServeEnds
