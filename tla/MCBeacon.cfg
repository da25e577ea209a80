SPECIFICATION BeaconSpec
CONSTANTS
    QueueCap = 3
    BeaconCap = 2
    MaxTicks = 4
    MaxEvents = 3
    MaxPage = 20
    MaxSpan = 2
    MaxBodies = 2
    NoOffset = NoOffset
    Bodies <- MCBodies
CHECK_DEADLOCK FALSE
INVARIANTS
    StoredOnce
    DropNeverSilent
    OkMeansKept
    Placement

