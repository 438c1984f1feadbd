SPECIFICATION Spec
CONSTANTS
    MaxId = 3
    MaxPages = 3
    MaxTime = 3
    MaxFailures = 0
    Feeds <- OverlappedTimestamps
CHECK_DEADLOCK FALSE
INVARIANTS
    NothingMissed
