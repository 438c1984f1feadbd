SPECIFICATION FairSpec
CONSTANTS
    MaxId = 3
    MaxPages = 2
    MaxTime = 5
    MaxFailures = 1
    Feeds <- AllFeeds
CHECK_DEADLOCK FALSE
INVARIANTS
    TypeOK
    NothingMissedIfSteady
    StartedRowsDelivered
    LastIsNewest
PROPERTIES
    EventuallyCurrent
