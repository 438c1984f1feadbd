SPECIFICATION FairSpec
CONSTANTS
    None = None
    MaxSources = 2
    Crons <- GoodAndBad
    Zones <- TwoZones
    Calendar <- GoodAndBadCalendar
    MaxTime = 3
    MaxEdits = 1
    MaxFailures = 1
    MaxRestarts = 1
CHECK_DEADLOCK FALSE
INVARIANTS
    NextFollowsCron
PROPERTIES
    OncePerOccurrence
    EnabledIsPlanned
    DueIsServed
