SPECIFICATION FairSpec
CONSTANTS
    a = a
    b = b
    u = u
    v = v
    None = None
    Seed = None
    Names <- TwoNames
    Urls <- OneUrl
    Contracts <- OneFeed
    PoolSize = 1
    MaxSources = 2
    MaxRuns = 2
    MaxTime = 1
    MaxRestarts = 1
    Renames = TRUE
    EditsDuringRuns = TRUE
    WritesFail = TRUE
CHECK_DEADLOCK FALSE
INVARIANTS
    OneRunPerName
PROPERTIES
    AdvanceOnlyAfterPublish
    LiveRunsFinish
