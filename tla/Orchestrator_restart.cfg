SPECIFICATION FairSpec
CONSTANTS
    a = a
    b = b
    u = u
    v = v
    None = None
    Seed = None
    Names <- OneName
    Urls <- OneUrl
    Contracts <- OneFeed
    PoolSize = 1
    MaxSources = 1
    MaxRuns = 1
    MaxTime = 1
    MaxRestarts = 1
    Renames = FALSE
    EditsDuringRuns = FALSE
    WritesFail = FALSE
CHECK_DEADLOCK FALSE
PROPERTIES
    RunsFinish
