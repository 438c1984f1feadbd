SPECIFICATION Spec
CONSTANTS
    a = a
    b = b
    u = u
    v = v
    None = None
    Seed = None
    Names <- OneName
    Urls <- TwoUrls
    Contracts <- TwoFeeds
    PoolSize = 1
    MaxSources = 1
    MaxRuns = 1
    MaxTime = 1
    MaxRestarts = 0
    Renames = FALSE
    EditsDuringRuns = TRUE
    WritesFail = FALSE
CHECK_DEADLOCK FALSE
PROPERTIES
    CheckpointFromOwnContract
