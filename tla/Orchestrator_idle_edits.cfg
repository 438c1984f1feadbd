SPECIFICATION Spec
CONSTANTS
    a = a
    b = b
    u = u
    v = v
    None = None
    Seed <- Demo
    Names <- OneName
    Urls <- TwoUrls
    Contracts <- TwoFeedsOrSnapshot
    PoolSize = 2
    MaxSources = 2
    MaxRuns = 3
    MaxTime = 2
    MaxRestarts = 1
    Renames = FALSE
    EditsDuringRuns = FALSE
    WritesFail = FALSE
CHECK_DEADLOCK FALSE
INVARIANTS
    CheckpointCovered
    HeldByARun
    FirstRunIsSnapshot
    FailedKeepsCheckpoint
PROPERTIES
    OnlyTheGoneIsAskedAgain
