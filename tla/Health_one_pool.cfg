SPECIFICATION FairSpec
CONSTANTS
    loader = loader
    core = core
    Deps <- TwoDeps
    PoolSize = 2
    MaxRuns = 3
    MaxChanges = 2
    MaxRestarts = 1
INVARIANTS
    TypeOK
    CheckedBeforeRuns
PROPERTIES
    SnapshotOfOneCycle
    CyclesGoOn
    RunsGetThreads
