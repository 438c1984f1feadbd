SPECIFICATION FairSpec
CONSTANTS
    None = None
    Limit = 1
    MaxPages = 3
    BatchSize = 2
    MaxStamp = 2
    MaxRuns = 2
    MaxLoads = 2
    MaxFailures = 2
    Apis <- SmallApis
CHECK_DEADLOCK FALSE
INVARIANTS
    TypeOK
    OnlyWholePayloads
    OneBatchPerFile
    AnswerIsCommitted
    CheckpointIsNewest
PROPERTIES
    LoadsAnswered
