SPECIFICATION Spec
CONSTANTS
    i1 = i1
    i2 = i2
    k1 = k1
    k2 = k2
    x = x
    y = y
    Null = Null
    Sources <- AllSources
    MaxRecords = 2
    MaxSyncs = 3
CHECK_DEADLOCK FALSE
INVARIANTS
    TypeOK
    OneCurrentPerKey
    Timelines
    StoredUnderOwnKey
PROPERTIES
    HistoryKept
    ImplementsKeyedTable
    ResyncChangesNothing
