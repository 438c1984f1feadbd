SPECIFICATION Spec
CONSTANTS
    i1 = i1
    i2 = i2
    k1 = k1
    k2 = k2
    x = x
    y = y
    Null = Null
    Sources <- OneSource
    MaxRecords = 1
    MaxSyncs = 2
CHECK_DEADLOCK FALSE
PROPERTIES
    SnapshotClosesAbsent
