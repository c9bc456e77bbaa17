SPECIFICATION Spec
CONSTANTS
    e1 = e1
    Hash <- MCHash
    Genesis = Genesis
    Edit <- MCEdit
    Keep <- MCKeep
    MaxTime = 1
    MaxLog = 2
    MaxPlaces = 3
    MaxFlawed = 2
    Missing = Missing
    Torn = Torn
    None = None
    Careful = TRUE
INVARIANTS TypeOK NothingTorn AuditIntact PruneOldest
PROPERTIES WholeDatasets AuditGrows CommitRecordedLast
CHECK_DEADLOCK FALSE
