SPECIFICATION Spec
CONSTANTS
    p1 = p1
    p2 = p2
    Hash <- MCHash
    Genesis = Genesis
    Proc <- MCProc
    Keep <- MCKeep
    MaxTime = 2
    MaxVersion = 2
    MaxLog = 2
    OneAtATime = TRUE
INVARIANTS TypeOK LedgerIntact
PROPERTIES ReplacedIsRecorded PruneSparesLive
CHECK_DEADLOCK FALSE
