SPECIFICATION FairSpec
CONSTANTS
    p1 = p1
    p2 = p2
    i1 = i1
    i2 = i2
    v1 = v1
    o1 = o1
    Proc <- MCProc
    Cli <- MCCli
    Id <- MCId
    Value <- MCValue
    Order <- MCOrder
    Absent = Absent
    None = None
INVARIANTS TypeOK
PROPERTIES WholeLists LockReleased
