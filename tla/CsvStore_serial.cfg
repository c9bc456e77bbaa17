SPECIFICATION FairSpec
CONSTANTS
    u1 = u1
    u2 = u2
    u3 = u3
    v1 = v1
    i1 = i1
    i2 = i2
    i3 = i3
    i4 = i4
    Updater <- MCUpdater
    Reader <- MCReader
    Expecting <- MCExpecting
    Dry <- MCDry
    Inode <- MCFourInodes
    LockMode = "dir"
    OneAtATime = TRUE
    None = None
    Hole = Hole
INVARIANT TypeOK
PROPERTIES NeverMissing ImplementsStore CommandsSucceed
CHECK_DEADLOCK FALSE
