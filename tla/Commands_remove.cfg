SPECIFICATION Spec
CONSTANTS
    a = a
    A = A
    sa = sa
    o1 = o1
    p1 = p1
    p2 = p2
    Id <- MCId
    Order <- MCOrder
    Price <- MCPrice
    Absent = Absent
    NoId = NoId
    Clean <- MCClean
    Upper <- MCUpper
    None = None
    Kinds <- MCRemove
    RecoverFirst = TRUE
    GapFaults = TRUE
PROPERTY RemovalKeepsReferences
