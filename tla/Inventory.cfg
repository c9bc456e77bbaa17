SPECIFICATION FairSpec
CONSTANTS
    t1 = t1
    t2 = t2
    p = p
    noId = noId
    nobody = nobody
    noCall = noCall
    absent = absent
    Thread <- MCThread
    EmptyId = noId
    Nobody = nobody
    NoCall = noCall
    Absent = absent
    Id <- MCId
    Qty <- MCQty
    Price <- MCPrice
    IntMax = 3
    MaxCalls = 2
INVARIANTS TypeOK StockConserved
PROPERTIES ImplementsAtomic CallsReturn
CHECK_DEADLOCK FALSE
