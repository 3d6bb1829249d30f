SPECIFICATION Spec
CONSTANTS
    MaxId = 3
    CountGen = 2
    Threshold = 3
    c1 = c1
    c2 = c2
    w1 = w1
    w2 = w2
    Calls <- OneCall
    Workers <- TwoWorkers
    MaxBatch = 2
    MaxDrops = 1
INVARIANTS
    TypeOK
    KeyKept
    ReadsSendersKey
    MissOnlyAfterOpen
SYMMETRY SymmetricWorkers
CHECK_DEADLOCK FALSE
