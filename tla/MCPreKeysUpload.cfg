SPECIFICATION Spec
CONSTANTS
    MaxId = 3
    CountGen = 2
    Threshold = 1
    c1 = c1
    c2 = c2
    w1 = w1
    w2 = w2
    Calls <- TwoCalls
    Workers <- OneWorker
    MaxBatch = 1
    MaxDrops = 1
PROPERTY KeysReachServer
CHECK_DEADLOCK FALSE
