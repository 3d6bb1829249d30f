SPECIFICATION Spec
CONSTANTS
    w1 = w1
    w2 = w2
    m1 = m1
    o1 = o1
    c1 = c1
    a1 = a1
    a2 = a2
    Workers <- MCWorkers
    Messages <- OneMessage
    Offline <- OneOffline
    Controls <- OneControl
    Asks <- TwoAsks
    Capacity = 4
PROPERTIES
    BestFirst
    Served
    StuckIsBrief
CHECK_DEADLOCK FALSE
