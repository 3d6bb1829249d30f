SPECIFICATION Spec
CONSTANTS
    s1 = s1
    s2 = s2
    w1 = w1
    w2 = w2
    Sends <- MCSends
    Workers <- MCWorkers
    MaxSent = 3
    MaxKeys = 2
    MaxFaults = 2
    MaxAgain = 1
INVARIANTS
    KeyPerMessage
    PromisedIsRead
    ReadOnce
SYMMETRY Sym
CHECK_DEADLOCK FALSE
