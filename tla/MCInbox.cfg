SPECIFICATION Spec
CONSTANTS
    w1 = w1
    w2 = w2
    m1 = m1
    m2 = m2
    c1 = c1
    c2 = c2
    b = b
    peer = peer
    base = b
    Workers <- MCWorkers
    Messages <- MCMessages
    Calls <- MCCalls
    Jids <- MCJids
    Bases <- MCBases
INVARIANTS
    AloneIsEmitted
    Freed
SYMMETRY Sym
CHECK_DEADLOCK FALSE
