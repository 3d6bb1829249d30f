SPECIFICATION Spec
INVARIANTS
    Kept
    Arrives
    Recognised
    Intact
CHECK_DEADLOCK FALSE
