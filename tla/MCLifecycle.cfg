SPECIFICATION Spec
CONSTANTS
    MaxTasks = 4
    MaxGen = 2
INVARIANTS
    Released
    OneSocket
PROPERTIES
    CallsReturn
    CloseBringsDown
CHECK_DEADLOCK FALSE
