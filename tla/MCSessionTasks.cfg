SPECIFICATION TasksSpec
CONSTANTS
    MaxSkip = 1
    MaxChains = 1
    MaxArchived = 1
    alice = alice
    bob = bob
    t1 = t1
    t2 = t2
    Parties <- MCParties
    Me = bob
    Tasks <- MCTasks
    MaxKeys = 3
    MaxSent = 2
INVARIANTS
    RowKept
PROPERTY AloneIsAtomic
SYMMETRY EitherTask
CHECK_DEADLOCK FALSE
