SPECIFICATION Spec
CONSTANTS
    MaxSkip = 1
    MaxChains = 1
    MaxArchived = 1
    alice = alice
    bob = bob
    Parties <- MCParties
    MaxKeys = 5
    MaxSent = 5
INVARIANTS
    NoReplay
    UnreadIsNoDuplicate
    Readable
SYMMETRY EitherParty
CHECK_DEADLOCK FALSE
