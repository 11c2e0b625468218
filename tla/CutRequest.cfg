CONSTANTS
    Node = {n1, n2, n3}
    Nil = Nil
    MaxLogEntriesPerRPC = 1
    MaxElections = 3
    MaxFlushes = 1
    MaxRounds = 4
    MaxRestarts = 0
    MaxLosses = 0
    MaxInFlight = 1
    StorageMayFail = FALSE
SPECIFICATION TimelySpec
SYMMETRY NodeSymmetry
\* The bounded elections and batches end: the system stops there.
CHECK_DEADLOCK FALSE
INVARIANTS
    CommitIndexIsCommitted
