CONSTANTS
    Node = {n1, n2, n3}
    Nil = Nil
    MaxLogEntriesPerRPC = 9
    MaxElections = 3
    MaxFlushes = 1
    MaxRounds = 3
    MaxRestarts = 0
    MaxLosses = 0
    MaxInFlight = 2
    StorageMayFail = FALSE
SPECIFICATION AtomicSpec
SYMMETRY NodeSymmetry
\* The bounded elections and batches end: the system stops there.
CHECK_DEADLOCK FALSE
INVARIANTS
    LogMatching
    MatchIndexIsTrue
PROPERTIES
    CommittedStays
