CONSTANTS
    Node = {n1, n2, n3}
    Nil = Nil
    MaxElections = 2
    MaxTimeouts = 1
    MaxRounds = 2
    MaxHeartbeats = 1
    MaxCrashes = 1
    MaxEvents = 1
    StorageMayFail = TRUE
SPECIFICATION CrashSpec
SYMMETRY NodeSymmetry
VIEW FilesView
\* The bounded elections end: the system stops there.
CHECK_DEADLOCK FALSE
INVARIANTS
    TypeOK
    ElectionSafety
    ElectedTermReachesMajority
    KnownLeaderWasElected
    ElectionInv
    CrashInv
PROPERTIES
    VoteStability
