CONSTANTS
    Node = {n1, n2, n3}
    Nil = Nil
    MaxLogEntriesPerRPC = 1
    MaxElections = 2
    MaxFlushes = 0
    MaxRounds = 9
    MaxRestarts = 1
    MaxLosses = 1
    MaxInFlight = 2
    StorageMayFail = TRUE
SPECIFICATION FairSpec
\* The bounded elections and batches end: the system stops there.
CHECK_DEADLOCK FALSE
INVARIANTS
    TypeOK
    LeaderCompleteness
    CommittedAgree
PROPERTIES
    ReplicationConverges
