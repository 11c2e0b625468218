CONSTANTS
    History <- CommittedTerms
    Stale <- EarlierTerms
    SnapshotThreshold = 2
    Chunks = 2
    MaxCalls = 2
    MaxLogEntriesPerRPC = 2
    MaxRestarts = 1
    StorageMayFail = TRUE
SPECIFICATION FairSpec
\* The committed history ends: the system stops there.
CHECK_DEADLOCK FALSE
INVARIANTS
    TypeOK
    MachineIsPrefix
    RestartLosesNothing
    AckedIsStored
PROPERTIES
    AppliedStays
    CommittedIsApplied
