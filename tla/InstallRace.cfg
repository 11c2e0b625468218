CONSTANTS
    History <- CommittedTerms
    Stale <- EarlierTerms
    SnapshotThreshold = 2
    Chunks = 2
    MaxCalls = 1
    MaxLogEntriesPerRPC = 2
    MaxRestarts = 0
    StorageMayFail = FALSE
SPECIFICATION SoundSpec
\* The committed history ends: the system stops there.
CHECK_DEADLOCK FALSE
INVARIANTS
    StaysUp
