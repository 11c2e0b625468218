CONSTANTS
    r1 = r1
    r2 = r2
    a = a
    b = b
    Replicas <- ReplicaPair
    Background <- OneReplica
    Items <- TwoItems
    Text = Text
    Absent = Absent
    MixedTypes = FALSE
    OtherKeys = TRUE
    MaxCommands = 2
    MaxTime = 2
SPECIFICATION FairSpec
VIEW PendingView
\* The clock and the log end.
CHECK_DEADLOCK FALSE
INVARIANTS
    TypeOK
    TypeFollowsData
    ReadsShowVisible
PROPERTIES
    ImplementsExpiringKey
    ExpiredIsReclaimed
