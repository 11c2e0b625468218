CONSTANTS
    n1 = n1
    n2 = n2
    n3 = n3
    c1 = c1
    c2 = c2
    Nil = Nil
    Noop = Noop
    Node <- ThreeNodes
    Endpoints <- OneEndpoint
    Call <- TwoCalls
    Request <- Attempts
    After <- OneByOne
    CallMethods <- SetThenUse
    ProposeSlots = 1
    MaxTerm = 2
    MaxRetries <- Rounds
SPECIFICATION Spec
SYMMETRY OtherNodes
VIEW ClientView
\* The calls and the terms end: the system stops there.
CHECK_DEADLOCK FALSE
INVARIANTS
    AcknowledgedIsCommitted
    ReadsAreFresh
