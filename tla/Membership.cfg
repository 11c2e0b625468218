CONSTANTS
    n1 = n1
    n2 = n2
    n3 = n3
    n4 = n4
    Nil = Nil
    Node = {n1, n2, n3, n4}
    Initial <- ThreeOfFour
    MaxTerm = 2
    MaxChanges = 2
SPECIFICATION Spec
SYMMETRY Members
\* The changes and the terms end: the system stops there.
CHECK_DEADLOCK FALSE
INVARIANTS
    OneLeaderPerTerm
