CONSTANTS
    Members <- FourMembers
    Scores <- TwoScores
    MaxLevel = 3
    Header = Header
    Nil = Nil
SPECIFICATION Spec
INVARIANTS
    StructureAgrees
    RangesAreSlices
PROPERTIES
    ImplementsSortedSet
