SPECIFICATION Spec
CONSTANTS
    Slot = {s1, s2, s3}
    Handle = {h1, h2}
    Null = Null
    Threshold = 2
    CountMax = 7
    MaxCount = 2
    MaxMembers = 1
SYMMETRY Symmetry
CONSTRAINT Explored
INVARIANTS
    IInv
PROPERTIES
    CountedNeverDeleted
    LossesAreExplained
    OnlyAccessibleIsMarked
    ImplementsHandleHeap
