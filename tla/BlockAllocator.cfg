SPECIFICATION Spec
CONSTANTS
    MaxRecords = 5
    MaxBlocks = 3
    Size = {1, 2, 8}
    Header = 1
    Capacity = 8
\* The model stops when an object is constructed over another one.
CHECK_DEADLOCK FALSE
INVARIANTS
    WellFormed
PROPERTIES
    ReuseBeforeCarve
