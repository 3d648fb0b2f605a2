SPECIFICATION IterableSpec
CONSTANTS
    BucketSize = 2
    Objects = {0, 1, 2, 3}
    Values = {0, 1}
    Setups <- MCSetups
    Hash <- MCHash
    MaxInt = 3
    MaxSeen = 4
    Comparisons <- MCComparisons
INVARIANTS NothingIsMissed FlagIsReleased MethodsKeepTheirWord RangesKeepTheirBounds
PROPERTIES ImplementsOrderedMap
CHECK_DEADLOCK FALSE
