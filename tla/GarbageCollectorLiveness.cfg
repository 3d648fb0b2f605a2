SPECIFICATION FairSpec
CONSTANTS
    Slot = {s1, s2}
    Handle = {h1, h2}
    Null = Null
    Threshold = 2
    CountMax = 7
    MaxCount = 1
    MaxMembers = 1
PROPERTIES
    GarbageIsCollected
