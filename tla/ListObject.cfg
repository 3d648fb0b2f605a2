SPECIFICATION ListSpec
CONSTANTS
    MaxLinks = 5
    MaxVector = 2
    MaxSize = 8
    Others = {o1}
INVARIANTS
    KeepsItsElements
    StaysWalkable
