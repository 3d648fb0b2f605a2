\* Programs whose calls nest at most four deep, or five in a catch clause; scripts
\* that assign one attribute and whose calls of methods nest as deep as the making
\* of an instance inside of another call.
\* The script may end, or the process may die at a null handle.
SPECIFICATION BothSpec
CONSTANTS
    MaxDepth = 4
    None = None
    NewObject <- MCNewObject
    Touched = {"List"}
    ReadNames = {"alloc", "__call__", "size", "__str__"}
    WrittenNames = {"alloc", "__getattr__"}
    MaxWrites = 1
    MaxTodo = 4
INVARIANTS
    WellNested
    PendingIsAccountedFor
    ControlStaysInside
    ReceiverFits
    OutcomeIsPending
PROPERTIES FinallyRuns
CHECK_DEADLOCK FALSE
