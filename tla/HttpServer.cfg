SPECIFICATION Spec
CONSTANTS
    Client = {c1, c2}
    Path = {"index.tly"}
    None = None
    Status = {200}
    MaxWire = 2
    Moments <- MCMoments
    MaxEdits = 2
\* The server may crash.
CHECK_DEADLOCK FALSE
INVARIANTS
    HeadIsSentOnce
    ScriptIsAnswered
    OneConnection
    EditsAreNoticed
