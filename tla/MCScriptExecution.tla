--------------------------- MODULE MCScriptExecution --------------------------
(***************************************************************************)
(* What a script does, on two levels: the statements and calls it executes *)
(* and the exceptions that are on their way between them (any program), or *)
(* the attributes and methods that it looks up, assigns and calls.         *)
(***************************************************************************)
EXTENDS ScriptExecution, ObjectModel

(* A class that the script makes, and an object. *)
MCNewObject == <<"A", "b">>

bothVars == <<vars, objectVars>>

BothInit ==
    \/ /\ Init
       /\ objects = <<>> /\ held = Scripted
       /\ todo = <<>> /\ answer = [ok |-> TRUE, value |-> Null]
       /\ pending = "none" /\ ran = NothingRan /\ writes = 0
    \/ /\ ObjectInit
       /\ stack = <<>> /\ frames = <<>> /\ result = "SUCCESS"
       /\ exception = None /\ caught = None /\ leaked = FALSE /\ lost = FALSE
BothNext ==
    \/ Next /\ UNCHANGED objectVars
    \/ objects # <<>> /\ ObjectNext /\ UNCHANGED vars
BothSpec == BothInit /\ [][BothNext]_bothVars
===============================================================================
