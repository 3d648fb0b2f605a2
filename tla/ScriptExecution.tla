--------------------------- MODULE ScriptExecution ---------------------------
(***************************************************************************)
(* How a script runs: the Execute() members of the statement nodes of      *)
(* src/script/node.cc, Script::Execute, FunctionObject::Invoke and the     *)
(* state of src/interpreter.cc they share: the stack frames, the pending   *)
(* exception and the exception being handled.                              *)
(*                                                                         *)
(* The C++ call stack is the variable stack, one activation per call of    *)
(* Execute() or Invoke() that has not returned.  While result is "none"    *)
(* the topmost activation is about to execute or evaluate a child node;    *)
(* otherwise a child has just returned that kind of Result to it.  Which   *)
(* child comes next, and what expressions and native functions do, is left *)
(* open: the behaviours are those of all programs whose calls nest at most *)
(* MaxDepth deep, but for a catch clause of the innermost call.            *)
(***************************************************************************)
EXTENDS Integers, Sequences, FiniteSets

CONSTANTS MaxDepth,   \* bound of the model: nested activations
          None        \* no exception: a null handle

ASSUME DepthAssumption == MaxDepth \in Nat \ {0}

(* Instances of StopIteration, which GetNext() clears, and of all others;  *)
(* among them the AttributeError that is pending while __getattr__() is    *)
(* asked for an attribute.                                                 *)
Stop    == "StopIteration"
Missing == "AttributeError"
Other   == "other exception"
Thrown    == {Stop, Other}
Exception == {Missing} \cup Thrown
ASSUME NoneAssumption == None \notin Exception

Kind == {"ERROR", "SUCCESS", "RETURN", "BREAK", "CONTINUE"}

VARIABLES stack,      \* the activations, innermost last
          result,     \* "none", or what the last child returned
          exception,  \* Interpreter::m_exception
          caught,     \* Interpreter::m_caught_exception
          frames,     \* the chain of m_frame: what every frame was pushed for
          leaked,     \* whether a frame was pushed that nobody pops
          lost        \* whether an error has lost its exception: a node failed
                      \* without one, or one was cleared below a finally block
                      \* that is to report it

vars == <<stack, result, exception, caught, frames, leaked, lost>>

(* The activations that execute a list of statements, and all that own a   *)
(* stack frame: FunctionObject::Invoke pushes one for a native, too.       *)
Bodies == {"script", "func", "file"}
Callers == Bodies \cup {"native"}

Activation ==
    [node : Callers \cup {"block", "if", "while", "for", "try", "catch"},
     at : {"body", "parameters", "call", "cond", "collection", "first", "next",
           "bind", "else", "match", "catch", "finally"},
     finally : BOOLEAN,             \* a try statement with a finally block
     saved : Kind,                  \* the result a try statement keeps during it
     held : Exception \cup {None}]  \* the exception its catch clauses test

TypeOK ==
    /\ stack \in Seq(Activation) /\ Len(stack) <= MaxDepth + 1
    /\ result \in Kind \cup {"none"}
    /\ exception \in Exception \cup {None}
    /\ caught \in Exception \cup {None}
    /\ frames \in Seq(Callers)
    /\ leaked \in BOOLEAN /\ lost \in BOOLEAN

New(node, at) ==
    [node |-> node, at |-> at, finally |-> FALSE, saved |-> "SUCCESS", held |-> None]

Init ==
    /\ stack = <<New("script", "body")>>
    /\ frames = <<"script">>
    /\ result = "none"
    /\ exception = None /\ caught = None
    /\ leaked = FALSE /\ lost = FALSE

Depth == Len(stack)
Top == stack[Depth]
Running == stack # <<>> /\ result = "none"
Returned == stack # <<>> /\ result # "none"

At(node, at) == Top.node = node /\ Top.at = at
Returns(node, at) == Returned /\ At(node, at)

(* The topmost activation goes on to its next child. *)
Goto(at) == stack' = [stack EXCEPT ![Depth].at = at] /\ result' = "none"

(* The topmost activation returns r. *)
Return(r) == stack' = SubSeq(stack, 1, Depth - 1) /\ result' = r

Push(a) == Depth < MaxDepth /\ stack' = Append(stack, a) /\ result' = "none"

(* A try statement among the d outermost activations of s is to report an  *)
(* error once its finally block, or the type of a catch clause, has been   *)
(* executed.                                                               *)
Keeps(a) == a.at = "match" \/ (a.at = "finally" /\ a.saved = "ERROR")
ErrorKept(s, d) == \E i \in 1 .. d : Keeps(s[i])

Throw(e) == exception' = e /\ UNCHANGED lost

(* The topmost activation clears the pending exception, if there is one.   *)
ClearException == /\ exception' = None
                  /\ lost' = (lost \/ (exception # None /\ ErrorKept(stack, Depth - 1)))

stable == <<caught, frames, leaked>>

-----------------------------------------------------------------------------
(* LEAVES.  Every activation but a native function executes or evaluates a *)
(* node; some stages are statements, the others expressions.               *)

Statement == Running /\ Top.at \in {"body", "else", "finally"}
Evaluates == Running /\ Top.node # "native"

(* A node without native calls (text, a value, a variable), or one whose   *)
(* calls succeed; `return v' is one of them, since ReturnNode::Execute     *)
(* returns the value as a result of kind SUCCESS.                          *)
Succeed ==
    /\ Evaluates
    /\ result' = "SUCCESS"
    /\ UNCHANGED <<stack, exception, stable, lost>>

(* An expression throws, in place of whatever exception is pending. *)
Raise ==
    /\ Evaluates
    /\ \E e \in Thrown : Throw(e)
    /\ result' = "ERROR"
    /\ UNCHANGED <<stack, stable>>

(* A native function is called while an exception is pending: it succeeds  *)
(* but its call is reported as failed.                                     *)
FailPending ==
    /\ Evaluates /\ exception # None
    /\ result' = "ERROR"
    /\ UNCHANGED <<stack, exception, stable, lost>>

(* AttributeNode::Assign to an attribute of a number, string or the like:  *)
(* SetOwnAttribute returns false and nothing is thrown.                    *)
AssignFails ==
    /\ Statement \/ (Running /\ Top.at = "bind")
    /\ result' = "ERROR"
    /\ lost' = (lost \/ exception = None)
    /\ UNCHANGED <<stack, exception, stable>>

BreakOrContinue ==
    /\ Statement
    /\ result' \in {"BREAK", "CONTINUE"}
    /\ UNCHANGED <<stack, exception, stable, lost>>

(* `return', and `return v', which looks to its block like any expression: *)
(* the statements behind it are executed.                                  *)
ReturnStatement ==
    /\ Statement
    /\ result' \in {"RETURN", "SUCCESS"}
    /\ UNCHANGED <<stack, exception, stable, lost>>

(* `throw' without an operand. *)
Rethrow ==
    /\ Statement
    /\ IF caught = None
       THEN Throw(Other) /\ UNCHANGED caught
       ELSE Throw(caught) /\ caught' = None
    /\ result' = "ERROR"
    /\ UNCHANGED <<stack, frames, leaked>>

Leaf == Succeed \/ Raise \/ FailPending \/ AssignFails \/ BreakOrContinue
        \/ ReturnStatement \/ Rethrow

-----------------------------------------------------------------------------
(* ENTERING A NODE OR A FUNCTION                                           *)

EnterStatement ==
    /\ Statement
    /\ \/ Push(New("block", "body"))
       \/ Push(New("if", "cond"))
       \/ Push(New("while", "cond"))
       \/ Push(New("for", "collection"))
       \/ \E f \in BOOLEAN : Push([New("try", "body") EXCEPT !.finally = f])
    /\ UNCHANGED <<exception, stable, lost>>

(* FunctionObject::Invoke of a scripted function: from an expression, or   *)
(* from a native function that was given a callback.                       *)
EnterFunction ==
    /\ Running
    /\ Push(New("func", "parameters"))
    /\ frames' = Append(frames, "func")
    /\ UNCHANGED <<exception, caught, leaked, lost>>

(* Object::GetAttribute() has found no attribute, but a scripted function  *)
(* __getattr__() in the class.  What the lookup has thrown stays pending.  *)
EnterGetattr ==
    /\ Running
    /\ Push(New("func", "parameters"))
    /\ frames' = Append(frames, "func")
    /\ Throw(Missing)
    /\ UNCHANGED <<caught, leaked>>

EnterNative ==
    /\ Running
    /\ Push(New("native", "call"))
    /\ frames' = Append(frames, "native")
    /\ UNCHANGED <<exception, caught, leaked, lost>>

(* Interpreter::Include and Import, once the file has been compiled. *)
EnterFile ==
    /\ Running /\ Top.node = "native"
    /\ Push(New("file", "body"))
    /\ frames' = Append(frames, "file")
    /\ UNCHANGED <<exception, caught, leaked, lost>>

(* Import of a file with a syntax error returns without popping its frame. *)
ImportFails ==
    /\ Running /\ Top.node = "native" /\ ~leaked   \* bound of the model: one leak
    /\ Throw(Other)
    /\ frames' = Append(frames, "file")
    /\ leaked' = TRUE
    /\ result' = "ERROR"
    /\ UNCHANGED <<stack, caught>>

Enter == EnterStatement \/ EnterFunction \/ EnterGetattr \/ EnterNative \/ EnterFile \/ ImportFails

-----------------------------------------------------------------------------
(* RETURNING TO A NODE                                                     *)

quiet == <<exception, stable, lost>>

Block ==
    /\ Returns("block", "body")
    /\ \/ result = "SUCCESS" /\ Goto("body")
       \/ Return(result)
    /\ UNCHANGED quiet

If ==
    /\ \/ Returns("if", "cond") /\ result = "SUCCESS" /\ (Goto("body") \/ Return("SUCCESS"))
       \/ Returns("if", "cond") /\ result = "ERROR" /\ Return("ERROR")
       \/ Returns("if", "body") /\ Return(result)
    /\ UNCHANGED quiet

(* What a loop does with the result of its statement. *)
LoopBody(again) ==
    \/ result \in {"SUCCESS", "CONTINUE"} /\ Goto(again)
    \/ result = "BREAK" /\ Return("SUCCESS")
    \/ result \in {"RETURN", "ERROR"} /\ Return(result)

While ==
    /\ \/ Returns("while", "cond") /\ result = "SUCCESS" /\ (Goto("body") \/ Return("SUCCESS"))
       \/ Returns("while", "cond") /\ result = "ERROR" /\ Return("ERROR")
       \/ Returns("while", "body") /\ LoopBody("cond")
    /\ UNCHANGED quiet

For ==
    /\ \/ Returns("for", "collection") /\ result = "SUCCESS" /\ Goto("first")
       \/ Returns("for", "first") /\ result = "SUCCESS" /\ Goto("bind")
       \/ Returns("for", "next") /\ result = "SUCCESS" /\ Goto("bind")
       \/ Returns("for", "bind") /\ result = "SUCCESS" /\ Goto("body")
       \/ Returns("for", "collection") /\ result = "ERROR" /\ Return("ERROR")
       \/ Returns("for", "bind") /\ result = "ERROR" /\ Return("ERROR")
       \/ Returns("for", "body") /\ LoopBody("next")
       \/ Returns("for", "else") /\ Return(result)
    /\ UNCHANGED quiet

(* Object::GetNext has failed: StopIteration is cleared, and without an    *)
(* exception the loop is over.                                             *)
EndOfIteration ==
    /\ Returns("for", "first") \/ Returns("for", "next")
    /\ result = "ERROR"
    /\ IF exception = Stop THEN ClearException ELSE UNCHANGED <<exception, lost>>
    /\ IF exception \notin {Stop, None}
       THEN Return("ERROR")
       ELSE Return("SUCCESS") \/ (Top.at = "first" /\ Goto("else"))
    /\ UNCHANGED stable

(* The end of a try statement with result r, before its finally block. *)
Finally(r) ==
    IF Top.finally
    THEN /\ stack' = [stack EXCEPT ![Depth].at = "finally", ![Depth].saved = r,
                                   ![Depth].held = None]
         /\ result' = "none"
    ELSE Return(r)

(* A catch clause is to be executed, for its first stage at. *)
Handle(e, at) ==
    /\ stack' = Append([stack EXCEPT ![Depth].at = "catch", ![Depth].held = None],
                        New("catch", at))
    /\ result' = "none"
    /\ caught' = e
    /\ ClearException
    /\ UNCHANGED <<frames, leaked>>

(* The statement failed: the first catch clause has no type, or has a type *)
(* to evaluate, or there is no catch clause.                               *)
TryFailed ==
    /\ Returns("try", "body") /\ result = "ERROR"
    /\ \/ \E at \in {"bind", "body"} : Handle(exception, at)
       \/ /\ stack' = [stack EXCEPT ![Depth].at = "match", ![Depth].held = exception]
          /\ result' = "none"
          /\ UNCHANGED quiet
       \/ Finally("ERROR") /\ UNCHANGED quiet

(* The type of a catch clause has been evaluated: the clause accepts the   *)
(* exception, or the next one is tried, or none is left.                   *)
TryMatched ==
    /\ Returns("try", "match") /\ result = "SUCCESS"
    /\ \/ \E at \in {"bind", "body"} : Handle(Top.held, at)
       \/ Goto("match") /\ UNCHANGED quiet
       \/ Finally("ERROR") /\ UNCHANGED quiet

(* Mutant: the failure is returned at once. *)
TryMatchFailedReturns ==
    /\ Returns("try", "match") /\ result = "ERROR"
    /\ Return("ERROR")
    /\ UNCHANGED quiet

TryMatchFailed ==
    /\ Returns("try", "match") /\ result = "ERROR"
    /\ Finally("ERROR")
    /\ UNCHANGED quiet

(* The else statement follows every result that is not an error. *)
TrySucceeded ==
    /\ Returns("try", "body") /\ result # "ERROR"
    /\ Goto("else") \/ Finally(result)
    /\ UNCHANGED quiet

TryEnd ==
    /\ \/ Returns("try", "else") /\ Finally(result) /\ UNCHANGED caught
       \/ Returns("try", "catch") /\ Finally(result) /\ caught' = None
       \/ /\ Returns("try", "finally")
          /\ Return(IF result = "ERROR" THEN "ERROR" ELSE Top.saved)
          /\ UNCHANGED caught
    /\ UNCHANGED <<exception, frames, leaked, lost>>

Catch ==
    /\ \/ Returns("catch", "bind") /\ result = "SUCCESS" /\ Goto("body")
       \/ Returns("catch", "bind") /\ result = "ERROR" /\ Return("ERROR")
       \/ Returns("catch", "body") /\ Return(result)
    /\ UNCHANGED quiet

(* A function, file or script goes on, or returns and pops a frame. *)
Leave(r) == /\ Return(r)
            /\ frames' = IF frames = <<>> THEN frames ELSE SubSeq(frames, 1, Len(frames) - 1)

BodyGoesOn ==
    /\ Returned /\ Top.node \in Bodies /\ result = "SUCCESS"
    /\ (Goto("body") /\ UNCHANGED frames) \/ Leave("SUCCESS")
    /\ UNCHANGED <<exception, caught, leaked, lost>>

(* Mutant: the result of the return statement is passed on. *)
BodyReturnsReturn ==
    /\ Returned /\ Top.node \in Bodies /\ result = "RETURN"
    /\ Leave("RETURN")
    /\ UNCHANGED <<exception, caught, leaked, lost>>

BodyReturns ==
    /\ Returned /\ Top.node \in Bodies /\ result = "RETURN"
    /\ Leave("SUCCESS")
    /\ UNCHANGED <<exception, caught, leaked, lost>>

BodyFails ==
    /\ Returned /\ Top.node \in Bodies /\ result = "ERROR"
    /\ Leave("ERROR")
    /\ UNCHANGED <<exception, caught, leaked, lost>>

(* Mutant: the frame stays. *)
BodyBrokenKeepsFrame ==
    /\ Returned /\ Top.node \in Bodies /\ result \in {"BREAK", "CONTINUE"}
    /\ Throw(Other)
    /\ Return("ERROR")
    /\ UNCHANGED <<caught, frames, leaked>>

(* "Unexpected break", "Unexpected continue". *)
BodyBroken ==
    /\ Returned /\ Top.node \in Bodies /\ result \in {"BREAK", "CONTINUE"}
    /\ Throw(Other)
    /\ Leave("ERROR")
    /\ UNCHANGED <<caught, leaked>>

Body == BodyGoesOn \/ BodyReturns \/ BodyFails \/ BodyBroken

(* A native function looks at what its callback did, and may treat a       *)
(* failed GetNext() as the end of an iteration.                            *)
NativeGoesOn ==
    /\ Returns("native", "call")
    /\ Goto("call")
    /\ \/ UNCHANGED <<exception, lost>>
       \/ result = "ERROR" /\ exception = Stop /\ ClearException
    /\ UNCHANGED stable

(* Mutant: the call always counts as successful. *)
NativeSucceeds ==
    /\ Running /\ Top.node = "native"
    /\ \/ UNCHANGED <<exception, lost>>
       \/ \E e \in Thrown : Throw(e)
    /\ Leave("SUCCESS")
    /\ UNCHANGED <<caught, leaked>>

(* It may throw before it returns; whether its call succeeded depends on   *)
(* the pending exception alone.                                            *)
NativeReturns ==
    /\ Running /\ Top.node = "native"
    /\ \/ UNCHANGED <<exception, lost>>
       \/ \E e \in Thrown : Throw(e)
    /\ Leave(IF exception' = None THEN "SUCCESS" ELSE "ERROR")
    /\ UNCHANGED <<caught, leaked>>

Native == NativeGoesOn \/ NativeReturns

Next == \/ Leaf \/ Enter \/ Block \/ If \/ While \/ For \/ EndOfIteration
        \/ TryFailed \/ TryMatched \/ TryMatchFailed \/ TrySucceeded \/ TryEnd \/ Catch
        \/ Body \/ Native

Spec == Init /\ [][Next]_vars

-----------------------------------------------------------------------------
(* PROPERTIES                                                              *)

(* The stages that the code of a node, a function or a file has. *)
HasStages(a) ==
    /\ \/ a.node \in {"script", "file", "block"} /\ a.at = "body"
       \/ a.node = "func" /\ a.at \in {"parameters", "body"}
       \/ a.node = "native" /\ a.at = "call"
       \/ a.node \in {"if", "while"} /\ a.at \in {"cond", "body"}
       \/ /\ a.node = "for"
          /\ a.at \in {"collection", "first", "next", "bind", "body", "else"}
       \/ a.node = "try" /\ a.at \in {"body", "else", "match", "catch", "finally"}
       \/ a.node = "catch" /\ a.at \in {"bind", "body"}
    /\ a.finally => a.node = "try"

(* What may execute b: statements are executed by statement stages, catch  *)
(* clauses by try statements, files by native functions.                   *)
MayEnter(a, b) ==
    /\ b.node \in {"block", "if", "while", "for", "try"} => a.at \in {"body", "else", "finally"}
    /\ b.node = "catch" => a.at = "catch"
    /\ b.node = "file" => a.node = "native"

(* A stack of activations that the interpreter may have. *)
Nests(s) ==
    /\ \A i \in 1 .. Len(s) : HasStages(s[i])
    /\ \A i \in 1 .. Len(s) - 1 : MayEnter(s[i], s[i + 1])
    /\ Len(s) > MaxDepth => s[Len(s)].node = "catch"

(* Of the n outermost activations of s, those that own a stack frame. *)
Owners(s, n) == {i \in 1 .. n : s[i].node \in Callers}

(* f is the chain of the frames of exactly those functions, files and      *)
(* scripts in s, the outermost first.                                      *)
IsFrameChain(f, s) ==
    /\ Len(f) = Cardinality(Owners(s, Len(s)))
    /\ \A i \in Owners(s, Len(s)) : f[Cardinality(Owners(s, i))] = s[i].node

(* No activation is at a stage it does not have or was entered from where  *)
(* it cannot be.  Interpreter::m_frame is the chain of those that have not *)
(* returned, whatever way statements end in between: every PushFrame meets *)
(* its PopFrame, but for the one Import forgets.                           *)
WellNested == TypeOK /\ Nests(stack) /\ (~leaked => IsFrameChain(frames, stack))

NativeRuns(s, d) == \E i \in 1 .. d : s[i].node = "native"
CatchRuns(s, d) == \E i \in 1 .. d : s[i].at = "catch"

(* An exception is pending only while an error is on its way, or is kept   *)
(* for later: by a try statement, or by a native function, whose call will *)
(* be reported as failed.  So no script ends well with one unnoticed, but  *)
(* for the AttributeError of a lookup that __getattr__() has answered.     *)
NoneUnnoticed ==
    exception \notin {None, Missing} =>
        result = "ERROR" \/ ErrorKept(stack, Depth) \/ NativeRuns(stack, Depth)

(* A failed node has left an exception, and keeps it while its failure is  *)
(* put off by a try statement, unless one has been lost in one of the two  *)
(* ways that lost records.                                                 *)
ErrorsHaveExceptions == (result = "ERROR" \/ ErrorKept(stack, Depth)) /\ ~lost => exception # None

(* The exception GetCaughtException() returns belongs to a catch clause    *)
(* that is being executed: none outlives its clause.                       *)
CaughtInsideCatch == caught # None => CatchRuns(stack, Depth)

(* Both exceptions an interpreter keeps belong to something that is still  *)
(* going on, and whatever fails leaves one behind.                         *)
PendingIsAccountedFor == NoneUnnoticed /\ ErrorsHaveExceptions /\ CaughtInsideCatch

(* `break', `continue' and `return' reach statements alone: none of them   *)
(* escapes from a function into the expression that called it, or from a   *)
(* file into its importer.                                                 *)
ControlStaysInside ==
    Returned /\ result \in {"BREAK", "CONTINUE", "RETURN"} =>
        Top.at \in {"body", "else", "catch", "finally"}

(* A try statement with a finally block never ends without executing it,   *)
(* be it left by an error, a return, a break or a failing catch clause.    *)
FinallyRuns ==
    [][Depth > 0 /\ Len(stack') < Depth /\ Top.finally => Top.at = "finally"]_vars
=============================================================================
