--------------------------- MODULE ExecutionProofs ---------------------------
(***************************************************************************)
(* Theorems about ObjectModel and ScriptExecution.                         *)
(*                                                                         *)
(* Of ObjectModel, for any objects, attributes and nesting of calls: the   *)
(* outcome of a call and the pending exception agree, and functions get    *)
(* receivers of their class.  Of ScriptExecution, for programs of any      *)
(* depth: the stack of activations and the chain of frames match, both     *)
(* exceptions are accounted for, and control statements and finally blocks *)
(* do what they promise.  The two models share no variable.                *)
(***************************************************************************)
EXTENDS ObjectModel, ScriptExecution, FiniteSetTheorems, SequenceTheorems, TLAPS

-----------------------------------------------------------------------------
(* OBJECTMODEL                                                             *)

(* What a function that has not returned waits for: the functions that     *)
(* find an attribute or call a function wait for nothing, they run.        *)
Waiting == {"apply", "apply call", "init", "initialized", "called"}
Active == {"get", "invoke"}

(* Only the innermost function runs.                                       *)
Suspended(s) == /\ \E S : s \in Seq(S)
                /\ \A i \in 2 .. Len(s) : s[i].do \in Waiting

(* A function starts with no exception but the AttributeError of a lookup  *)
(* that __getattr__() answers; what has returned agrees with what is       *)
(* pending.                                                                *)
Agrees(running, ok, raised) ==
    IF running THEN raised # "thrown"
    ELSE IF ok THEN raised # "thrown" ELSE raised # "none"

InnermostRuns(s) == s # <<>> /\ s[1].do \in Active

(* The inductive invariant. *)
OutcomeInv ==
    /\ Suspended(todo)
    /\ Agrees(InnermostRuns(todo), answer.ok, pending)

-----------------------------------------------------------------------------
(* What becomes of the functions that have not returned.                   *)

(* The innermost one returns to one that waits for it, or to the script.   *)
LEMMA ReturnSuspends ==
    ASSUME NEW s, Suspended(s), s # <<>>
    PROVE  /\ Suspended(Tail(s)) /\ ~InnermostRuns(Tail(s))
           /\ \A i \in 1 .. Len(Tail(s)) : Tail(s)[i].do \in Waiting
<1>1. PICK S : s \in Seq(S)
  BY DEF Suspended
<1>2. /\ Tail(s) \in Seq(S) /\ Len(Tail(s)) = Len(s) - 1
      /\ \A i \in 1 .. Len(Tail(s)) : Tail(s)[i] = s[i + 1]
      /\ Len(s) \in Nat /\ Len(s) >= 1
  BY <1>1
<1>. DEFINE t == Tail(s)
<1>3. t \in Seq(S) /\ \A i \in 1 .. Len(t) : t[i].do \in Waiting
  BY <1>2 DEF Suspended
<1>. HIDE DEF t
<1>4. t # <<>> => t[1].do \in Waiting
  <2>1. t # <<>> => Len(t) \in Nat /\ Len(t) # 0  BY <1>3
  <2>. QED  BY <1>3, <2>1
<1>5. Suspended(t)
  BY <1>3 DEF Suspended
<1>6. ~InnermostRuns(t)
  BY <1>4 DEF InnermostRuns, Waiting, Active
<1>. QED  BY <1>3, <1>5, <1>6 DEF t

(* It is replaced by functions of which the first runs.                    *)
LEMMA InsteadSuspends ==
    ASSUME NEW s, Suspended(s), s # <<>>, NEW items, NEW T, items \in Seq(T),
           items # <<>>, items[1].do \in Active,
           \A i \in 2 .. Len(items) : items[i].do \in Waiting
    PROVE  Suspended(items \o Tail(s)) /\ InnermostRuns(items \o Tail(s))
<1>. DEFINE t == Tail(s)
<1>1. (\E S : t \in Seq(S)) /\ \A i \in 1 .. Len(t) : t[i].do \in Waiting
  BY ReturnSuspends DEF Suspended
<1>. HIDE DEF t
<1>2. PICK S : t \in Seq(S)
  BY <1>1
<1>3. items \in Seq(S \cup T) /\ t \in Seq(S \cup T)
  BY <1>2
<1>. DEFINE u == items \o t
<1>4. /\ u \in Seq(S \cup T) /\ Len(u) = Len(items) + Len(t)
      /\ \A i \in 1 .. Len(items) : u[i] = items[i]
      /\ \A i \in Len(items) + 1 .. Len(u) : u[i] = t[i - Len(items)]
      /\ Len(items) \in Nat /\ Len(t) \in Nat /\ Len(items) >= 1
  BY <1>3
<1>. HIDE DEF u
<1>5. ASSUME NEW i \in 2 .. Len(u)
      PROVE  u[i].do \in Waiting
  <2>1. CASE i <= Len(items)
    <3>1. i \in 2 .. Len(items) /\ i \in 1 .. Len(items)  BY <1>4, <2>1
    <3>. QED  BY <1>4, <3>1
  <2>2. CASE i > Len(items)
    <3>1. i \in Len(items) + 1 .. Len(u) /\ i - Len(items) \in 1 .. Len(t)
      BY <1>4, <2>2
    <3>. QED  BY <1>1, <1>4, <3>1
  <2>. QED  BY <1>4, <2>1, <2>2
<1>6. u # <<>> /\ u[1] = items[1]
  <2>1. Len(u) # 0 /\ 1 \in 1 .. Len(items)  BY <1>4
  <2>. QED  BY <1>4, <2>1
<1>. QED  BY <1>4, <1>5, <1>6 DEF Suspended, InnermostRuns, t, u

(* What Instead() is used with: one function, two or three.                *)
LEMMA OneInstead ==
    ASSUME NEW s, Suspended(s), s # <<>>, NEW x, x.do \in Active
    PROVE  Suspended(<<x>> \o Tail(s)) /\ InnermostRuns(<<x>> \o Tail(s))
<1>1. <<x>> \in Seq({x}) /\ <<x>> # <<>> /\ Len(<<x>>) = 1 /\ <<x>>[1] = x
  OBVIOUS
<1>2. 2 .. 1 = {}
  OBVIOUS
<1>. QED  BY <1>1, <1>2, InsteadSuspends

LEMMA TwoInstead ==
    ASSUME NEW s, Suspended(s), s # <<>>, NEW x, x.do \in Active,
           NEW y, y.do \in Waiting
    PROVE  Suspended(<<x, y>> \o Tail(s)) /\ InnermostRuns(<<x, y>> \o Tail(s))
<1>. DEFINE items == <<x, y>>
<1>1. items \in Seq({x, y}) /\ items # <<>> /\ Len(items) = 2 /\ items[1] = x /\ items[2] = y
  OBVIOUS
<1>. HIDE DEF items
<1>2. \A i \in 2 .. Len(items) : items[i].do \in Waiting
  BY <1>1
<1>3. Suspended(items \o Tail(s)) /\ InnermostRuns(items \o Tail(s))
  BY <1>1, <1>2, InsteadSuspends
<1>. QED  BY <1>3 DEF items

LEMMA ThreeInstead ==
    ASSUME NEW s, Suspended(s), s # <<>>, NEW x, x.do \in Active,
           NEW y, y.do \in Waiting, NEW z, z.do \in Waiting
    PROVE  /\ Suspended((<<x, y>> \o <<z>>) \o Tail(s))
           /\ InnermostRuns((<<x, y>> \o <<z>>) \o Tail(s))
<1>. DEFINE items == <<x, y>> \o <<z>>
<1>1. /\ items \in Seq({x, y, z}) /\ items # <<>> /\ Len(items) = 3
      /\ items[1] = x /\ items[2] = y /\ items[3] = z
  OBVIOUS
<1>. HIDE DEF items
<1>2. \A i \in 2 .. Len(items) : items[i].do \in Waiting
  BY <1>1
<1>3. Suspended(items \o Tail(s)) /\ InnermostRuns(items \o Tail(s))
  BY <1>1, <1>2, InsteadSuspends
<1>. QED  BY <1>3 DEF items

-----------------------------------------------------------------------------
(* Three ways a step can go on.                                            *)

(* The innermost function returns.                                         *)
LEMMA ReturnAgrees ==
    ASSUME OutcomeInv, todo # <<>>, todo' = Tail(todo),
           Agrees(FALSE, answer'.ok, pending')
    PROVE  OutcomeInv'
<1>1. Suspended(todo') /\ ~InnermostRuns(todo')
  BY ReturnSuspends DEF OutcomeInv
<1>. QED  BY <1>1 DEF OutcomeInv, Agrees

LEMMA AnswerStep ==
    ASSUME OutcomeInv, todo # <<>>, NEW ok, NEW v, Answer(ok, v),
           Agrees(FALSE, ok, pending')
    PROVE  OutcomeInv'
<1>1. answer'.ok = ok /\ todo' = Tail(todo)
  BY DEF Answer
<1>. QED  BY <1>1, ReturnAgrees

LEMMA ThrowStep ==
    ASSUME OutcomeInv, todo # <<>>, ThrowError
    PROVE  OutcomeInv'
  BY AnswerStep DEF ThrowError, Fail, Agrees

LEMMA NativeAnswers ==
    ASSUME OutcomeInv, todo # <<>>, NEW v, ReturnNative(v), pending' = pending
    PROVE  OutcomeInv'
  BY AnswerStep DEF ReturnNative, Agrees

(* It calls another one, with no exception but that of a lookup.           *)
LEMMA CallStep ==
    ASSUME OutcomeInv, Suspended(todo'), InnermostRuns(todo'), pending' # "thrown"
    PROVE  OutcomeInv'
  BY DEF OutcomeInv, Agrees

(* What a running function, and a waiting one, may rely on.                *)
LEMMA Reliance ==
    ASSUME OutcomeInv, todo # <<>>, It.do \in Active \cup Waiting
    PROVE  /\ Suspended(todo)
           /\ It.do \in Active => pending # "thrown"
           /\ It.do \in Waiting => Agrees(FALSE, answer.ok, pending)
<1>1. It = todo[1]
  BY DEF OutcomeInv, Suspended, It
<1>2. Active \cap Waiting = {}
  BY DEF Active, Waiting
<1>. QED  BY <1>1, <1>2 DEF OutcomeInv, InnermostRuns, Agrees

-----------------------------------------------------------------------------
(* The functions of the interpreter.                                       *)
LEMMA FindAttributeStep ==
    ASSUME OutcomeInv, FindAttribute
    PROVE  OutcomeInv'
<1>1. todo # <<>> /\ Suspended(todo) /\ pending # "thrown"
  BY Reliance DEF FindAttribute, Busy, Active, It
<1>. DEFINE found == GetAttribute(It.of, It.name)
<1>2. ASSUME NEW f \in found, Answer(TRUE, f), UNCHANGED pending
      PROVE  OutcomeInv'
  BY <1>1, <1>2, AnswerStep DEF Agrees
<1>3. CASE ThrowError
  BY <1>1, <1>3, ThrowStep
<1>4. ASSUME NEW f \in GetAttr(It.of), Instead(<<Invoke(f, <<It.of, Null>>)>>),
             pending' = "missing"
      PROVE  OutcomeInv'
  <2>. DEFINE x == Invoke(f, <<It.of, Null>>)
  <2>1. x.do \in Active  BY DEF Invoke, Active
  <2>2. todo' = <<x>> \o Tail(todo)  BY <1>4 DEF Instead
  <2>. HIDE DEF x
  <2>. QED  BY <1>1, <1>4, <2>1, <2>2, OneInstead, CallStep
<1>. HIDE DEF found
<1>. QED  BY <1>2, <1>3, <1>4 DEF FindAttribute, found

LEMMA ApplyFunctionStep ==
    ASSUME OutcomeInv, ApplyFunction
    PROVE  OutcomeInv'
<1>1. todo # <<>> /\ Suspended(todo) /\ Agrees(FALSE, answer.ok, pending)
  BY Reliance DEF ApplyFunction, Busy, Waiting, It
<1>. DEFINE f == answer.value
            args == IF IsUnboundMethod(f) THEN <<It.of>> \o It.args ELSE It.args
<1>2. CASE /\ ~answer.ok
           /\ Fail /\ pending' = IF pending = "none" THEN "thrown" ELSE pending
  <2>1. Agrees(FALSE, FALSE, pending')
    BY <1>2 DEF Agrees
  <2>. QED  BY <1>1, <1>2, <2>1, AnswerStep DEF Fail
<1>3. CASE /\ answer.ok
           /\ Instead(<<Invoke(f, args)>>) /\ UNCHANGED <<answer, pending>>
  <2>. DEFINE x == Invoke(f, args)
  <2>1. x.do \in Active  BY DEF Invoke, Active
  <2>2. todo' = <<x>> \o Tail(todo)  BY <1>3 DEF Instead
  <2>3. pending' # "thrown"  BY <1>1, <1>3 DEF Agrees
  <2>. HIDE DEF x
  <2>. QED  BY <1>1, <2>1, <2>2, <2>3, OneInstead, CallStep
<1>4. CASE /\ answer.ok
           /\ Instead(<<Get(f, "__call__"), [It EXCEPT !.do = "apply call"]>>)
           /\ UNCHANGED <<answer, pending>>
  <2>. DEFINE x == Get(f, "__call__")
              y == [It EXCEPT !.do = "apply call"]
  <2>1. x.do \in Active  BY DEF Get, Active
  <2>2. y.do \in Waiting  BY DEF Waiting
  <2>3. todo' = <<x, y>> \o Tail(todo)  BY <1>4 DEF Instead
  <2>4. pending' # "thrown"  BY <1>1, <1>4 DEF Agrees
  <2>. HIDE DEF x, y
  <2>. QED  BY <1>1, <2>1, <2>2, <2>3, <2>4, TwoInstead, CallStep
<1>. QED  BY <1>2, <1>3, <1>4 DEF ApplyFunction

LEMMA ApplyCallStep ==
    ASSUME OutcomeInv, ApplyCall
    PROVE  OutcomeInv'
<1>1. todo # <<>> /\ Suspended(todo) /\ Agrees(FALSE, answer.ok, pending)
  BY Reliance DEF ApplyCall, Busy, Waiting, It
<1>2. pending' = pending  BY DEF ApplyCall
<1>3. CASE ~answer.ok /\ Fail
  BY <1>1, <1>2, <1>3, AnswerStep DEF Fail, Agrees
<1>4. CASE answer.ok /\ Answer(TRUE, It.slot)
  BY <1>1, <1>2, <1>4, AnswerStep DEF Agrees
<1>5. CASE answer.ok /\ Instead(<<Invoke(answer.value, It.args)>>)
  <2>. DEFINE x == Invoke(answer.value, It.args)
  <2>1. x.do \in Active  BY DEF Invoke, Active
  <2>2. todo' = <<x>> \o Tail(todo)  BY <1>5 DEF Instead
  <2>3. pending' # "thrown"  BY <1>1, <1>2, <1>5 DEF Agrees
  <2>. HIDE DEF x
  <2>. QED  BY <1>1, <2>1, <2>2, <2>3, OneInstead, CallStep
<1>. QED  BY <1>3, <1>4, <1>5 DEF ApplyCall

(* Functions that are not native. *)
LEMMA InvokeStep ==
    ASSUME OutcomeInv, InvokeScripted \/ InvokeCurried \/ InvokeAlias \/ Refuse
    PROVE  OutcomeInv'
<1>1. todo # <<>> /\ Suspended(todo) /\ pending # "thrown"
  BY Reliance DEF InvokeScripted, InvokeCurried, InvokeAlias, Refuse, Busy, Active, It
<1>2. CASE ThrowError
  BY <1>1, <1>2, ThrowStep
<1>3. ASSUME NEW v, Answer(TRUE, v), UNCHANGED pending
      PROVE  OutcomeInv'
  BY <1>1, <1>3, AnswerStep DEF Agrees
<1>4. CASE Instead(<<Invoke(It.of[2], <<It.of[3]>> \o It.args)>>) /\ UNCHANGED pending
  <2>. DEFINE x == Invoke(It.of[2], <<It.of[3]>> \o It.args)
  <2>1. x.do \in Active  BY DEF Invoke, Active
  <2>2. todo' = <<x>> \o Tail(todo)  BY <1>4 DEF Instead
  <2>. HIDE DEF x
  <2>. QED  BY <1>1, <1>4, <2>1, <2>2, OneInstead, CallStep
<1>5. CASE /\ Instead(CallMethod(It.args[1], It.of[2], Tail(It.args), NullHandle))
           /\ UNCHANGED pending
  <2>. DEFINE x == Get(It.args[1], It.of[2])
              y == Apply(It.args[1], Tail(It.args), NullHandle)
  <2>1. x.do \in Active /\ y.do \in Waiting  BY DEF Get, Apply, Active, Waiting
  <2>2. todo' = <<x, y>> \o Tail(todo)  BY <1>5 DEF Instead, CallMethod
  <2>. HIDE DEF x, y
  <2>. QED  BY <1>1, <1>5, <2>1, <2>2, TwoInstead, CallStep
<1>6. CASE InvokeScripted
  BY <1>2, <1>3, <1>6 DEF InvokeScripted
<1>7. CASE InvokeCurried
  BY <1>4, <1>7 DEF InvokeCurried
<1>8. CASE InvokeAlias
  BY <1>2, <1>5, <1>8 DEF InvokeAlias
<1>9. CASE Refuse
  BY <1>2, <1>9 DEF Refuse
<1>. QED  BY <1>6, <1>7, <1>8, <1>9

-----------------------------------------------------------------------------
(* Native methods. *)
LEMMA FunctionStep ==
    ASSUME OutcomeInv, RunLeaf \/ class_alloc
    PROVE  OutcomeInv'
<1>1. todo # <<>>
  BY DEF RunLeaf, class_alloc, RunsNative, Busy
<1>2. CASE ThrowError
  BY <1>1, <1>2, ThrowStep
<1>3. ASSUME NEW v, ReturnNative(v), UNCHANGED pending
      PROVE  OutcomeInv'
  BY <1>1, <1>3, NativeAnswers
<1>. QED  BY <1>2, <1>3 DEF RunLeaf, class_alloc

LEMMA ResumeStep ==
    ASSUME OutcomeInv, Initialized \/ FunctionCalled
    PROVE  OutcomeInv'
<1>1. todo # <<>> /\ pending' = pending
  BY DEF Initialized, FunctionCalled, Busy
<1>2. ASSUME NEW v, ReturnNative(v)
      PROVE  OutcomeInv'
  BY <1>1, <1>2, NativeAnswers
<1>. QED  BY <1>2 DEF Initialized, FunctionCalled

LEMMA NativeCallStep ==
    ASSUME OutcomeInv, class_call \/ func_call
    PROVE  OutcomeInv'
<1>1. todo # <<>> /\ Suspended(todo) /\ pending # "thrown" /\ pending' = pending
  BY Reliance DEF class_call, func_call, RunsNative, Busy, Active, It
<1>2. CASE class_call
  <2>. DEFINE x == Get(It.args[1], "alloc")
              y == Apply(It.args[1], <<>>, NullHandle)
              z == [do |-> "init", args |-> Tail(It.args)]
  <2>1. x.do \in Active /\ y.do \in Waiting /\ z.do \in Waiting
    BY DEF Get, Apply, Active, Waiting
  <2>2. todo' = (<<x, y>> \o <<z>>) \o Tail(todo)
    BY <1>2 DEF class_call, Instead, CallMethod
  <2>. HIDE DEF x, y, z
  <2>. QED  BY <1>1, <2>1, <2>2, ThreeInstead, CallStep
<1>3. CASE func_call
  <2>. DEFINE x == Invoke(It.args[1], Tail(It.args))
              y == [do |-> "called"]
  <2>1. x.do \in Active /\ y.do \in Waiting
    BY DEF Invoke, Active, Waiting
  <2>2. todo' = <<x, y>> \o Tail(todo)
    BY <1>3 DEF func_call, Instead
  <2>. HIDE DEF x, y
  <2>. QED  BY <1>1, <2>1, <2>2, TwoInstead, CallStep
<1>. QED  BY <1>2, <1>3

LEMMA InitializeStep ==
    ASSUME OutcomeInv, Initialize
    PROVE  OutcomeInv'
<1>1. /\ todo # <<>> /\ Suspended(todo) /\ Agrees(FALSE, answer.ok, pending)
      /\ pending' = pending
  BY Reliance DEF Initialize, Busy, Waiting, It
<1>2. CASE ReturnNative(Null)
  BY <1>1, <1>2, NativeAnswers
<1>3. CASE /\ answer.ok
           /\ Instead(CallMethod(answer.value, "__init__", It.args, NullHandle)
                      \o <<[do |-> "initialized", instance |-> answer.value]>>)
  <2>. DEFINE x == Get(answer.value, "__init__")
              y == Apply(answer.value, It.args, NullHandle)
              z == [do |-> "initialized", instance |-> answer.value]
  <2>1. x.do \in Active /\ y.do \in Waiting /\ z.do \in Waiting
    BY DEF Get, Apply, Active, Waiting
  <2>2. todo' = (<<x, y>> \o <<z>>) \o Tail(todo)
    BY <1>3 DEF Instead, CallMethod
  <2>3. pending' # "thrown"  BY <1>1, <1>3 DEF Agrees
  <2>. HIDE DEF x, y, z
  <2>. QED  BY <1>1, <2>1, <2>2, <2>3, ThreeInstead, CallStep
<1>. QED  BY <1>2, <1>3 DEF Initialize

-----------------------------------------------------------------------------
(* The script goes on after it has caught what a call has thrown.          *)
LEMMA ScriptStep ==
    ASSUME OutcomeInv, Keep \/ ReadAttribute \/ AssignAttribute \/ CallAttribute
    PROVE  OutcomeInv'
<1>1. ScriptOnly
  BY DEF Keep, ReadAttribute, AssignAttribute, CallAttribute
<1>2. todo = <<>> /\ answer'.ok /\ pending' # "thrown"
  BY <1>1 DEF ScriptOnly, Caught, OutcomeInv, InnermostRuns, Agrees
<1>3. Suspended(todo')
  <2>1. CASE todo' = todo
    BY <2>1 DEF OutcomeInv
  <2>2. ASSUME NEW v, NEW n, todo' = <<Get(v, n)>>
        PROVE  Suspended(todo')
    <3>. DEFINE x == Get(v, n)
    <3>. HIDE DEF x
    <3>1. todo' = <<x>>  BY <2>2 DEF x
    <3>2. <<x>> \in Seq({x}) /\ Len(<<x>>) = 1  OBVIOUS
    <3>3. 2 .. 1 = {}  OBVIOUS
    <3>. QED  BY <3>1, <3>2, <3>3 DEF Suspended
  <2>3. ASSUME NEW v, NEW n, NEW args, todo' = CallMethod(v, n, args, v)
        PROVE  Suspended(todo')
    <3>. DEFINE x == Get(v, n)
                y == Apply(v, args, v)
    <3>1. todo' = <<x, y>> /\ y.do \in Waiting
      BY <2>3 DEF CallMethod, Apply, Waiting
    <3>. HIDE DEF x, y
    <3>2. <<x, y>> \in Seq({x, y}) /\ Len(<<x, y>>) = 2 /\ <<x, y>>[2] = y  OBVIOUS
    <3>3. \A i \in 2 .. 2 : i = 2  OBVIOUS
    <3>. QED  BY <3>1, <3>2, <3>3 DEF Suspended
  <2>. QED
    BY <2>1, <2>2, <2>3 DEF Keep, ReadAttribute, AssignAttribute, CallAttribute
<1>. QED  BY <1>2, <1>3 DEF OutcomeInv, Agrees

(* Every step, whatever functions call each other.                         *)
LEMMA OutcomeStep ==
    ASSUME OutcomeInv, [ObjectNext]_objectVars
    PROVE  OutcomeInv'
<1>1. CASE UNCHANGED objectVars
  BY <1>1 DEF objectVars, OutcomeInv
<1>. QED
  BY <1>1, FindAttributeStep, ApplyFunctionStep, ApplyCallStep, InvokeStep, FunctionStep,
     ResumeStep, NativeCallStep, InitializeStep, ScriptStep DEF ObjectNext

(* However deep calls nest, and whatever method has been assigned where: a *)
(* call that fails leaves an exception, and one that succeeds leaves none  *)
(* but the AttributeError of a lookup that __getattr__() has answered.     *)
THEOREM OutcomesAgree == ObjectSpec => []OutcomeIsPending
<1>1. ObjectInit => OutcomeInv
  <2>1. <<>> \in Seq({}) /\ Len(<<>>) = 0  OBVIOUS
  <2>2. 2 .. 0 = {}  OBVIOUS
  <2>3. Suspended(<<>>)  BY <2>1, <2>2 DEF Suspended
  <2>. QED  BY <2>3 DEF ObjectInit, OutcomeInv, InnermostRuns, Agrees
<1>2. OutcomeInv /\ [ObjectNext]_objectVars => OutcomeInv'
  BY OutcomeStep
<1>3. OutcomeInv => OutcomeIsPending
  BY DEF OutcomeInv, OutcomeIsPending, InnermostRuns, Agrees
<1>. QED  BY <1>1, <1>2, <1>3, PTL DEF ObjectSpec

-----------------------------------------------------------------------------
(* The receivers of native methods. The classes decide the types of their  *)
(* instances, and no script can change a class but in its attributes.      *)

(* Classes whose instances natives take for a C++ type.                    *)
Typed == {"Class", "List", "Function"}

ClassFields == {"class", "type", "base", "alloc", "attrs"}

(* The classes form a tree of depth two below Object. A class that may     *)
(* make objects of any type is not one of those that natives trust.        *)
ClassOK(k) ==
    /\ ClassFields \subseteq DOMAIN objects[k]
    /\ objects[k].class = "Class"
    /\ IF k = "Object" THEN objects[k].base = ""
       ELSE IF k = "Iterable" THEN objects[k].base = "Object"
       ELSE objects[k].base \in {"Object", "Iterable"}
    /\ objects[k].alloc \in {"any", "list", "class", "nothing"}
    /\ objects[k].alloc = "list" => k = "List"
    /\ objects[k].alloc = "any" => k \notin Typed

(* An instance has the type its class stands for. *)
InstanceOK(k) ==
    /\ {"class", "type", "attrs"} \subseteq DOMAIN objects[k]
    /\ objects[k].class \in Classes \ {"Class", "Function"}
    /\ objects[k].class = "List" => objects[k].type = "list"

ObjectsOK ==
    /\ {"Object", "Class", "Function", "Iterable", "List"} \subseteq Classes
    /\ "null" \in DOMAIN objects
    /\ objects["Object"].alloc = "any"
    /\ \A k \in Classes : ClassOK(k)
    /\ \A k \in DOMAIN objects \ Classes : InstanceOK(k)

LEMMA Bases ==
    ASSUME ObjectsOK, NEW k \in Classes
    PROVE  /\ objects[k].base \in {"", "Object", "Iterable"}
           /\ objects[k].base # "" => objects[k].base \in Classes
           /\ objects["Object"].base = "" /\ objects["Iterable"].base = "Object"
  BY DEF ObjectsOK, ClassOK

LEMMA Subclasses ==
    ASSUME ObjectsOK, NEW c \in Classes, NEW d \in Typed, IsSubclassOf(c, d)
    PROVE  c = d
<1>. DEFINE Is[k \in Classes] == k = d \/ (objects[k].base # "" /\ Is[objects[k].base])
<1>1. Is[c]
  BY DEF IsSubclassOf
<1>. DEFINE W == [k \in Classes |-> k = d]
<1>2. W = [k \in Classes |-> k = d \/ (objects[k].base # "" /\ W[objects[k].base])]
  BY Bases DEF Typed
<1>3. \E f : f = [k \in Classes |-> k = d \/ (objects[k].base # "" /\ f[objects[k].base])]
  <2>. HIDE DEF W
  <2>. QED  BY <1>2
<1>4. Is = [k \in Classes |-> k = d \/ (objects[k].base # "" /\ Is[objects[k].base])]
  <2>. HIDE DEF W
  <2>. QED  BY <1>3 DEF Is
<1>. HIDE DEF Is
<1>5. \A k \in Classes : Is[k] = (k = d \/ (objects[k].base # "" /\ Is[objects[k].base]))
  BY <1>4
<1>. QED  BY <1>1, <1>5, Bases DEF Typed, ObjectsOK

(* What a class is asked for is an attribute of it or of one of its bases. *)
LEMMA Inherited ==
    ASSUME ObjectsOK, NEW c \in Classes, NEW n, NEW v \in OfClass(c, n)
    PROVE  \E k \in Classes : n \in DOMAIN objects[k].attrs /\ v = objects[k].attrs[n]
<1>. DEFINE Own(k) == n \in DOMAIN objects[k].attrs
            Ours(k) == {objects[k].attrs[n]}
            Find[k \in Classes] ==
                IF n \in DOMAIN objects[k].attrs THEN {objects[k].attrs[n]}
                ELSE IF objects[k].base = "" THEN {} ELSE Find[objects[k].base]
<1>1. v \in Find[c]
  BY DEF OfClass
<1>. DEFINE top    == IF Own("Object") THEN Ours("Object") ELSE {}
            second == IF Own("Iterable") THEN Ours("Iterable") ELSE top
            W == [k \in Classes |->
                     IF n \in DOMAIN objects[k].attrs THEN {objects[k].attrs[n]}
                     ELSE IF objects[k].base = "" THEN {}
                     ELSE IF objects[k].base = "Object" THEN top ELSE second]
<1>2. W = [k \in Classes |-> IF n \in DOMAIN objects[k].attrs THEN {objects[k].attrs[n]}
                             ELSE IF objects[k].base = "" THEN {} ELSE W[objects[k].base]]
  <2>1. ASSUME NEW k \in Classes, objects[k].base # ""
        PROVE  W[objects[k].base] = IF objects[k].base = "Object" THEN top ELSE second
    BY <2>1, Bases
  <2>. DEFINE U == [k \in Classes |->
                       IF n \in DOMAIN objects[k].attrs THEN {objects[k].attrs[n]}
                       ELSE IF objects[k].base = "" THEN {} ELSE W[objects[k].base]]
  <2>2. \A k \in Classes : W[k] = U[k]
    BY <2>1
  <2>. QED  BY <2>2
<1>3. \E f : f = [k \in Classes |-> IF n \in DOMAIN objects[k].attrs THEN {objects[k].attrs[n]}
                                  ELSE IF objects[k].base = "" THEN {} ELSE f[objects[k].base]]
  <2>. HIDE DEF W
  <2>. QED  BY <1>2
<1>4. Find = [k \in Classes |-> IF n \in DOMAIN objects[k].attrs THEN {objects[k].attrs[n]}
                                ELSE IF objects[k].base = "" THEN {} ELSE Find[objects[k].base]]
  <2>. HIDE DEF W
  <2>. QED  BY <1>3 DEF Find
<1>. HIDE DEF Find, W
<1>5. ASSUME NEW k \in Classes
      PROVE  Find[k] = IF n \in DOMAIN objects[k].attrs THEN {objects[k].attrs[n]}
                       ELSE IF objects[k].base = "" THEN {} ELSE Find[objects[k].base]
  BY <1>4
<1>6. CASE Own(c)
  BY <1>1, <1>5, <1>6
<1>7. CASE ~Own(c)
  <2>1. objects[c].base \in Classes /\ v \in Find[objects[c].base]
    BY <1>1, <1>5, <1>7, Bases
  <2>2. objects[c].base \in {"Object", "Iterable"}
    BY <1>1, <1>5, <1>7, Bases
  <2>3. /\ "Object" \in Classes /\ objects["Object"].base = ""
        /\ "Iterable" \in Classes /\ objects["Iterable"].base = "Object"
    BY Bases DEF ObjectsOK
  <2>4. v \in Find["Object"] => Own("Object") /\ v \in Ours("Object")
    BY <1>5, <2>3
  <2>5. v \in Find["Iterable"] =>
            (Own("Iterable") /\ v \in Ours("Iterable")) \/ v \in Find["Object"]
    BY <1>5, <2>3
  <2>. QED  BY <2>1, <2>2, <2>3, <2>4, <2>5
<1>. QED  BY <1>6, <1>7

-----------------------------------------------------------------------------
(* Values.  A bound method is made of values again, and functions are      *)
(* bound to methods already bound: V stands for the values that exist.     *)
IsValueSet(V, ids) ==
    /\ \A id \in ids : Obj(id) \in V
    /\ Scripted \in V
    /\ \A v \in V : \/ \E id \in ids : v = Obj(id)
                   \/ v = Scripted
                   \/ \E c, n : v = Unbound(c, n)
                   \/ v = Alias("join")
                   \/ \E f, this \in V : v = Bound(f, this)

Names == ReadNames \cup {"alloc", "__init__", "__call__", "join"}

(* The functions that have not returned, with their arguments.             *)
Item(V) ==
    [do : {"get"}, of : V \cup {NullHandle}, name : Names]
    \cup [do : {"apply", "apply call"}, of : V, args : Seq(V), slot : V \cup {NullHandle}]
    \cup [do : {"invoke"}, of : V, args : Seq(V)]
    \cup [do : {"init"}, args : Seq(V)]
    \cup [do : {"initialized"}, instance : V]
    \cup [do : {"called"}]

(* All values that attributes, the script and functions hold exist.        *)
Exist(V) ==
    /\ IsValueSet(V, DOMAIN objects)
    /\ \A k \in DOMAIN objects : \A n \in DOMAIN objects[k].attrs : objects[k].attrs[n] \in V
    /\ held \in V
    /\ answer.value \in V \cup {NullHandle}
    /\ todo \in Seq(Item(V))

(* More values are enough, too. *)
LEMMA MoreItems ==
    ASSUME NEW V, NEW W, V \subseteq W
    PROVE  Seq(V) \subseteq Seq(W) /\ Item(V) \subseteq Item(W)
           /\ Seq(Item(V)) \subseteq Seq(Item(W))
<1>1. Seq(V) \subseteq Seq(W)
  OBVIOUS
<1>2. Item(V) \subseteq Item(W)
  BY <1>1 DEF Item
<1>. QED  BY <1>1, <1>2

(* An object is an instance, or a class; functions have a class, too.      *)
LEMMA ClassesOfValues ==
    ASSUME ObjectsOK, NEW V, IsValueSet(V, DOMAIN objects), NEW v \in V
    PROVE  /\ Class(v) \in Classes
           /\ IsFunction(v) => Class(v) = "Function" /\ Type(v) = "function"
           /\ ~IsFunction(v) => v[2] \in DOMAIN objects
           /\ v # NullHandle
<1>1. \/ v[1] \in {"unbound", "alias", "curry", "scripted"}
      \/ \E id \in DOMAIN objects : v = Obj(id)
  BY DEF IsValueSet, Scripted, Unbound, Alias, Bound
<1>2. CASE v[1] \in {"unbound", "alias", "curry", "scripted"}
  <2>1. IsFunction(v)  BY <1>2 DEF IsFunction
  <2>2. Class(v) = "Function" /\ Type(v) = "function"  BY <2>1 DEF Class, Type
  <2>3. "Function" \in Classes  BY DEF ObjectsOK
  <2>4. NullHandle[1] = "null handle"  BY DEF NullHandle
  <2>5. v # NullHandle  BY <1>2, <2>4
  <2>. QED  BY <2>1, <2>2, <2>3, <2>5
<1>3. CASE \E id \in DOMAIN objects : v = Obj(id)
  <2>1. PICK id \in DOMAIN objects : v = Obj(id)  BY <1>3
  <2>2. v[1] = "object" /\ v[2] = id  BY <2>1 DEF Obj
  <2>3. objects[id].class \in Classes
    <3>1. CASE id \in Classes
      <4>1. ClassOK(id) /\ "Class" \in Classes  BY <3>1 DEF ObjectsOK
      <4>. QED  BY <4>1 DEF ClassOK
    <3>2. CASE id \notin Classes
      <4>1. InstanceOK(id)  BY <3>2 DEF ObjectsOK
      <4>. QED  BY <4>1 DEF InstanceOK
    <3>. QED  BY <3>1, <3>2
  <2>4. ~IsFunction(v)  BY <2>2 DEF IsFunction
  <2>5. Class(v) \in Classes  BY <2>2, <2>3, <2>4 DEF Class
  <2>6. NullHandle[1] = "null handle"  BY DEF NullHandle
  <2>. QED  BY <2>2, <2>4, <2>5, <2>6
<1>. QED  BY <1>1, <1>2, <1>3

(* An instance of a class that natives trust has its type.                 *)
LEMMA TypesOfInstances ==
    ASSUME ObjectsOK, NEW V, IsValueSet(V, DOMAIN objects), NEW v \in V,
           NEW c \in Typed, IsInstance(v, c)
    PROVE  Type(v) = IF c = "Class" THEN "Class" ELSE IF c = "List" THEN "list" ELSE "function"
<1>1. Class(v) = c
  BY ClassesOfValues, Subclasses DEF IsInstance
<1>2. CASE IsFunction(v)
  BY <1>1, <1>2, ClassesOfValues
<1>3. CASE ~IsFunction(v)
  <2>1. v[2] \in DOMAIN objects /\ objects[v[2]].class = c /\ Type(v) = objects[v[2]].type
    BY <1>1, <1>3, ClassesOfValues DEF Class, Type
  <2>2. CASE v[2] \in Classes
    BY <2>1, <2>2 DEF ObjectsOK, ClassOK, Classes
  <2>3. CASE v[2] \notin Classes
    BY <2>1, <2>3 DEF ObjectsOK, InstanceOK, Typed
  <2>. QED  BY <2>2, <2>3
<1>. QED  BY <1>2, <1>3

(* What natives take for granted, by the class of the method.              *)
TypeOf(c) == IF c = "Class" THEN "Class" ELSE IF c = "List" THEN "list" ELSE "function"

LEMMA TakesIs ==
    ASSUME NEW m \in DOMAIN Takes
    PROVE  m[1] = "unbound" /\ m[2] \in Typed /\ Takes[m] = TypeOf(m[2])
  BY DEF Takes, Unbound, Typed, TypeOf

-----------------------------------------------------------------------------
(* The objects the interpreter starts with.                                *)
LEMMA BuiltinObjects ==
    ASSUME ObjectInit
    PROVE  /\ DOMAIN objects = {"Object", "Class", "Function", "Iterable", "List", "Void", "null"}
           /\ objects["Object"] = Cls("", "any", Methods("Object", {"__init__", "__str__"}))
           /\ objects["Class"] = Cls("Object", "class", Methods("Class", {"alloc", "__call__", "__str__"}))
           /\ objects["Function"] = Cls("Object", "nothing", Methods("Function", {"__call__"}))
           /\ objects["Iterable"] = Cls("Object", "any", Methods("Iterable", {"join"}))
           /\ objects["List"] = Cls("Iterable", "list",
                  With(Methods("List", {"__init__", "size"}), "__str__", Alias("join")))
           /\ objects["Void"] = Cls("Iterable", "nothing", <<>>)
           /\ objects["null"] = [class |-> "Void", type |-> "primary", attrs |-> <<>>]
<1>. DEFINE null == [class |-> "Void", type |-> "primary", attrs |-> <<>>]
            d == With(Builtin, "null", null)
<1>1. objects = d
  BY DEF ObjectInit
<1>2. /\ DOMAIN Builtin = {"Object", "Class", "Function", "Iterable", "List", "Void"}
      /\ Builtin["Object"] = Cls("", "any", Methods("Object", {"__init__", "__str__"}))
      /\ Builtin["Class"] = Cls("Object", "class", Methods("Class", {"alloc", "__call__", "__str__"}))
      /\ Builtin["Function"] = Cls("Object", "nothing", Methods("Function", {"__call__"}))
      /\ Builtin["Iterable"] = Cls("Object", "any", Methods("Iterable", {"join"}))
      /\ Builtin["List"] = Cls("Iterable", "list",
                 With(Methods("List", {"__init__", "size"}), "__str__", Alias("join")))
      /\ Builtin["Void"] = Cls("Iterable", "nothing", <<>>)
  BY DEF Builtin
<1>3. /\ DOMAIN d = DOMAIN Builtin \cup {"null"}
      /\ d["null"] = null
      /\ \A k \in DOMAIN Builtin : k # "null" => d[k] = Builtin[k]
  BY DEF With
<1>. HIDE DEF d
<1>. QED  BY <1>1, <1>2, <1>3

(* The members of a class. *)
LEMMA ClassMembers ==
    ASSUME NEW base, NEW alloc, NEW attrs
    PROVE  /\ ClassFields \subseteq DOMAIN Cls(base, alloc, attrs)
           /\ Cls(base, alloc, attrs).class = "Class" /\ Cls(base, alloc, attrs).type = "Class"
           /\ Cls(base, alloc, attrs).base = base /\ Cls(base, alloc, attrs).alloc = alloc
           /\ Cls(base, alloc, attrs).attrs = attrs
  BY DEF Cls, ClassFields

LEMMA NullMembers ==
    ASSUME ObjectInit
    PROVE  /\ objects["null"].class = "Void" /\ objects["null"].type = "primary"
           /\ objects["null"].attrs = <<>>
           /\ {"class", "type", "attrs"} \subseteq DOMAIN objects["null"]
<1>1. objects["null"] = [class |-> "Void", type |-> "primary", attrs |-> <<>>]
  BY BuiltinObjects
<1>. QED  BY <1>1

LEMMA InitObjectsOK ==
    ASSUME ObjectInit
    PROVE  ObjectsOK
<1>. DEFINE C == {"Object", "Class", "Function", "Iterable", "List", "Void"}
            Is(k, base, alloc) == /\ ClassFields \subseteq DOMAIN objects[k]
                                  /\ objects[k].class = "Class" /\ objects[k].type = "Class"
                                  /\ objects[k].base = base /\ objects[k].alloc = alloc
<1>1. /\ DOMAIN objects = C \cup {"null"}
      /\ Is("Object", "", "any") /\ Is("Class", "Object", "class")
      /\ Is("Function", "Object", "nothing") /\ Is("Iterable", "Object", "any")
      /\ Is("List", "Iterable", "list") /\ Is("Void", "Iterable", "nothing")
      /\ objects["null"].class = "Void" /\ objects["null"].type = "primary"
      /\ {"class", "type", "attrs"} \subseteq DOMAIN objects["null"]
  <2>1. DOMAIN objects = C \cup {"null"}  BY BuiltinObjects
  <2>2. ASSUME NEW k, NEW base, NEW alloc, NEW attrs, objects[k] = Cls(base, alloc, attrs)
        PROVE  Is(k, base, alloc)
    BY <2>2, ClassMembers
  <2>. HIDE DEF Is
  <2>3. Is("Object", "", "any")  BY <2>2, BuiltinObjects
  <2>4. Is("Class", "Object", "class")  BY <2>2, BuiltinObjects
  <2>5. Is("Function", "Object", "nothing")  BY <2>2, BuiltinObjects
  <2>6. Is("Iterable", "Object", "any")  BY <2>2, BuiltinObjects
  <2>7. Is("List", "Iterable", "list")  BY <2>2, BuiltinObjects
  <2>8. Is("Void", "Iterable", "nothing")  BY <2>2, BuiltinObjects
  <2>. QED  BY <2>1, <2>3, <2>4, <2>5, <2>6, <2>7, <2>8, NullMembers
<1>2. Classes = C
  BY <1>1 DEF Classes
<1>3. \A k \in Classes : ClassOK(k)
  BY <1>1, <1>2 DEF ClassOK, Typed
<1>4. \A k \in DOMAIN objects \ Classes : InstanceOK(k)
  BY <1>1, <1>2 DEF InstanceOK
<1>. QED  BY <1>1, <1>2, <1>3, <1>4 DEF ObjectsOK

BuiltinNames == {"__init__", "__str__", "alloc", "__call__", "join", "size"}

LEMMA InitExist ==
    ASSUME ObjectInit
    PROVE  \E V : Exist(V)
<1>. DEFINE V == {Obj(id) : id \in DOMAIN objects} \cup {Scripted, Alias("join")}
                 \cup {Unbound(c, n) : c \in DOMAIN objects, n \in BuiltinNames}
<1>1. IsValueSet(V, DOMAIN objects)
  <2>1. \A id \in DOMAIN objects : Obj(id) \in V
    OBVIOUS
  <2>2. ASSUME NEW v \in V
        PROVE  \/ \E id \in DOMAIN objects : v = Obj(id)
               \/ v = Scripted
               \/ \E c, n : v = Unbound(c, n)
               \/ v = Alias("join")
    OBVIOUS
  <2>. HIDE DEF V
  <2>3. Scripted \in V  BY DEF V
  <2>. QED  BY <2>1, <2>2, <2>3 DEF IsValueSet
<1>2. ASSUME NEW c \in DOMAIN objects, NEW names, names \subseteq BuiltinNames,
             NEW n \in DOMAIN Methods(c, names)
      PROVE  Methods(c, names)[n] \in V
  BY <1>2 DEF Methods
<1>3. ASSUME NEW k \in DOMAIN objects, NEW n \in DOMAIN objects[k].attrs
      PROVE  objects[k].attrs[n] \in V
  <2>. DEFINE list == Methods("List", {"__init__", "size"})
              attrs == objects[k].attrs
  <2>. HIDE DEF V
  <2>0. ASSUME NEW base, NEW alloc, NEW a, objects[k] = Cls(base, alloc, a)
        PROVE  attrs = a
    BY <2>0, ClassMembers
  <2>1. \/ k \in {"Void", "null"} /\ attrs = <<>>
        \/ k = "List" /\ attrs = With(list, "__str__", Alias("join"))
        \/ k = "Object" /\ attrs = Methods("Object", {"__init__", "__str__"})
        \/ k = "Class" /\ attrs = Methods("Class", {"alloc", "__call__", "__str__"})
        \/ k = "Function" /\ attrs = Methods("Function", {"__call__"})
        \/ k = "Iterable" /\ attrs = Methods("Iterable", {"join"})
    <3>. HIDE DEF attrs, list
    <3>1. k \in {"Object", "Class", "Function", "Iterable", "List", "Void", "null"}
      BY BuiltinObjects
    <3>2. CASE k = "Object"  BY <3>2, <2>0, BuiltinObjects
    <3>3. CASE k = "Class"  BY <3>3, <2>0, BuiltinObjects
    <3>4. CASE k = "Function"  BY <3>4, <2>0, BuiltinObjects
    <3>5. CASE k = "Iterable"  BY <3>5, <2>0, BuiltinObjects
    <3>6. CASE k = "List"  BY <3>6, <2>0, BuiltinObjects DEF list
    <3>7. CASE k = "Void"  BY <3>7, <2>0, BuiltinObjects
    <3>8. CASE k = "null"  BY <3>8, NullMembers DEF attrs
    <3>. QED  BY <3>1, <3>2, <3>3, <3>4, <3>5, <3>6, <3>7, <3>8
  <2>2. Alias("join") \in V
    BY DEF V
  <2>3. /\ {"__init__", "__str__"} \subseteq BuiltinNames
        /\ {"alloc", "__call__", "__str__"} \subseteq BuiltinNames
        /\ {"__call__"} \subseteq BuiltinNames /\ {"join"} \subseteq BuiltinNames
        /\ {"__init__", "size"} \subseteq BuiltinNames
    BY DEF BuiltinNames
  <2>4. n \in DOMAIN attrs
    BY <1>3
  <2>. HIDE DEF attrs, list
  <2>5. CASE attrs = <<>>
    BY <2>4, <2>5
  <2>6. CASE k = "List" /\ attrs = With(list, "__str__", Alias("join"))
    <3>1. /\ n = "__str__" \/ n \in DOMAIN list
          /\ attrs[n] = IF n = "__str__" THEN Alias("join") ELSE list[n]
      BY <2>4, <2>6 DEF With
    <3>2. n \in DOMAIN list => list[n] \in V
      BY <1>2, <2>3, <2>6 DEF list
    <3>3. attrs[n] \in V
      BY <2>2, <3>1, <3>2
    <3>. QED  BY <3>3 DEF attrs
  <2>7. ASSUME NEW names, names \subseteq BuiltinNames, attrs = Methods(k, names)
        PROVE  attrs[n] \in V
    BY <1>2, <2>4, <2>7
  <2>8. attrs[n] \in V
    BY <2>1, <2>3, <2>5, <2>6, <2>7 DEF attrs
  <2>. QED  BY <2>8 DEF attrs
<1>4. Scripted \in V /\ Null \in V /\ <<>> \in Seq(Item(V))
  <2>1. "null" \in DOMAIN objects  BY BuiltinObjects
  <2>. QED  BY <2>1 DEF Null
<1>5. held \in V /\ answer.value \in V /\ todo \in Seq(Item(V))
  BY <1>4 DEF ObjectInit
<1>. HIDE DEF V
<1>. QED  BY <1>1, <1>3, <1>5 DEF Exist

-----------------------------------------------------------------------------
(* What a script does to objects.                                          *)

(* The attributes do not matter for the type of an object.                 *)
LEMMA AssignedObjects ==
    ASSUME ObjectsOK, NEW id \in DOMAIN objects, NEW n,
           objects' = [objects EXCEPT ![id].attrs = With(@, n, held)]
    PROVE  /\ ObjectsOK' /\ DOMAIN objects' = DOMAIN objects
           /\ \A k \in DOMAIN objects : \A m \in DOMAIN objects'[k].attrs :
                  \/ objects'[k].attrs[m] = held
                  \/ m \in DOMAIN objects[k].attrs /\ objects'[k].attrs[m] = objects[k].attrs[m]
<1>. DEFINE o == objects[id]
            p == [o EXCEPT !.attrs = With(o.attrs, n, held)]
<1>1. /\ DOMAIN objects' = DOMAIN objects /\ objects'[id] = p
      /\ \A k \in DOMAIN objects : k # id => objects'[k] = objects[k]
  OBVIOUS
<1>2. {"class", "type", "attrs"} \subseteq DOMAIN o
  <2>1. CASE id \in Classes
    <3>1. ClassOK(id)  BY <2>1 DEF ObjectsOK
    <3>. QED  BY <3>1 DEF ClassOK, ClassFields
  <2>2. CASE id \notin Classes
    <3>1. InstanceOK(id)  BY <2>2 DEF ObjectsOK
    <3>. QED  BY <3>1 DEF InstanceOK
  <2>. QED  BY <2>1, <2>2
<1>3. id \in Classes => {"base", "alloc"} \subseteq DOMAIN o
  BY DEF ObjectsOK, ClassOK, ClassFields
<1>4. /\ DOMAIN p = DOMAIN o /\ p.class = o.class /\ p.type = o.type
      /\ p.attrs = With(o.attrs, n, held)
      /\ id \in Classes => p.base = o.base /\ p.alloc = o.alloc
  BY <1>2, <1>3
<1>. HIDE DEF p, o
<1>5. \A k \in DOMAIN objects :
          /\ DOMAIN objects'[k] = DOMAIN objects[k]
          /\ objects'[k].class = objects[k].class /\ objects'[k].type = objects[k].type
          /\ k \in Classes => /\ objects'[k].base = objects[k].base
                              /\ objects'[k].alloc = objects[k].alloc
  BY <1>1, <1>4 DEF o
<1>6. Classes' = Classes
  BY <1>1, <1>5 DEF Classes
<1>7. \A k \in Classes : k \in DOMAIN objects
  BY DEF Classes
<1>8. ObjectsOK'
  <2>1. ASSUME NEW k \in Classes PROVE ClassOK(k)'
    <3>1. ClassOK(k) /\ k \in DOMAIN objects  BY <1>7 DEF ObjectsOK
    <3>2. /\ DOMAIN objects'[k] = DOMAIN objects[k] /\ objects'[k].class = objects[k].class
          /\ objects'[k].base = objects[k].base /\ objects'[k].alloc = objects[k].alloc
      BY <1>5, <3>1
    <3>. QED  BY <3>1, <3>2 DEF ClassOK
  <2>2. ASSUME NEW k \in DOMAIN objects \ Classes PROVE InstanceOK(k)'
    BY <1>5, <1>6 DEF ObjectsOK, InstanceOK
  <2>3. objects'["Object"].alloc = "any"
    BY <1>5, <1>7 DEF ObjectsOK
  <2>. QED  BY <1>1, <1>6, <2>1, <2>2, <2>3 DEF ObjectsOK
<1>9. ASSUME NEW k \in DOMAIN objects, NEW m \in DOMAIN objects'[k].attrs
      PROVE  \/ objects'[k].attrs[m] = held
             \/ m \in DOMAIN objects[k].attrs /\ objects'[k].attrs[m] = objects[k].attrs[m]
  <2>1. CASE k = id
    BY <1>1, <1>4, <1>9, <2>1 DEF With, o
  <2>2. CASE k # id
    BY <1>1, <1>9, <2>2
  <2>. QED  BY <2>1, <2>2
<1>. QED  BY <1>1, <1>8, <1>9

(* Class#alloc() makes an object of the type its class stands for.         *)
LEMMA MadeObjects ==
    ASSUME ObjectsOK, NEW c \in Classes, objects[c].alloc # "nothing",
           NEW id, id \notin DOMAIN objects, objects' = With(objects, id, Made(c))
    PROVE  /\ ObjectsOK' /\ DOMAIN objects' = DOMAIN objects \cup {id}
           /\ \A k \in DOMAIN objects : objects'[k] = objects[k]
           /\ objects'[id].attrs = <<>>
<1>. DEFINE made == Made(c)
<1>1. ClassOK(c)
  BY DEF ObjectsOK
<1>2. /\ {"class", "type", "attrs"} \subseteq DOMAIN made /\ made.attrs = <<>>
      /\ \/ /\ made.type = "Class" /\ made.class = "Class" /\ ClassFields \subseteq DOMAIN made
            /\ made.base = "Object" /\ made.alloc = "any"
         \/ made.type = "list" /\ made.class = c /\ c = "List"
         \/ made.type = "custom" /\ made.class = c /\ c \notin Typed
  <2>1. CASE objects[c].alloc = "any"
    <3>1. made = [class |-> c, type |-> "custom", attrs |-> <<>>]
      BY <2>1 DEF Made
    <3>. HIDE DEF made
    <3>. QED  BY <1>1, <2>1, <3>1 DEF ClassOK
  <2>2. CASE objects[c].alloc = "list"
    <3>1. made = [class |-> c, type |-> "list", attrs |-> <<>>]
      BY <2>2 DEF Made
    <3>. HIDE DEF made
    <3>. QED  BY <1>1, <2>2, <3>1 DEF ClassOK
  <2>3. CASE objects[c].alloc = "class"
    <3>1. made = Cls("Object", "any", <<>>)
      BY <2>3 DEF Made, ObjectsOK
    <3>. HIDE DEF made
    <3>. QED  BY <3>1, ClassMembers DEF ClassFields
  <2>. QED  BY <1>1, <2>1, <2>2, <2>3 DEF ClassOK
<1>. HIDE DEF made
<1>3. /\ DOMAIN objects' = DOMAIN objects \cup {id} /\ objects'[id] = made
      /\ \A k \in DOMAIN objects : objects'[k] = objects[k]
  BY DEF With, made
<1>4. Classes' = IF made.type = "Class" THEN Classes \cup {id} ELSE Classes
  BY <1>3 DEF Classes
<1>5. {"Object", "Class", "Function", "Iterable", "List"} \subseteq Classes /\ Classes \subseteq DOMAIN objects
  BY DEF ObjectsOK, Classes
<1>6. ASSUME NEW k \in Classes' PROVE ClassOK(k)'
  <2>1. CASE k \in Classes
    <3>1. ClassOK(k) /\ objects'[k] = objects[k]  BY <1>3, <1>5, <2>1 DEF ObjectsOK
    <3>. QED  BY <3>1 DEF ClassOK
  <2>2. CASE k = id /\ made.type = "Class"
    <3>1. k \notin Typed /\ k # "Object" /\ k # "Iterable" /\ k # "List"  BY <1>5, <2>2 DEF Typed
    <3>. QED  BY <1>2, <1>3, <2>2, <3>1 DEF ClassOK
  <2>. QED  BY <1>4, <1>6, <2>1, <2>2
<1>7. ASSUME NEW k \in DOMAIN objects' \ Classes' PROVE InstanceOK(k)'
  <2>1. CASE k \in DOMAIN objects
    <3>1. InstanceOK(k) /\ objects'[k] = objects[k]  BY <1>3, <1>4, <1>7, <2>1 DEF ObjectsOK
    <3>. QED  BY <1>4, <3>1 DEF InstanceOK
  <2>2. CASE k = id /\ made.type # "Class"
    <3>1. made.class \in Classes' \ {"Class", "Function"}
      BY <1>2, <1>4, <2>2 DEF Typed
    <3>2. made.class = "List" => made.type = "list"
      BY <1>2, <2>2 DEF Typed
    <3>. QED  BY <1>2, <1>3, <2>2, <3>1, <3>2 DEF InstanceOK
  <2>. QED  BY <1>3, <1>4, <1>7, <2>1, <2>2
<1>8. objects'["Object"].alloc = "any"
  BY <1>3, <1>5 DEF ObjectsOK
<1>9. ObjectsOK'
  <2>1. "null" \in DOMAIN objects'  BY <1>3 DEF ObjectsOK
  <2>. QED  BY <1>4, <1>5, <1>6, <1>7, <1>8, <2>1 DEF ObjectsOK
<1>. QED  BY <1>2, <1>3, <1>9

-----------------------------------------------------------------------------
(* The functions that have not returned.                                   *)

(* What there is in an item, by what it does ... *)
LEMMA ItemFields ==
    ASSUME NEW V, NEW x \in Item(V)
    PROVE  /\ x.do = "get" => x.of \in V \cup {NullHandle} /\ x.name \in Names
           /\ x.do \in {"apply", "apply call"} =>
                 /\ x.of \in V /\ x.args \in Seq(V) /\ x.slot \in V \cup {NullHandle}
                 /\ [x EXCEPT !.do = "apply call"] \in Item(V)
           /\ x.do = "invoke" => x.of \in V /\ x.args \in Seq(V)
           /\ x.do = "init" => x.args \in Seq(V)
           /\ x.do = "initialized" => x.instance \in V
  BY DEF Item

(* ... and the other way round. *)
LEMMA Items ==
    ASSUME NEW V
    PROVE  /\ \A v \in V \cup {NullHandle}, n \in Names : Get(v, n) \in Item(V)
           /\ \A v \in V, args \in Seq(V), slot \in V \cup {NullHandle} :
                  Apply(v, args, slot) \in Item(V)
           /\ \A f \in V, args \in Seq(V) : Invoke(f, args) \in Item(V)
           /\ \A args \in Seq(V) : [do |-> "init", args |-> args] \in Item(V)
           /\ \A v \in V : [do |-> "initialized", instance |-> v] \in Item(V)
           /\ [do |-> "called"] \in Item(V)
  BY DEF Item, Get, Apply, Invoke

LEMMA Innermost ==
    ASSUME NEW V, Exist(V), todo # <<>>
    PROVE  It \in Item(V) /\ Tail(todo) \in Seq(Item(V))
  BY DEF Exist, It

LEMMA Replaced ==
    ASSUME NEW V, Exist(V), todo # <<>>, NEW items \in Seq(Item(V)), Instead(items)
    PROVE  todo' \in Seq(Item(V))
  BY Innermost DEF Instead

LEMMA Called ==
    ASSUME NEW V, NEW v \in V, NEW n \in Names, NEW args \in Seq(V), NEW slot \in V \cup {NullHandle}
    PROVE  CallMethod(v, n, args, slot) \in Seq(Item(V))
<1>1. Get(v, n) \in Item(V) /\ Apply(v, args, slot) \in Item(V)
  BY Items
<1>. QED  BY <1>1 DEF CallMethod

-----------------------------------------------------------------------------
(* The inductive invariant: the objects have the types their classes stand *)
(* for, all values are objects or functions that exist, and what has run   *)
(* was given a receiver of its type.                                       *)
ReceiverInv == /\ ObjectsOK
               /\ \E V : Exist(V)
               /\ ReceiverFits

(* Steps that make no object, assign nothing and run no native method.     *)
LEMMA QuietStep ==
    ASSUME ReceiverInv, NEW V, IsValueSet(V, DOMAIN objects), Exist(V),
           NEW W, V \subseteq W, IsValueSet(W, DOMAIN objects),
           objects' = objects, ReceiverFits',
           held' \in W, answer'.value \in W \cup {NullHandle}, todo' \in Seq(Item(W))
    PROVE  ReceiverInv'
<1>1. ObjectsOK'
  <2>1. Classes' = Classes  BY DEF Classes
  <2>2. ASSUME NEW k \in Classes PROVE ClassOK(k)'
    BY DEF ReceiverInv, ObjectsOK, ClassOK
  <2>3. ASSUME NEW k \in DOMAIN objects \ Classes PROVE InstanceOK(k)'
    BY <2>1 DEF ReceiverInv, ObjectsOK, InstanceOK
  <2>. QED  BY <2>1, <2>2, <2>3 DEF ReceiverInv, ObjectsOK
<1>2. Exist(W)'
  BY DEF Exist
<1>. QED  BY <1>1, <1>2 DEF ReceiverInv

(* The values are those that there were. *)
LEMMA SameValues ==
    ASSUME ReceiverInv, NEW V, Exist(V), objects' = objects, ReceiverFits',
           held' \in V, answer'.value \in V \cup {NullHandle}, todo' \in Seq(Item(V))
    PROVE  ReceiverInv'
<1>1. IsValueSet(V, DOMAIN objects)
  BY DEF Exist
<1>. QED  BY <1>1, QuietStep

LEMMA PureFits ==
    ASSUME ReceiverInv, ran' = ran \/ ran' = NothingRan
    PROVE  ReceiverFits'
<1>1. CASE ran' = ran
  BY <1>1 DEF ReceiverInv, ReceiverFits
<1>2. CASE ran' = NothingRan
  <2>1. ran'.method = <<>>
    BY <1>2 DEF NothingRan
  <2>2. <<>> \notin DOMAIN Takes
    BY DEF Takes, Unbound
  <2>. QED  BY <2>1, <2>2 DEF ReceiverFits
<1>. QED  BY <1>1, <1>2

(* A native method that runs was given a receiver of its type.             *)
LEMMA RunFits ==
    ASSUME ReceiverInv, NEW f, RunsNative(f), Runs
    PROVE  ReceiverFits'
<1>1. PICK V : Exist(V)
  BY DEF ReceiverInv
<1>2. It \in Item(V) /\ It.do = "invoke" /\ It.of = f /\ Accepts(f, It.args)
  BY <1>1, Innermost DEF RunsNative, Busy, It
<1>3. It.args \in Seq(V) /\ It.args # <<>> /\ IsInstance(It.args[1], f[2])
  BY <1>2, ItemFields DEF Accepts
<1>4. It.args[1] \in V
  BY <1>3
<1>5. ran'.method = f /\ ran'.type = Type(It.args[1])
  BY <1>2 DEF Runs
<1>6. IsValueSet(V, DOMAIN objects) /\ ObjectsOK
  BY <1>1 DEF Exist, ReceiverInv
<1>7. ASSUME f \in DOMAIN Takes
      PROVE  Type(It.args[1]) = Takes[f]
  BY <1>3, <1>4, <1>6, <1>7, TakesIs, TypesOfInstances DEF TypeOf
<1>. QED  BY <1>5, <1>7 DEF ReceiverFits

-----------------------------------------------------------------------------
(* Attributes that are found are values, bound to what was asked for them. *)
LEMMA CurriedExist ==
    ASSUME NEW ids, NEW V, IsValueSet(V, ids), NEW fs, fs \subseteq V, NEW this \in V,
           NEW f \in Curried(fs, this)
    PROVE  /\ \E W : V \subseteq W /\ IsValueSet(W, ids) /\ f \in W
           /\ ~IsUnboundMethod(f)
<1>1. PICK g \in V : f = IF IsUnboundMethod(g) THEN Bound(g, this) ELSE g
  BY DEF Curried
<1>2. CASE IsUnboundMethod(g)
  <2>1. f = Bound(g, this)
    BY <1>1, <1>2
  <2>2. IsValueSet(V \cup {f}, ids)
    <3>1. \A v \in V \cup {f} : \/ v \in V
                                \/ v = Bound(g, this)
      BY <2>1
    <3>. QED  BY <3>1 DEF IsValueSet
  <2>3. ~IsUnboundMethod(f)
    BY <2>1 DEF IsUnboundMethod, Bound
  <2>. QED  BY <2>2, <2>3
<1>3. CASE ~IsUnboundMethod(g)
  BY <1>1, <1>3
<1>. QED  BY <1>2, <1>3

(* The attributes of a class are values. *)
LEMMA ClassAttributes ==
    ASSUME ObjectsOK, NEW V, Exist(V), NEW c \in Classes, NEW n
    PROVE  OfClass(c, n) \subseteq V
<1>1. Classes \subseteq DOMAIN objects
  BY DEF Classes
<1>. QED  BY <1>1, Inherited DEF Exist

LEMMA Found ==
    ASSUME ObjectsOK, NEW V, Exist(V), NEW v \in V, NEW n, NEW f \in GetAttribute(v, n)
    PROVE  \E W : V \subseteq W /\ IsValueSet(W, DOMAIN objects) /\ f \in W
<1>. DEFINE class  == Class(v)
            own    == GetOwnAttribute(v, n)
            OfMeta == Curried(OfClass("Class", n), Obj(class))
<1>1. IsValueSet(V, DOMAIN objects)
  BY DEF Exist
<1>2. class \in Classes /\ Obj(class) \in V /\ "Class" \in Classes
  <2>1. class \in Classes  BY <1>1, ClassesOfValues
  <2>2. class \in DOMAIN objects  BY <2>1 DEF Classes
  <2>. QED  BY <1>1, <2>1, <2>2 DEF IsValueSet, ObjectsOK
<1>3. OfClass(class, n) \subseteq V /\ OfClass("Class", n) \subseteq V
  BY <1>2, ClassAttributes
<1>4. CASE f \in own
  <2>1. CASE IsFunction(v)
    BY <1>4, <2>1 DEF GetOwnAttribute
  <2>2. CASE ~IsFunction(v) /\ Type(v) = "Class"
    <3>1. v[2] \in Classes
      BY <1>1, <2>2, ClassesOfValues DEF Classes, Type
    <3>2. f \in OfClass(v[2], n)
      BY <1>4, <2>2 DEF GetOwnAttribute
    <3>3. f \in V
      BY <3>1, <3>2, ClassAttributes
    <3>. QED  BY <1>1, <3>3
  <2>3. CASE ~IsFunction(v) /\ Type(v) # "Class"
    <3>1. v[2] \in DOMAIN objects
      BY <1>1, <2>3, ClassesOfValues
    <3>2. n \in DOMAIN objects[v[2]].attrs /\ f = objects[v[2]].attrs[n]
      BY <1>4, <2>3 DEF GetOwnAttribute
    <3>3. f \in V
      BY <3>1, <3>2 DEF Exist
    <3>. QED  BY <1>1, <3>3
  <2>. QED  BY <2>1, <2>2, <2>3
<1>5. CASE f \in Curried(OfClass("Class", n), v) \/ f \in Curried(OfClass(class, n), v)
  BY <1>1, <1>3, <1>5, CurriedExist
<1>6. CASE f \in Curried(OfMeta, v)
  <2>1. PICK g \in OfMeta : f = IF IsUnboundMethod(g) THEN Bound(g, v) ELSE g
    BY <1>6 DEF Curried
  <2>2. /\ \E W : V \subseteq W /\ IsValueSet(W, DOMAIN objects) /\ g \in W
        /\ ~IsUnboundMethod(g)
    BY <1>1, <1>2, <1>3, CurriedExist
  <2>. QED  BY <2>1, <2>2
<1>. HIDE DEF class, own, OfMeta
<1>7. f \in own \/ f \in Curried(OfClass("Class", n), v)
      \/ f \in Curried(OfClass(class, n), v) \/ f \in Curried(OfMeta, v)
  BY DEF GetAttribute, class, own, OfMeta
<1>. QED  BY <1>4, <1>5, <1>6, <1>7

LEMMA NullExists ==
    ASSUME ObjectsOK, NEW V, Exist(V)
    PROVE  Null \in V
  BY DEF ObjectsOK, Exist, IsValueSet, Null

-----------------------------------------------------------------------------
(* The functions of the interpreter.                                       *)
LEMMA FindAttributeFits ==
    ASSUME ReceiverInv, FindAttribute
    PROVE  ReceiverInv'
<1>1. PICK V : Exist(V)
  BY DEF ReceiverInv
<1>2. /\ todo # <<>> /\ It \in Item(V) /\ Tail(todo) \in Seq(Item(V)) /\ It.of \in V
      /\ ObjectsOK /\ Null \in V
  BY <1>1, Innermost, ItemFields, NullExists DEF FindAttribute, Busy, ReceiverInv, It
<1>3. objects' = objects /\ held' = held /\ held \in V /\ ReceiverFits'
      /\ answer.value \in V \cup {NullHandle} /\ IsValueSet(V, DOMAIN objects)
  BY <1>1, PureFits DEF FindAttribute, pure, idle, Exist
<1>4. ASSUME NEW f \in GetAttribute(It.of, It.name), Answer(TRUE, f)
      PROVE  ReceiverInv'
  <2>1. PICK W : V \subseteq W /\ IsValueSet(W, DOMAIN objects) /\ f \in W
    BY <1>1, <1>2, Found
  <2>2. answer'.value \in W /\ todo' \in Seq(Item(W)) /\ held' \in W
    BY <1>2, <1>3, <1>4, <2>1, MoreItems DEF Answer
  <2>. QED  BY <1>1, <1>3, <2>1, <2>2, QuietStep
<1>5. CASE ThrowError
  <2>1. answer'.value = Null /\ todo' = Tail(todo)
    BY <1>5 DEF ThrowError, Fail, Answer
  <2>. QED  BY <1>1, <1>2, <1>3, <2>1, SameValues
<1>6. ASSUME NEW f \in GetAttr(It.of), Instead(<<Invoke(f, <<It.of, Null>>)>>),
             UNCHANGED answer
      PROVE  ReceiverInv'
  <2>1. f \in V
    BY <1>1, <1>2, <1>3, <1>6, ClassesOfValues, ClassAttributes DEF GetAttr
  <2>2. Invoke(f, <<It.of, Null>>) \in Item(V)
    <3>1. <<It.of, Null>> \in Seq(V)  BY <1>2
    <3>. QED  BY <2>1, <3>1, Items
  <2>3. <<Invoke(f, <<It.of, Null>>)>> \in Seq(Item(V))
    BY <2>2
  <2>4. todo' \in Seq(Item(V))
    BY <1>1, <1>2, <1>6, <2>3, Replaced
  <2>. QED  BY <1>1, <1>3, <1>6, <2>4, SameValues
<1>. QED  BY <1>4, <1>5, <1>6 DEF FindAttribute

(* What the other functions of the interpreter have in common.             *)
LEMMA PureStep ==
    ASSUME ReceiverInv, NEW V, Exist(V), pure' = pure,
           answer'.value \in V \cup {NullHandle}, todo' \in Seq(Item(V))
    PROVE  ReceiverInv'
  BY SameValues, PureFits DEF pure, idle, Exist

(* They return, or something takes their place. *)
LEMMA AnswerFits ==
    ASSUME ReceiverInv, NEW V, Exist(V), todo # <<>>, pure' = pure,
           NEW ok, NEW v \in V \cup {NullHandle}, Answer(ok, v)
    PROVE  ReceiverInv'
<1>1. answer'.value = v /\ todo' = Tail(todo)
  BY DEF Answer
<1>. QED  BY <1>1, Innermost, PureStep

LEMMA FailFits ==
    ASSUME ReceiverInv, todo # <<>>, pure' = pure, Fail
    PROVE  ReceiverInv'
<1>1. PICK V : Exist(V) /\ Null \in V
  BY NullExists DEF ReceiverInv
<1>. QED  BY <1>1, AnswerFits DEF Fail

LEMMA InsteadFits ==
    ASSUME ReceiverInv, NEW V, Exist(V), todo # <<>>, pure' = pure, answer' = answer,
           NEW items \in Seq(Item(V)), Instead(items)
    PROVE  ReceiverInv'
<1>1. todo' \in Seq(Item(V))
  BY Replaced
<1>. QED  BY <1>1, PureStep DEF Exist

LEMMA ApplyFits ==
    ASSUME ReceiverInv, ApplyFunction \/ ApplyCall
    PROVE  ReceiverInv'
<1>. DEFINE f    == answer.value
            args == IF IsUnboundMethod(f) THEN <<It.of>> \o It.args ELSE It.args
<1>1. PICK V : Exist(V)
  BY DEF ReceiverInv
<1>2. /\ todo # <<>> /\ pure' = pure /\ It \in Item(V)
      /\ It.do \in {"apply", "apply call"}
  BY <1>1, Innermost DEF ApplyFunction, ApplyCall, Busy, It
<1>3. /\ It.of \in V /\ It.args \in Seq(V) /\ It.slot \in V \cup {NullHandle}
      /\ [It EXCEPT !.do = "apply call"] \in Item(V)
      /\ f \in V \cup {NullHandle}
  BY <1>1, <1>2, ItemFields DEF Exist
<1>4. CASE Fail
  BY <1>2, <1>4, FailFits
<1>5. IsFunction(f) => f \in V
  <2>1. ~IsFunction(NullHandle)  BY DEF IsFunction, NullHandle
  <2>2. f \in V \cup {NullHandle}  BY <1>3
  <2>. HIDE DEF f
  <2>. QED  BY <2>1, <2>2
<1>6. CASE IsFunction(f) /\ Instead(<<Invoke(f, args)>>) /\ UNCHANGED answer
  <2>1. args \in Seq(V)
    <3>1. It.of \in V /\ It.args \in Seq(V)  BY <1>3
    <3>. QED  BY <3>1
  <2>. HIDE DEF args
  <2>2. Invoke(f, args) \in Item(V)
    BY <1>5, <1>6, <2>1, Items
  <2>3. <<Invoke(f, args)>> \in Seq(Item(V))
    BY <2>2
  <2>. QED  BY <1>1, <1>2, <1>6, <2>3, InsteadFits
<1>7. CASE /\ Instead(<<Get(f, "__call__"), [It EXCEPT !.do = "apply call"]>>)
           /\ UNCHANGED answer
  <2>. DEFINE x == Get(f, "__call__")
              y == [It EXCEPT !.do = "apply call"]
  <2>1. x \in Item(V)
    BY <1>3, Items DEF Names
  <2>2. y \in Item(V)
    BY <1>3
  <2>3. Instead(<<x, y>>)
    BY <1>7
  <2>. HIDE DEF x, y
  <2>4. <<x, y>> \in Seq(Item(V))
    BY <2>1, <2>2
  <2>. QED  BY <1>1, <1>2, <1>7, <2>3, <2>4, InsteadFits
<1>8. CASE Answer(TRUE, It.slot)
  BY <1>1, <1>2, <1>3, <1>8, AnswerFits
<1>9. CASE IsFunction(f) /\ Instead(<<Invoke(f, It.args)>>) /\ UNCHANGED answer
  <2>1. Invoke(f, It.args) \in Item(V)
    BY <1>3, <1>5, <1>9, Items
  <2>2. <<Invoke(f, It.args)>> \in Seq(Item(V))
    BY <2>1
  <2>. QED  BY <1>1, <1>2, <1>9, <2>2, InsteadFits
<1>10. CASE ApplyFunction
  BY <1>4, <1>6, <1>7, <1>10 DEF ApplyFunction
<1>11. CASE ApplyCall
  BY <1>4, <1>8, <1>9, <1>11 DEF ApplyCall
<1>. QED  BY <1>10, <1>11

LEMMA InvokeFits ==
    ASSUME ReceiverInv, InvokeScripted \/ InvokeCurried \/ InvokeAlias \/ Refuse
    PROVE  ReceiverInv'
<1>1. PICK V : Exist(V) /\ Null \in V
  BY NullExists DEF ReceiverInv
<1>2. /\ todo # <<>> /\ pure' = pure /\ It \in Item(V) /\ It.do = "invoke"
      /\ held \in V /\ IsValueSet(V, DOMAIN objects)
  BY <1>1, Innermost DEF InvokeScripted, InvokeCurried, InvokeAlias, Refuse, Busy, Exist, It
<1>3. It.of \in V /\ It.args \in Seq(V)
  BY <1>2, ItemFields
<1>4. CASE ThrowError
  BY <1>2, <1>4, FailFits DEF ThrowError
<1>5. CASE InvokeScripted
  <2>1. ASSUME NEW v \in {Null, held}, Answer(TRUE, v)
        PROVE  ReceiverInv'
    BY <1>1, <1>2, <2>1, AnswerFits
  <2>. QED  BY <1>4, <1>5, <2>1 DEF InvokeScripted
<1>6. CASE InvokeCurried
  <2>. DEFINE args == <<It.of[3]>> \o It.args
  <2>1. It.of[1] = "curry"
    BY <1>6 DEF InvokeCurried
  <2>2. PICK f \in V, this \in V : It.of = Bound(f, this)
    BY <1>2, <1>3, <2>1 DEF IsValueSet, Obj, Scripted, Unbound, Alias
  <2>3. It.of[2] \in V /\ It.of[3] \in V
    BY <2>2 DEF Bound
  <2>4. args \in Seq(V)
    BY <1>3, <2>3
  <2>5. Instead(<<Invoke(It.of[2], args)>>) /\ answer' = answer
    BY <1>6 DEF InvokeCurried
  <2>. HIDE DEF args
  <2>6. Invoke(It.of[2], args) \in Item(V)
    BY <2>3, <2>4, Items
  <2>7. <<Invoke(It.of[2], args)>> \in Seq(Item(V))
    BY <2>6
  <2>. QED  BY <1>1, <1>2, <2>5, <2>7, InsteadFits
<1>7. CASE InvokeAlias
  <2>1. ASSUME It.args # <<>>,
               Instead(CallMethod(It.args[1], It.of[2], Tail(It.args), NullHandle)),
               UNCHANGED answer
        PROVE  ReceiverInv'
    <3>1. It.args[1] \in V /\ Tail(It.args) \in Seq(V)
      BY <1>3, <2>1
    <3>2. It.of = Alias("join")
      BY <1>2, <1>3, <1>7 DEF InvokeAlias, IsValueSet, Obj, Scripted, Unbound, Bound
    <3>3. It.of[2] \in Names
      BY <3>2 DEF Alias, Names
    <3>4. CallMethod(It.args[1], It.of[2], Tail(It.args), NullHandle) \in Seq(Item(V))
      BY <3>1, <3>3, Called
    <3>. QED  BY <1>1, <1>2, <2>1, <3>4, InsteadFits
  <2>. QED  BY <1>4, <1>7, <2>1 DEF InvokeAlias
<1>8. CASE Refuse
  BY <1>4, <1>8 DEF Refuse
<1>. QED  BY <1>5, <1>6, <1>7, <1>8

LEMMA ResumeFits ==
    ASSUME ReceiverInv, Initialize \/ Initialized \/ FunctionCalled
    PROVE  ReceiverInv'
<1>1. PICK V : Exist(V) /\ Null \in V
  BY NullExists DEF ReceiverInv
<1>2. todo # <<>> /\ pure' = pure /\ It \in Item(V) /\ answer.value \in V \cup {NullHandle}
  BY <1>1, Innermost DEF Initialize, Initialized, FunctionCalled, Busy, Exist, It
<1>3. ASSUME NEW v \in V \cup {NullHandle}, ReturnNative(v)
      PROVE  ReceiverInv'
  BY <1>1, <1>2, <1>3, AnswerFits DEF ReturnNative
<1>4. CASE Initialize
  <2>. DEFINE call == CallMethod(answer.value, "__init__", It.args, NullHandle)
              init == [do |-> "initialized", instance |-> answer.value]
  <2>1. ASSUME answer.value # NullHandle, Instead(call \o <<init>>), UNCHANGED answer
        PROVE  ReceiverInv'
    <3>1. answer.value \in V /\ It.args \in Seq(V)
      BY <1>2, <1>4, <2>1, ItemFields DEF Initialize, Busy, It
    <3>2. call \in Seq(Item(V)) /\ init \in Item(V)
      BY <3>1, Called, Items DEF Names
    <3>. HIDE DEF call, init
    <3>3. call \o <<init>> \in Seq(Item(V))
      BY <3>2
    <3>. QED  BY <1>1, <1>2, <2>1, <3>3, InsteadFits
  <2>. QED  BY <1>1, <1>3, <1>4, <2>1 DEF Initialize
<1>5. CASE Initialized
  <2>1. It.instance \in V
    BY <1>2, <1>5, ItemFields DEF Initialized, Busy, It
  <2>. QED  BY <1>1, <1>3, <1>5, <2>1 DEF Initialized
<1>6. CASE FunctionCalled
  BY <1>1, <1>2, <1>3, <1>6 DEF FunctionCalled
<1>. QED  BY <1>4, <1>5, <1>6

-----------------------------------------------------------------------------
(* Native methods. *)
LEMMA NativeFits ==
    ASSUME ReceiverInv, RunLeaf \/ class_call \/ func_call
    PROVE  ReceiverInv'
<1>1. PICK V : Exist(V) /\ Null \in V
  BY NullExists DEF ReceiverInv
<1>2. PICK f : RunsNative(f) /\ Runs
  BY DEF RunLeaf, class_call, func_call
<1>3. /\ todo # <<>> /\ It \in Item(V) /\ It.do = "invoke" /\ It.args # <<>>
      /\ Tail(todo) \in Seq(Item(V))
  BY <1>1, <1>2, Innermost DEF RunsNative, Busy, Accepts, It
<1>4. It.args[1] \in V /\ Tail(It.args) \in Seq(V)
  <2>1. It.args \in Seq(V)  BY <1>3, ItemFields
  <2>. QED  BY <1>3, <2>1
<1>5. objects' = objects /\ held' = held /\ held \in V /\ ReceiverFits'
  BY <1>1, <1>2, RunFits DEF RunLeaf, class_call, func_call, idle, Exist
<1>6. ASSUME NEW items \in Seq(Item(V)), Instead(items), UNCHANGED answer
      PROVE  ReceiverInv'
  BY <1>1, <1>3, <1>5, <1>6, Replaced, SameValues DEF Exist
<1>7. CASE RunLeaf
  <2>1. answer'.value = Null /\ todo' = Tail(todo)
    BY <1>7 DEF RunLeaf, ReturnNative, ThrowError, Fail, Answer
  <2>. QED  BY <1>1, <1>3, <1>5, <2>1, SameValues
<1>8. CASE class_call
  <2>. DEFINE call == CallMethod(It.args[1], "alloc", <<>>, NullHandle)
              init == [do |-> "init", args |-> Tail(It.args)]
  <2>1. call \in Seq(Item(V)) /\ init \in Item(V)
    <3>1. <<>> \in Seq(V)  OBVIOUS
    <3>. QED  BY <1>4, <3>1, Called, Items DEF Names
  <2>2. Instead(call \o <<init>>) /\ UNCHANGED answer
    BY <1>8 DEF class_call
  <2>. HIDE DEF call, init
  <2>3. call \o <<init>> \in Seq(Item(V))
    BY <2>1
  <2>. QED  BY <1>6, <2>2, <2>3
<1>9. CASE func_call
  <2>. DEFINE x == Invoke(It.args[1], Tail(It.args))
              y == [do |-> "called"]
  <2>1. x \in Item(V) /\ y \in Item(V)
    BY <1>4, Items
  <2>2. Instead(<<x, y>>) /\ UNCHANGED answer
    BY <1>9 DEF func_call
  <2>. HIDE DEF x, y
  <2>3. <<x, y>> \in Seq(Item(V))
    BY <2>1
  <2>. QED  BY <1>6, <2>2, <2>3
<1>. QED  BY <1>7, <1>8, <1>9

(* Class#alloc() adds an object, and that is a value then.                 *)
LEMMA AllocFits ==
    ASSUME ReceiverInv, class_alloc
    PROVE  ReceiverInv'
<1>. DEFINE f == Unbound("Class", "alloc")
            c == It.args[1][2]
<1>1. PICK V : Exist(V) /\ Null \in V
  BY NullExists DEF ReceiverInv
<1>2. /\ RunsNative(f) /\ Runs /\ held' = held /\ held \in V
      /\ IsValueSet(V, DOMAIN objects)
  BY <1>1 DEF class_alloc, idle, Exist
<1>3. ReceiverFits'
  BY <1>2, RunFits
<1>4. /\ todo # <<>> /\ It \in Item(V) /\ It.do = "invoke" /\ It.args # <<>>
      /\ IsInstance(It.args[1], f[2]) /\ Tail(todo) \in Seq(Item(V))
  BY <1>1, <1>2, Innermost DEF RunsNative, Busy, Accepts, It
<1>5. c \in Classes
  <2>1. It.args \in Seq(V)  BY <1>4, ItemFields
  <2>2. It.args[1] \in V  BY <1>4, <2>1
  <2>3. f[2] = "Class"  BY DEF Unbound
  <2>4. Type(It.args[1]) = "Class"
    BY <1>2, <1>4, <2>2, <2>3, TypesOfInstances DEF ReceiverInv, Typed
  <2>5. ~IsFunction(It.args[1])
    BY <2>4 DEF Type
  <2>. QED  BY <1>2, <2>2, <2>4, <2>5, ClassesOfValues DEF ReceiverInv, Type, Classes
<1>. HIDE DEF f, c
<1>6. CASE ThrowError /\ UNCHANGED objects
  <2>1. answer'.value = Null /\ todo' = Tail(todo)
    BY <1>6 DEF ThrowError, Fail, Answer
  <2>. QED  BY <1>1, <1>2, <1>3, <1>4, <1>6, <2>1, SameValues
<1>7. ASSUME objects[c].alloc # "nothing", NEW i \in DOMAIN NewObject, IsNext(i),
             objects' = With(objects, NewObject[i], Made(c)),
             ReturnNative(Obj(NewObject[i]))
      PROVE  ReceiverInv'
  <2>. DEFINE id == NewObject[i]
              W  == V \cup {Obj(id)}
  <2>1. id \notin DOMAIN objects  BY <1>7 DEF IsNext
  <2>. HIDE DEF id
  <2>2. /\ ObjectsOK' /\ DOMAIN objects' = DOMAIN objects \cup {id}
        /\ \A k \in DOMAIN objects : objects'[k] = objects[k]
        /\ objects'[id].attrs = <<>>
    BY <1>5, <1>7, <2>1, MadeObjects DEF ReceiverInv, id
  <2>3. IsValueSet(W, DOMAIN objects')
    <3>1. \A v \in W : v \in V \/ v = Obj(id)  OBVIOUS
    <3>2. V \subseteq W /\ Obj(id) \in W  OBVIOUS
    <3>. HIDE DEF W
    <3>. QED  BY <1>2, <2>2, <3>1, <3>2 DEF IsValueSet
  <2>4. V \subseteq W /\ Obj(id) \in W  OBVIOUS
  <2>. HIDE DEF W
  <2>5. ASSUME NEW k \in DOMAIN objects', NEW n \in DOMAIN objects'[k].attrs
        PROVE  objects'[k].attrs[n] \in W
    <3>1. CASE k = id
      <4>1. DOMAIN <<>> = {}  OBVIOUS
      <4>. QED  BY <2>2, <2>5, <3>1, <4>1
    <3>2. CASE k \in DOMAIN objects
      BY <1>1, <2>2, <2>4, <2>5, <3>2 DEF Exist
    <3>. QED  BY <2>2, <2>5, <3>1, <3>2
  <2>6. held' \in W
    BY <1>2, <2>4
  <2>7. answer'.value \in W /\ todo' = Tail(todo)
    BY <1>1, <1>7, <2>4 DEF ReturnNative, Answer, id
  <2>8. todo' \in Seq(Item(W))
    BY <1>4, <2>4, <2>7, MoreItems
  <2>9. Exist(W)'
    BY <2>3, <2>5, <2>6, <2>7, <2>8 DEF Exist
  <2>. QED  BY <1>3, <2>2, <2>9 DEF ReceiverInv
<1>. QED  BY <1>6, <1>7 DEF class_alloc, c

-----------------------------------------------------------------------------
(* The script. *)
LEMMA ScriptFits ==
    ASSUME ReceiverInv, Keep \/ ReadAttribute \/ AssignAttribute \/ CallAttribute
    PROVE  ReceiverInv'
<1>1. PICK V : Exist(V) /\ Null \in V
  BY NullExists DEF ReceiverInv
<1>2. ScriptOnly
  BY DEF Keep, ReadAttribute, AssignAttribute, CallAttribute
<1>3. answer'.value = Null /\ ReceiverFits' /\ todo = <<>>
  BY <1>2, PureFits DEF ScriptOnly
<1>4. /\ held \in V /\ answer.value \in V \cup {NullHandle} /\ todo \in Seq(Item(V))
      /\ IsValueSet(V, DOMAIN objects)
  BY <1>1 DEF Exist
<1>5. Receivers \subseteq V
  <2>1. {"Class", "null"} \cup Mine \subseteq DOMAIN objects
    BY DEF Mine, ReceiverInv, ObjectsOK, Classes
  <2>. QED  BY <1>4, <2>1 DEF Receivers, IsValueSet
<1>6. CASE Keep
  <2>1. held' \in V /\ objects' = objects /\ todo' = todo
    BY <1>4, <1>6 DEF Keep
  <2>. QED  BY <1>1, <1>3, <1>4, <2>1, SameValues
<1>7. CASE ReadAttribute
  <2>1. PICK v \in Receivers, n \in ReadNames : todo' = <<Get(v, n)>>
    BY <1>7 DEF ReadAttribute
  <2>2. Get(v, n) \in Item(V)
    BY <1>5, Items DEF Names
  <2>3. todo' \in Seq(Item(V))
    BY <2>1, <2>2
  <2>4. held' = held /\ objects' = objects
    BY <1>7 DEF ReadAttribute, idle
  <2>. QED  BY <1>1, <1>3, <1>4, <2>3, <2>4, SameValues
<1>8. CASE CallAttribute
  <2>1. PICK v \in Receivers, n \in ReadNames, args \in {<<>>, <<held>>} :
            todo' = CallMethod(v, n, args, v)
    BY <1>8 DEF CallAttribute
  <2>2. args \in Seq(V)
    <3>1. held \in V  BY <1>4
    <3>2. <<>> \in Seq(V) /\ <<held>> \in Seq(V)  BY <3>1
    <3>. QED  BY <3>2
  <2>3. todo' \in Seq(Item(V))
    BY <1>5, <2>1, <2>2, Called DEF Names
  <2>4. held' = held /\ objects' = objects
    BY <1>8 DEF CallAttribute, idle
  <2>. QED  BY <1>1, <1>3, <1>4, <2>3, <2>4, SameValues
<1>9. CASE AssignAttribute
  <2>1. PICK id \in Mine, n \in WrittenNames :
            objects' = [objects EXCEPT ![id].attrs = With(@, n, held)]
    BY <1>9 DEF AssignAttribute
  <2>2. id \in DOMAIN objects
    BY DEF Mine
  <2>3. /\ ObjectsOK' /\ DOMAIN objects' = DOMAIN objects
        /\ \A k \in DOMAIN objects : \A m \in DOMAIN objects'[k].attrs :
               \/ objects'[k].attrs[m] = held
               \/ m \in DOMAIN objects[k].attrs /\ objects'[k].attrs[m] = objects[k].attrs[m]
    BY <2>1, <2>2, AssignedObjects DEF ReceiverInv
  <2>4. \A k \in DOMAIN objects' : \A m \in DOMAIN objects'[k].attrs : objects'[k].attrs[m] \in V
    BY <1>1, <1>4, <2>3 DEF Exist
  <2>5. held' = held /\ todo' = todo
    BY <1>9 DEF AssignAttribute
  <2>6. Exist(V)'
    BY <1>1, <1>3, <1>4, <2>3, <2>4, <2>5 DEF Exist
  <2>. QED  BY <1>3, <2>3, <2>6 DEF ReceiverInv
<1>. QED  BY <1>6, <1>7, <1>8, <1>9

LEMMA ReceiverStep ==
    ASSUME ReceiverInv, [ObjectNext]_objectVars
    PROVE  ReceiverInv'
<1>1. CASE UNCHANGED objectVars
  <2>1. PICK V : Exist(V)
    BY DEF ReceiverInv
  <2>2. UNCHANGED <<objects, held, answer, todo, ran>>
    BY <1>1 DEF objectVars
  <2>. QED  BY <2>1, <2>2, PureFits, SameValues DEF Exist
<1>. QED
  BY <1>1, FindAttributeFits, ApplyFits, InvokeFits, ResumeFits, NativeFits, AllocFits,
     ScriptFits DEF ObjectNext

(* Wherever a script puts a method, bound or not, and however it gets      *)
(* called there, also by __call__() and __getattr__(): a native runs on an *)
(* object of the C++ type that it casts its receiver to.                   *)
THEOREM ReceiversFit == ObjectSpec => []ReceiverFits
<1>1. ObjectInit => ReceiverInv
  <2>. SUFFICES ASSUME ObjectInit PROVE ReceiverInv
    OBVIOUS
  <2>1. ran.method = <<>>
    BY DEF ObjectInit, NothingRan
  <2>2. <<>> \notin DOMAIN Takes
    BY DEF Takes, Unbound
  <2>. QED  BY <2>1, <2>2, InitObjectsOK, InitExist DEF ReceiverInv, ReceiverFits
<1>2. ReceiverInv /\ [ObjectNext]_objectVars => ReceiverInv'
  BY ReceiverStep
<1>3. ReceiverInv => ReceiverFits
  BY DEF ReceiverInv
<1>. QED  BY <1>1, <1>2, <1>3, PTL DEF ObjectSpec

-----------------------------------------------------------------------------
(* SCRIPTEXECUTION                                                         *)

USE DepthAssumption, NoneAssumption

-----------------------------------------------------------------------------
(* STACKS AND CHAINS OF FRAMES                                             *)

(* The owners among n activations are finitely many, at most n. *)
LEMMA OwnersAreFinite ==
    ASSUME NEW s, NEW n \in Nat
    PROVE  /\ IsFiniteSet(Owners(s, n))
           /\ Cardinality(Owners(s, n)) \in 0 .. n
<1>1. IsFiniteSet(1 .. n) /\ Cardinality(1 .. n) = n
  BY FS_Interval
<1>2. Owners(s, n) \subseteq 1 .. n
  BY DEF Owners
<1>3. IsFiniteSet(Owners(s, n)) /\ Cardinality(Owners(s, n)) <= n
  BY <1>1, <1>2, FS_Subset
<1> QED
  BY <1>3, FS_CardinalityType

(* Every activation adds one owner or none. *)
LEMMA OneMoreOwner ==
    ASSUME NEW s, NEW n \in Nat
    PROVE  /\ s[n + 1].node \in Callers =>
                Cardinality(Owners(s, n + 1)) = Cardinality(Owners(s, n)) + 1
           /\ s[n + 1].node \notin Callers => Owners(s, n + 1) = Owners(s, n)
<1>1. ASSUME s[n + 1].node \in Callers
      PROVE  Cardinality(Owners(s, n + 1)) = Cardinality(Owners(s, n)) + 1
  <2>1. Owners(s, n + 1) = Owners(s, n) \cup {n + 1} /\ n + 1 \notin Owners(s, n)
    BY <1>1 DEF Owners
  <2> QED
    BY <2>1, OwnersAreFinite, FS_AddElement
<1>2. ASSUME s[n + 1].node \notin Callers
      PROVE  Owners(s, n + 1) = Owners(s, n)
  BY <1>2 DEF Owners
<1> QED
  BY <1>1, <1>2

(* More activations do not have fewer owners. *)
LEMMA OwnersGrow ==
    ASSUME NEW s, NEW n \in Nat, NEW m \in 0 .. n
    PROVE  Cardinality(Owners(s, m)) <= Cardinality(Owners(s, n))
<1>1. Owners(s, m) \subseteq Owners(s, n)
  BY DEF Owners
<1> QED
  BY <1>1, OwnersAreFinite, FS_Subset

(* The frame of an owner is one of the chain: an owner counts itself. *)
LEMMA OwnerHasFrame ==
    ASSUME NEW s, NEW n \in Nat, NEW i \in Owners(s, n)
    PROVE  Cardinality(Owners(s, i)) \in 1 .. Cardinality(Owners(s, n))
<1>1. i \in 1 .. n /\ s[i].node \in Callers
  BY DEF Owners
<1>2. Cardinality(Owners(s, i)) = Cardinality(Owners(s, i - 1)) + 1
  BY <1>1, OneMoreOwner, i - 1 \in Nat, (i - 1) + 1 = i
<1>3. Cardinality(Owners(s, i - 1)) \in Nat /\ Cardinality(Owners(s, n)) \in Nat
  BY <1>1, OwnersAreFinite, i - 1 \in Nat
<1> QED
  BY <1>1, <1>2, <1>3, OwnersGrow

(* Owners are known by the nodes of the activations. *)
LEMMA SameOwners ==
    ASSUME NEW s, NEW t, NEW n \in Nat, NEW m \in 0 .. n,
           \A i \in 1 .. n : s[i].node = t[i].node
    PROVE  Owners(s, m) = Owners(t, m)
BY DEF Owners

-----------------------------------------------------------------------------
(* The sequences that the steps make of one that is not empty. *)
LEMMA Shortened ==
    ASSUME NEW S, NEW s \in Seq(S), s # <<>>
    PROVE  /\ Len(s) \in Nat \ {0} /\ s[Len(s)] \in S
           /\ SubSeq(s, 1, Len(s) - 1) \in Seq(S)
           /\ Len(SubSeq(s, 1, Len(s) - 1)) = Len(s) - 1
           /\ \A i \in 1 .. Len(s) - 1 : SubSeq(s, 1, Len(s) - 1)[i] = s[i]
<1>1. Len(s) \in Nat \ {0} /\ \A i \in 1 .. Len(s) : s[i] \in S
  OBVIOUS
<1> DEFINE n == Len(s) - 1
<1>2. n \in Nat /\ n = n - 1 + 1 /\ \A i \in 1 .. n : s[i] \in S /\ 1 + i - 1 = i
  BY <1>1
<1>3. 1 <= n \/ n = 0
  BY <1>2
<1> HIDE DEF n
<1>4. /\ SubSeq(s, 1, n) \in Seq(S)
      /\ Len(SubSeq(s, 1, n)) = IF 1 <= n THEN n - 1 + 1 ELSE 0
      /\ \A i \in 1 .. n - 1 + 1 : SubSeq(s, 1, n)[i] = s[1 + i - 1]
  BY <1>2, SubSeqProperties, 1 \in Int, n \in Int
<1>5. Len(SubSeq(s, 1, n)) = n
  BY <1>2, <1>3, <1>4
<1>6. \A i \in 1 .. n : SubSeq(s, 1, n)[i] = s[i]
  BY <1>2, <1>4
<1> QED
  BY <1>1, <1>4, <1>5, <1>6, Len(s) \in 1 .. Len(s) DEF n

LEMMA Changed ==
    ASSUME NEW S, NEW s \in Seq(S), s # <<>>, NEW a \in S
    PROVE  /\ [s EXCEPT ![Len(s)] = a] \in Seq(S)
           /\ Len([s EXCEPT ![Len(s)] = a]) = Len(s)
           /\ [s EXCEPT ![Len(s)] = a][Len(s)] = a
           /\ \A i \in 1 .. Len(s) - 1 : [s EXCEPT ![Len(s)] = a][i] = s[i]
<1>1. Len(s) \in 1 .. Len(s) /\ \A i \in 1 .. Len(s) - 1 : i \in 1 .. Len(s) /\ i # Len(s)
  OBVIOUS
<1> DEFINE t == [s EXCEPT ![Len(s)] = a]
<1>2. /\ t \in Seq(S) /\ Len(t) = Len(s)
      /\ \A j \in 1 .. Len(s) : t[j] = IF j = Len(s) THEN a ELSE s[j]
  BY <1>1, ExceptSeq
<1> HIDE DEF t
<1>3. t[Len(s)] = a /\ \A i \in 1 .. Len(s) - 1 : t[i] = s[i]
  BY <1>1, <1>2
<1> QED
  BY <1>2, <1>3 DEF t

-----------------------------------------------------------------------------
(* THE STEPS OF THE STACK                                                  *)

Statements == {"block", "if", "while", "for", "try"}

(* An activation goes on to another of its stages. *)
LEMMA LastReplaced ==
    ASSUME NEW s \in Seq(Activation), s # <<>>, Nests(s),
           NEW a \in Activation, a.node = s[Len(s)].node, HasStages(a),
           NEW t \in Seq(Activation), Len(t) = Len(s), t[Len(s)] = a,
           \A i \in 1 .. Len(s) - 1 : t[i] = s[i]
    PROVE  /\ Nests(t)
           /\ \A f : IsFrameChain(f, s) => IsFrameChain(f, t)
<1>1. Len(s) \in Nat \ {0}
  OBVIOUS
<1>2. \A i \in 1 .. Len(s) : s[i].node = t[i].node
  BY <1>1
<1>3. Nests(t)
  <2>1. \A i \in 1 .. Len(t) : HasStages(t[i])
    BY <1>1 DEF Nests
  <2>2. \A i \in 1 .. Len(t) - 1 : MayEnter(t[i], t[i + 1])
    <3> TAKE i \in 1 .. Len(t) - 1
    <3>1. MayEnter(s[i], s[i + 1]) /\ t[i] = s[i] /\ t[i + 1].node = s[i + 1].node
      BY <1>1, <1>2 DEF Nests
    <3> QED
      BY <3>1 DEF MayEnter
  <2> QED
    BY <1>1, <2>1, <2>2 DEF Nests
<1>4. ASSUME NEW f, IsFrameChain(f, s)
      PROVE  IsFrameChain(f, t)
  <2>1. \A n \in 0 .. Len(s) : Owners(s, n) = Owners(t, n)
    BY <1>1, <1>2, SameOwners
  <2>2. \A i \in Owners(t, Len(t)) : i \in 1 .. Len(s)
    BY <1>1 DEF Owners
  <2>3. Len(f) = Cardinality(Owners(t, Len(t)))
    BY <1>1, <1>4, <2>1 DEF IsFrameChain
  <2>4. ASSUME NEW i \in Owners(t, Len(t))
        PROVE  f[Cardinality(Owners(t, i))] = t[i].node
    <3>1. i \in Owners(s, Len(s)) /\ Owners(s, i) = Owners(t, i) /\ s[i].node = t[i].node
      BY <1>1, <1>2, <2>1, <2>2
    <3> QED
      BY <1>4, <3>1 DEF IsFrameChain
  <2> QED
    BY <2>3, <2>4 DEF IsFrameChain
<1> QED
  BY <1>1, <1>3, <1>4

(* An activation returns; an owner of a frame pops it. *)
LEMMA LastDropped ==
    ASSUME NEW s \in Seq(Activation), s # <<>>, Nests(s), Len(s) <= MaxDepth + 1,
           NEW t \in Seq(Activation), Len(t) = Len(s) - 1,
           \A i \in 1 .. Len(s) - 1 : t[i] = s[i]
    PROVE  /\ Nests(t)
           /\ s[Len(s)].node \notin Callers =>
                 \A f : IsFrameChain(f, s) => IsFrameChain(f, t)
           /\ s[Len(s)].node \in Callers =>
                 \A f \in Seq(Callers) : IsFrameChain(f, s) =>
                    /\ f # <<>>
                    /\ IsFrameChain(SubSeq(f, 1, Len(f) - 1), t)
<1> DEFINE n == Len(s) - 1
<1>1. /\ t \in Seq(Activation) /\ Len(t) = n /\ n \in Nat /\ Len(s) = n + 1
      /\ \A i \in 1 .. n : t[i] = s[i]
  OBVIOUS
<1> HIDE DEF n
<1>2. Nests(t)
  <2>1. \A i \in 1 .. Len(t) : HasStages(t[i])
    BY <1>1 DEF Nests
  <2>2. \A i \in 1 .. Len(t) - 1 : MayEnter(t[i], t[i + 1])
    BY <1>1 DEF Nests
  <2> QED
    BY <1>1, <2>1, <2>2 DEF Nests
<1>3. \A m \in 0 .. n : Owners(s, m) = Owners(t, m)
  BY <1>1, SameOwners
<1>4. \A i \in Owners(t, n) : i \in 1 .. n /\ s[i] = t[i] /\ Owners(s, i) = Owners(t, i)
                             /\ i \in Owners(s, n + 1)
  BY <1>1, <1>3 DEF Owners
<1>5. ASSUME s[Len(s)].node \notin Callers, NEW f, IsFrameChain(f, s)
      PROVE  IsFrameChain(f, t)
  <2>1. Owners(s, n + 1) = Owners(t, n)
    BY <1>1, <1>3, <1>5, OneMoreOwner
  <2> QED
    BY <1>1, <1>4, <1>5, <2>1 DEF IsFrameChain
<1>6. ASSUME s[Len(s)].node \in Callers, NEW f \in Seq(Callers), IsFrameChain(f, s)
      PROVE  f # <<>> /\ IsFrameChain(SubSeq(f, 1, Len(f) - 1), t)
  <2>1. /\ Cardinality(Owners(s, n + 1)) = Cardinality(Owners(t, n)) + 1
        /\ Cardinality(Owners(t, n)) \in Nat
    BY <1>1, <1>3, <1>6, OneMoreOwner, OwnersAreFinite
  <2>2. Len(f) = Cardinality(Owners(t, n)) + 1
    BY <1>1, <1>6, <2>1 DEF IsFrameChain
  <2> DEFINE g == SubSeq(f, 1, Len(f) - 1)
  <2>3. Len(g) = Cardinality(Owners(t, n)) /\ \A k \in 1 .. Len(g) : g[k] = f[k]
    BY <2>1, <2>2
  <2> HIDE DEF g
  <2>4. ASSUME NEW i \in Owners(t, n)
        PROVE  g[Cardinality(Owners(t, i))] = t[i].node
    <3>1. Cardinality(Owners(t, i)) \in 1 .. Len(g)
      BY <1>1, <2>3, OwnerHasFrame
    <3>2. f[Cardinality(Owners(s, i))] = s[i].node
      BY <1>1, <1>4, <1>6 DEF IsFrameChain
    <3> QED
      BY <1>4, <2>3, <3>1, <3>2
  <2>5. IsFrameChain(g, t)
    BY <1>1, <2>3, <2>4 DEF IsFrameChain
  <2>6. f # <<>>
    BY <2>1, <2>2
  <2> QED
    BY <2>5, <2>6 DEF g
<1> QED
  BY <1>1, <1>2, <1>5, <1>6 DEF n

(* An activation is entered; an owner of a frame pushes it. *)
LEMMA LastAdded ==
    ASSUME NEW s \in Seq(Activation), s # <<>>, Nests(s),
           NEW a \in Activation, HasStages(a), MayEnter(s[Len(s)], a),
           Len(s) < MaxDepth \/ (Len(s) <= MaxDepth /\ a.node = "catch"),
           NEW t \in Seq(Activation), Len(t) = Len(s) + 1, t[Len(t)] = a,
           \A i \in 1 .. Len(s) : t[i] = s[i]
    PROVE  /\ Nests(t)
           /\ a.node \notin Callers => \A f : IsFrameChain(f, s) => IsFrameChain(f, t)
           /\ a.node \in Callers => \A f \in Seq(Callers) : IsFrameChain(f, s) =>
                                        IsFrameChain(Append(f, a.node), t)
<1> DEFINE n == Len(s)
<1>1. /\ t \in Seq(Activation) /\ Len(t) = n + 1 /\ n \in Nat \ {0} /\ t[n + 1] = a
      /\ \A i \in 1 .. n : t[i] = s[i]
  OBVIOUS
<1> HIDE DEF n
<1>2. Nests(t)
  <2>1. \A i \in 1 .. Len(t) : HasStages(t[i])
    BY <1>1 DEF Nests, n
  <2>2. \A i \in 1 .. Len(t) - 1 : MayEnter(t[i], t[i + 1])
    BY <1>1 DEF Nests, n
  <2> QED
    BY <1>1, <2>1, <2>2 DEF Nests, n
<1>3. \A m \in 0 .. n : Owners(s, m) = Owners(t, m)
  BY <1>1, SameOwners
<1>4. \A i \in Owners(s, n) : i \in 1 .. n /\ s[i] = t[i] /\ Owners(s, i) = Owners(t, i)
  BY <1>1, <1>3 DEF Owners
<1>5. ASSUME a.node \notin Callers, NEW f, IsFrameChain(f, s)
      PROVE  IsFrameChain(f, t)
  <2>1. Owners(t, n + 1) = Owners(s, n)
    BY <1>1, <1>3, <1>5, OneMoreOwner
  <2> QED
    BY <1>1, <1>4, <1>5, <2>1 DEF IsFrameChain, n
<1>6. ASSUME a.node \in Callers, NEW f \in Seq(Callers), IsFrameChain(f, s)
      PROVE  IsFrameChain(Append(f, a.node), t)
  <2>1. /\ Cardinality(Owners(t, n + 1)) = Cardinality(Owners(s, n)) + 1
        /\ Cardinality(Owners(s, n)) \in Nat
    BY <1>1, <1>3, <1>6, OneMoreOwner, OwnersAreFinite
  <2>2. Len(f) = Cardinality(Owners(s, n))
    BY <1>6 DEF IsFrameChain, n
  <2> DEFINE g == Append(f, a.node)
  <2>3. /\ Len(g) = Len(f) + 1 /\ \A k \in 1 .. Len(f) : g[k] = f[k]
        /\ g[Len(f) + 1] = a.node
    BY <1>6
  <2> HIDE DEF g
  <2>4. ASSUME NEW i \in Owners(t, n + 1)
        PROVE  g[Cardinality(Owners(t, i))] = t[i].node
    <3>1. CASE i = n + 1
      BY <1>1, <2>1, <2>2, <2>3, <3>1
    <3>2. CASE i # n + 1
      <4>1. i \in Owners(s, n)
        BY <1>1, <3>2 DEF Owners
      <4>2. Cardinality(Owners(s, i)) \in 1 .. Len(f)
        BY <1>1, <2>2, <4>1, OwnerHasFrame
      <4>3. f[Cardinality(Owners(s, i))] = s[i].node
        BY <1>6, <4>1 DEF IsFrameChain, n
      <4> QED
        BY <1>4, <2>3, <4>1, <4>2, <4>3
    <3> QED
      BY <3>1, <3>2
  <2> QED
    BY <1>1, <2>1, <2>2, <2>3, <2>4 DEF IsFrameChain, g
<1> QED
  BY <1>1, <1>2, <1>5, <1>6 DEF n
-----------------------------------------------------------------------------
(* THE STEPS OF THE INTERPRETER                                            *)

(* The three invariants together are inductive.  NoneUnnoticed needs to    *)
(* know that only try statements are at "match" and "finally"; what may    *)
(* enter a statement decides where a break can arrive.                     *)
IInv == WellNested /\ PendingIsAccountedFor /\ ControlStaysInside

(* Where a statement or a catch clause may have been executed. *)
Accepting == {"body", "else", "catch", "finally"}

(* What is known of d activations and the next one is known of all d + 1. *)
LEMMA OneMore ==
    ASSUME NEW s, NEW d \in Nat
    PROVE  /\ ErrorKept(s, d + 1) <=> ErrorKept(s, d) \/ Keeps(s[d + 1])
           /\ NativeRuns(s, d + 1) <=> NativeRuns(s, d) \/ s[d + 1].node = "native"
           /\ CatchRuns(s, d + 1) <=> CatchRuns(s, d) \/ s[d + 1].at = "catch"
<1>1. \A i \in 1 .. d + 1 : i \in 1 .. d \/ i = d + 1
  OBVIOUS
<1>2. \A i \in 1 .. d : i \in 1 .. d + 1
  OBVIOUS
<1>3. d + 1 \in 1 .. d + 1
  OBVIOUS
<1> QED
  BY <1>1, <1>2, <1>3, Zenon DEF ErrorKept, NativeRuns, CatchRuns

LEMMA TopOfStack ==
    ASSUME WellNested, stack # <<>>
    PROVE  /\ Depth \in Nat \ {0} /\ Depth <= MaxDepth + 1
           /\ Top \in Activation /\ HasStages(Top)
           /\ ErrorKept(stack, Depth) <=> ErrorKept(stack, Depth - 1) \/ Keeps(Top)
           /\ NativeRuns(stack, Depth) <=> NativeRuns(stack, Depth - 1) \/ Top.node = "native"
           /\ CatchRuns(stack, Depth) <=> CatchRuns(stack, Depth - 1) \/ Top.at = "catch"
<1>1. Depth \in Nat \ {0} /\ Depth <= MaxDepth + 1 /\ Top \in Activation
  BY DEF WellNested, TypeOK, Depth, Top
<1>2. HasStages(Top)
  BY <1>1 DEF WellNested, Nests, Top, Depth
<1>3. Depth - 1 \in Nat /\ (Depth - 1) + 1 = Depth
  BY <1>1
<1> QED
  BY <1>1, <1>2, <1>3, OneMore DEF Top

(* The topmost activation returns. *)
LEMMA ReturnStep ==
    ASSUME WellNested, stack # <<>>, stack' = SubSeq(stack, 1, Depth - 1)
    PROVE  /\ stack' \in Seq(Activation) /\ Depth' = Depth - 1 /\ Nests(stack')
           /\ Top.node \notin Callers /\ ~leaked => IsFrameChain(frames, stack')
           /\ Top.node \in Callers /\ ~leaked =>
                  frames # <<>> /\ IsFrameChain(SubSeq(frames, 1, Len(frames) - 1), stack')
           /\ ErrorKept(stack', Depth') <=> ErrorKept(stack, Depth - 1)
           /\ NativeRuns(stack', Depth') <=> NativeRuns(stack, Depth - 1)
           /\ CatchRuns(stack', Depth') <=> CatchRuns(stack, Depth - 1)
           /\ Top.node \in Statements \cup {"catch"} /\ stack' # <<>> => Top'.at \in Accepting
<1>1. stack \in Seq(Activation) /\ Len(stack) <= MaxDepth + 1 /\ frames \in Seq(Callers)
  BY DEF WellNested, TypeOK
<1>2. /\ stack' \in Seq(Activation) /\ Len(stack') = Len(stack) - 1
      /\ \A i \in 1 .. Len(stack) - 1 : stack'[i] = stack[i]
  BY <1>1, Shortened, Zenon DEF Depth
<1>3. Len(stack) - 1 \in Nat
  BY <1>1
<1>4. /\ Nests(stack')
      /\ Top.node \notin Callers /\ ~leaked => IsFrameChain(frames, stack')
      /\ Top.node \in Callers /\ ~leaked =>
             frames # <<>> /\ IsFrameChain(SubSeq(frames, 1, Len(frames) - 1), stack')
  BY <1>1, <1>2, LastDropped DEF WellNested, Top, Depth
<1>5. ASSUME Top.node \in Statements \cup {"catch"}, stack' # <<>>
      PROVE  Top'.at \in Accepting
  <2>1. Len(stack) - 1 \in 1 .. Len(stack) - 1
    BY <1>2, <1>3, <1>5
  <2>2. MayEnter(stack[Len(stack) - 1], stack[(Len(stack) - 1) + 1])
    BY <2>1 DEF WellNested, Nests
  <2>3. stack[(Len(stack) - 1) + 1] = Top /\ Top' = stack[Len(stack) - 1]
    BY <1>2, <1>3, <2>1 DEF Top, Depth
  <2> QED
    BY <1>5, <2>2, <2>3 DEF MayEnter, Statements, Accepting
<1>6. /\ ErrorKept(stack', Len(stack')) <=> ErrorKept(stack, Len(stack) - 1)
      /\ NativeRuns(stack', Len(stack')) <=> NativeRuns(stack, Len(stack) - 1)
      /\ CatchRuns(stack', Len(stack')) <=> CatchRuns(stack, Len(stack) - 1)
  <2>1. /\ ErrorKept(stack', Len(stack) - 1) <=> ErrorKept(stack, Len(stack) - 1)
        /\ NativeRuns(stack', Len(stack) - 1) <=> NativeRuns(stack, Len(stack) - 1)
        /\ CatchRuns(stack', Len(stack) - 1) <=> CatchRuns(stack, Len(stack) - 1)
    BY <1>2 DEF ErrorKept, NativeRuns, CatchRuns
  <2> QED
    BY <1>2, <2>1, Zenon
<1>7. Depth = Len(stack) /\ Depth' = Len(stack')
  BY DEF Depth
<1> QED
  BY <1>2, <1>4, <1>5, <1>6, <1>7, Zenon

(* The topmost activation goes on. *)
LEMMA GoOnStep ==
    ASSUME WellNested, stack # <<>>,
           NEW a \in Activation, a.node = Top.node, HasStages(a),
           NEW t \in Seq(Activation), Len(t) = Depth, t[Depth] = a,
           \A i \in 1 .. Depth - 1 : t[i] = stack[i]
    PROVE  /\ Nests(t)
           /\ ~leaked => IsFrameChain(frames, t)
           /\ ErrorKept(t, Depth) <=> ErrorKept(stack, Depth - 1) \/ Keeps(a)
           /\ NativeRuns(t, Depth) <=> NativeRuns(stack, Depth)
           /\ CatchRuns(t, Depth) <=> CatchRuns(stack, Depth - 1) \/ a.at = "catch"
<1>1. stack \in Seq(Activation)
  BY DEF WellNested, TypeOK
<1>3. Nests(t) /\ (~leaked => IsFrameChain(frames, t))
  BY <1>1, LastReplaced DEF WellNested, Top, Depth
<1>4. Depth \in Nat \ {0} /\ Depth - 1 \in Nat /\ (Depth - 1) + 1 = Depth
  BY TopOfStack
<1>5. /\ ErrorKept(t, Depth) <=> ErrorKept(t, Depth - 1) \/ Keeps(a)
      /\ NativeRuns(t, Depth) <=> NativeRuns(t, Depth - 1) \/ a.node = "native"
      /\ CatchRuns(t, Depth) <=> CatchRuns(t, Depth - 1) \/ a.at = "catch"
  BY <1>4, OneMore
<1>6. /\ ErrorKept(t, Depth - 1) <=> ErrorKept(stack, Depth - 1)
      /\ NativeRuns(t, Depth - 1) <=> NativeRuns(stack, Depth - 1)
      /\ CatchRuns(t, Depth - 1) <=> CatchRuns(stack, Depth - 1)
  BY DEF ErrorKept, NativeRuns, CatchRuns
<1> QED
  BY <1>3, <1>5, <1>6, TopOfStack

(* An activation b is entered from the topmost of s, a stack that differs  *)
(* from the present one at most in the stage of its topmost activation.    *)
LEMMA EnterStep ==
    ASSUME NEW s \in Seq(Activation), s # <<>>, Nests(s),
           NEW b \in Activation, HasStages(b), MayEnter(s[Len(s)], b),
           Len(s) < MaxDepth \/ (Len(s) <= MaxDepth /\ b.node = "catch"),
           NEW t \in Seq(Activation), Len(t) = Len(s) + 1, t[Len(t)] = b,
           \A i \in 1 .. Len(s) : t[i] = s[i]
    PROVE  /\ Nests(t)
           /\ b.node \notin Callers => \A f : IsFrameChain(f, s) => IsFrameChain(f, t)
           /\ b.node \in Callers => \A f \in Seq(Callers) : IsFrameChain(f, s) =>
                                        IsFrameChain(Append(f, b.node), t)
           /\ ErrorKept(t, Len(t)) <=> ErrorKept(s, Len(s)) \/ Keeps(b)
           /\ NativeRuns(t, Len(t)) <=> NativeRuns(s, Len(s)) \/ b.node = "native"
           /\ CatchRuns(t, Len(t)) <=> CatchRuns(s, Len(s)) \/ b.at = "catch"
<1>2. Len(s) \in Nat
  OBVIOUS
<1>3. /\ Nests(t)
      /\ b.node \notin Callers => \A f : IsFrameChain(f, s) => IsFrameChain(f, t)
      /\ b.node \in Callers => \A f \in Seq(Callers) : IsFrameChain(f, s) =>
                                   IsFrameChain(Append(f, b.node), t)
  BY LastAdded
<1>4. /\ ErrorKept(t, Len(t)) <=> ErrorKept(t, Len(s)) \/ Keeps(b)
      /\ NativeRuns(t, Len(t)) <=> NativeRuns(t, Len(s)) \/ b.node = "native"
      /\ CatchRuns(t, Len(t)) <=> CatchRuns(t, Len(s)) \/ b.at = "catch"
  BY <1>2, OneMore
<1>5. /\ ErrorKept(t, Len(s)) <=> ErrorKept(s, Len(s))
      /\ NativeRuns(t, Len(s)) <=> NativeRuns(s, Len(s))
      /\ CatchRuns(t, Len(s)) <=> CatchRuns(s, Len(s))
  BY DEF ErrorKept, NativeRuns, CatchRuns
<1> QED
  BY <1>3, <1>4, <1>5

(* What a step changes on the stack, for the invariants. *)
LEMMA Goes ==
    ASSUME WellNested, stack # <<>>, NEW a \in Activation, a.node = Top.node, HasStages(a),
           stack' = [stack EXCEPT ![Depth] = a]
    PROVE  /\ stack' \in Seq(Activation) /\ Depth' = Depth /\ Depth' <= MaxDepth + 1
           /\ stack' # <<>> /\ Top' = a /\ Nests(stack')
           /\ ~leaked => IsFrameChain(frames, stack')
           /\ ErrorKept(stack', Depth') <=> ErrorKept(stack, Depth - 1) \/ Keeps(a)
           /\ NativeRuns(stack', Depth') <=> NativeRuns(stack, Depth)
           /\ CatchRuns(stack', Depth') <=> CatchRuns(stack, Depth - 1) \/ a.at = "catch"
<1>1. stack \in Seq(Activation) /\ Depth = Len(stack)
  BY DEF WellNested, TypeOK, Depth
<1>2. /\ stack' \in Seq(Activation) /\ Len(stack') = Depth /\ stack'[Depth] = a
      /\ \A i \in 1 .. Depth - 1 : stack'[i] = stack[i]
  BY <1>1, Changed
<1>3. /\ Nests(stack')
      /\ ~leaked => IsFrameChain(frames, stack')
      /\ ErrorKept(stack', Depth) <=> ErrorKept(stack, Depth - 1) \/ Keeps(a)
      /\ NativeRuns(stack', Depth) <=> NativeRuns(stack, Depth)
      /\ CatchRuns(stack', Depth) <=> CatchRuns(stack, Depth - 1) \/ a.at = "catch"
  BY <1>2, GoOnStep
<1>4. Depth' = Depth /\ Top' = a
  BY <1>2 DEF Depth, Top
<1>5. Depth' <= MaxDepth + 1 /\ stack' # <<>>
  BY <1>2, <1>4, TopOfStack
<1> QED
  BY <1>2, <1>3, <1>4, <1>5

LEMMA GoesTo ==
    ASSUME WellNested, stack # <<>>, NEW at, Goto(at), HasStages([Top EXCEPT !.at = at])
    PROVE  /\ stack' \in Seq(Activation) /\ Depth' = Depth /\ Depth' <= MaxDepth + 1
           /\ stack' # <<>> /\ Top'.at = at /\ Nests(stack')
           /\ ~leaked => IsFrameChain(frames, stack')
           /\ ErrorKept(stack', Depth') <=>
                  ErrorKept(stack, Depth - 1) \/ Keeps([Top EXCEPT !.at = at])
           /\ NativeRuns(stack', Depth') <=> NativeRuns(stack, Depth)
           /\ CatchRuns(stack', Depth') <=> CatchRuns(stack, Depth - 1) \/ at = "catch"
<1> DEFINE a == [Top EXCEPT !.at = at]
<1>1. Top \in Activation /\ Depth \in 1 .. Len(stack) /\ Top = stack[Depth]
  BY TopOfStack DEF Top, Depth
<1>2. a.node = Top.node /\ a.at = at /\ HasStages(a)
  BY <1>1 DEF Activation
<1>3. at \in {"body", "parameters", "call", "cond", "collection", "first", "next",
               "bind", "else", "match", "catch", "finally"}
  BY <1>2 DEF HasStages
<1>4. a \in Activation
  BY <1>1, <1>3 DEF Activation
<1>5. stack' = [stack EXCEPT ![Depth] = a]
  BY <1>1 DEF Goto
<1> HIDE DEF a
<1>6. /\ stack' \in Seq(Activation) /\ Depth' = Depth /\ Depth' <= MaxDepth + 1
      /\ stack' # <<>> /\ Top' = a /\ Nests(stack')
      /\ ~leaked => IsFrameChain(frames, stack')
      /\ ErrorKept(stack', Depth') <=> ErrorKept(stack, Depth - 1) \/ Keeps(a)
      /\ NativeRuns(stack', Depth') <=> NativeRuns(stack, Depth)
      /\ CatchRuns(stack', Depth') <=> CatchRuns(stack, Depth - 1) \/ a.at = "catch"
  BY <1>2, <1>4, <1>5, Goes
<1> QED
  BY <1>2, <1>6 DEF a

-----------------------------------------------------------------------------
(* THE ACTIONS                                                             *)

(* A node goes on to a child after one that has not failed. *)
LEMMA NodeGoesOn ==
    ASSUME IInv, stack # <<>>, Top.at \notin {"match", "finally", "catch"}, result # "ERROR",
           NEW at \in {"body", "cond", "first", "next", "bind", "else"},
           HasStages([Top EXCEPT !.at = at]), Goto(at), UNCHANGED quiet
    PROVE  IInv'
<1>1. ~Keeps(Top) /\ ~Keeps([Top EXCEPT !.at = at])
  BY TopOfStack DEF Keeps, IInv, Activation
<1>2. WellNested'
  BY GoesTo DEF IInv, WellNested, TypeOK, Goto, quiet, stable, Depth
<1>3. PendingIsAccountedFor'
  BY <1>1, GoesTo, TopOfStack DEF IInv, PendingIsAccountedFor, NoneUnnoticed,
     ErrorsHaveExceptions, CaughtInsideCatch, Goto, quiet, stable
<1>4. ControlStaysInside'
  BY DEF ControlStaysInside, Returned, Goto
<1> QED
  BY <1>2, <1>3, <1>4 DEF IInv

(* A node returns when a child has returned, and has failed if that has. *)
LEMMA NodeReturns ==
    ASSUME IInv, stack # <<>>, Top.node \in Statements \cup {"catch"},
           Top.at \notin {"match", "finally", "catch"},
           NEW r \in Kind, r = "ERROR" <=> result = "ERROR", Return(r), UNCHANGED quiet
    PROVE  IInv'
<1>1. ~Keeps(Top) /\ Top.node \notin Callers /\ Top.node # "native"
  BY DEF Keeps, Callers, Bodies, Statements
<1>2. WellNested'
  BY <1>1, ReturnStep, TopOfStack DEF IInv, WellNested, TypeOK, Return, quiet, stable, Depth
<1>3. PendingIsAccountedFor'
  BY <1>1, ReturnStep, TopOfStack DEF IInv, PendingIsAccountedFor, NoneUnnoticed,
     ErrorsHaveExceptions, CaughtInsideCatch, Return, quiet, stable
<1>4. ControlStaysInside'
  BY ReturnStep DEF IInv, ControlStaysInside, Returned, Return, Accepting
<1> QED
  BY <1>2, <1>3, <1>4 DEF IInv

LEMMA BlockStep ==
    ASSUME IInv, Block
    PROVE  IInv'
<1>1. stack # <<>> /\ Top.node = "block" /\ Top.at = "body" /\ result \in Kind
  BY DEF Block, Returns, Returned, At, IInv, WellNested, TypeOK
<1>2. HasStages([Top EXCEPT !.at = "body"])
  BY <1>1, TopOfStack DEF HasStages, IInv, Activation
<1> QED
  BY <1>1, <1>2, NodeGoesOn, NodeReturns DEF Block, Statements

LEMMA IfStep ==
    ASSUME IInv, If
    PROVE  IInv'
<1>1. stack # <<>> /\ Top.node = "if" /\ Top.at \in {"cond", "body"} /\ result \in Kind
  BY DEF If, Returns, Returned, At, IInv, WellNested, TypeOK
<1>2. HasStages([Top EXCEPT !.at = "body"])
  BY <1>1, TopOfStack DEF HasStages, IInv, Activation
<1> QED
  BY <1>1, <1>2, NodeGoesOn, NodeReturns DEF If, Statements, Kind

LEMMA WhileStep ==
    ASSUME IInv, While
    PROVE  IInv'
<1>1. stack # <<>> /\ Top.node = "while" /\ Top.at \in {"cond", "body"} /\ result \in Kind
  BY DEF While, Returns, Returned, At, IInv, WellNested, TypeOK
<1>2. \A at \in {"cond", "body"} : HasStages([Top EXCEPT !.at = at])
  BY <1>1, TopOfStack DEF HasStages, IInv, Activation
<1> QED
  BY <1>1, <1>2, NodeGoesOn, NodeReturns DEF While, LoopBody, Statements, Kind

LEMMA ForStep ==
    ASSUME IInv, For
    PROVE  IInv'
<1>1. /\ stack # <<>> /\ Top.node = "for" /\ result \in Kind
      /\ Top.at \in {"collection", "first", "next", "bind", "body", "else"}
  BY DEF For, Returns, Returned, At, IInv, WellNested, TypeOK
<1>2. \A at \in {"first", "next", "bind", "body"} : HasStages([Top EXCEPT !.at = at])
  BY <1>1, TopOfStack DEF HasStages, IInv, Activation
<1> QED
  BY <1>1, <1>2, NodeGoesOn, NodeReturns DEF For, LoopBody, Statements, Kind

LEMMA CatchStep ==
    ASSUME IInv, Catch
    PROVE  IInv'
<1>1. stack # <<>> /\ Top.node = "catch" /\ Top.at \in {"bind", "body"} /\ result \in Kind
  BY DEF Catch, Returns, Returned, At, IInv, WellNested, TypeOK
<1>2. HasStages([Top EXCEPT !.at = "body"])
  BY <1>1, TopOfStack DEF HasStages, IInv, Activation
<1> QED
  BY <1>1, <1>2, NodeGoesOn, NodeReturns DEF Catch, Statements, Kind

(* A leaf leaves the stack as it is. *)
LEMMA LeafStep ==
    ASSUME IInv, Leaf
    PROVE  IInv'
<1>1. /\ stack # <<>> /\ result = "none" /\ UNCHANGED <<stack, frames, leaked>>
      /\ result' \in Kind
  BY DEF Leaf, Succeed, Raise, FailPending, AssignFails, BreakOrContinue, ReturnStatement,
     Rethrow, Evaluates, Statement, Running, stable, Kind
<1>2. /\ exception' \in Exception \cup {None} /\ caught' \in Exception \cup {None}
      /\ lost' \in BOOLEAN
  BY DEF Leaf, Succeed, Raise, FailPending, AssignFails, BreakOrContinue, ReturnStatement,
     Rethrow, Throw, stable, IInv, WellNested, TypeOK, Exception, Thrown
<1>3. WellNested'
  BY <1>1, <1>2 DEF IInv, WellNested, TypeOK
<1>4. Depth' = Depth /\ Top' = Top
  BY <1>1 DEF Depth, Top
<1>5. PendingIsAccountedFor'
  <2>1. CASE exception' = exception /\ lost' = lost /\ caught' = caught
             /\ (result' = "ERROR" => exception # None)
    BY <1>1, <1>4, <2>1 DEF IInv, PendingIsAccountedFor, NoneUnnoticed, ErrorsHaveExceptions,
       CaughtInsideCatch
  <2>2. CASE result' = "ERROR" /\ exception' # None /\ (caught' # None => caught' = caught)
    BY <1>1, <1>4, <2>2 DEF IInv, PendingIsAccountedFor, NoneUnnoticed, ErrorsHaveExceptions,
       CaughtInsideCatch
  <2>3. CASE AssignFails
    BY <1>1, <1>4, <2>3 DEF AssignFails, stable, IInv, PendingIsAccountedFor, NoneUnnoticed,
       ErrorsHaveExceptions, CaughtInsideCatch
  <2> QED
    BY <2>1, <2>2, <2>3 DEF Leaf, Succeed, Raise, FailPending, BreakOrContinue, ReturnStatement,
       Rethrow, Throw, stable, Exception, Thrown
<1>6. ControlStaysInside'
  BY <1>4 DEF ControlStaysInside, Leaf, Succeed, Raise, FailPending, AssignFails,
     BreakOrContinue, ReturnStatement, Rethrow, Statement
<1> QED
  BY <1>3, <1>5, <1>6 DEF IInv

LEMMA EndOfIterationStep ==
    ASSUME IInv, EndOfIteration
    PROVE  IInv'
<1>1. /\ stack # <<>> /\ Top.node = "for" /\ Top.at \in {"first", "next"} /\ result = "ERROR"
      /\ ~Keeps(Top) /\ Top.node \notin Callers
  BY DEF EndOfIteration, Returns, Returned, At, Keeps, Callers, Bodies
<1>2. HasStages([Top EXCEPT !.at = "else"]) /\ ~Keeps([Top EXCEPT !.at = "else"])
  BY <1>1, TopOfStack DEF HasStages, IInv, Activation, Keeps
<1>3. /\ exception' \in Exception \cup {None} /\ lost' \in BOOLEAN
      /\ UNCHANGED <<caught, frames, leaked>>
      /\ exception' # None => exception' = exception /\ lost' = lost /\ exception # Stop
      /\ exception' = None /\ ErrorKept(stack, Depth - 1) => lost'
  BY <1>1, TopOfStack DEF EndOfIteration, ClearException, stable, IInv, WellNested, TypeOK,
     PendingIsAccountedFor, ErrorsHaveExceptions
<1>4. CASE Return("ERROR") /\ exception' # None
  <2>1. WellNested'
    BY <1>1, <1>3, <1>4, ReturnStep, TopOfStack
       DEF IInv, WellNested, TypeOK, Return, Depth, Kind
  <2>2. PendingIsAccountedFor'
    BY <1>1, <1>3, <1>4, ReturnStep, TopOfStack DEF IInv, PendingIsAccountedFor, NoneUnnoticed,
       ErrorsHaveExceptions, CaughtInsideCatch, Return
  <2> QED
    BY <2>1, <2>2, <1>4 DEF IInv, ControlStaysInside, Return
<1>5. CASE Return("SUCCESS") /\ exception' = None
  <2>1. WellNested'
    BY <1>1, <1>3, <1>5, ReturnStep, TopOfStack
       DEF IInv, WellNested, TypeOK, Return, Depth, Kind
  <2>2. PendingIsAccountedFor'
    BY <1>1, <1>3, <1>5, ReturnStep, TopOfStack DEF IInv, PendingIsAccountedFor, NoneUnnoticed,
       ErrorsHaveExceptions, CaughtInsideCatch, Return
  <2> QED
    BY <2>1, <2>2, <1>5 DEF IInv, ControlStaysInside, Return
<1>6. CASE Goto("else") /\ exception' = None
  <2>1. WellNested'
    BY <1>1, <1>2, <1>3, <1>6, GoesTo DEF IInv, WellNested, TypeOK, Goto, Depth
  <2>2. PendingIsAccountedFor'
    BY <1>1, <1>2, <1>3, <1>6, GoesTo, TopOfStack DEF IInv, PendingIsAccountedFor,
       NoneUnnoticed, ErrorsHaveExceptions, CaughtInsideCatch, Goto
  <2> QED
    BY <2>1, <2>2, <1>6 DEF IInv, ControlStaysInside, Returned, Goto
<1> QED
  BY <1>1, <1>4, <1>5, <1>6 DEF EndOfIteration, ClearException

(* A try statement of kind r ends but for its finally block. *)
LEMMA FinallyStep ==
    ASSUME IInv, stack # <<>>, Top.node = "try", Top.at # "finally",
           NEW r \in Kind, Finally(r), UNCHANGED <<exception, frames, leaked, lost>>,
           r = "ERROR" => result = "ERROR" \/ Top.at = "match",
           result = "ERROR" \/ Top.at = "match" => r = "ERROR",
           caught' = IF Top.at = "catch" THEN None ELSE caught
    PROVE  IInv'
<1>1. Top.node \notin Callers /\ Top.node # "native" /\ Top.node \in Statements
  BY DEF Callers, Bodies, Statements
<1>2. CASE Top.finally
  <2> DEFINE a == [Top EXCEPT !.at = "finally", !.saved = r, !.held = None]
  <2>1. a \in Activation /\ a.node = Top.node /\ HasStages(a) /\ a.at = "finally" /\ a.saved = r
    BY TopOfStack DEF IInv, Activation, HasStages
  <2>2. stack' = [stack EXCEPT ![Depth] = a] /\ result' = "none"
    <3>1. stack \in Seq(Activation) /\ Depth \in DOMAIN stack /\ Top = stack[Depth]
      BY DEF IInv, WellNested, TypeOK, Top, Depth
    <3> QED
      BY <1>2, <3>1, TopOfStack DEF Finally, Activation, IInv
  <2>3. Keeps(a) <=> r = "ERROR"
    BY <2>1 DEF Keeps
  <2> HIDE DEF a
  <2>4. WellNested'
    BY <2>1, <2>2, Goes DEF IInv, WellNested, TypeOK, Depth
  <2>5. PendingIsAccountedFor'
    BY <2>1, <2>2, <2>3, <1>1, Goes, TopOfStack DEF IInv, PendingIsAccountedFor, NoneUnnoticed,
       ErrorsHaveExceptions, CaughtInsideCatch, Keeps
  <2> QED
    BY <2>2, <2>4, <2>5 DEF IInv, ControlStaysInside, Returned
<1>3. CASE ~Top.finally
  <2>1. Return(r)
    BY <1>3 DEF Finally
  <2>2. WellNested'
    BY <1>1, <2>1, ReturnStep, TopOfStack DEF IInv, WellNested, TypeOK, Return, Depth
  <2>3. PendingIsAccountedFor'
    BY <1>1, <2>1, ReturnStep, TopOfStack DEF IInv, PendingIsAccountedFor, NoneUnnoticed,
       ErrorsHaveExceptions, CaughtInsideCatch, Return, Keeps
  <2>4. ControlStaysInside'
    BY <1>1, <2>1, ReturnStep DEF IInv, ControlStaysInside, Returned, Return, Accepting
  <2> QED
    BY <2>2, <2>3, <2>4 DEF IInv
<1> QED
  BY <1>2, <1>3

(* A catch clause is entered. *)
LEMMA HandleStep ==
    ASSUME IInv, stack # <<>>, Top.node = "try", Top.at \in {"body", "match"},
           NEW e \in Exception \cup {None}, NEW at \in {"bind", "body"}, Handle(e, at)
    PROVE  IInv'
<1> DEFINE a == [Top EXCEPT !.at = "catch", !.held = None]
           b == New("catch", at)
           s == [stack EXCEPT ![Depth] = a]
<1>1. /\ a \in Activation /\ a.node = Top.node /\ HasStages(a) /\ a.at = "catch" /\ ~Keeps(a)
      /\ b \in Activation /\ HasStages(b) /\ b.node = "catch" /\ b.at = at /\ MayEnter(a, b)
      /\ ~Keeps(b)
  BY TopOfStack DEF IInv, Activation, HasStages, Keeps, New, MayEnter, Kind, Callers, Bodies
<1>2. stack \in Seq(Activation) /\ Depth \in DOMAIN stack /\ Top = stack[Depth] /\ Depth = Len(stack)
  BY DEF IInv, WellNested, TypeOK, Top, Depth
<1>3. stack' = Append(s, b)
  <2>1. s = [stack EXCEPT ![Depth].at = "catch", ![Depth].held = None]
    BY <1>2, TopOfStack DEF Activation, IInv
  <2> QED
    BY <2>1 DEF Handle
<1>4. /\ s \in Seq(Activation) /\ Len(s) = Depth /\ s[Depth] = a
      /\ \A i \in 1 .. Depth - 1 : s[i] = stack[i]
  BY <1>1, <1>2, Changed
<1>5. /\ stack' \in Seq(Activation) /\ Len(stack') = Len(s) + 1 /\ stack'[Len(stack')] = b
      /\ \A i \in 1 .. Len(s) : stack'[i] = s[i]
  BY <1>1, <1>3, <1>4, AppendProperties
<1> HIDE DEF a, b, s
<1>6. Depth <= MaxDepth /\ s # <<>>
  BY <1>2, <1>4, TopOfStack DEF IInv, WellNested, Nests, Top, Depth
<1>7. /\ Nests(s)
      /\ ~leaked => IsFrameChain(frames, s)
      /\ ErrorKept(s, Depth) <=> ErrorKept(stack, Depth - 1)
      /\ NativeRuns(s, Depth) <=> NativeRuns(stack, Depth)
      /\ CatchRuns(s, Depth)
  BY <1>1, <1>4, GoOnStep DEF IInv
<1>8. /\ Nests(stack')
      /\ ~leaked => IsFrameChain(frames, stack')
      /\ ErrorKept(stack', Depth') <=> ErrorKept(stack, Depth - 1)
      /\ CatchRuns(stack', Depth')
  BY <1>1, <1>4, <1>5, <1>6, <1>7, EnterStep DEF Depth, Callers, Bodies
<1>9. Len(stack') <= MaxDepth + 1
  BY <1>4, <1>5, <1>6, TopOfStack DEF IInv
<1>10. /\ result' = "none" /\ caught' = e /\ exception' = None /\ UNCHANGED <<frames, leaked>>
       /\ lost' = (lost \/ (exception # None /\ ErrorKept(stack, Depth - 1)))
  BY DEF Handle, ClearException
<1>11. WellNested'
  BY <1>5, <1>8, <1>9, <1>10 DEF IInv, WellNested, TypeOK
<1>12. PendingIsAccountedFor'
  BY <1>8, <1>10, TopOfStack DEF IInv, WellNested, TypeOK, PendingIsAccountedFor, NoneUnnoticed,
     ErrorsHaveExceptions, CaughtInsideCatch
<1> QED
  BY <1>10, <1>11, <1>12 DEF IInv, ControlStaysInside, Returned

(* The type of a catch clause is to be evaluated. *)
LEMMA MatchStep ==
    ASSUME IInv, stack # <<>>, Top.node = "try",
           Top.at = "match" \/ (Top.at = "body" /\ result = "ERROR"),
           NEW e \in Exception \cup {None}, UNCHANGED quiet, result' = "none",
           stack' = [stack EXCEPT ![Depth] = [Top EXCEPT !.at = "match", !.held = e]]
    PROVE  IInv'
<1> DEFINE a == [Top EXCEPT !.at = "match", !.held = e]
<1>1. a \in Activation /\ a.node = Top.node /\ HasStages(a) /\ a.at = "match" /\ Keeps(a)
  BY TopOfStack DEF IInv, Activation, HasStages, Keeps
<1> HIDE DEF a
<1>2. stack' = [stack EXCEPT ![Depth] = a]
  BY DEF a
<1>3. WellNested'
  BY <1>1, <1>2, Goes DEF IInv, WellNested, TypeOK, quiet, stable, Depth
<1>4. PendingIsAccountedFor'
  BY <1>1, <1>2, Goes, TopOfStack DEF IInv, PendingIsAccountedFor, NoneUnnoticed,
     ErrorsHaveExceptions, CaughtInsideCatch, Keeps, quiet, stable
<1> QED
  BY <1>3, <1>4 DEF IInv, ControlStaysInside, Returned

LEMMA TryStep ==
    ASSUME IInv, TryFailed \/ TryMatched \/ TryMatchFailed \/ TrySucceeded
    PROVE  IInv'
<1>1. /\ stack # <<>> /\ Top.node = "try" /\ Top.at \in {"body", "match"} /\ result \in Kind
      /\ Top \in Activation /\ Top = stack[Depth] /\ Depth \in DOMAIN stack
      /\ exception \in Exception \cup {None} /\ Top.held \in Exception \cup {None}
  <2>1. stack # <<>> /\ Top.node = "try" /\ Top.at \in {"body", "match"} /\ result # "none"
    BY DEF TryFailed, TryMatched, TryMatchFailed, TrySucceeded, Returns, Returned, At
  <2>2. Top \in Activation /\ Depth \in 1 .. Len(stack)
    BY <2>1, TopOfStack DEF IInv, Depth
  <2> QED
    BY <2>1, <2>2 DEF IInv, WellNested, TypeOK, Activation, Top
<1>2. ASSUME NEW e \in Exception \cup {None},
             stack' = [stack EXCEPT ![Depth].at = "match", ![Depth].held = e]
      PROVE  stack' = [stack EXCEPT ![Depth] = [Top EXCEPT !.at = "match", !.held = e]]
  BY <1>1, <1>2 DEF Activation
<1>3. CASE TryFailed
  BY <1>1, <1>2, <1>3, MatchStep, HandleStep, FinallyStep
     DEF TryFailed, Returns, At, Kind, quiet, stable
<1>4. CASE TryMatched
  <2>1. Top.at = "match" /\ result = "SUCCESS"
    BY <1>4 DEF TryMatched, Returns, At
  <2>2. ASSUME Goto("match")
        PROVE  stack' = [stack EXCEPT ![Depth] = [Top EXCEPT !.at = "match", !.held = Top.held]]
    BY <1>1, <2>2 DEF Goto, Activation
  <2>3. CASE Goto("match") /\ UNCHANGED quiet
    BY <1>1, <2>1, <2>2, <2>3, MatchStep DEF Goto
  <2>4. CASE \E at \in {"bind", "body"} : Handle(Top.held, at)
    BY <1>1, <2>4, HandleStep
  <2>5. CASE Finally("ERROR") /\ UNCHANGED quiet
    BY <1>1, <2>1, <2>5, FinallyStep DEF Kind, quiet, stable
  <2> QED
    BY <1>4, <2>3, <2>4, <2>5 DEF TryMatched
<1>5. CASE TryMatchFailed
  BY <1>1, <1>5, FinallyStep DEF TryMatchFailed, Returns, At, Kind, quiet, stable
<1>6. CASE TrySucceeded
  <2>1. Top.at = "body" /\ result # "ERROR" /\ UNCHANGED quiet
    BY <1>6 DEF TrySucceeded, Returns, At
  <2>2. HasStages([Top EXCEPT !.at = "else"])
    BY <1>1 DEF HasStages, Activation
  <2>3. CASE Goto("else")
    BY <1>1, <2>1, <2>2, <2>3, NodeGoesOn
  <2>4. CASE Finally(result)
    BY <1>1, <2>1, <2>4, FinallyStep DEF quiet, stable
  <2> QED
    BY <1>6, <2>3, <2>4 DEF TrySucceeded
<1> QED
  BY <1>3, <1>4, <1>5, <1>6

LEMMA TryEndStep ==
    ASSUME IInv, TryEnd
    PROVE  IInv'
<1>1. /\ stack # <<>> /\ Top.node = "try" /\ Top.at \in {"else", "catch", "finally"}
      /\ result \in Kind /\ Top.saved \in Kind
  <2>1. stack # <<>> /\ Top.node = "try" /\ Top.at \in {"else", "catch", "finally"} /\ result # "none"
    BY DEF TryEnd, Returns, Returned, At
  <2> QED
    BY <2>1, TopOfStack DEF IInv, WellNested, TypeOK, Activation
<1>2. UNCHANGED <<exception, frames, leaked, lost>>
  BY DEF TryEnd
<1>3. CASE Returns("try", "else") /\ Finally(result) /\ UNCHANGED caught
  BY <1>1, <1>2, <1>3, FinallyStep DEF Returns, At
<1>4. CASE Returns("try", "catch") /\ Finally(result) /\ caught' = None
  BY <1>1, <1>2, <1>4, FinallyStep DEF Returns, At
<1>5. CASE /\ Returns("try", "finally") /\ UNCHANGED caught
           /\ Return(IF result = "ERROR" THEN "ERROR" ELSE Top.saved)
  <2> DEFINE r == IF result = "ERROR" THEN "ERROR" ELSE Top.saved
  <2>1. /\ r \in Kind /\ Top.at = "finally"
        /\ r = "ERROR" <=> result = "ERROR" \/ Top.saved = "ERROR"
    BY <1>1, <1>5 DEF Returns, At, Kind
  <2>2. Return(r)
    BY <1>5
  <2> HIDE DEF r
  <2>3. Top.node \notin Callers /\ Top.node # "native" /\ Top.node \in Statements
        /\ (Keeps(Top) <=> Top.saved = "ERROR")
    BY <1>1, <2>1 DEF Callers, Bodies, Statements, Keeps
  <2>4. WellNested'
    BY <1>1, <1>2, <1>5, <2>1, <2>2, <2>3, ReturnStep, TopOfStack
       DEF IInv, WellNested, TypeOK, Return, Depth
  <2>5. PendingIsAccountedFor'
    BY <1>1, <1>2, <1>5, <2>1, <2>2, <2>3, ReturnStep, TopOfStack DEF IInv,
       PendingIsAccountedFor, NoneUnnoticed, ErrorsHaveExceptions, CaughtInsideCatch, Return
  <2>6. ControlStaysInside'
    BY <1>1, <2>2, <2>3, ReturnStep DEF IInv, ControlStaysInside, Returned, Return, Accepting
  <2> QED
    BY <2>4, <2>5, <2>6 DEF IInv
<1> QED
  BY <1>3, <1>4, <1>5 DEF TryEnd

(* A function, file or script returns r, with an error or a success. *)
LEMMA LeaveStep ==
    ASSUME IInv, stack # <<>>, Top.node \in Callers, Top.at \in {"body", "parameters", "call"},
           NEW r \in {"SUCCESS", "ERROR"}, Leave(r), UNCHANGED <<caught, leaked, lost>>,
           exception' \in Exception \cup {None},
           r = "ERROR" => exception' # None \/ lost,
           exception' # exception => r = "ERROR",
           result # "ERROR" \/ r = "ERROR",
           Top.node = "native" => (exception' # None => r = "ERROR")
    PROVE  IInv'
<1>1. ~Keeps(Top) /\ Return(r) /\ r \in Kind
  BY DEF Keeps, Leave, Kind
<1>2. frames' \in Seq(Callers)
  <2>1. frames \in Seq(Callers)
    BY DEF IInv, WellNested, TypeOK
  <2> QED
    BY <2>1, Shortened DEF Leave
<1>3. WellNested'
  BY <1>1, <1>2, ReturnStep, TopOfStack DEF IInv, WellNested, TypeOK, Return, Depth, Leave
<1>4. PendingIsAccountedFor'
  BY <1>1, ReturnStep, TopOfStack DEF IInv, PendingIsAccountedFor, NoneUnnoticed,
     ErrorsHaveExceptions, CaughtInsideCatch, Return
<1> QED
  BY <1>1, <1>3, <1>4 DEF IInv, ControlStaysInside, Return

LEMMA BodyStep ==
    ASSUME IInv, Body
    PROVE  IInv'
<1>1. /\ stack # <<>> /\ Top.node \in Bodies /\ Top.node \in Callers /\ Top.node # "native"
      /\ result \in Kind
  BY DEF Body, BodyGoesOn, BodyReturns, BodyFails, BodyBroken, Returned, Callers, Bodies, IInv,
     WellNested, TypeOK
<1>2. Top.at \in {"body", "parameters"} /\ HasStages([Top EXCEPT !.at = "body"])
  BY <1>1, TopOfStack DEF HasStages, IInv, Bodies, Activation
<1>3. /\ exception \in Exception \cup {None}
      /\ result = "ERROR" => exception # None \/ lost
  BY DEF IInv, WellNested, TypeOK, PendingIsAccountedFor, ErrorsHaveExceptions
<1>4. CASE BodyGoesOn
  <2>1. CASE Goto("body") /\ UNCHANGED frames
    BY <1>1, <1>2, <1>4, <2>1, NodeGoesOn DEF BodyGoesOn, quiet, stable
  <2>2. CASE Leave("SUCCESS")
    BY <1>1, <1>2, <1>3, <1>4, <2>2, LeaveStep DEF BodyGoesOn
  <2> QED
    BY <1>4, <2>1, <2>2 DEF BodyGoesOn
<1>5. CASE BodyReturns
  BY <1>1, <1>2, <1>3, <1>5, LeaveStep DEF BodyReturns
<1>6. CASE BodyFails
  BY <1>1, <1>2, <1>3, <1>6, LeaveStep DEF BodyFails
<1>7. CASE BodyBroken
  BY <1>1, <1>2, <1>7, LeaveStep DEF BodyBroken, Throw, Exception, Thrown
<1> QED
  BY <1>4, <1>5, <1>6, <1>7 DEF Body

LEMMA NativeStep ==
    ASSUME IInv, Native
    PROVE  IInv'
<1>1. /\ stack # <<>> /\ Top.node = "native" /\ Top.at = "call" /\ Top.node \in Callers
      /\ ~Keeps(Top) /\ exception \in Exception \cup {None}
  <2>1. stack # <<>> /\ Top.node = "native"
    BY DEF Native, NativeGoesOn, NativeReturns, Returns, Returned, Running, At
  <2> QED
    BY <2>1, TopOfStack DEF HasStages, Keeps, Callers, IInv, WellNested, TypeOK
<1>2. HasStages([Top EXCEPT !.at = "call"]) /\ ~Keeps([Top EXCEPT !.at = "call"])
  BY <1>1, TopOfStack DEF HasStages, Keeps, IInv, Activation
<1>3. CASE NativeGoesOn
  <2>1. /\ Goto("call") /\ UNCHANGED <<caught, frames, leaked>>
        /\ exception' \in Exception \cup {None} /\ lost' \in BOOLEAN
        /\ exception' # None => exception' = exception
        /\ exception' = None /\ ErrorKept(stack, Depth - 1) => lost'
        /\ lost => lost'
    <3>1. /\ Goto("call") /\ UNCHANGED <<caught, frames, leaked>>
          /\ UNCHANGED <<exception, lost>> \/ ClearException
      BY <1>3 DEF NativeGoesOn, stable
    <3>2. lost \in BOOLEAN /\ (exception = None /\ ErrorKept(stack, Depth - 1) => lost)
      BY <1>1, TopOfStack DEF IInv, WellNested, TypeOK, PendingIsAccountedFor,
         ErrorsHaveExceptions
    <3>3. CASE UNCHANGED <<exception, lost>>
      BY <1>1, <3>1, <3>2, <3>3
    <3>4. CASE ClearException
      BY <3>1, <3>2, <3>4 DEF ClearException
    <3> QED
      BY <3>1, <3>3, <3>4
  <2>2. WellNested'
    BY <1>1, <1>2, <2>1, GoesTo DEF IInv, WellNested, TypeOK, Goto, Depth
  <2>3. PendingIsAccountedFor'
    BY <1>1, <1>2, <2>1, GoesTo, TopOfStack DEF IInv, PendingIsAccountedFor, NoneUnnoticed,
       ErrorsHaveExceptions, CaughtInsideCatch, Goto
  <2> QED
    BY <2>1, <2>2, <2>3 DEF IInv, ControlStaysInside, Returned, Goto
<1>4. CASE NativeReturns
  <2> DEFINE r == IF exception' = None THEN "SUCCESS" ELSE "ERROR"
  <2>1. /\ Leave(r) /\ UNCHANGED <<caught, leaked, lost>> /\ result = "none"
        /\ exception' \in Exception \cup {None} /\ (exception' # exception => exception' # None)
    BY <1>1, <1>4 DEF NativeReturns, Throw, Running, Exception, Thrown
  <2>2. r \in {"SUCCESS", "ERROR"} /\ (r = "ERROR" <=> exception' # None)
    OBVIOUS
  <2> HIDE DEF r
  <2> QED
    BY <1>1, <2>1, <2>2, LeaveStep
<1> QED
  BY <1>3, <1>4 DEF Native

(* Something is entered: a statement, or what owns a frame and pushes it. *)
LEMMA PushStep ==
    ASSUME IInv, stack # <<>>, result = "none",
           NEW b \in Activation, HasStages(b), MayEnter(Top, b), b.node # "catch",
           b.at \notin {"match", "finally", "catch"}, Push(b),
           frames' = IF b.node \in Callers THEN Append(frames, b.node) ELSE frames,
           exception' \in {exception, Missing}, UNCHANGED <<caught, leaked, lost>>
    PROVE  IInv'
<1>1. stack \in Seq(Activation) /\ Depth = Len(stack) /\ Top = stack[Len(stack)] /\ Nests(stack)
      /\ frames \in Seq(Callers)
  BY DEF IInv, WellNested, TypeOK, Top, Depth
<1>2. Depth < MaxDepth /\ stack' = Append(stack, b) /\ result' = "none"
  BY DEF Push
<1>3. /\ stack' \in Seq(Activation) /\ Len(stack') = Len(stack) + 1 /\ stack'[Len(stack')] = b
      /\ \A i \in 1 .. Len(stack) : stack'[i] = stack[i]
  BY <1>1, <1>2, AppendProperties
<1>4. /\ Nests(stack')
      /\ b.node \notin Callers => \A f : IsFrameChain(f, stack) => IsFrameChain(f, stack')
      /\ b.node \in Callers => \A f \in Seq(Callers) : IsFrameChain(f, stack) =>
                                   IsFrameChain(Append(f, b.node), stack')
      /\ ErrorKept(stack', Depth') <=> ErrorKept(stack, Depth)
      /\ NativeRuns(stack', Depth') <=> NativeRuns(stack, Depth) \/ b.node = "native"
      /\ CatchRuns(stack', Depth') <=> CatchRuns(stack, Depth)
  BY <1>1, <1>2, <1>3, EnterStep DEF Depth, Keeps
<1>5. Len(stack') <= MaxDepth + 1
  BY <1>1, <1>2, <1>3
<1>6. frames' \in Seq(Callers)
  BY <1>1
<1>7. WellNested'
  BY <1>1, <1>2, <1>3, <1>4, <1>5, <1>6 DEF IInv, WellNested, TypeOK, Exception
<1>8. PendingIsAccountedFor'
  BY <1>2, <1>4 DEF IInv, PendingIsAccountedFor, NoneUnnoticed, ErrorsHaveExceptions,
     CaughtInsideCatch, Exception
<1> QED
  BY <1>2, <1>7, <1>8 DEF IInv, ControlStaysInside, Returned

LEMMA NewActivation ==
    ASSUME NEW b, \/ b = New("block", "body") \/ b = New("if", "cond")
                  \/ b = New("while", "cond") \/ b = New("for", "collection")
                  \/ b = New("func", "parameters") \/ b = New("native", "call")
                  \/ b = New("file", "body")
                  \/ \E f \in BOOLEAN : b = [New("try", "body") EXCEPT !.finally = f]
    PROVE  /\ b \in Activation /\ HasStages(b) /\ b.node # "catch"
           /\ b.at \notin {"match", "finally", "catch"}
<1>1. "SUCCESS" \in Kind
  BY DEF Kind
<1>2. CASE \E f \in BOOLEAN : b = [New("try", "body") EXCEPT !.finally = f]
  <2>1. PICK f \in BOOLEAN : b = [node |-> "try", at |-> "body", finally |-> f,
                                 saved |-> "SUCCESS", held |-> None]
    BY <1>2 DEF New
  <2>2. b \in Activation
    BY <1>1, <2>1 DEF Activation
  <2> QED
    BY <2>1, <2>2 DEF HasStages
<1>3. ASSUME NEW n \in Callers \cup {"block", "if", "while", "for"},
             NEW at \in {"body", "parameters", "call", "cond", "collection"}, b = New(n, at)
      PROVE  /\ b \in Activation
             /\ b.node = n /\ b.at = at /\ b.finally = FALSE
  BY <1>1, <1>3 DEF New, Activation
<1>4. CASE \/ b = New("block", "body") \/ b = New("if", "cond")
           \/ b = New("while", "cond") \/ b = New("for", "collection")
           \/ b = New("func", "parameters") \/ b = New("native", "call")
           \/ b = New("file", "body")
  <2>1. b \in Activation
    BY <1>3, <1>4 DEF Callers, Bodies
  <2> QED
    BY <1>4, <2>1 DEF HasStages, New
<1> QED
  BY <1>2, <1>4

LEMMA EnteringStep ==
    ASSUME IInv, Enter
    PROVE  IInv'
<1>1. stack # <<>> /\ result = "none"
  BY DEF Enter, EnterStatement, EnterFunction, EnterGetattr, EnterNative, EnterFile, ImportFails,
     Statement, Running
<1>2. CASE EnterStatement
  <2>1. UNCHANGED <<exception, caught, frames, leaked, lost>>
        /\ Top.at \in {"body", "else", "finally"}
    BY <1>2 DEF EnterStatement, Statement, stable
  <2>2. ASSUME NEW b, Push(b),
               \/ b = New("block", "body") \/ b = New("if", "cond")
               \/ b = New("while", "cond") \/ b = New("for", "collection")
               \/ \E f \in BOOLEAN : b = [New("try", "body") EXCEPT !.finally = f]
        PROVE  IInv'
    <3>1. /\ b \in Activation /\ HasStages(b) /\ b.node # "catch"
          /\ b.at \notin {"match", "finally", "catch"}
      BY <2>2, NewActivation
    <3>2. b.node \in {"block", "if", "while", "for", "try"}
      BY <2>2 DEF New
    <3>3. b.node \notin Callers /\ MayEnter(Top, b)
      BY <2>1, <3>2 DEF Callers, Bodies, MayEnter
    <3> QED
      BY <1>1, <2>1, <2>2, <3>1, <3>3, PushStep
  <2> QED
    BY <1>2, <2>2 DEF EnterStatement
<1>3. CASE EnterFunction \/ EnterGetattr
  <2> DEFINE b == New("func", "parameters")
  <2>1. /\ b \in Activation /\ HasStages(b) /\ b.node # "catch"
        /\ b.at \notin {"match", "finally", "catch"}
    BY NewActivation
  <2>2. b.node = "func" /\ b.node \in Callers /\ MayEnter(Top, b)
    BY DEF Callers, Bodies, MayEnter, New
  <2>3. /\ Push(b) /\ frames' = Append(frames, "func") /\ exception' \in {exception, Missing}
        /\ UNCHANGED <<caught, leaked, lost>>
    BY <1>3 DEF EnterFunction, EnterGetattr, Throw
  <2> HIDE DEF b
  <2> QED
    BY <1>1, <2>1, <2>2, <2>3, PushStep
<1>4. CASE EnterNative
  <2> DEFINE b == New("native", "call")
  <2>1. /\ b \in Activation /\ HasStages(b) /\ b.node # "catch"
        /\ b.at \notin {"match", "finally", "catch"}
    BY NewActivation
  <2>2. b.node = "native" /\ b.node \in Callers /\ MayEnter(Top, b)
    BY DEF Callers, Bodies, MayEnter, New
  <2>3. /\ Push(b) /\ frames' = Append(frames, "native")
        /\ UNCHANGED <<exception, caught, leaked, lost>>
    BY <1>4 DEF EnterNative
  <2> HIDE DEF b
  <2> QED
    BY <1>1, <2>1, <2>2, <2>3, PushStep
<1>5. CASE EnterFile
  <2> DEFINE b == New("file", "body")
  <2>1. /\ b \in Activation /\ HasStages(b) /\ b.node # "catch"
        /\ b.at \notin {"match", "finally", "catch"}
    BY NewActivation
  <2>2. b.node = "file" /\ b.node \in Callers /\ MayEnter(Top, b)
    BY <1>5 DEF EnterFile, Callers, Bodies, MayEnter, New
  <2>3. /\ Push(b) /\ frames' = Append(frames, "file")
        /\ UNCHANGED <<exception, caught, leaked, lost>>
    BY <1>5 DEF EnterFile
  <2> HIDE DEF b
  <2> QED
    BY <1>1, <2>1, <2>2, <2>3, PushStep
<1>6. CASE ImportFails
  <2>1. /\ exception' = Other /\ leaked' = TRUE /\ result' = "ERROR"
        /\ frames' = Append(frames, "file") /\ UNCHANGED <<stack, caught, lost>>
    BY <1>6 DEF ImportFails, Throw
  <2>2. frames' \in Seq(Callers)
    BY <2>1 DEF IInv, WellNested, TypeOK, Callers, Bodies
  <2>3. WellNested'
    BY <2>1, <2>2 DEF IInv, WellNested, TypeOK, Kind, Exception, Thrown
  <2>4. PendingIsAccountedFor'
    BY <2>1 DEF IInv, PendingIsAccountedFor, NoneUnnoticed, ErrorsHaveExceptions,
       CaughtInsideCatch, Exception, Thrown, Depth
  <2> QED
    BY <2>1, <2>3, <2>4 DEF IInv, ControlStaysInside
<1> QED
  BY <1>2, <1>3, <1>4, <1>5, <1>6 DEF Enter

-----------------------------------------------------------------------------
(* THE THEOREMS                                                            *)

LEMMA InitIInv == Init => IInv
<1> SUFFICES ASSUME Init PROVE IInv
  OBVIOUS
<1> DEFINE b == New("script", "body")
<1>1. b \in Activation /\ b.node = "script" /\ b.at = "body" /\ ~b.finally
  <2>1. "SUCCESS" \in Kind /\ "script" \in Callers
    BY DEF Kind, Callers, Bodies
  <2> QED
    BY <2>1 DEF New, Activation
<1>2. /\ stack = <<b>> /\ frames = <<"script">> /\ result = "none" /\ exception = None
      /\ caught = None /\ leaked = FALSE /\ lost = FALSE
  BY DEF Init
<1> HIDE DEF b
<1>3. Len(stack) = 1 /\ stack[1] = b /\ stack \in Seq(Activation) /\ frames \in Seq(Callers)
      /\ Len(frames) = 1 /\ frames[1] = "script"
  BY <1>1, <1>2 DEF Callers, Bodies
<1>4. TypeOK
  <2>1. Len(stack) <= MaxDepth + 1
    BY <1>3
  <2>2. stack \in Seq(Activation) /\ frames \in Seq(Callers)
    BY <1>3
  <2>3. /\ result \in Kind \cup {"none"} /\ exception \in Exception \cup {None}
        /\ caught \in Exception \cup {None} /\ leaked \in BOOLEAN /\ lost \in BOOLEAN
    BY <1>2
  <2> QED
    BY <2>1, <2>2, <2>3 DEF TypeOK
<1>5. Nests(stack)
  BY <1>1, <1>3 DEF Nests, HasStages
<1>6. IsFrameChain(frames, stack)
  <2>1. Owners(stack, 1) = {1}
    BY <1>1, <1>3 DEF Owners, Callers, Bodies
  <2>2. Cardinality({1}) = 1
    BY FS_Singleton
  <2> QED
    BY <1>1, <1>3, <2>1, <2>2 DEF IsFrameChain
<1>7. ~ErrorKept(stack, Depth)
  BY <1>1, <1>3 DEF ErrorKept, Keeps, Depth
<1> QED
  BY <1>2, <1>4, <1>5, <1>6, <1>7 DEF IInv, WellNested, PendingIsAccountedFor, NoneUnnoticed,
     ErrorsHaveExceptions, CaughtInsideCatch, ControlStaysInside, Returned

LEMMA NextIInv == IInv /\ [Next]_vars => IInv'
<1> SUFFICES ASSUME IInv, [Next]_vars PROVE IInv'
  OBVIOUS
<1>1. CASE Next
  BY <1>1, LeafStep, EnteringStep, BlockStep, IfStep, WhileStep, ForStep, EndOfIterationStep,
     TryStep, TryEndStep, CatchStep, BodyStep, NativeStep DEF Next
<1>2. CASE UNCHANGED vars
  <2>1. WellNested'
    BY <1>2 DEF vars, IInv, WellNested, TypeOK
  <2>2. PendingIsAccountedFor' /\ ControlStaysInside'
    BY <1>2 DEF vars, IInv, PendingIsAccountedFor, NoneUnnoticed, ErrorsHaveExceptions,
       CaughtInsideCatch, ControlStaysInside, Returned, Depth, Top
  <2> QED
    BY <2>1, <2>2 DEF IInv
<1> QED
  BY <1>1, <1>2

(* What is proved below holds in every state of every execution: the        *)
(* activations nest, frames are those of the calls, and what waits for a    *)
(* finally block or for the type of a catch clause has its exception.       *)
THEOREM Invariant == Spec => []IInv
<1> QED
  BY InitIInv, NextIInv, PTL DEF Spec

(* Whatever a program does and however deep its calls nest, no activation  *)
(* is where it cannot be, and PushFrame and PopFrame of the interpreter    *)
(* have kept one frame for every function, file and script that has not    *)
(* returned, in their order; but for the frame a failed Import leaves.     *)
THEOREM FramesFollowTheCalls == Spec => []WellNested
<1>1. IInv => WellNested
  BY DEF IInv
<1> QED
  BY <1>1, Invariant, PTL

(* For every program: an exception is pending only while its error is on   *)
(* its way or is kept, whatever fails has left one, and a caught exception *)
(* is set only while a catch clause runs.                                  *)
THEOREM ExceptionsAreAccountedFor == Spec => []PendingIsAccountedFor
<1>1. IInv => PendingIsAccountedFor
  BY DEF IInv
<1> QED
  BY <1>1, Invariant, PTL

(* For every program: break, continue and return never arrive where an     *)
(* expression, a condition or the type of a catch clause is evaluated.     *)
THEOREM ControlIsConfined == Spec => []ControlStaysInside
<1>1. IInv => ControlStaysInside
  BY DEF IInv
<1> QED
  BY <1>1, Invariant, PTL

(* Only a try statement has a finally block, and nothing but its end takes *)
(* a try statement from the stack.                                         *)
LEMMA FinallyStepRuns ==
    ASSUME IInv, Next, Depth > 0, Len(stack') < Depth, Top.finally, Top.at # "finally"
    PROVE  FALSE
<1>1. stack # <<>> /\ stack \in Seq(Activation) /\ Depth = Len(stack) /\ Depth \in Nat
  BY DEF IInv, WellNested, TypeOK, Depth
<1>2. Top.node = "try"
  BY <1>1, TopOfStack DEF HasStages, IInv
<1>3. ~Leaf
  BY <1>1 DEF Leaf, Succeed, Raise, FailPending, AssignFails, BreakOrContinue, ReturnStatement,
     Rethrow, stable
<1>4. \A b : ~Push(b)
  BY <1>1 DEF Push
<1>5. ~Enter
  <2>1. ~ImportFails
    BY <1>1 DEF ImportFails
  <2> QED
    BY <1>4, <2>1, Zenon DEF Enter, EnterStatement, EnterFunction, EnterGetattr, EnterNative,
       EnterFile
<1>6. ~(Block \/ If \/ While \/ For \/ EndOfIteration \/ Catch)
  BY <1>2 DEF Block, If, While, For, EndOfIteration, Catch, Returns, At
<1>7. ~(Body \/ Native)
  BY <1>2 DEF Body, BodyGoesOn, BodyReturns, BodyFails, BodyBroken, Native, NativeGoesOn,
     NativeReturns, Returns, At, Bodies
<1>8. \A r : ~Finally(r)
  BY <1>1 DEF Finally
<1>9. \A e, at : ~Handle(e, at)
  <2> SUFFICES ASSUME NEW e, NEW at, Handle(e, at) PROVE FALSE
    OBVIOUS
  <2> DEFINE s == [stack EXCEPT ![Depth].at = "catch", ![Depth].held = None]
  <2>1. DOMAIN s = 1 .. Depth /\ Len(s) = Depth
    BY <1>1
  <2> HIDE DEF s
  <2>2. Len(Append(s, New("catch", at))) = Depth + 1
    BY <1>1, <2>1
  <2> QED
    BY <1>1, <2>2 DEF Handle, s
<1>10. ~(TryFailed \/ TryMatched \/ TryMatchFailed \/ TrySucceeded \/ TryEnd)
  BY <1>1, <1>8, <1>9 DEF TryFailed, TryMatched, TryMatchFailed, TrySucceeded, TryEnd, Goto,
     Returns, At
<1> QED
  BY <1>3, <1>5, <1>6, <1>7, <1>10 DEF Next

(* For every program: a try statement with a finally block does not return *)
(* before that has been executed, whatever ended its other parts.          *)
THEOREM FinallyAlwaysRuns == Spec => FinallyRuns
<1>1. IInv /\ [Next]_vars =>
        [Depth > 0 /\ Len(stack') < Depth /\ Top.finally => Top.at = "finally"]_vars
  BY FinallyStepRuns
<1> QED
  BY <1>1, Invariant, PTL DEF Spec, FinallyRuns
==============================================================================
