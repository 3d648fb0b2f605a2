------------------------------ MODULE ObjectModel ------------------------------
(***************************************************************************)
(* Objects, classes and functions: the lookup of attributes and the calls  *)
(* of methods of src/object.cc, the classes of api/class.cc, the functions *)
(* of api/function.cc and the attributes of customobject.cc.               *)
(*                                                                         *)
(* A script reads attributes, assigns what it holds to attributes of any   *)
(* object or class, and calls methods; so methods get to places they were  *)
(* not made for.  A call is a machine: todo are the C++ functions that     *)
(* have not returned, innermost first, and answer is what the last of them *)
(* returned.  What a scripted function does is left open.                  *)
(***************************************************************************)
EXTENDS Integers, Sequences, Functions

CONSTANTS NewObject,    \* identities of the objects scripts make, in order
          Touched,      \* the classes that scripts assign attributes of
          ReadNames, WrittenNames,    \* the attributes a script uses
          MaxWrites, MaxTodo  \* bounds of the model: assignments, nested calls

VARIABLES objects,      \* every object: class, C++ type, attributes; of classes
                        \* the base and the allocator, too
          held,         \* what the script holds
          todo,         \* the functions that have not returned
          answer,       \* what the last one returned: an outcome and a value
          pending,      \* Interpreter::m_exception
          ran,          \* the native method that ran last, and its receiver
          writes        \* assignments so far

objectVars == <<objects, held, todo, answer, pending, ran, writes>>

(* VALUES: objects by their identity, functions by what they are. *)
Obj(id)         == <<"object", id>>
Unbound(c, n)   == <<"unbound", c, n>>      \* a native method of class c
Alias(n)        == <<"alias", n>>
Bound(f, this)  == <<"curry", f, this>>     \* FunctionObject::Curry()
Scripted        == <<"scripted">>
NullHandle      == <<"null handle">>
Null            == Obj("null")

IsFunction(v)      == v[1] \in {"unbound", "alias", "curry", "scripted"}
IsUnboundMethod(v) == v[1] \in {"unbound", "alias"}

(* A dictionary with one more entry, or another value. *)
With(d, key, value) == [k \in DOMAIN d \cup {key} |-> IF k = key THEN value ELSE d[k]]

(* Classes: the allocator of a class is that of its base unless it is set. *)
Cls(base, alloc, attrs) ==
    [class |-> "Class", type |-> "Class", base |-> base, alloc |-> alloc, attrs |-> attrs]
Methods(c, names) == [n \in names |-> Unbound(c, n)]

Builtin ==
    [Object   |-> Cls("", "any", Methods("Object", {"__init__", "__str__"})),
     Class    |-> Cls("Object", "class", Methods("Class", {"alloc", "__call__", "__str__"})),
     Function |-> Cls("Object", "nothing", Methods("Function", {"__call__"})),
     Iterable |-> Cls("Object", "any", Methods("Iterable", {"join"})),
     List     |-> Cls("Iterable", "list",
                    With(Methods("List", {"__init__", "size"}), "__str__", Alias("join"))),
     Void     |-> Cls("Iterable", "nothing", <<>>)]

NothingRan == [method |-> <<>>, type |-> ""]

ObjectInit ==
    /\ objects = With(Builtin, "null", [class |-> "Void", type |-> "primary", attrs |-> <<>>])
    /\ held = Scripted
    /\ todo = <<>> /\ answer = [ok |-> TRUE, value |-> Null]
    /\ pending = "none"
    /\ ran = NothingRan
    /\ writes = 0

-----------------------------------------------------------------------------
(* LOOKUP *)

Classes  == {k \in DOMAIN objects : objects[k].type = "Class"}
Class(v) == IF IsFunction(v) THEN "Function" ELSE objects[v[2]].class
Type(v)  == IF IsFunction(v) THEN "function" ELSE objects[v[2]].type

(* Class::IsSubclassOf(). *)
IsSubclassOf(c, d) ==
    LET Is[k \in Classes] == k = d \/ (objects[k].base # "" /\ Is[objects[k].base])
    IN  Is[c]
IsInstance(v, c) == IsSubclassOf(Class(v), c)

(* GetOwnAttribute() of a class includes the attributes of its bases.      *)
OfClass(c, n) ==
    LET Find[k \in Classes] ==
            IF n \in DOMAIN objects[k].attrs THEN {objects[k].attrs[n]}
            ELSE IF objects[k].base = "" THEN {} ELSE Find[objects[k].base]
    IN  Find[c]

GetOwnAttribute(v, n) ==
    IF IsFunction(v) THEN {}        \* bound of the model: functions have none
    ELSE IF Type(v) = "Class" THEN OfClass(v[2], n)
    ELSE IF n \in DOMAIN objects[v[2]].attrs THEN {objects[v[2]].attrs[n]} ELSE {}

Curried(fs, this) == {IF IsUnboundMethod(f) THEN Bound(f, this) ELSE f : f \in fs}

(* The class of an object is asked as an object, so that a method of Class *)
(* is found for an instance too, bound to its class.                       *)
GetAttribute(v, n) ==
    LET own    == GetOwnAttribute(v, n)
        class  == Class(v)
        OfMeta == Curried(OfClass("Class", n), Obj(class))
    IN  IF own # {} THEN own
        ELSE IF class = "Class" THEN Curried(OfClass("Class", n), v)
        ELSE IF OfClass(class, n) # {} THEN Curried(OfClass(class, n), v)
        ELSE Curried(OfMeta, v)

(* A class that defines it is asked for what is missing. *)
GetAttr(v) == IF Class(v) = "Class" THEN {}
              ELSE {f \in OfClass(Class(v), "__getattr__") : IsFunction(f)}

-----------------------------------------------------------------------------
(* THE MACHINE *)

Get(v, n)            == [do |-> "get", of |-> v, name |-> n]
Apply(v, args, slot) == [do |-> "apply", of |-> v, args |-> args, slot |-> slot]
Invoke(f, args)      == [do |-> "invoke", of |-> f, args |-> args]

(* CallMethod(): slot is what the caller has put in the slot of the result.*)
CallMethod(v, n, args, slot) == <<Get(v, n), Apply(v, args, slot)>>

Busy(what) == todo # <<>> /\ Head(todo).do = what
It == Head(todo)

Instead(items) == /\ Len(todo) + Len(items) <= MaxTodo + 1
                  /\ todo' = items \o Tail(todo)
Answer(ok, v)  == todo' = Tail(todo) /\ answer' = [ok |-> ok, value |-> v]
Fail           == Answer(FALSE, Null)
ThrowError         == pending' = "thrown" /\ Fail

idle == <<held, writes>>
pure == <<objects, idle, ran>>

(* Object::GetAttribute().  When the class has been asked in vain the      *)
(* exception is pending, also while __getattr__() is called.  The process  *)
(* dies at a null handle, which only a slot nobody has filled can hold.    *)
FindAttribute ==
    /\ Busy("get") /\ It.of # NullHandle
    /\ LET found == GetAttribute(It.of, It.name) IN
       \/ \E f \in found : Answer(TRUE, f) /\ UNCHANGED pending
       \/ found = {} /\ GetAttr(It.of) = {} /\ ThrowError
       \/ /\ found = {}
          /\ \E f \in GetAttr(It.of) : Instead(<<Invoke(f, <<It.of, Null>>)>>)
          /\ pending' = "missing" /\ UNCHANGED answer
    /\ UNCHANGED pure

(* The rest of CallMethod(): an unbound method gets the receiver; what is  *)
(* not a function is called by its __call__, and if that is none either    *)
(* the call succeeds and leaves the slot as it was.                        *)
ApplyFunction ==
    /\ Busy("apply")
    /\ LET f == answer.value IN
       \/ /\ ~answer.ok
          /\ Fail /\ pending' = IF pending = "none" THEN "thrown" ELSE pending
       \/ /\ answer.ok /\ IsFunction(f)
          /\ Instead(<<Invoke(f, IF IsUnboundMethod(f) THEN <<It.of>> \o It.args ELSE It.args)>>)
          /\ UNCHANGED <<answer, pending>>
       \/ /\ answer.ok /\ ~IsFunction(f)
          /\ Instead(<<Get(f, "__call__"), [It EXCEPT !.do = "apply call"]>>)
          /\ UNCHANGED <<answer, pending>>
    /\ UNCHANGED pure

ApplyCall ==
    /\ Busy("apply call")
    /\ \/ ~answer.ok /\ Fail
       \/ answer.ok /\ ~IsFunction(answer.value) /\ Answer(TRUE, It.slot)
       \/ /\ answer.ok /\ IsFunction(answer.value)
          /\ Instead(<<Invoke(answer.value, It.args)>>) /\ UNCHANGED answer
    /\ UNCHANGED <<pending, pure>>

(* A scripted function returns something or throws. *)
InvokeScripted ==
    /\ Busy("invoke") /\ It.of = Scripted
    /\ \/ \E v \in {Null, held} : Answer(TRUE, v) /\ UNCHANGED pending
       \/ ThrowError
    /\ UNCHANGED pure

InvokeCurried ==
    /\ Busy("invoke") /\ It.of[1] = "curry"
    /\ Instead(<<Invoke(It.of[2], <<It.of[3]>> \o It.args)>>)
    /\ UNCHANGED <<answer, pending, pure>>

InvokeAlias ==
    /\ Busy("invoke") /\ It.of[1] = "alias"
    /\ \/ It.args = <<>> /\ ThrowError
       \/ /\ It.args # <<>>
          /\ Instead(CallMethod(It.args[1], It.of[2], Tail(It.args), NullHandle))
          /\ UNCHANGED <<answer, pending>>
    /\ UNCHANGED pure

-----------------------------------------------------------------------------
(* NATIVE METHODS *)

(* Methods that take any number of arguments; the others take none. *)
Variadic == {Unbound("Class", "__call__"), Unbound("Function", "__call__"),
             Unbound("List", "__init__"), Unbound("Iterable", "join")}

(* Mutant: an argument that is no instance of the class is not noticed.    *)
AcceptsAnything(f, args) == args # <<>> /\ (f \in Variadic \/ Len(args) = 1)

(* What UnboundMethod::Invoke() tests before it runs the method. *)
Accepts(f, args) ==
    /\ args # <<>>
    /\ IsInstance(args[1], f[2])
    /\ f \in Variadic \/ Len(args) = 1

RunsNative(f) == Busy("invoke") /\ It.of = f /\ Accepts(f, It.args)
Runs == ran' = [method |-> It.of, type |-> Type(It.args[1])]

(* Mutant: the method has returned, so the call has succeeded. *)
ReturnAlways(v) == Answer(TRUE, v)

(* A native has returned; its call has succeeded if nothing is pending.    *)
ReturnNative(v) == Answer(pending = "none", IF pending = "none" THEN v ELSE Null)

Refuse == /\ Busy("invoke") /\ It.of[1] = "unbound" /\ ~Accepts(It.of, It.args)
          /\ ThrowError /\ UNCHANGED pure

(* Methods that call nothing; join(), of which that is not true, may throw *)
(* what the conversion of an element or of the separator throws.           *)
Leaves == {Unbound("Object", "__init__"), Unbound("Object", "__str__"), Unbound("Class", "__str__"),
           Unbound("List", "__init__"), Unbound("List", "size"), Unbound("Iterable", "join")}
RunLeaf ==
    /\ \E f \in Leaves : RunsNative(f)
    /\ Runs
    /\ \/ ReturnNative(Null) /\ UNCHANGED pending
       \/ It.of = Unbound("Iterable", "join") /\ ThrowError
    /\ UNCHANGED <<objects, idle>>

Made(c) == CASE objects[c].alloc = "any"   -> [class |-> c, type |-> "custom", attrs |-> <<>>]
             [] objects[c].alloc = "list"  -> [class |-> c, type |-> "list", attrs |-> <<>>]
             [] objects[c].alloc = "class" -> Cls("Object", objects["Object"].alloc, <<>>)

(* The objects are made in the order of NewObject. *)
IsNext(i) == /\ NewObject[i] \notin DOMAIN objects
             /\ \A j \in 1 .. i - 1 : NewObject[j] \in DOMAIN objects

class_alloc ==
    /\ RunsNative(Unbound("Class", "alloc"))
    /\ Runs
    /\ LET c == It.args[1][2] IN
       \/ objects[c].alloc = "nothing" /\ ThrowError /\ UNCHANGED objects
       \/ /\ objects[c].alloc # "nothing"
          /\ \E i \in DOMAIN NewObject :
               /\ IsNext(i)
               /\ objects' = With(objects, NewObject[i], Made(c))
               /\ ReturnNative(Obj(NewObject[i]))
          /\ UNCHANGED pending
    /\ UNCHANGED idle

(* Class#__call__(): the instance is what alloc() returns, whatever it is. *)
class_call ==
    /\ RunsNative(Unbound("Class", "__call__"))
    /\ Runs
    /\ Instead(CallMethod(It.args[1], "alloc", <<>>, NullHandle)
               \o <<[do |-> "init", args |-> Tail(It.args)]>>)
    /\ UNCHANGED <<objects, idle, answer, pending>>

Initialize ==
    /\ Busy("init")
    /\ \/ ~answer.ok /\ ReturnNative(Null)
       \/ /\ answer.ok /\ answer.value # NullHandle
          /\ Instead(CallMethod(answer.value, "__init__", It.args, NullHandle)
                     \o <<[do |-> "initialized", instance |-> answer.value]>>)
          /\ UNCHANGED answer
    /\ UNCHANGED <<pending, pure>>

Initialized ==
    /\ Busy("initialized")
    /\ ReturnNative(IF answer.ok THEN It.instance ELSE Null)
    /\ UNCHANGED <<pending, pure>>

func_call ==
    /\ RunsNative(Unbound("Function", "__call__"))
    /\ Runs
    /\ Instead(<<Invoke(It.args[1], Tail(It.args)), [do |-> "called"]>>)
    /\ UNCHANGED <<objects, idle, answer, pending>>

FunctionCalled ==
    /\ Busy("called")
    /\ ReturnNative(IF answer.ok THEN answer.value ELSE Null)
    /\ UNCHANGED <<pending, pure>>

-----------------------------------------------------------------------------
(* THE SCRIPT *)

(* An exception is caught before the script goes on. *)
Caught == pending' = IF answer.ok THEN pending ELSE "none"

Mine      == (Touched \cup Range(NewObject)) \cap DOMAIN objects
Receivers == {Obj(id) : id \in Mine \cup {"Class", "null"}} \cup {held}
ScriptOnly == /\ todo = <<>>
              /\ answer' = [ok |-> TRUE, value |-> Null]
              /\ Caught
              /\ ran' = NothingRan

Keep == /\ ScriptOnly
        /\ answer.ok /\ held' = answer.value
        /\ held' # held /\ held' # NullHandle
        /\ held'[1] = "curry" =>    \* bound of the model: bound methods of new objects
               held'[2][1] # "curry" /\ held'[3] \in {Obj(id) : id \in Range(NewObject)}
        /\ UNCHANGED <<objects, writes, todo>>

ReadAttribute ==
    /\ ScriptOnly
    /\ \E v \in Receivers, n \in ReadNames : todo' = <<Get(v, n)>>
    /\ UNCHANGED <<objects, idle>>

(* SetOwnAttribute() of an object or a class. *)
AssignAttribute ==
    /\ ScriptOnly
    /\ writes < MaxWrites /\ writes' = writes + 1
    /\ \E id \in Mine, n \in WrittenNames :
         objects' = [objects EXCEPT ![id].attrs = With(@, n, held)]
    /\ UNCHANGED <<held, todo>>

CallAttribute ==
    /\ ScriptOnly
    /\ \E v \in Receivers, n \in ReadNames, args \in {<<>>, <<held>>} :
         todo' = CallMethod(v, n, args, v)
    /\ UNCHANGED <<objects, idle>>

ObjectNext ==
    \/ FindAttribute \/ ApplyFunction \/ ApplyCall
    \/ InvokeScripted \/ InvokeCurried \/ InvokeAlias
    \/ Refuse \/ RunLeaf \/ class_alloc \/ class_call \/ Initialize \/ Initialized
    \/ func_call \/ FunctionCalled
    \/ Keep \/ ReadAttribute \/ AssignAttribute \/ CallAttribute

ObjectSpec == ObjectInit /\ [][ObjectNext]_objectVars

-----------------------------------------------------------------------------
(* PROPERTIES *)

(* Natives take the C++ type of their receiver for granted, as             *)
(* args[0].As<ListObject>() does.  Wherever a script puts a method, and    *)
(* however it gets called there, it runs on an object of that type.  (The  *)
(* classes Stream and File have no allocator of their own, so an instance  *)
(* that a script makes of them is a CustomObject: they are left out.)      *)
Takes == [m \in {Unbound("List", "size"), Unbound("List", "__init__"), Unbound("Class", "alloc"),
                 Unbound("Class", "__str__"), Unbound("Function", "__call__")} |->
             IF m[2] = "Class" THEN "Class" ELSE IF m[2] = "List" THEN "list" ELSE "function"]
ReceiverFits == ran.method \in DOMAIN Takes => ran.type = Takes[ran.method]

(* What a call returns agrees with the pending exception: a call that      *)
(* fails leaves one, and one that succeeds leaves none but the             *)
(* AttributeError of a lookup that __getattr__() has answered.             *)
OutcomeIsPending ==
    todo = <<>> => IF answer.ok THEN pending # "thrown" ELSE pending # "none"
=============================================================================
