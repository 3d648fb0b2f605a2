-------------------------- MODULE GarbageCollector --------------------------
(***************************************************************************)
(* The object heap of the interpreter: src/memory.h and src/memory.cc.     *)
(*                                                                         *)
(* Every object derives from CountedObject.  Its reference counter counts  *)
(* the Handle<T> smart pointers that point at it; pointers between objects *)
(* are raw and are followed only by the virtual member Mark().  Objects    *)
(* live in three generations.  operator new counts allocations and, when a *)
(* generation's counter reaches its threshold, marks from the objects of   *)
(* that generation whose counter is not zero, deletes the unmarked objects *)
(* of that generation and moves the others to the next one.                *)
(*                                                                         *)
(* A slot is a record of a Block (module BlockAllocator); which free       *)
(* record an allocation takes is left open here.  The memory of a deleted  *)
(* object stays mapped, so that a dangling pointer leads to a free record, *)
(* or to the object that has been placed there since.                      *)
(***************************************************************************)
EXTENDS Integers, FiniteSets

CONSTANTS Slot,        \* records an object can be placed in
          Handle,      \* variables and members of type Handle<T>
          Null,        \* the null pointer
          Threshold,   \* TEMPEARLY_GC_THRESHOLD0, used by all generations
          CountMax,    \* the largest unsigned int
          MaxCount,    \* bound of the model: references that are counted
          MaxMembers   \* bound of the model: raw member pointers of an object

ASSUME SlotAssumption      == IsFiniteSet(Slot) /\ Null \notin Slot
ASSUME HandleAssumption    == IsFiniteSet(Handle) /\ Null \notin Handle
ASSUME ThresholdAssumption == Threshold \in Nat \ {0}
ASSUME BoundAssumption     == /\ MaxCount \in Nat /\ MaxMembers \in Nat
                              /\ CountMax \in Nat \ {0} /\ MaxCount <= CountMax

VARIABLES generation,  \* generation[g]: the objects linked from gc_generation[g].head
          counter,     \* gc_generation[g].counter
          marked,      \* objects whose FLAG_MARKED is set
          count,       \* m_reference_count
          children,    \* what the raw members point at that Mark() follows
          blind,       \* what the raw members point at that Mark() passes over
          handle,      \* Handle::m_pointer
          owner,       \* the object a handle is a member of; Null: a local variable
          phase,       \* where in operator new the program is; "run": not in it
          level,       \* the loop index of operator new
          dest,        \* the handle the new object is assigned to; Null: none
          leaked,      \* history: references to an object that were lost
          torn         \* history: has an accessible object been deleted?

vars == <<generation, counter, marked, count, children, blind, handle, owner,
          phase, level, dest, leaked, torn>>
heapVars == <<generation, marked, children, blind, torn>>
newVars  == <<counter, phase, level, dest>>

Level == 0 .. 2

Pointer == Slot \cup {Null}

Allocated == UNION {generation[g] : g \in Level}

(* The handles that point at slot s. *)
HandlesTo(s) == {h \in Handle : handle[h] = s}

TypeOK ==
    /\ generation \in [Level -> SUBSET Slot]
    /\ counter \in [Level -> 0 .. Threshold]
    /\ marked \in SUBSET Slot
    /\ count \in [Slot -> 0 .. CountMax]
    /\ leaked \in [Slot -> Nat]
    /\ children \in [Slot -> SUBSET Slot]
    /\ blind \in [Slot -> SUBSET Slot]
    /\ torn \in BOOLEAN
    /\ handle \in [Handle -> Pointer]
    /\ owner \in [Handle -> Pointer]
    /\ phase \in {"run", "scan", "mark", "sweep", "place"}
    /\ level \in Level
    /\ dest \in Handle \cup {Null}

Init ==
    /\ generation = [g \in Level |-> {}]
    /\ counter = [g \in Level |-> 0]
    /\ marked = {}
    /\ count = [s \in Slot |-> 0]
    /\ leaked = [s \in Slot |-> 0]
    /\ children = [s \in Slot |-> {}]
    /\ blind = [s \in Slot |-> {}]
    /\ torn = FALSE
    /\ handle = [h \in Handle |-> Null]
    /\ owner = [h \in Handle |-> Null]
    /\ phase = "run"
    /\ level = 0
    /\ dest = Null

-----------------------------------------------------------------------------
(* A counter is an unsigned int, which wraps below zero. *)
Less(n, k) == (n - k) % (CountMax + 1)

(* Mutant: the new target is not counted. *)
RetargetUncounted(old, new) ==
    [s \in Slot |-> IF old # new /\ s = old THEN Less(count[s], 1) ELSE count[s]]

(* Handles.  Retarget gives the counters after handle h, which points at   *)
(* old, starts to point at new: nothing changes when the pointers are      *)
(* equal, otherwise the old target is decremented and the new incremented. *)
Retarget(old, new) ==
    [s \in Slot |-> IF old = new THEN count[s]
                    ELSE IF s = old THEN Less(count[s], 1)
                    ELSE IF s = new THEN count[s] + 1
                    ELSE count[s]]

CanCount(p) == p # Null => count[p] < MaxCount

(* A handle that is a member of an object is fixed until the object goes. *)
Local(h) == owner[h] = Null

(* Handle& operator=(const Handle&), and the copy constructor when h is null. *)
CopyAssign(h, g) ==
    /\ phase = "run"
    /\ Local(h)
    /\ handle[h] # handle[g]
    /\ CanCount(handle[g])
    /\ handle' = [handle EXCEPT ![h] = handle[g]]
    /\ count' = Retarget(handle[h], handle[g])
    /\ UNCHANGED <<heapVars, newVars, owner, leaked>>

(* The reference handle h holds is lost. *)
Lose(h) == leaked' = [s \in Slot |-> IF s = handle[h] THEN leaked[s] + 1 ELSE leaked[s]]

(* Handle& operator=(Handle&&): the old target is not decremented.  With h *)
(* null it is the move constructor.                                        *)
MoveAssign(h, g) ==
    /\ phase = "run"
    /\ h # g
    /\ Local(h) /\ Local(g)
    /\ handle' = [handle EXCEPT ![h] = handle[g], ![g] = Null]
    /\ Lose(h)
    /\ UNCHANGED <<heapVars, newVars, count, owner>>

(* ~Handle(), or operator=(U* pointer) with a null pointer. *)
Release(h) ==
    /\ phase = "run"
    /\ Local(h)
    /\ handle[h] # Null
    /\ handle' = [handle EXCEPT ![h] = Null]
    /\ count' = Retarget(handle[h], Null)
    /\ UNCHANGED <<heapVars, newVars, owner, leaked>>

(* A raw member pointer of the object behind g is read into a handle, as   *)
(* in Frame::GetPrevious(), wherever it leads: a counter in free memory is *)
(* incremented like any other.                                             *)
LoadMember(h, g) ==
    /\ phase = "run"
    /\ Local(h)
    /\ handle[g] # Null
    /\ \E s \in children[handle[g]] \cup blind[handle[g]] :
          /\ handle[h] # s
          /\ CanCount(s)
          /\ handle' = [handle EXCEPT ![h] = s]
          /\ count' = Retarget(handle[h], s)
    /\ UNCHANGED <<heapVars, newVars, owner, leaked>>

HasRoom(s) == Cardinality(children[s]) + Cardinality(blind[s]) < MaxMembers

(* A raw member pointer of the object behind g is set to the object behind *)
(* h, as in Frame::SetLocalVariable() or ListObject::Append(): one that    *)
(* Mark() follows,                                                         *)
StoreMember(g, h) ==
    /\ phase = "run"
    /\ handle[g] # Null /\ handle[h] # Null
    /\ HasRoom(handle[g])
    /\ handle[h] \notin children[handle[g]]
    /\ children' = [children EXCEPT ![handle[g]] = @ \cup {handle[h]}]
    /\ UNCHANGED <<generation, marked, blind, torn, newVars, count, handle, owner, leaked>>

(* or one that it passes over: class and attributes of a List, Map, Set,   *)
(* Range, Iterator, Function or Exception, else and finally of a TryNode.  *)
StoreBlindMember(g, h) ==
    /\ phase = "run"
    /\ handle[g] # Null /\ handle[h] # Null
    /\ HasRoom(handle[g])
    /\ handle[h] \notin blind[handle[g]]
    /\ blind' = [blind EXCEPT ![handle[g]] = @ \cup {handle[h]}]
    /\ UNCHANGED <<generation, marked, children, torn, newVars, count, handle, owner, leaked>>

(* A raw member pointer is overwritten. *)
EraseMember(g) ==
    /\ phase = "run"
    /\ handle[g] # Null
    /\ \/ /\ \E s \in children[handle[g]] :
                children' = [children EXCEPT ![handle[g]] = @ \ {s}]
          /\ UNCHANGED blind
       \/ /\ \E s \in blind[handle[g]] :
                blind' = [blind EXCEPT ![handle[g]] = @ \ {s}]
          /\ UNCHANGED children
    /\ UNCHANGED <<generation, marked, torn, newVars, count, handle, owner, leaked>>

(* A handle is a member of the object behind g, as Interpreter::cObject    *)
(* and ScriptMapping::script are: it lives until that object is deleted.   *)
AdoptHandle(h, g) ==
    /\ phase = "run"
    /\ h # g
    /\ Local(h) /\ Local(g)
    /\ handle[h] # Null /\ handle[g] # Null
    /\ owner' = [owner EXCEPT ![h] = handle[g]]
    /\ UNCHANGED <<heapVars, newVars, count, handle, leaked>>

-----------------------------------------------------------------------------
(* CountedObject::operator new, one step per phase. *)

(* `h = new X', with h a null local handle. *)
New(h) ==
    /\ phase = "run"
    /\ Local(h)
    /\ handle[h] = Null
    /\ phase' = "scan"
    /\ dest' = h
    /\ UNCHANGED <<heapVars, counter, level, count, handle, owner, leaked>>

(* An object no handle keeps: a temporary that is dropped at once. *)
NewTemporary ==
    /\ phase = "run"
    /\ phase' = "scan"
    /\ dest' = Null
    /\ UNCHANGED <<heapVars, counter, level, count, handle, owner, leaked>>

(* Mutant: the loop leaves out the oldest generation. *)
ExamineYoung ==
    /\ phase = "scan"
    /\ IF level = 2 \/ counter[level] + 1 < Threshold
       THEN /\ counter' = [counter EXCEPT ![level] = IF level = 2 THEN @ ELSE @ + 1]
            /\ phase' = "place"
       ELSE /\ counter' = [counter EXCEPT ![level] = 0]
            /\ phase' = "mark"
    /\ UNCHANGED <<heapVars, count, handle, owner, level, dest, leaked>>

(* The head of the loop: count the examination and stop below the threshold. *)
Examine ==
    /\ phase = "scan"
    /\ IF counter[level] + 1 < Threshold
       THEN /\ counter' = [counter EXCEPT ![level] = @ + 1]
            /\ phase' = "place"
       ELSE /\ counter' = [counter EXCEPT ![level] = 0]
            /\ phase' = "mark"
    /\ UNCHANGED <<heapVars, count, handle, owner, level, dest, leaked>>

(* Mutants: a single reference is taken for none; the counter is not read. *)
RootsShared == {s \in generation[level] : s \notin marked /\ count[s] > 1}
RootsUncounted == {s \in generation[level] : s \notin marked}

(* The objects gc_mark calls Mark() on. *)
Roots == {s \in generation[level] : s \notin marked /\ count[s] > 0}

(* The objects Mark() of object s calls Mark() on, behind raw pointers and *)
(* handles alike.  What is left of a deleted object is a CountedObject,    *)
(* which has no members; Place lets a constructor write others.            *)
Followed(s) ==
    children[s] \cup {t \in Slot : \E h \in Handle : owner[h] = s /\ handle[h] = t}

(* All members of an object.                                               *)
Members(s) == Followed(s) \cup blind[s]

(* The objects a program can still get at: those handles keep, and, from   *)
(* these, whatever members lead to.                                        *)
Closed(S) == \A s \in S : Members(s) \subseteq S
Rooted == {s \in Allocated : count[s] > 0}
Reachable == {s \in Slot : \A S \in SUBSET Slot :
                              Rooted \subseteq S /\ Closed(S) => s \in S}

(* Mutant: Mark() of a member does not go on to the members of that. *)
MarkClosedShallow(S) == \A s \in Roots : Followed(s) \subseteq S \cup marked

(* A set closed under what Mark() does: an object that gets the flag goes  *)
(* on to its members; one that already had it is not entered.              *)
MarkClosed(S) == \A s \in S \ marked : Followed(s) \subseteq S \cup marked

NewlyMarked == {s \in Slot : \A S \in SUBSET Slot :
                                 Roots \subseteq S /\ MarkClosed(S) => s \in S}

gc_mark ==
    /\ phase = "mark"
    /\ marked' = marked \cup NewlyMarked
    /\ phase' = "sweep"
    /\ UNCHANGED <<generation, children, blind, torn, counter, count, handle, owner, level, dest,
                   leaked>>

(* The objects gc_sweep deletes, and the handles their destructors destroy. *)
Dead == generation[level] \ marked
DeadHandles == {h \in Handle : owner[h] \in Dead}

(* Mutant: handles that die with their objects decrement nothing. *)
ReleasedNever(s) == count[s]

(* The counter of s after these destructors. *)
Released(s) == Less(count[s], Cardinality(DeadHandles \cap HandlesTo(s)))

gc_sweep ==
    /\ phase = "sweep"
    /\ generation' =
          [g \in Level |->
              IF g = level /\ level < 2 THEN {}
              ELSE IF g = level THEN generation[level] \cap marked
              ELSE IF g = level + 1
                   THEN generation[g] \cup (generation[level] \cap marked)
              ELSE generation[g]]
    /\ marked' = marked \ generation[level]
    /\ children' = [s \in Slot |-> IF s \in Dead THEN {} ELSE children[s]]
    /\ blind' = [s \in Slot |-> IF s \in Dead THEN {} ELSE blind[s]]
    /\ handle' = [h \in Handle |-> IF h \in DeadHandles THEN Null ELSE handle[h]]
    /\ owner' = [h \in Handle |-> IF h \in DeadHandles THEN Null ELSE owner[h]]
    /\ count' = [s \in Slot |-> Released(s)]
    /\ torn' = (torn \/ Dead \cap Reachable # {})
    /\ IF level < 2
       THEN level' = level + 1 /\ phase' = "scan"
       ELSE level' = level /\ phase' = "place"
    /\ UNCHANGED <<counter, dest, leaked>>

(* A free record is taken and pushed on generation 0, CountedObject() clears *)
(* flags and counter, and the destination handle is constructed from it.   *)
(* What a dangling pointer had written to the record is overwritten.       *)
Place ==
    /\ phase = "place"
    /\ \E s \in Slot \ Allocated :
          /\ generation' = [generation EXCEPT ![0] = @ \cup {s}]
          /\ marked' = marked \ {s}
          /\ children' = [children EXCEPT ![s] = {}]
          /\ blind' = [blind EXCEPT ![s] = {}]
          /\ leaked' = [leaked EXCEPT ![s] = 0]
          /\ count' = [count EXCEPT ![s] = IF dest = Null THEN 0 ELSE 1]
          /\ handle' = [h \in Handle |-> IF h = dest THEN s
                                         ELSE IF owner[h] = s THEN Null
                                         ELSE handle[h]]
          /\ owner' = [h \in Handle |-> IF owner[h] = s THEN Null ELSE owner[h]]
    /\ phase' = "run" /\ level' = 0 /\ dest' = Null
    /\ UNCHANGED <<counter, torn>>

(* No record and no further Block: std::bad_alloc leaves operator new. *)
BadAlloc ==
    /\ phase = "place"
    /\ Slot \ Allocated = {}
    /\ phase' = "run" /\ level' = 0 /\ dest' = Null
    /\ UNCHANGED <<heapVars, counter, count, handle, owner, leaked>>

OperatorNew == Examine \/ gc_mark \/ gc_sweep \/ Place \/ BadAlloc

Next ==
    \/ \E h, g \in Handle : \/ CopyAssign(h, g)
                            \/ MoveAssign(h, g)
                            \/ LoadMember(h, g)
                            \/ StoreMember(h, g)
                            \/ StoreBlindMember(h, g)
                            \/ AdoptHandle(h, g)
    \/ \E h \in Handle : Release(h) \/ EraseMember(h) \/ New(h)
    \/ NewTemporary
    \/ OperatorNew

Spec == Init /\ [][Next]_vars

(* operator new returns, and the interpreter goes on allocating: every node *)
(* it evaluates creates temporaries.                                       *)
FairSpec == Spec /\ WF_vars(OperatorNew) /\ WF_vars(NewTemporary)

-----------------------------------------------------------------------------
(* PROPERTIES                                                              *)

(* A handle never dangles: the object it points at has not been deleted    *)
(* (every use of Handle::operator-> relies on it).                         *)
HandleTargetsLive == \A h \in Handle : handle[h] # Null => handle[h] \in Allocated

(* The counter of an object is the number of handles that point at it,     *)
(* and of those a move assignment has overwritten: nothing else, copies,   *)
(* constructors and the destructors of swept objects among it, loses or    *)
(* gains a reference.                                                      *)
CountsAreExact ==
    \A s \in Slot : count[s] = Cardinality(HandlesTo(s)) + leaked[s]

(* What members of accessible objects point at has not been deleted, and   *)
(* no other object has taken its place.                                    *)
AccessibleIsLive == Reachable \subseteq Allocated

(* What is outside the generations has been deleted: it has no members.    *)
FreeIsBare ==
    \A s \in Slot \ Allocated :
        /\ children[s] = {} /\ blind[s] = {}
        /\ \A h \in Handle : owner[h] # s

(* A record is linked from one generation only; a record on two lists      *)
(* would be deleted twice by gc_sweep.                                     *)
GenerationsDisjoint ==
    \A f, g \in Level : f # g => generation[f] \cap generation[g] = {}

(* When gc_sweep runs, every object of the generation with a non-zero      *)
(* counter has its mark, those whose mark an earlier collection left too.  *)
RootsMarked ==
    phase = "sweep" => \A s \in generation[level] : count[s] > 0 => s \in marked

(* The handle a new object is meant for stays null while operator new runs *)
(* destructors.                                                            *)
DestNull == phase # "run" /\ dest # Null => handle[dest] = Null /\ owner[dest] = Null

(* All that, and what is Safe until a sweep deletes an accessible object: *)
(* after that an accessible member dangles, and so does a handle it is     *)
(* read into.  No other operation of the mutator or of the collector, and  *)
(* no reuse of a record, makes a handle or an accessible member dangle.    *)
Safe == HandleTargetsLive /\ CountsAreExact /\ AccessibleIsLive /\ FreeIsBare
IInv == /\ TypeOK
        /\ GenerationsDisjoint
        /\ RootsMarked
        /\ DestNull
        /\ ~torn => Safe

(* The members of s that a collection of this generation does not follow   *)
(* if it has entered the given objects: those Mark() passes over, and all  *)
(* of an object that another generation or an earlier mark kept it from.   *)
Unfollowed(s, entered) ==
    IF s \in entered \/ s \in generation[level] \ marked THEN blind[s] ELSE Members(s)

(* What accessible objects lead to by way of such members.                 *)
Overlooked(entered) ==
    {s \in Slot : \A S \in SUBSET Slot :
         Closed(S) /\ (\A r \in Reachable : Unfollowed(r, entered) \subseteq S) => s \in S}

(* Whatever marks are left over and whichever members Mark() passes over,  *)
(* gc_mark misses an accessible object of its generation, which gc_sweep   *)
(* deletes then, only behind a member that it does not follow: chains and  *)
(* cycles of other members, of any generation, are followed to their end.  *)
LossesAreExplained ==
    [][phase = "mark" =>
          Reachable \cap generation[level] \subseteq marked' \cup Overlooked(marked' \ marked)]_vars

(* And it is precise: it marks no object that nothing keeps.  Garbage with *)
(* a mark has it from an earlier collection, when it was accessible.       *)
OnlyAccessibleIsMarked ==
    [][phase = "mark" => marked' \ marked \subseteq Reachable]_vars

(* An object with a non-zero counter is never deleted, whatever generation *)
(* is collected and whatever the destructors that run meanwhile decrement. *)
CountedNeverDeleted ==
    [][\A s \in Allocated : count[s] > 0 => s \in Allocated']_vars

(* An object that nothing reaches any more is deleted in the end, even     *)
(* when it is in the oldest generation, refers to itself or carries a mark *)
(* an earlier collection of a younger generation left; unless an           *)
(* accessible object is deleted before, whose pointers may count it again. *)
GarbageIsCollected ==
    \A s \in Slot : s \in Allocated \ Reachable ~> s \notin Allocated \/ torn

(* The collector implements the promise the rest of the interpreter uses.  *)
Promise == INSTANCE HandleHeap WITH live <- Allocated, handle <- handle, broken <- torn
ImplementsHandleHeap == Promise!Spec

=============================================================================
