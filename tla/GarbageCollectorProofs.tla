----------------------- MODULE GarbageCollectorProofs -----------------------
(***************************************************************************)
(* The inductive invariant of the object heap and what follows from it,    *)
(* for any number of slots, handles and allocations.                       *)
(*                                                                         *)
(* A step keeps the heap safe because it makes nothing accessible that was *)
(* not: what it roots was accessible before, and so are the members it     *)
(* gives to accessible objects (AccessWithin).  Sweeps that take something *)
(* accessible away end the claim, by the history variable torn.            *)
(***************************************************************************)
EXTENDS GarbageCollector, FiniteSetTheorems, TLAPS

USE DEF Level, Pointer

-----------------------------------------------------------------------------
(* Counting handles.                                                       *)

(* A counter that is at least what is taken off does not wrap.             *)
LEMMA LessIs ==
    ASSUME NEW n \in 0 .. CountMax, NEW k \in Nat
    PROVE  /\ Less(n, k) \in 0 .. CountMax
           /\ k <= n => Less(n, k) = n - k
<1> DEFINE m == CountMax + 1
<1>1. m \in Nat \ {0} /\ n - k \in Int
  BY BoundAssumption
<1>2. (n - k) % m \in 0 .. m - 1
  BY <1>1
<1>3. k <= n => (n - k) % m = n - k
  BY <1>1, BoundAssumption
<1>. QED  BY <1>2, <1>3, BoundAssumption DEF Less

(* The handles that point at an object form a finite set.                  *)
LEMMA HandlesToFinite ==
    ASSUME NEW s
    PROVE  /\ IsFiniteSet(HandlesTo(s))
           /\ Cardinality(HandlesTo(s)) \in Nat
<1>1. HandlesTo(s) \in SUBSET Handle  BY DEF HandlesTo
<1>2. IsFiniteSet(HandlesTo(s))  BY <1>1, HandleAssumption, FS_Subset
<1>. QED  BY <1>2, FS_CardinalityType

(* A handle that points at an object makes its counter positive.           *)
LEMMA TargetIsCounted ==
    ASSUME TypeOK, CountsAreExact, NEW h \in Handle, NEW s \in Slot, handle[h] = s
    PROVE  count[s] > 0
<1>1. h \in HandlesTo(s)  BY DEF HandlesTo
<1>2. Cardinality(HandlesTo(s)) # 0  BY <1>1, HandlesToFinite, FS_EmptySet
<1>3. count[s] = Cardinality(HandlesTo(s)) + leaked[s]  BY DEF CountsAreExact
<1>4. count[s] \in Nat /\ leaked[s] \in Nat  BY BoundAssumption DEF TypeOK
<1>. QED  BY <1>2, <1>3, <1>4, HandlesToFinite

(* A counter stays an unsigned int, whatever the handle pointed at.        *)
LEMMA RetargetType ==
    ASSUME TypeOK, NEW h \in Handle, NEW p \in Pointer, CanCount(p)
    PROVE  /\ [handle EXCEPT ![h] = p] \in [Handle -> Pointer]
           /\ Retarget(handle[h], p) \in [Slot -> 0 .. CountMax]
<1>1. \A s \in Slot : count[s] \in 0 .. CountMax /\ Less(count[s], 1) \in 0 .. CountMax
  BY LessIs DEF TypeOK
<1>2. \A s \in Slot : s = p => count[s] + 1 \in 0 .. CountMax
  BY <1>1, BoundAssumption, SlotAssumption DEF CanCount
<1>. QED  BY <1>1, <1>2 DEF TypeOK, Retarget

(* Assigning one handle through operator= moves one reference.             *)
LEMMA RetargetExact ==
    ASSUME TypeOK, CountsAreExact, NEW h \in Handle, NEW p \in Pointer,
           handle[h] # p, UNCHANGED leaked,
           handle' = [handle EXCEPT ![h] = p],
           count' = Retarget(handle[h], p)
    PROVE  CountsAreExact'
<1>2. ASSUME NEW s \in Slot
      PROVE  count'[s] = Cardinality(HandlesTo(s)') + leaked[s]
  <2>0. /\ count[s] \in 0 .. CountMax /\ count[s] \in Nat /\ leaked[s] \in Nat
        /\ count[s] = Cardinality(HandlesTo(s)) + leaked[s]
        /\ IsFiniteSet(HandlesTo(s))
        /\ Cardinality(HandlesTo(s)) \in Nat
    BY HandlesToFinite, BoundAssumption DEF TypeOK, CountsAreExact
  <2>1. CASE s = handle[h]
    <3>1. count'[s] = Less(count[s], 1)  BY <2>1 DEF Retarget
    <3>2. HandlesTo(s)' = HandlesTo(s) \ {h}  BY <2>1 DEF HandlesTo, TypeOK
    <3>3. h \in HandlesTo(s)  BY <2>1 DEF HandlesTo
    <3>4. Cardinality(HandlesTo(s) \ {h}) = Cardinality(HandlesTo(s)) - 1
      BY <2>0, <3>3, FS_RemoveElement
    <3>5. count[s] > 0  BY <2>1, TargetIsCounted
    <3>6. Less(count[s], 1) = count[s] - 1  BY <2>0, <3>5, LessIs
    <3>. QED  BY <2>0, <3>1, <3>2, <3>4, <3>6
  <2>2. CASE s = p
    <3>1. count'[s] = count[s] + 1  BY <2>2 DEF Retarget
    <3>2. HandlesTo(s)' = HandlesTo(s) \cup {h}  BY <2>2 DEF HandlesTo, TypeOK
    <3>3. h \notin HandlesTo(s)  BY <2>2 DEF HandlesTo
    <3>4. Cardinality(HandlesTo(s) \cup {h}) = Cardinality(HandlesTo(s)) + 1
      BY <2>0, <3>3, FS_AddElement
    <3>. QED  BY <2>0, <3>1, <3>2, <3>4
  <2>3. CASE s # p /\ s # handle[h]
    <3>1. count'[s] = count[s]  BY <2>3 DEF Retarget
    <3>2. HandlesTo(s)' = HandlesTo(s)  BY <2>3 DEF HandlesTo, TypeOK
    <3>. QED  BY <2>0, <3>1, <3>2
  <2>. QED  BY <2>1, <2>2, <2>3
<1>. QED  BY <1>2 DEF CountsAreExact

(* Move assignment loses the reference to what it overwrites and no other. *)
LEMMA MoveExact ==
    ASSUME TypeOK, CountsAreExact, NEW h \in Handle, NEW g \in Handle, h # g,
           handle' = [handle EXCEPT ![h] = handle[g], ![g] = Null],
           Lose(h), UNCHANGED count
    PROVE  CountsAreExact'
<1>2. ASSUME NEW s \in Slot
      PROVE  count[s] = Cardinality(HandlesTo(s)') + leaked'[s]
  <2>0. /\ count[s] \in Nat /\ leaked[s] \in Nat
        /\ count[s] = Cardinality(HandlesTo(s)) + leaked[s]
        /\ IsFiniteSet(HandlesTo(s))
        /\ Cardinality(HandlesTo(s)) \in Nat
    BY HandlesToFinite, BoundAssumption DEF TypeOK, CountsAreExact
  <2>4. leaked'[s] = IF s = handle[h] THEN leaked[s] + 1 ELSE leaked[s]
    BY DEF Lose
  <2> DEFINE H == HandlesTo(s)
  <2>1. H' = IF s = handle[g] THEN (H \ {g}) \cup {h} ELSE H \ {h}
    BY SlotAssumption DEF HandlesTo, TypeOK
  <2>2. CASE s = handle[g]
    <3>1. g \in H /\ (h \in H <=> s = handle[h])  BY <2>2 DEF HandlesTo
    <3>2. /\ IsFiniteSet(H \ {g})
          /\ Cardinality(H \ {g}) = Cardinality(H) - 1
      BY <2>0, <3>1, FS_RemoveElement
    <3>3. Cardinality((H \ {g}) \cup {h}) =
             IF h \in H \ {g} THEN Cardinality(H \ {g}) ELSE Cardinality(H \ {g}) + 1
      BY <3>2, FS_AddElement
    <3>. QED  BY <2>0, <2>1, <2>2, <2>4, <3>1, <3>2, <3>3
  <2>3. CASE s # handle[g]
    <3>1. h \in H <=> s = handle[h]  BY DEF HandlesTo
    <3>2. CASE s = handle[h]
      <4>1. Cardinality(H \ {h}) = Cardinality(H) - 1
        BY <2>0, <3>1, <3>2, FS_RemoveElement
      <4>. QED  BY <2>0, <2>1, <2>3, <2>4, <3>2, <4>1
    <3>3. CASE s # handle[h]
      <4>1. H \ {h} = H  BY <3>1, <3>3
      <4>. QED  BY <2>0, <2>1, <2>3, <2>4, <3>3, <4>1
    <3>. QED  BY <3>2, <3>3
  <2>. QED  BY <2>2, <2>3
<1>. QED  BY <1>2 DEF CountsAreExact

(* The counters after the destructors of a sweep.                          *)
LEMMA ReleasedIs ==
    ASSUME TypeOK, NEW s \in Slot
    PROVE  /\ Released(s) \in 0 .. CountMax
           /\ CountsAreExact => /\ Released(s) <= count[s]
                                /\ Released(s) =
                                      Cardinality(HandlesTo(s) \ DeadHandles) + leaked[s]
<1>1. DeadHandles \cap HandlesTo(s) = HandlesTo(s) \cap DeadHandles
  OBVIOUS
<1>2. /\ IsFiniteSet(HandlesTo(s)) /\ Cardinality(HandlesTo(s)) \in Nat
      /\ count[s] \in 0 .. CountMax /\ count[s] \in Nat /\ leaked[s] \in Nat
  BY HandlesToFinite, BoundAssumption DEF TypeOK
<1>3. /\ IsFiniteSet(HandlesTo(s) \cap DeadHandles)
      /\ Cardinality(HandlesTo(s) \cap DeadHandles) <= Cardinality(HandlesTo(s))
  BY <1>2, FS_Intersection
<1>4. Cardinality(HandlesTo(s) \cap DeadHandles) \in Nat
  BY <1>3, FS_CardinalityType
<1>5. Cardinality(HandlesTo(s) \ DeadHandles) =
         Cardinality(HandlesTo(s)) - Cardinality(HandlesTo(s) \cap DeadHandles)
  BY <1>2, FS_Difference
<1>6. Released(s) \in 0 .. CountMax
  BY <1>1, <1>2, <1>4, LessIs DEF Released
<1>7. ASSUME CountsAreExact
      PROVE  Released(s) = count[s] - Cardinality(HandlesTo(s) \cap DeadHandles)
  <2>1. count[s] = Cardinality(HandlesTo(s)) + leaked[s]  BY <1>7 DEF CountsAreExact
  <2>2. Cardinality(HandlesTo(s) \cap DeadHandles) <= count[s]
    BY <1>2, <1>3, <1>4, <2>1
  <2>. QED  BY <1>1, <1>2, <1>4, <2>2, LessIs DEF Released
<1>8. CountsAreExact => count[s] = Cardinality(HandlesTo(s)) + leaked[s]
  BY DEF CountsAreExact
<1>. QED  BY <1>2, <1>4, <1>5, <1>6, <1>7, <1>8

-----------------------------------------------------------------------------
(* What is accessible.                                                     *)

(* The accessible objects are the rooted ones and what their members lead  *)
(* to.                                                                     *)
LEMMA AccessIs ==
    ASSUME TypeOK
    PROVE  /\ Rooted \subseteq Reachable /\ Reachable \subseteq Slot
           /\ \A s \in Slot : Members(s) \subseteq Slot
           /\ \A s \in Reachable : Members(s) \subseteq Reachable
<1>1. Rooted \subseteq Slot  BY DEF Rooted, Allocated, TypeOK
<1>2. \A s \in Slot : Members(s) \subseteq Slot
  BY DEF Members, Followed, TypeOK
<1>3. Rooted \subseteq Reachable /\ Reachable \subseteq Slot
  BY <1>1 DEF Reachable
<1>4. ASSUME NEW s \in Reachable, NEW t \in Members(s)  PROVE t \in Reachable
  <2>1. t \in Slot  BY <1>2, <1>3, <1>4
  <2>2. ASSUME NEW S \in SUBSET Slot, Rooted \subseteq S, Closed(S)  PROVE t \in S
    <3>1. s \in S  BY <1>4, <2>2 DEF Reachable
    <3>. QED  BY <1>4, <2>2, <3>1 DEF Closed
  <2>. QED  BY <2>1, <2>2 DEF Reachable
<1>. QED  BY <1>2, <1>3, <1>4

(* They lie in every set that has the roots and all members of its own.    *)
LEMMA AccessWithin ==
    ASSUME NEW S \in SUBSET Slot, Rooted \subseteq S, \A s \in S : Members(s) \subseteq S
    PROVE  Reachable \subseteq S
BY DEF Reachable, Closed

(* The same after a step.                                                  *)
LEMMA AccessWithinNext ==
    ASSUME NEW CONSTANT S \in SUBSET Slot, Rooted' \subseteq S, \A s \in S : Members(s)' \subseteq S
    PROVE  Reachable' \subseteq S
<1>1. (\A s \in S : Members(s) \subseteq S)'
  OBVIOUS
<1>. QED  BY <1>1 DEF Reachable, Closed

(* A step that roots accessible objects only, and gives accessible objects *)
(* members that were accessible, makes nothing else accessible.            *)
LEMMA AccessShrinks ==
    ASSUME TypeOK, Rooted' \subseteq Reachable,
           \A s \in Reachable : Members(s)' \subseteq Reachable
    PROVE  Reachable' \subseteq Reachable
<1>1. PICK R \in SUBSET Slot : R = Reachable  BY AccessIs
<1>2. Rooted' \subseteq R /\ \A s \in R : Members(s)' \subseteq R  BY <1>1
<1>3. Reachable' \subseteq R  BY <1>2, AccessWithinNext
<1>. QED  BY <1>1, <1>3

(* What a handle points at is accessible.                                  *)
LEMMA TargetIsAccessible ==
    ASSUME TypeOK, Safe, NEW h \in Handle, handle[h] # Null
    PROVE  handle[h] \in Slot /\ handle[h] \in Allocated /\ handle[h] \in Reachable
<1>1. handle[h] \in Slot /\ handle[h] \in Allocated
  BY DEF TypeOK, Safe, HandleTargetsLive
<1>2. count[handle[h]] > 0  BY <1>1, TargetIsCounted DEF Safe
<1>3. handle[h] \in Rooted  BY <1>1, <1>2 DEF Rooted
<1>. QED  BY <1>1, <1>3, AccessIs

-----------------------------------------------------------------------------
(* The collector.                                                          *)

(* gc_mark marks every object of the generation whose counter is not zero. *)
LEMMA RootsAreMarked ==
    ASSUME gc_mark, NEW s \in generation[level], s \in Slot, count[s] > 0
    PROVE  s \in marked'
<1>1. CASE s \in marked  BY <1>1 DEF gc_mark
<1>2. CASE s \notin marked
  <2>1. s \in Roots  BY <1>2 DEF Roots
  <2>2. s \in NewlyMarked  BY <2>1 DEF NewlyMarked
  <2>. QED  BY <2>2 DEF gc_mark
<1>. QED  BY <1>1, <1>2

(* A sweep takes exactly the dead objects out of the heap.                 *)
LEMMA SweepAllocated ==
    ASSUME TypeOK, GenerationsDisjoint, gc_sweep
    PROVE  Allocated' = Allocated \ Dead
<1>1. level \in Level /\ generation \in [Level -> SUBSET Slot]  BY DEF TypeOK
<1>2. Dead \subseteq generation[level]  BY DEF Dead
<1>3. ASSUME NEW s \in Allocated'  PROVE  s \in Allocated \ Dead
  <2>1. PICK g \in Level : s \in generation'[g]  BY DEF Allocated
  <2>2. CASE s \in generation[g] /\ g # level
    BY <1>1, <2>2 DEF Allocated, GenerationsDisjoint, Dead
  <2>3. CASE s \in generation[level] /\ s \in marked
    BY <1>1, <2>3 DEF Allocated, Dead
  <2>4. \/ s \in generation[g] /\ g # level
        \/ s \in generation[level] /\ s \in marked
    BY <1>1, <2>1 DEF gc_sweep
  <2>. QED  BY <2>2, <2>3, <2>4
<1>4. ASSUME NEW s \in Allocated \ Dead  PROVE  s \in Allocated'
  <2>1. PICK g \in Level : s \in generation[g]  BY DEF Allocated
  <2>2. CASE g # level
    <3>1. s \in generation'[g]  BY <1>1, <2>1, <2>2 DEF gc_sweep
    <3>. QED  BY <3>1 DEF Allocated
  <2>3. CASE g = level /\ level < 2
    <3>1. s \in generation'[level + 1]  BY <1>1, <2>1, <2>3 DEF gc_sweep, Dead
    <3>2. level + 1 \in Level  BY <1>1, <2>3
    <3>. QED  BY <3>1, <3>2 DEF Allocated
  <2>4. CASE g = level /\ ~(level < 2)
    <3>1. s \in generation'[level]  BY <1>1, <2>1, <2>4 DEF gc_sweep, Dead
    <3>. QED  BY <1>1, <3>1 DEF Allocated
  <2>. QED  BY <2>2, <2>3, <2>4
<1>. QED  BY <1>3, <1>4

(* Allocation adds one object and changes no other membership.             *)
LEMMA PlaceAllocated ==
    ASSUME TypeOK, NEW s \in Slot, generation' = [generation EXCEPT ![0] = @ \cup {s}]
    PROVE  Allocated' = Allocated \cup {s}
BY DEF TypeOK, Allocated

-----------------------------------------------------------------------------
(* The inductive invariant, one lemma per group of actions. *)

(* The invariant holds of an empty heap.                                   *)
LEMMA InitIInv == Init => IInv
<1>. SUFFICES ASSUME Init  PROVE IInv  OBVIOUS
<1>1. TypeOK
  <2>1. 0 \in 0 .. CountMax /\ 0 \in 0 .. Threshold
    BY ThresholdAssumption, BoundAssumption
  <2>2. count \in [Slot -> 0 .. CountMax] /\ leaked \in [Slot -> Nat]
    BY <2>1 DEF Init
  <2>3. counter \in [Level -> 0 .. Threshold]  BY <2>1 DEF Init
  <2>4. generation \in [Level -> SUBSET Slot]  BY DEF Init
  <2>5. /\ children \in [Slot -> SUBSET Slot] /\ blind \in [Slot -> SUBSET Slot]
        /\ handle \in [Handle -> Pointer] /\ owner \in [Handle -> Pointer]
    BY DEF Init
  <2>6. marked \in SUBSET Slot /\ level \in Level /\ dest \in Handle \cup {Null}
    BY DEF Init
  <2>7. torn \in BOOLEAN /\ phase = "run"  BY DEF Init
  <2>. QED
    BY <2>2, <2>3, <2>4, <2>5, <2>6, <2>7 DEF TypeOK
<1>2. \A s \in Slot : HandlesTo(s) = {}  BY SlotAssumption DEF Init, HandlesTo
<1>3. CountsAreExact  BY <1>2, FS_EmptySet DEF Init, CountsAreExact
<1>4. Allocated = {}  BY DEF Init, Allocated
<1>5. Reachable = {}
  <2>1. Rooted = {}  BY <1>4 DEF Rooted
  <2>. QED  BY <2>1, AccessWithin
<1>6. HandleTargetsLive /\ FreeIsBare
  BY SlotAssumption DEF Init, HandleTargetsLive, FreeIsBare
<1>7. Safe  BY <1>3, <1>5, <1>6 DEF Safe, AccessibleIsLive
<1>. QED
  BY <1>1, <1>7 DEF Init, IInv, GenerationsDisjoint, RootsMarked, DestNull

(* A step of the mutator.                                                  *)
LEMMA RunStep ==
    ASSUME IInv, phase = "run", UNCHANGED <<generation, marked, torn, newVars>>,
           TypeOK', ~torn => Safe'
    PROVE  IInv'
BY DEF IInv, GenerationsDisjoint, RootsMarked, DestNull, newVars

(* A step that changes neither objects nor handles.                        *)
LEMMA SameSafe ==
    ASSUME TypeOK, Safe,
           UNCHANGED <<generation, children, blind, count, handle, owner, leaked>>
    PROVE  Safe'
<1>1. Allocated' = Allocated  BY DEF Allocated
<1>2. \A s \in Slot : HandlesTo(s)' = HandlesTo(s)  BY DEF HandlesTo
<1>3. CountsAreExact'  BY <1>2 DEF Safe, CountsAreExact
<1>4. Rooted' = Rooted  BY <1>1 DEF Rooted
<1>5. \A s \in Slot : Members(s)' = Members(s)  BY DEF Members, Followed
<1>6. Reachable' \subseteq Reachable  BY <1>4, <1>5, AccessIs, AccessShrinks
<1>. QED
  BY <1>1, <1>3, <1>6 DEF Safe, HandleTargetsLive, AccessibleIsLive, FreeIsBare

(* Assigning a local handle to null or to an accessible object.            *)
LEMMA AssignSafe ==
    ASSUME TypeOK, Safe, NEW h \in Handle, NEW p \in Pointer, Local(h),
           p # Null => p \in Reachable,
           handle[h] # p,
           handle' = [handle EXCEPT ![h] = p],
           count' = Retarget(handle[h], p),
           UNCHANGED <<generation, children, blind, owner, leaked>>
    PROVE  Safe'
<1>1. Allocated' = Allocated  BY DEF Allocated
<1>2. CountsAreExact'  BY RetargetExact DEF Safe
<1>3. p # Null => p \in Allocated  BY DEF Safe, AccessibleIsLive
<1>4. Rooted' \subseteq Reachable
  <2>1. SUFFICES ASSUME NEW s \in Allocated, count'[s] > 0  PROVE s \in Reachable
    BY <1>1 DEF Rooted
  <2>2. s \in Slot  BY DEF Allocated, TypeOK
  <2>3. CASE s = p  BY <2>2, <2>3, SlotAssumption
  <2>4. CASE s = handle[h]
    BY <2>2, <2>4, TargetIsAccessible, SlotAssumption
  <2>5. CASE s # p /\ s # handle[h]
    <3>1. count'[s] = count[s]  BY <2>2, <2>5 DEF Retarget
    <3>2. s \in Rooted  BY <2>1, <3>1 DEF Rooted
    <3>. QED  BY <3>2, AccessIs
  <2>. QED  BY <2>3, <2>4, <2>5
<1>5. \A s \in Slot : Members(s)' = Members(s)
  BY SlotAssumption DEF Members, Followed, Local, TypeOK
<1>6. Reachable' \subseteq Reachable  BY <1>4, <1>5, AccessIs, AccessShrinks
<1>7. HandleTargetsLive'  BY <1>1, <1>3 DEF Safe, HandleTargetsLive, TypeOK
<1>. QED
  BY <1>1, <1>2, <1>6, <1>7 DEF Safe, AccessibleIsLive, FreeIsBare

(* Assigning a local handle through operator=.                             *)
LEMMA AssignStep ==
    ASSUME IInv, NEW h \in Handle, NEW p \in Pointer, Local(h), CanCount(p),
           ~torn /\ p # Null => p \in Reachable,
           phase = "run", handle[h] # p,
           handle' = [handle EXCEPT ![h] = p],
           count' = Retarget(handle[h], p),
           UNCHANGED <<heapVars, newVars, owner, leaked>>
    PROVE  IInv'
<1>1. /\ handle' \in [Handle -> Pointer]
      /\ count' \in [Slot -> 0 .. CountMax]
  BY RetargetType DEF IInv
<1>2. TypeOK'  BY <1>1 DEF IInv, TypeOK, heapVars, newVars
<1>3. ~torn => Safe'  BY AssignSafe DEF IInv, heapVars
<1>. QED  BY <1>2, <1>3, RunStep DEF heapVars

(* Handle::operator=(const Handle&) assigns what another handle points at. *)
LEMMA CopyAssignStep ==
    ASSUME IInv, NEW h \in Handle, NEW g \in Handle, CopyAssign(h, g)
    PROVE  IInv'
<1>1. handle[g] \in Pointer  BY DEF IInv, TypeOK
<1>2. ~torn /\ handle[g] # Null => handle[g] \in Reachable
  BY TargetIsAccessible DEF IInv
<1>. QED  BY <1>1, <1>2, AssignStep DEF CopyAssign

(* ~Handle() assigns null.                                                 *)
LEMMA ReleaseStep ==
    ASSUME IInv, NEW h \in Handle, Release(h)
    PROVE  IInv'
<1>1. Null \in Pointer /\ CanCount(Null)  BY DEF CanCount
<1>. QED  BY <1>1, AssignStep DEF Release

(* Reading a raw member of an accessible object into a handle assigns an   *)
(* accessible object; after an accessible object has been deleted it may   *)
(* be anything.                                                            *)
LEMMA LoadMemberStep ==
    ASSUME IInv, NEW h \in Handle, NEW g \in Handle, LoadMember(h, g)
    PROVE  IInv'
<1>1. PICK s \in children[handle[g]] \cup blind[handle[g]] :
          /\ handle[h] # s
          /\ CanCount(s)
          /\ handle' = [handle EXCEPT ![h] = s]
          /\ count' = Retarget(handle[h], s)
  BY DEF LoadMember
<1>2. handle[g] \in Slot  BY DEF LoadMember, IInv, TypeOK
<1>3. s \in Members(handle[g])  BY <1>1 DEF Members, Followed
<1>4. s \in Slot  BY <1>1, <1>2 DEF IInv, TypeOK
<1>5. ASSUME ~torn  PROVE s \in Reachable
  <2>1. TypeOK /\ Safe  BY <1>5 DEF IInv
  <2>2. handle[g] \in Reachable  BY <2>1, TargetIsAccessible DEF LoadMember
  <2>. QED  BY <1>3, <2>1, <2>2, AccessIs
<1>. QED  BY <1>1, <1>4, <1>5, AssignStep DEF LoadMember

(* Handle::operator=(Handle&&) roots nothing new: the counter of the old   *)
(* target only stays too large.                                            *)
LEMMA MoveAssignStep ==
    ASSUME IInv, NEW h \in Handle, NEW g \in Handle, MoveAssign(h, g)
    PROVE  IInv'
<1>1. handle' \in [Handle -> Pointer] /\ leaked' \in [Slot -> Nat]
  BY DEF IInv, TypeOK, MoveAssign, Lose
<1>2. TypeOK'  BY <1>1 DEF IInv, TypeOK, MoveAssign, heapVars, newVars
<1>3. ASSUME ~torn  PROVE Safe'
  <2>0. TypeOK /\ Safe  BY <1>3 DEF IInv
  <2>1. Allocated' = Allocated  BY DEF Allocated, MoveAssign, heapVars
  <2>2. CountsAreExact'  BY <2>0, MoveExact DEF Safe, MoveAssign
  <2>3. Rooted' = Rooted  BY <2>1 DEF Rooted, MoveAssign
  <2>4. \A s \in Slot : Members(s)' = Members(s)
    BY <2>0, SlotAssumption
    DEF MoveAssign, Members, Followed, Local, TypeOK, heapVars
  <2>5. Reachable' \subseteq Reachable  BY <2>0, <2>3, <2>4, AccessIs, AccessShrinks
  <2>6. HandleTargetsLive'
    BY <2>0, <2>1 DEF Safe, HandleTargetsLive, TypeOK, MoveAssign
  <2>. QED
    BY <2>0, <2>1, <2>2, <2>5, <2>6
    DEF Safe, AccessibleIsLive, FreeIsBare, MoveAssign, heapVars
<1>. QED  BY <1>2, <1>3, RunStep DEF MoveAssign, heapVars

(* Members given to objects that exist, which were accessible before.      *)
LEMMA MemberStep ==
    ASSUME IInv, phase = "run",
           UNCHANGED <<generation, marked, torn, newVars, count, handle, leaked>>,
           children' \in [Slot -> SUBSET Slot],
           blind' \in [Slot -> SUBSET Slot],
           owner' \in [Handle -> Pointer],
           ~torn => \A s \in Slot : Members(s)' \subseteq Members(s) \cup Reachable,
           ~torn => FreeIsBare'
    PROVE  IInv'
<1>1. TypeOK'  BY DEF IInv, TypeOK, newVars
<1>2. ASSUME ~torn  PROVE Safe'
  <2>0. TypeOK /\ Safe  BY <1>2 DEF IInv
  <2>1. Allocated' = Allocated  BY DEF Allocated
  <2>2. \A s \in Slot : HandlesTo(s)' = HandlesTo(s)  BY DEF HandlesTo
  <2>3. CountsAreExact'  BY <2>0, <2>2 DEF Safe, CountsAreExact
  <2>4. Rooted' = Rooted  BY <2>1 DEF Rooted
  <2>5. \A s \in Reachable : Members(s)' \subseteq Reachable
    BY <1>2, <2>0, AccessIs
  <2>6. Reachable' \subseteq Reachable
    BY <2>0, <2>4, <2>5, AccessIs, AccessShrinks
  <2>. QED
    BY <1>2, <2>0, <2>1, <2>3, <2>6 DEF Safe, HandleTargetsLive, AccessibleIsLive
<1>. QED  BY <1>1, <1>2, RunStep

(* Storing a raw member, what a handle points at, in an existing object.   *)
LEMMA StoreMemberStep ==
    ASSUME IInv, NEW g \in Handle, NEW h \in Handle,
           StoreMember(g, h) \/ StoreBlindMember(g, h)
    PROVE  IInv'
<1>1. handle[g] \in Slot /\ handle[h] \in Slot
  BY DEF StoreMember, StoreBlindMember, IInv, TypeOK
<1>2. /\ phase = "run" /\ handle[g] # Null /\ handle[h] # Null
      /\ UNCHANGED <<generation, marked, torn, newVars, count, handle, leaked, owner>>
  BY DEF StoreMember, StoreBlindMember
<1>3. /\ children' \in [Slot -> SUBSET Slot] /\ blind' \in [Slot -> SUBSET Slot]
      /\ owner' \in [Handle -> Pointer]
  BY <1>1 DEF StoreMember, StoreBlindMember, IInv, TypeOK
<1>4. \A s \in Slot : /\ children'[s] \subseteq children[s] \cup {handle[h]}
                      /\ blind'[s] \subseteq blind[s] \cup {handle[h]}
                      /\ s # handle[g] => children'[s] = children[s] /\ blind'[s] = blind[s]
  BY <1>1 DEF StoreMember, StoreBlindMember, IInv, TypeOK
<1>5. ASSUME ~torn
      PROVE  /\ \A s \in Slot : Members(s)' \subseteq Members(s) \cup Reachable
             /\ FreeIsBare'
  <2>0. TypeOK /\ Safe  BY <1>5 DEF IInv
  <2>1. handle[h] \in Reachable /\ handle[g] \in Allocated
    BY <1>2, <2>0, TargetIsAccessible
  <2>2. Allocated' = Allocated  BY <1>2 DEF Allocated
  <2>3. FreeIsBare'
    BY <1>2, <1>4, <2>0, <2>1, <2>2 DEF Safe, FreeIsBare
  <2>4. \A s \in Slot : Members(s)' \subseteq Members(s) \cup {handle[h]}
    BY <1>2, <1>4 DEF Members, Followed
  <2>. QED  BY <2>1, <2>3, <2>4
<1>. QED  BY <1>2, <1>3, <1>5, MemberStep

(* Overwriting one.                                                        *)
LEMMA EraseMemberStep ==
    ASSUME IInv, NEW g \in Handle, EraseMember(g)
    PROVE  IInv'
<1>1. handle[g] \in Slot  BY DEF EraseMember, IInv, TypeOK
<1>2. /\ children' \in [Slot -> SUBSET Slot] /\ blind' \in [Slot -> SUBSET Slot]
      /\ \A s \in Slot : children'[s] \subseteq children[s] /\ blind'[s] \subseteq blind[s]
  BY <1>1 DEF EraseMember, IInv, TypeOK
<1>3. owner' \in [Handle -> Pointer] /\ owner' = owner /\ handle' = handle
  BY DEF EraseMember, IInv, TypeOK
<1>4. \A s \in Slot : Members(s)' \subseteq Members(s)
  BY <1>2, <1>3 DEF Members, Followed
<1>5. Allocated' = Allocated  BY DEF Allocated, EraseMember
<1>6. ~torn => FreeIsBare'
  BY <1>2, <1>3, <1>5 DEF IInv, Safe, FreeIsBare
<1>. QED  BY <1>2, <1>3, <1>4, <1>6, MemberStep DEF EraseMember

(* Making a handle a member of an object.                                  *)
LEMMA AdoptHandleStep ==
    ASSUME IInv, NEW h \in Handle, NEW g \in Handle, AdoptHandle(h, g)
    PROVE  IInv'
<1>1. handle[g] \in Slot /\ handle[h] \in Slot  BY DEF AdoptHandle, IInv, TypeOK
<1>2. /\ children' \in [Slot -> SUBSET Slot] /\ blind' \in [Slot -> SUBSET Slot]
      /\ owner' \in [Handle -> Pointer]
      /\ owner' = [owner EXCEPT ![h] = handle[g]]
      /\ UNCHANGED <<children, blind, generation, handle>>
      /\ handle[h] # Null /\ handle[g] # Null
  BY <1>1 DEF AdoptHandle, IInv, TypeOK, heapVars
<1>3. ASSUME ~torn
      PROVE  /\ \A s \in Slot : Members(s)' \subseteq Members(s) \cup Reachable
             /\ FreeIsBare'
  <2>0. TypeOK /\ Safe  BY <1>3 DEF IInv
  <2>1. handle[h] \in Reachable /\ handle[g] \in Allocated
    BY <1>2, <2>0, TargetIsAccessible
  <2>2. Allocated' = Allocated  BY <1>2 DEF Allocated
  <2>3. FreeIsBare'
    BY <1>2, <2>0, <2>1, <2>2 DEF Safe, FreeIsBare, TypeOK
  <2>4. \A s \in Slot : Members(s)' \subseteq Members(s) \cup {handle[h]}
    BY <1>2, <2>0 DEF Members, Followed, TypeOK
  <2>. QED  BY <2>1, <2>3, <2>4
<1>. QED  BY <1>2, <1>3, MemberStep DEF AdoptHandle, heapVars

(* The steps of operator new that touch neither objects nor handles.       *)
LEMMA ControlStep ==
    ASSUME IInv,
           UNCHANGED <<heapVars, count, handle, owner, leaked>>,
           counter' \in [Level -> 0 .. Threshold],
           level' \in Level,
           phase' \in {"run", "scan", "mark", "place"},
           dest' \in Handle \cup {Null},
           dest' # Null => handle[dest'] = Null /\ owner[dest'] = Null
    PROVE  IInv'
<1>1. TypeOK'  BY DEF IInv, TypeOK, heapVars
<1>2. ~torn => Safe'  BY SameSafe DEF IInv, heapVars
<1>3. RootsMarked' /\ DestNull'  BY DEF RootsMarked, DestNull
<1>. QED
  BY <1>1, <1>2, <1>3 DEF IInv, GenerationsDisjoint, heapVars

(* `h = new X' starts with a null local handle.                            *)
LEMMA NewStep ==
    ASSUME IInv, NEW h \in Handle, New(h)
    PROVE  IInv'
BY ControlStep DEF New, IInv, TypeOK, Local

(* A temporary that no handle keeps.                                       *)
LEMMA NewTemporaryStep ==
    ASSUME IInv, NewTemporary
    PROVE  IInv'
BY ControlStep DEF NewTemporary, IInv, TypeOK

(* The head of the loop counts up to the threshold and no further.         *)
LEMMA ExamineStep ==
    ASSUME IInv, Examine
    PROVE  IInv'
<1>1. counter' \in [Level -> 0 .. Threshold]
  BY ThresholdAssumption DEF Examine, IInv, TypeOK
<1>2. /\ level' = level /\ dest' = dest /\ phase' \in {"place", "mark"}
      /\ phase # "run"
  BY DEF Examine
<1>3. dest' # Null => handle[dest'] = Null /\ owner[dest'] = Null
  BY <1>2 DEF IInv, DestNull
<1>. QED  BY <1>1, <1>2, <1>3, ControlStep DEF Examine, IInv, TypeOK

(* Marking leaves no counted object of the generation without a mark.      *)
LEMMA gc_markStep ==
    ASSUME IInv, gc_mark
    PROVE  IInv'
<1>1. NewlyMarked \subseteq Slot  BY DEF NewlyMarked
<1>2. TypeOK'  BY <1>1 DEF IInv, TypeOK, gc_mark
<1>3. ~torn => Safe'  BY SameSafe DEF IInv, gc_mark
<1>4. RootsMarked'
  <2>1. generation[level] \subseteq Slot  BY DEF IInv, TypeOK
  <2>. QED  BY <2>1, RootsAreMarked DEF RootsMarked, gc_mark
<1>. QED
  BY <1>2, <1>3, <1>4 DEF IInv, DestNull, GenerationsDisjoint, gc_mark

(* std::bad_alloc leaves the heap as it is.                                *)
LEMMA BadAllocStep ==
    ASSUME IInv, BadAlloc
    PROVE  IInv'
BY ControlStep DEF BadAlloc, IInv, TypeOK

(* A sweep that deletes nothing accessible keeps the heap safe: it takes   *)
(* the handles it destroys off the counters, and what it leaves leads      *)
(* nowhere new.                                                            *)
LEMMA SweepSafe ==
    ASSUME TypeOK, GenerationsDisjoint, RootsMarked, Safe, gc_sweep,
           Dead \cap Reachable = {}
    PROVE  Safe'
<1>1. Allocated' = Allocated \ Dead  BY SweepAllocated
<1>2. \A h \in Handle : handle'[h] = IF h \in DeadHandles THEN Null ELSE handle[h]
  BY DEF gc_sweep
<1>3. \A s \in Slot : HandlesTo(s)' = HandlesTo(s) \ DeadHandles
  BY <1>2, SlotAssumption DEF HandlesTo
<1>4. \A s \in Slot : /\ count'[s] = Released(s)
                      /\ count'[s] <= count[s]
                      /\ count'[s] = Cardinality(HandlesTo(s)') + leaked'[s]
  BY <1>3, ReleasedIs DEF Safe, gc_sweep
<1>5. CountsAreExact'  BY <1>4 DEF CountsAreExact
<1>6. HandleTargetsLive'
  <2>1. SUFFICES ASSUME NEW h \in Handle, handle[h] # Null
                 PROVE  handle[h] \in Allocated \ Dead
    BY <1>1, <1>2 DEF HandleTargetsLive
  <2>2. handle[h] \in Allocated /\ handle[h] \in Reachable
    BY <2>1, TargetIsAccessible
  <2>. QED  BY <2>2
<1>7. Rooted' \subseteq Reachable
  <2>1. SUFFICES ASSUME NEW s \in Allocated, count'[s] > 0  PROVE s \in Reachable
    BY <1>1 DEF Rooted
  <2>2. s \in Slot  BY DEF Allocated, TypeOK
  <2>3. count[s] \in Int /\ count'[s] \in Int
    <3>1. count[s] \in 0 .. CountMax  BY <2>2 DEF TypeOK
    <3>2. Released(s) \in 0 .. CountMax  BY <2>2, ReleasedIs
    <3>. QED  BY <1>4, <2>2, <3>1, <3>2, BoundAssumption
  <2>4. count[s] > 0  BY <1>4, <2>1, <2>2, <2>3
  <2>. QED  BY <2>4, AccessIs DEF Rooted
<1>8. \A s \in Slot : Members(s)' \subseteq Members(s)
  <2>1. \A s \in Slot : children'[s] \subseteq children[s] /\ blind'[s] \subseteq blind[s]
    BY DEF gc_sweep
  <2>2. \A h \in Handle : /\ owner'[h] # Null => owner'[h] = owner[h]
                          /\ handle'[h] # Null => handle'[h] = handle[h]
    BY DEF gc_sweep
  <2>. QED  BY <2>1, <2>2, SlotAssumption DEF Members, Followed
<1>9. Reachable' \subseteq Reachable  BY <1>7, <1>8, AccessIs, AccessShrinks
<1>10. AccessibleIsLive'
  BY <1>1, <1>9 DEF Safe, AccessibleIsLive
<1>11. FreeIsBare'
  <2>1. SUFFICES ASSUME NEW s \in Slot, s \notin Allocated \/ s \in Dead
                 PROVE  /\ children'[s] = {} /\ blind'[s] = {}
                        /\ \A h \in Handle : owner'[h] # s
    BY <1>1 DEF FreeIsBare
  <2>2. CASE s \in Dead
    BY <2>2, SlotAssumption DEF gc_sweep, DeadHandles, TypeOK
  <2>3. CASE s \notin Dead
    BY <2>1, <2>3, SlotAssumption DEF gc_sweep, Safe, FreeIsBare, TypeOK
  <2>. QED  BY <2>2, <2>3
<1>. QED  BY <1>5, <1>6, <1>10, <1>11 DEF Safe

(* gc_sweep moves every object to one generation at most.                  *)
LEMMA gc_sweepStep ==
    ASSUME IInv, gc_sweep
    PROVE  IInv'
<1>1. TypeOK'
  <2>1. generation' \in [Level -> SUBSET Slot]  BY DEF gc_sweep, IInv, TypeOK
  <2>2. /\ level' \in Level
        /\ phase' \in {"scan", "place"}
        /\ UNCHANGED <<counter, dest, leaked>>
    BY DEF gc_sweep, IInv, TypeOK
  <2>3. /\ marked' \in SUBSET Slot
        /\ children' \in [Slot -> SUBSET Slot]
        /\ blind' \in [Slot -> SUBSET Slot]
        /\ owner' \in [Handle -> Pointer]
        /\ handle' \in [Handle -> Pointer]
        /\ torn' \in BOOLEAN
    BY DEF gc_sweep, IInv, TypeOK
  <2>4. count' \in [Slot -> 0 .. CountMax]  BY ReleasedIs DEF gc_sweep, IInv
  <2>. QED  BY <2>1, <2>2, <2>3, <2>4 DEF IInv, TypeOK
<1>2. GenerationsDisjoint'
  <2>1. level \in Level /\ generation \in [Level -> SUBSET Slot]  BY DEF IInv, TypeOK
  <2>2. \A f, g \in Level : f # g => generation[f] \cap generation[g] = {}
    BY DEF IInv, GenerationsDisjoint
  <2>3. ASSUME NEW f \in Level, NEW g \in Level, f # g, NEW s \in Slot,
               s \in generation'[f], s \in generation'[g]
        PROVE  FALSE
    <3>1. ASSUME NEW k \in Level, s \in generation'[k]
          PROVE  \/ k # level /\ s \in generation[k]
                 \/ k = level /\ level = 2 /\ s \in generation[level]
                 \/ k = level + 1 /\ s \in generation[level]
      BY <2>1, <3>1 DEF gc_sweep
    <3>. QED  BY <2>1, <2>2, <2>3, <3>1
  <2>4. generation' \in [Level -> SUBSET Slot]  BY <1>1 DEF TypeOK
  <2>. QED  BY <2>3, <2>4 DEF GenerationsDisjoint
<1>3. RootsMarked' /\ DestNull'
  BY DEF gc_sweep, IInv, RootsMarked, DestNull, TypeOK
<1>4. ~torn' => Safe'
  <2>1. ~torn' => ~torn /\ Dead \cap Reachable = {}  BY DEF gc_sweep
  <2>. QED  BY <2>1, SweepSafe DEF IInv
<1>. QED  BY <1>1, <1>2, <1>3, <1>4 DEF IInv

(* A record that is taken was out of reach: nothing accessible pointed at  *)
(* it, so that the new object is accessible only through its own handle.   *)
LEMMA PlaceSafe ==
    ASSUME TypeOK, Safe, DestNull, Place
    PROVE  Safe'
<1>1. PICK s \in Slot \ Allocated :
          /\ generation' = [generation EXCEPT ![0] = @ \cup {s}]
          /\ children' = [children EXCEPT ![s] = {}]
          /\ blind' = [blind EXCEPT ![s] = {}]
          /\ leaked' = [leaked EXCEPT ![s] = 0]
          /\ count' = [count EXCEPT ![s] = IF dest = Null THEN 0 ELSE 1]
          /\ handle' = [h \in Handle |-> IF h = dest THEN s
                                         ELSE IF owner[h] = s THEN Null
                                         ELSE handle[h]]
          /\ owner' = [h \in Handle |-> IF owner[h] = s THEN Null ELSE owner[h]]
  BY DEF Place
<1>2. Allocated' = Allocated \cup {s}  BY <1>1, PlaceAllocated
<1>3. s \notin Reachable  BY <1>1 DEF Safe, AccessibleIsLive
<1>4. /\ children[s] = {} /\ blind[s] = {}
      /\ \A h \in Handle : owner[h] # s
  BY <1>1 DEF Safe, FreeIsBare
<1>5. \A h \in Handle : handle[h] # s
  BY <1>1, SlotAssumption DEF Safe, HandleTargetsLive
<1>6. dest # Null => dest \in Handle /\ handle[dest] = Null /\ owner[dest] = Null
  BY DEF TypeOK, DestNull, Place
<1>7. /\ owner' = owner
      /\ \A h \in Handle : handle'[h] = IF h = dest THEN s ELSE handle[h]
  BY <1>1, <1>4 DEF TypeOK
<1>8. HandleTargetsLive'
  BY <1>1, <1>2, <1>7 DEF Safe, HandleTargetsLive
<1>9. CountsAreExact'
  <2>1. SUFFICES ASSUME NEW t \in Slot
                 PROVE  count'[t] = Cardinality(HandlesTo(t)') + leaked'[t]
    BY DEF CountsAreExact
  <2>2. CASE t = s
    <3>1. leaked'[t] = 0 /\ count'[t] = IF dest = Null THEN 0 ELSE 1
      BY <1>1, <2>2 DEF TypeOK
    <3>2. CASE dest = Null
      <4>1. HandlesTo(t)' = {}
        BY <1>5, <1>7, <2>2, <3>2, HandleAssumption DEF HandlesTo
      <4>2. Cardinality({}) = 0  BY FS_EmptySet
      <4>. QED  BY <3>1, <3>2, <4>1, <4>2
    <3>3. CASE dest # Null
      <4>1. HandlesTo(t)' = {dest}  BY <1>5, <1>6, <1>7, <2>2, <3>3 DEF HandlesTo
      <4>2. Cardinality({dest}) = 1  BY FS_Singleton
      <4>. QED  BY <3>1, <3>3, <4>1, <4>2
    <3>. QED  BY <3>2, <3>3
  <2>3. CASE t # s
    <3>1. HandlesTo(t)' = HandlesTo(t)
      BY <1>6, <1>7, <2>3, SlotAssumption, HandleAssumption DEF HandlesTo
    <3>. QED  BY <1>1, <2>3, <3>1 DEF Safe, CountsAreExact, TypeOK
  <2>. QED  BY <2>2, <2>3
<1>10. PICK R \in SUBSET Slot : R = Reachable \cup {s}  BY AccessIs
<1>11. Rooted' \subseteq R
  <2>1. SUFFICES ASSUME NEW t \in Allocated, t # s, count'[t] > 0  PROVE t \in Reachable
    BY <1>2, <1>10 DEF Rooted
  <2>2. t \in Slot  BY DEF Allocated, TypeOK
  <2>3. count[t] > 0  BY <1>1, <2>1, <2>2 DEF TypeOK
  <2>. QED  BY <2>3, AccessIs DEF Rooted
<1>12. \A t \in R : Members(t)' \subseteq R
  <2>1. Members(s)' = {}  BY <1>1, <1>4, <1>7 DEF Members, Followed, TypeOK
  <2>2. ASSUME NEW t \in Reachable  PROVE Members(t)' \subseteq Members(t)
    <3>1. t \in Slot /\ t # s  BY <1>3, <2>2, AccessIs
    <3>2. children'[t] = children[t] /\ blind'[t] = blind[t]
      BY <1>1, <3>1 DEF TypeOK
    <3>3. \A h \in Handle : owner[h] = t => h # dest
      BY <1>6, <3>1, SlotAssumption, HandleAssumption
    <3>. QED  BY <1>7, <3>2, <3>3 DEF Members, Followed
  <2>. QED  BY <1>10, <2>1, <2>2, AccessIs
<1>13. Reachable' \subseteq R  BY <1>11, <1>12, AccessWithinNext
<1>14. AccessibleIsLive'
  BY <1>2, <1>10, <1>13 DEF Safe, AccessibleIsLive
<1>15. FreeIsBare'  BY <1>1, <1>2, <1>7 DEF Safe, FreeIsBare, TypeOK
<1>. QED  BY <1>8, <1>9, <1>14, <1>15 DEF Safe

(* The end of operator new: a new object, with at most one handle to it.   *)
LEMMA PlaceStep ==
    ASSUME IInv, Place
    PROVE  IInv'
<1>1. PICK s \in Slot \ Allocated :
          /\ generation' = [generation EXCEPT ![0] = @ \cup {s}]
          /\ marked' = marked \ {s}
          /\ children' = [children EXCEPT ![s] = {}]
          /\ blind' = [blind EXCEPT ![s] = {}]
          /\ leaked' = [leaked EXCEPT ![s] = 0]
          /\ count' = [count EXCEPT ![s] = IF dest = Null THEN 0 ELSE 1]
          /\ handle' = [h \in Handle |-> IF h = dest THEN s
                                         ELSE IF owner[h] = s THEN Null
                                         ELSE handle[h]]
          /\ owner' = [h \in Handle |-> IF owner[h] = s THEN Null ELSE owner[h]]
  BY DEF Place
<1>2. TypeOK'
  <2>1. 0 \in 0 .. CountMax /\ 1 \in 0 .. CountMax  BY BoundAssumption
  <2>2. count' \in [Slot -> 0 .. CountMax]  BY <1>1, <2>1 DEF IInv, TypeOK
  <2>3. handle' \in [Handle -> Pointer] /\ owner' \in [Handle -> Pointer]
    BY <1>1 DEF IInv, TypeOK
  <2>4. generation' \in [Level -> SUBSET Slot]  BY <1>1 DEF IInv, TypeOK
  <2>5. leaked' \in [Slot -> Nat]  BY <1>1 DEF IInv, TypeOK
  <2>6. children' \in [Slot -> SUBSET Slot] /\ blind' \in [Slot -> SUBSET Slot]
    BY <1>1 DEF IInv, TypeOK
  <2>. QED
    BY <1>1, <2>2, <2>3, <2>4, <2>5, <2>6 DEF Place, IInv, TypeOK
<1>3. GenerationsDisjoint'
  BY <1>1 DEF IInv, GenerationsDisjoint, TypeOK, Allocated
<1>4. RootsMarked' /\ DestNull'  BY DEF Place, RootsMarked, DestNull
<1>5. ~torn' => Safe'
  <2>1. torn' = torn  BY DEF Place
  <2>. QED  BY <2>1, PlaceSafe DEF IInv
<1>. QED  BY <1>2, <1>3, <1>4, <1>5 DEF IInv

(* Every step preserves the invariant. *)
LEMMA NextIInv == IInv /\ [Next]_vars => IInv'
<1>. SUFFICES ASSUME IInv, [Next]_vars  PROVE IInv'  OBVIOUS
<1>1. ASSUME NEW h \in Handle, NEW g \in Handle,
             \/ CopyAssign(h, g) \/ MoveAssign(h, g) \/ LoadMember(h, g)
             \/ StoreMember(h, g) \/ StoreBlindMember(h, g) \/ AdoptHandle(h, g)
      PROVE  IInv'
  BY <1>1, CopyAssignStep, MoveAssignStep, LoadMemberStep, StoreMemberStep, AdoptHandleStep
<1>2. ASSUME NEW h \in Handle, Release(h) \/ EraseMember(h) \/ New(h)
      PROVE  IInv'
  BY <1>2, ReleaseStep, EraseMemberStep, NewStep
<1>3. CASE NewTemporary  BY <1>3, NewTemporaryStep
<1>4. CASE OperatorNew
  BY <1>4, ExamineStep, gc_markStep, gc_sweepStep, PlaceStep, BadAllocStep DEF OperatorNew
<1>5. CASE UNCHANGED vars
  <2>1. TypeOK'  BY <1>5 DEF vars, IInv, TypeOK
  <2>2. ~torn' => Safe'
    <3>1. torn' = torn /\ UNCHANGED <<generation, children, blind, count, handle, owner, leaked>>
      BY <1>5 DEF vars
    <3>. QED  BY <3>1, SameSafe DEF IInv
  <2>. QED
    BY <1>5, <2>1, <2>2 DEF vars, IInv, GenerationsDisjoint, RootsMarked, DestNull
<1>. QED  BY <1>1, <1>2, <1>3, <1>4, <1>5 DEF Next

-----------------------------------------------------------------------------
(* The theorems.                                                           *)

(* The inductive invariant holds in every reachable state. *)
THEOREM Invariant == Spec => []IInv
BY InitIInv, NextIInv, PTL DEF Spec

(* As long as no sweep has deleted an accessible object, every handle has  *)
(* its target, every member of an accessible object leads to an object,    *)
(* and the counters are right: nothing else the mutator or the collector   *)
(* does makes Handle::operator-> unsafe.                                   *)
THEOREM HandlesNeverDangle ==
    Spec => [](~torn => HandleTargetsLive /\ CountsAreExact /\ AccessibleIsLive)
<1>1. IInv => (~torn => HandleTargetsLive /\ CountsAreExact /\ AccessibleIsLive)
  BY DEF IInv, Safe
<1>. QED  BY <1>1, Invariant, PTL

(* The steps that are no sweep and no placement leave the heap as it is.   *)
LEMMA HeapStays ==
    ASSUME [Next]_vars, ~gc_sweep, ~Place
    PROVE  Allocated' = Allocated /\ torn' = torn
<1>1. generation' = generation /\ torn' = torn
  BY DEF Next, vars, heapVars, OperatorNew, CopyAssign, MoveAssign, LoadMember,
         StoreMember, StoreBlindMember, AdoptHandle, Release, EraseMember, New,
         NewTemporary, Examine, gc_mark, BadAlloc
<1>. QED  BY <1>1 DEF Allocated

(* An object with a non-zero counter survives every step.                  *)
THEOREM CountedObjectsSurvive == Spec => CountedNeverDeleted
<1>1. ASSUME IInv, [Next]_vars
      PROVE  [\A s \in Allocated : count[s] > 0 => s \in Allocated']_vars
  <2>1. CASE gc_sweep
    <3>1. Allocated' = Allocated \ Dead  BY <1>1, <2>1, SweepAllocated DEF IInv
    <3>2. \A s \in Dead : ~(count[s] > 0)
      BY <1>1, <2>1 DEF IInv, RootsMarked, gc_sweep, Dead
    <3>. QED  BY <3>1, <3>2
  <2>2. CASE Place
    <3>1. PICK s \in Slot : generation' = [generation EXCEPT ![0] = @ \cup {s}]
      BY <2>2 DEF Place
    <3>. QED  BY <1>1, <3>1, PlaceAllocated DEF IInv
  <2>3. CASE ~gc_sweep /\ ~Place  BY <1>1, <2>3, HeapStays
  <2>. QED  BY <2>1, <2>2, <2>3
<1>. QED  BY <1>1, Invariant, PTL DEF Spec, CountedNeverDeleted

(* In the phase of marking the only step is gc_mark.                       *)
LEMMA MarkingIsMark ==
    ASSUME [Next]_vars, phase = "mark"
    PROVE  gc_mark \/ UNCHANGED vars
BY DEF Next, OperatorNew, CopyAssign, MoveAssign, LoadMember, StoreMember,
       StoreBlindMember, AdoptHandle, Release, EraseMember, New, NewTemporary,
       Examine, gc_sweep, Place, BadAlloc

(* What gc_mark enters, it goes on from to what Mark() follows.            *)
LEMMA EnteredIsFollowed ==
    ASSUME TypeOK, gc_mark, NEW s \in marked' \ marked, NEW t \in Followed(s)
    PROVE  s \in Slot /\ t \in marked'
<1>1. marked' = marked \cup NewlyMarked  BY DEF gc_mark
<1>2. s \in NewlyMarked /\ s \in Slot  BY <1>1 DEF NewlyMarked
<1>3. t \in Slot  BY <1>2 DEF Followed, TypeOK
<1>4. ASSUME NEW S \in SUBSET Slot, Roots \subseteq S, MarkClosed(S), t \notin marked
      PROVE  t \in S
  <2>1. s \in S \ marked  BY <1>2, <1>4 DEF NewlyMarked
  <2>. QED  BY <1>4, <2>1 DEF MarkClosed
<1>5. t \notin marked => t \in NewlyMarked  BY <1>3, <1>4 DEF NewlyMarked
<1>. QED  BY <1>1, <1>2, <1>5

(* What a collection overlooks holds what it does not follow, and all that *)
(* this leads to.                                                          *)
LEMMA OverlookedIs ==
    ASSUME TypeOK, NEW E
    PROVE  /\ Overlooked(E) \subseteq Slot
           /\ \A r \in Reachable : Unfollowed(r, E) \subseteq Overlooked(E)
           /\ \A s \in Overlooked(E) : Members(s) \subseteq Overlooked(E)
<1>1. Overlooked(E) \subseteq Slot  BY DEF Overlooked
<1>2. ASSUME NEW r \in Reachable, NEW t \in Unfollowed(r, E)
      PROVE  t \in Overlooked(E)
  <2>1. r \in Slot /\ t \in Members(r)
    BY <1>2, AccessIs DEF Unfollowed, Members
  <2>2. t \in Slot  BY <2>1, AccessIs
  <2>3. \A S \in SUBSET Slot :
           Closed(S) /\ (\A q \in Reachable : Unfollowed(q, E) \subseteq S) => t \in S
    BY <1>2
  <2>. QED  BY <2>2, <2>3 DEF Overlooked
<1>3. ASSUME NEW s \in Overlooked(E), NEW t \in Members(s)
      PROVE  t \in Overlooked(E)
  <2>1. t \in Slot  BY <1>1, <1>3, AccessIs
  <2>2. ASSUME NEW S \in SUBSET Slot, Closed(S),
               \A r \in Reachable : Unfollowed(r, E) \subseteq S
        PROVE  t \in S
    <3>1. s \in S  BY <1>3, <2>2 DEF Overlooked
    <3>. QED  BY <1>3, <2>2, <3>1 DEF Closed
  <2>. QED  BY <2>1, <2>2 DEF Overlooked
<1>. QED  BY <1>1, <1>2, <1>3

(* gc_mark finds every accessible object of its generation that does not   *)
(* hang on a member it does not follow.  The set W of accessible objects   *)
(* for which that is so has the roots and is closed under members.         *)
LEMMA MarkFinds ==
    ASSUME TypeOK, gc_mark
    PROVE  Reachable \cap generation[level] \subseteq marked' \cup Overlooked(marked' \ marked)
<1> DEFINE E == marked' \ marked
           O == Overlooked(E)
           W == {s \in Reachable : s \in generation[level] => s \in marked' \cup O}
<1>1. W \in SUBSET Slot  BY AccessIs
<1>2. Rooted \subseteq W
  <2>1. SUFFICES ASSUME NEW s \in Rooted, s \in generation[level]  PROVE s \in marked'
    BY AccessIs
  <2>2. s \in Slot /\ count[s] > 0  BY AccessIs DEF Rooted
  <2>. QED  BY <2>1, <2>2, RootsAreMarked
<1>3. /\ \A r \in Reachable : Unfollowed(r, E) \subseteq O
      /\ \A s \in O : Members(s) \subseteq O
  BY OverlookedIs
<1>4. ASSUME NEW s \in W, NEW t \in Members(s)  PROVE t \in W
  <2>1. s \in Reachable /\ t \in Reachable  BY <1>4, AccessIs
  <2>2. t \in marked' \cup O
    <3>1. CASE s \in O  BY <1>3, <1>4, <3>1
    <3>2. CASE s \in E
      <4>1. CASE t \in Followed(s)  BY <3>2, <4>1, EnteredIsFollowed
      <4>2. CASE t \in blind[s]
        BY <1>3, <2>1, <3>2, <4>2 DEF Unfollowed
      <4>. QED  BY <1>4, <4>1, <4>2 DEF Members
    <3>3. CASE s \notin O /\ s \notin E
      <4>1. s \notin generation[level] \ marked  BY <1>4, <3>3
      <4>2. Unfollowed(s, E) = Members(s)  BY <3>3, <4>1 DEF Unfollowed
      <4>. QED  BY <1>3, <1>4, <2>1, <4>2
    <3>. QED  BY <3>1, <3>2, <3>3
  <2>. QED  BY <2>1, <2>2
<1>5. Reachable \subseteq W
  <2>. HIDE DEF W
  <2>. QED  BY <1>1, <1>2, <1>4, AccessWithin
<1>. QED  BY <1>5

(* A collection misses, and then deletes, an accessible object only behind *)
(* a member it does not follow.                                            *)
THEOREM CollectionsLoseNothingElse == Spec => LossesAreExplained
<1>1. ASSUME IInv, [Next]_vars
      PROVE  [phase = "mark" =>
                 Reachable \cap generation[level]
                     \subseteq marked' \cup Overlooked(marked' \ marked)]_vars
  BY <1>1, MarkingIsMark, MarkFinds DEF IInv
<1>. QED  BY <1>1, Invariant, PTL DEF Spec, LossesAreExplained

(* What gc_mark marks is accessible: the accessible objects have the roots *)
(* of every generation and are closed under members.                       *)
LEMMA MarkIsPrecise ==
    ASSUME TypeOK, gc_mark
    PROVE  marked' \ marked \subseteq Reachable
<1> DEFINE S == Reachable \cup marked
<1>1. S \in SUBSET Slot  BY AccessIs DEF TypeOK
<1>2. Roots \subseteq S  BY AccessIs DEF Roots, Rooted, Allocated, TypeOK
<1>3. MarkClosed(S)  BY AccessIs DEF MarkClosed, Members
<1>4. NewlyMarked \subseteq S
  <2>. HIDE DEF S
  <2>. QED  BY <1>1, <1>2, <1>3 DEF NewlyMarked
<1>. QED  BY <1>4 DEF gc_mark

(* No collection marks what nothing keeps.                                 *)
THEOREM CollectionsArePrecise == Spec => OnlyAccessibleIsMarked
<1>1. ASSUME IInv, [Next]_vars
      PROVE  [phase = "mark" => marked' \ marked \subseteq Reachable]_vars
  BY <1>1, MarkingIsMark, MarkIsPrecise DEF IInv
<1>. QED  BY <1>1, Invariant, PTL DEF Spec, OnlyAccessibleIsMarked

-----------------------------------------------------------------------------
(* Refinement: the collector implements HandleHeap.                        *)

(* The empty heap is an initial state of HandleHeap.                       *)
LEMMA InitRefines == Init => Promise!Init
BY DEF Init, Promise!Init, Allocated

(* A step that only moves handles among existing objects.                  *)
LEMMA AssignRefines ==
    ASSUME IInv, IInv', ~torn', Allocated' = Allocated
    PROVE  Promise!Assign
<1>1. HandleTargetsLive' /\ handle' \in [Handle -> Pointer]
  BY DEF IInv, Safe, TypeOK
<1>. QED  BY <1>1 DEF Promise!Assign, HandleTargetsLive

(* A sweep is a collection of HandleHeap: no handle loses its target, even *)
(* by the sweep that deletes something accessible.                         *)
LEMMA SweepRefines ==
    ASSUME IInv, ~torn, gc_sweep
    PROVE  Promise!Collect
<1>1. Allocated' = Allocated \ Dead  BY SweepAllocated DEF IInv
<1>2. ASSUME NEW h \in Handle, handle[h] \in Slot  PROVE handle[h] \notin Dead
  <2>1. count[handle[h]] > 0  BY <1>2, TargetIsCounted DEF IInv, Safe
  <2>. QED  BY <2>1 DEF IInv, RootsMarked, gc_sweep, Dead
<1>3. Dead \subseteq Allocated \ Promise!Targets(handle)
  <2>1. Dead \subseteq Allocated  BY DEF Dead, Allocated, IInv, TypeOK
  <2>2. \A h \in Handle : handle[h] # Null => handle[h] \in Slot  BY DEF IInv, TypeOK
  <2>. QED  BY <1>2, <2>1, <2>2 DEF Promise!Targets
<1>4. DeadHandles \in SUBSET Handle  BY DEF DeadHandles
<1>5. handle' = [h \in Handle |-> IF h \in DeadHandles THEN Null ELSE handle[h]]
  BY DEF gc_sweep
<1>. QED  BY <1>1, <1>3, <1>4, <1>5 DEF Promise!Collect

(* Placing a new object is an allocation of HandleHeap.                    *)
LEMMA PlaceRefines ==
    ASSUME IInv, ~torn, Place
    PROVE  Promise!Allocate
<1>1. PICK s \in Slot \ Allocated :
          /\ generation' = [generation EXCEPT ![0] = @ \cup {s}]
          /\ handle' = [h \in Handle |-> IF h = dest THEN s
                                         ELSE IF owner[h] = s THEN Null
                                         ELSE handle[h]]
  BY DEF Place
<1>2. Allocated' = Allocated \cup {s}  BY <1>1, PlaceAllocated DEF IInv
<1>3. dest # Null => dest \in Handle  BY DEF IInv, TypeOK
<1>4. \A h \in Handle : owner[h] # s  BY <1>1 DEF IInv, Safe, FreeIsBare
<1>5. handle' = IF dest = Null THEN handle ELSE [handle EXCEPT ![dest] = s]
  <2>0. handle \in [Handle -> Pointer]  BY DEF IInv, TypeOK
  <2>1. handle' = [h \in Handle |-> IF h = dest THEN s ELSE handle[h]]
    BY <1>1, <1>4
  <2>2. CASE dest = Null  BY <2>0, <2>1, <2>2, HandleAssumption
  <2>3. CASE dest # Null  BY <2>0, <2>1, <2>3
  <2>. QED  BY <2>2, <2>3
<1>. QED  BY <1>1, <1>2, <1>3, <1>5 DEF Promise!Allocate

(* Until a sweep deletes something accessible, the garbage collected heap  *)
(* is a heap whose handles always have a target, in which only objects     *)
(* without handles disappear.                                              *)
THEOREM CollectorImplementsHandleHeap == Spec => ImplementsHandleHeap
<1>1. ASSUME IInv, IInv', [Next]_vars  PROVE [Promise!Next]_(Promise!vars)
  <2>0. torn \in BOOLEAN /\ torn' \in BOOLEAN  BY <1>1 DEF IInv, TypeOK
  <2>1. CASE torn
    <3>1. torn'
      <4>1. CASE gc_sweep  BY <2>1, <4>1 DEF gc_sweep
      <4>2. CASE Place  BY <2>1, <4>2 DEF Place
      <4>3. CASE ~gc_sweep /\ ~Place  BY <1>1, <2>1, <4>3, HeapStays
      <4>. QED  BY <4>1, <4>2, <4>3
    <3>. QED  BY <2>1, <3>1 DEF Promise!Next, Promise!Astray
  <2>2. CASE ~torn /\ gc_sweep
    BY <1>1, <2>0, <2>2, SweepRefines DEF Promise!Next, Promise!Keeps
  <2>3. CASE ~torn /\ Place
    <3>1. ~torn'  BY <2>3 DEF Place
    <3>. QED  BY <1>1, <2>3, <3>1, PlaceRefines DEF Promise!Next, Promise!Keeps
  <2>4. CASE ~torn /\ ~gc_sweep /\ ~Place
    <3>1. Allocated' = Allocated /\ ~torn'  BY <1>1, <2>4, HeapStays
    <3>. QED  BY <1>1, <2>4, <3>1, AssignRefines DEF Promise!Next, Promise!Keeps
  <2>. QED  BY <2>1, <2>2, <2>3, <2>4
<1>. QED
  BY <1>1, InitRefines, Invariant, PTL DEF Spec, Promise!Spec, ImplementsHandleHeap
=============================================================================
