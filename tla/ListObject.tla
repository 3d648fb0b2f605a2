----------------------------- MODULE ListObject -----------------------------
(***************************************************************************)
(* Class ListObject and the native methods of List that change one         *)
(* (src/src/api/list.h, list.cc): a doubly linked list of Link objects.    *)
(* Links are numbered in the order of their construction and 0 is a null   *)
(* pointer; a link constructed for a new object carries its own number as  *)
(* the value, so that different objects are told apart, and the copies     *)
(* that + and * make carry the value of the link they were made from.      *)
(*                                                                         *)
(* `ideal' is an auxiliary variable: the sequence of values the comments   *)
(* of the methods promise. The code leaves it behind in two places, an     *)
(* insertion at a position that exists and the removal of a link that      *)
(* thinks it is the first without being so; from there on until the list   *)
(* is emptied `intact' is false and nothing is promised.                   *)
(***************************************************************************)
EXTENDS Integers, FiniteSets, SequencesExt

CONSTANTS
    MaxLinks,  \* how many links may be constructed
    MaxVector, \* the greatest number of objects given to one call
    MaxSize,   \* how far m_size may grow
    Others     \* objects assigned to elements or fed to iterators

ASSUME BoundsAssumption ==
    /\ MaxLinks \in Nat \ {0}
    /\ MaxVector \in 1 .. MaxLinks
    /\ MaxSize \in Nat
    /\ Others \cap (0 .. MaxLinks) = {}

VARIABLES
    created, \* the number of links constructed
    value,   \* Link::m_value
    next,    \* Link::m_next
    prev,    \* Link::m_prev
    front,   \* m_front
    back,    \* m_back
    size,    \* m_size
    ideal,   \* auxiliary: the documented elements
    intact   \* auxiliary: no broken operation was met

listVars == <<created, value, next, prev, front, back, size, ideal, intact>>

Null == 0
Link == 1 .. MaxLinks
Pointer == Link \cup {Null}
Object == Link \cup Others

-----------------------------------------------------------------------------
(* Reading *)

(* The pointers met when m_next is followed from pointer p on.             *)
Follow(p) ==
    LET step[i \in 0 .. MaxLinks] ==
            IF i = 0 THEN p
            ELSE IF step[i - 1] = Null THEN Null ELSE next[step[i - 1]]
    IN  step

(* The links among them, which come before the first null pointer. A cycle *)
(* would show as a link that is met twice.                                 *)
Walk(p) ==
    LET met == {i \in 0 .. MaxLinks : Follow(p)[i] # Null}
    IN  [i \in 1 .. Cardinality(met) |-> Follow(p)[i - 1]]

Values(path) == [i \in DOMAIN path |-> value[path[i]]]

Elements == Values(Walk(front))

(* A script counts negative indexes from the end: from m_size, that is.    *)
Position(index) == IF index < 0 THEN index + size ELSE index

(* ListObject::At(): an index that stays negative becomes a huge size_t.   *)
At(index) ==
    LET path == Walk(front)
    IN  IF index \in 0 .. Len(path) - 1 THEN path[index + 1] ELSE Null

-----------------------------------------------------------------------------
(* Changing *)

(* f[p] := x, when p is not a null pointer *)
Set(f, p, x) == IF p = Null THEN f ELSE [f EXCEPT ![p] = x]

(* Link objects constructed for a sequence of values.                      *)
Construct(values) ==
    /\ created + Len(values) <= MaxLinks
    /\ created' = created + Len(values)
    /\ value' = [l \in Link |->
                   IF l \in created + 1 .. created'
                   THEN values[l - created] ELSE value[l]]

NewObjects(count) == [i \in 1 .. count |-> created + i]

(* The pointers of `count' new links that are put in a row.                *)
RowNext(count) ==
    [l \in Link |-> IF l \in created + 1 .. created + count - 1
                    THEN l + 1 ELSE next[l]]

RowPrev(count) ==
    [l \in Link |-> IF l \in created + 2 .. created + count
                    THEN l - 1 ELSE prev[l]]

(* What an operation documents, as long as nothing went wrong before it.   *)
Promise(elements) ==
    /\ intact' = intact
    /\ ideal' = IF intact THEN elements ELSE <<>>

(* ListObject::Append(const Handle<Object>&)                               *)
AppendValue ==
    /\ Construct(NewObjects(1))
    /\ next' = Set(next, back, created')
    /\ prev' = Set(prev, created', back)
    /\ front' = IF back = Null THEN created' ELSE front
    /\ back' = created'
    /\ size' = size + 1
    /\ Promise(ideal \o NewObjects(1))

(* ListObject::Append(const Vector<Handle<Object>>&), List#append(): the   *)
(* first of the new links is not told about the old last one.              *)
AppendVector(count) ==
    /\ Construct(NewObjects(count))
    /\ next' = Set(RowNext(count), back, created + 1)
    /\ prev' = RowPrev(count)
    /\ front' = IF back = Null THEN created + 1 ELSE front
    /\ back' = created'
    /\ size' = size + count
    /\ Promise(ideal \o NewObjects(count))

(* Mutant: m_front is assigned before it is read. *)
JoinedToItself(count) ==
    Set(RowNext(count), created + count,
        IF front = Null THEN Null ELSE created + 1)

JoinedToFront(count) == Set(RowNext(count), created + count, front)

(* ListObject::Prepend(const Vector<Handle<Object>>&), List#prepend(): the *)
(* old first link is not told about the last of the new ones.              *)
PrependVector(count) ==
    /\ Construct(NewObjects(count))
    /\ next' = JoinedToFront(count)
    /\ prev' = RowPrev(count)
    /\ front' = created + 1
    /\ back' = IF front = Null THEN created' ELSE back
    /\ size' = size + count
    /\ Promise(NewObjects(count) \o ideal)

(* ListObject::Insert() at a link that exists: the new link goes behind it *)
(* and is not told what comes next.                                        *)
InsertBehind(position) ==
    /\ Construct(NewObjects(1))
    /\ next' = Set(next, position, created')
    /\ prev' = Set(Set(prev, created', position), next[position], created')
    /\ back' = IF next[position] = Null THEN created' ELSE back
    /\ size' = size + 1
    /\ intact' = FALSE
    /\ ideal' = <<>>
    /\ UNCHANGED front

(* List#insert()                                                           *)
Insert(index) ==
    \/ /\ At(Position(index)) = Null
       /\ AppendValue
    \/ /\ At(Position(index)) # Null
       /\ InsertBehind(At(Position(index)))

(* Mutant: the pointer to the last link is not moved. *)
BackKept(link) == back

(* A link without previous link is taken for the first one by Erase().     *)
FrontWithout(link) == IF prev[link] = Null THEN next[link] ELSE front
BackWithout(link) == IF next[link] = Null THEN prev[link] ELSE back

(* Both versions of ListObject::Erase(): the four cases of the code, read  *)
(* off pointer by pointer.                                                 *)
Erase(index) ==
    LET link == At(index) IN
    /\ link # Null
    /\ next' = Set(next, prev[link], next[link])
    /\ prev' = Set(prev, next[link], prev[link])
    /\ front' = FrontWithout(link)
    /\ back' = BackWithout(link)
    /\ size' = size - 1
    /\ intact' = (intact /\ (prev[link] # Null \/ link = front))
    /\ ideal' = IF intact' THEN RemoveAt(ideal, index + 1) ELSE <<>>
    /\ UNCHANGED <<created, value>>

(* List#pop(index); an index out of bounds throws and changes nothing.     *)
PopAt(index) == Erase(Position(index))

(* List#pop(): the value of m_back is returned, and what is erased is the  *)
(* element that the size makes the last one.                               *)
PopLast ==
    /\ back # Null
    /\ Erase(size - 1)

(* ListObject::Clear(), List#clear()                                       *)
Clear ==
    /\ front' = Null
    /\ back' = Null
    /\ size' = 0
    /\ intact' = TRUE
    /\ ideal' = <<>>
    /\ UNCHANGED <<created, value, next, prev>>

(* List#__setitem__(), for an object that was not assigned before.         *)
SetItem(index, object) ==
    LET link == At(Position(index)) IN
    /\ \A l \in Link : value[l] # object
    /\ link # Null
    /\ value' = [value EXCEPT ![link] = object]
    /\ Promise([ideal EXCEPT ![Position(index) + 1] = object])
    /\ UNCHANGED <<created, next, prev, front, back, size>>

(* A new list takes the place of the old one, as in a = a + b, or the old  *)
(* one is filled anew.                                                     *)
Rebuild(values, total) ==
    LET count == Len(values) IN
    /\ total <= MaxSize
    /\ Construct(values)
    /\ next' = RowNext(count)
    /\ prev' = RowPrev(count)
    /\ front' = IF count = 0 THEN Null ELSE created + 1
    /\ back' = IF count = 0 THEN Null ELSE created'
    /\ size' = total

(* List#__init__(): what was in the list before is dropped.                *)
Initialize(count) ==
    /\ Rebuild(NewObjects(count), count)
    /\ intact' = TRUE
    /\ ideal' = NewObjects(count)

(* AppendAll() adds up the sizes it is told, not the links it makes.       *)
AddedSize(count) == size + count

(* List#__add__() with `count' further objects                             *)
Add(count) ==
    LET others == [i \in 1 .. count |-> created + Len(Elements) + i] IN
    /\ Rebuild(Elements \o others, AddedSize(count))
    /\ Promise(ideal \o others)

(* List#__mul__()                                                          *)
Repeat(sequence, times) ==
    [i \in 1 .. times * Len(sequence) |-> sequence[1 + ((i - 1) % Len(sequence))]]

Mul(times) ==
    /\ Rebuild(Repeat(Elements, times), times * size)
    /\ intact' = (intact \/ times = 0)
    /\ ideal' = Repeat(ideal, times)

-----------------------------------------------------------------------------
(* A list display evaluated by ListNode::Execute(), which appends the values *)
(* one by one.                                                             *)
ListInit ==
    \E count \in 0 .. MaxVector :
        /\ created = count
        /\ value = [l \in Link |-> l]
        /\ next = [l \in Link |-> IF l < count THEN l + 1 ELSE Null]
        /\ prev = [l \in Link |-> IF l \in 2 .. count THEN l - 1 ELSE Null]
        /\ front = IF count = 0 THEN Null ELSE 1
        /\ back = count
        /\ size = count
        /\ ideal = [i \in 1 .. count |-> i]
        /\ intact = TRUE

Indexes == -MaxLinks .. MaxLinks

ListNext ==
    \/ AppendValue
    \/ \E count \in 1 .. MaxVector : AppendVector(count) \/ PrependVector(count)
    \/ \E index \in Indexes : Insert(index) \/ PopAt(index)
    \/ PopLast
    \/ Clear
    \/ \E index \in Indexes, object \in Others : SetItem(index, object)
    \/ \E count \in 0 .. MaxVector : Add(count) \/ Initialize(count)
    \/ \E times \in {0, 2} : Mul(times)

ListSpec == ListInit /\ [][ListNext]_listVars

-----------------------------------------------------------------------------
(* Properties *)

ListTypeOK ==
    /\ created \in 0 .. MaxLinks
    /\ value \in [Link -> Object]
    /\ next \in [Link -> Pointer]
    /\ prev \in [Link -> Pointer]
    /\ front \in Pointer
    /\ back \in Pointer
    /\ size \in Nat
    /\ intact \in BOOLEAN

(* As long as no broken operation was met, the chain of links is what the  *)
(* methods document, m_size counts it and m_back is its end.               *)
KeepsItsElements ==
    intact => /\ Elements = ideal
              /\ size = Len(ideal)
              /\ front # Null => back = Last(Walk(front))

(* Whatever was done to the list, a walk along m_next from any link ends: no *)
(* loop over the elements runs for ever unless its body adds to the list.  *)
WalksEnd == \A l \in Link : IsInjective(Walk(l))

(* Even a broken list never counts fewer elements than can be reached, and so *)
(* m_size cannot wrap around below zero; and it is empty at both ends or at *)
(* neither, so that Append() and Prepend() never follow a null pointer.    *)
SizeCoversElements ==
    /\ size >= Len(Elements)
    /\ front = Null <=> back = Null

(* What holds of every list, broken or not: its fields have their types,   *)
(* walks along it end, and its size covers what they meet.                 *)
StaysWalkable == ListTypeOK /\ WalksEnd /\ SizeCoversElements
=============================================================================
