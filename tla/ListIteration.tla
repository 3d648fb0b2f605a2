---------------------------- MODULE ListIteration ----------------------------
(***************************************************************************)
(* Iterators over a list that goes on changing (src/src/api/iterator.cc,   *)
(* ListIterator and the loop of List#remove() in src/src/api/list.cc, the  *)
(* empty iterator of src/src/interpreter.cc).                              *)
(*                                                                         *)
(* Everything here runs in one thread, but each call of a script is a step *)
(* of its own: between two calls of next() the body of a loop may do to    *)
(* the list whatever it likes, and List#remove() calls __eq__() of the     *)
(* elements, which may be defined in the script, between two of its steps. *)
(* One list and one search in it are modelled; while it is searched the    *)
(* list is not replaced by another one.                                    *)
(***************************************************************************)
EXTENDS ListObject

CONSTANTS
    Handles,       \* variables of the script that hold an iterator
    EmptyIterator, \* Interpreter::m_empty_iterator, shared by all of them
    NoIterator,    \* a variable without iterator
    Feeds,         \* what scripts pass to Iterator#feed()
    MaxPushback    \* how many objects may wait in an iterator

ASSUME IteratorsAssumption ==
    /\ EmptyIterator \notin Handles
    /\ NoIterator \notin Handles \cup {EmptyIterator}
    /\ Feeds \subseteq Seq(Object)
    /\ MaxPushback \in Nat

VARIABLES
    iterator, \* for every handle: itself (its own ListIterator) or one of
              \* EmptyIterator and NoIterator
    cursor,   \* ListIterator::m_link of every handle's own iterator
    pushback, \* IteratorObject::m_pushback
    search,   \* link and index of the loop in List#remove()
    fed,      \* auxiliary: what was fed to the iterator and has to come first
    expected, \* auxiliary: the elements it has to deliver then
    quiet,    \* auxiliary: the list is what it was when iteration began
    seen,     \* auxiliary: the links an iterator went through
    stable    \* auxiliary: no element moved since the search began

iteratorVars == <<iterator, cursor, pushback, fed, expected, quiet, seen>>
searchVars == <<search, stable>>
vars == <<listVars, iteratorVars, searchVars>>

NoSearch == [link |-> Null, index |-> 0]

(* What an iterator will deliver if nothing happens to it or to the list.  *)
Upcoming(h) ==
    Reverse(pushback[iterator[h]]) \o
    (IF iterator[h] = h THEN Values(Walk(cursor[h])) ELSE <<>>)

-----------------------------------------------------------------------------
(* Iterators *)

(* List#__iter__()                                                         *)
Iterate(h) ==
    /\ \/ /\ front = Null
          /\ iterator' = [iterator EXCEPT ![h] = EmptyIterator]
          /\ cursor' = [cursor EXCEPT ![h] = Null]
          /\ pushback' = [pushback EXCEPT ![h] = <<>>]
       \/ /\ front # Null
          /\ iterator' = [iterator EXCEPT ![h] = h]
          /\ cursor' = [cursor EXCEPT ![h] = front]
          /\ pushback' = [pushback EXCEPT ![h] = <<>>]
    /\ fed' = [fed EXCEPT ![h] = <<>>]
    /\ expected' = [expected EXCEPT ![h] = Elements]
    /\ quiet' = [quiet EXCEPT ![h] = TRUE]
    /\ seen' = [seen EXCEPT ![h] = {}]
    /\ UNCHANGED <<listVars, searchVars>>

(* Mutant: an iterator does not leave the last link.                       *)
GenerateStaying(h) ==
    /\ iterator[h] = h
    /\ cursor[h] # Null
    /\ cursor' = [cursor EXCEPT ![h] = IF next[@] = Null THEN @ ELSE next[@]]
    /\ seen' = [seen EXCEPT ![h] = @ \cup {cursor[h]}]

(* ListIterator::Generate() with a link left; otherwise StopIteration is   *)
(* thrown and nothing changes, as in EmptyIterator::Generate().            *)
Generate(h) ==
    /\ iterator[h] = h
    /\ cursor[h] # Null
    /\ cursor' = [cursor EXCEPT ![h] = next[cursor[h]]]
    /\ seen' = [seen EXCEPT ![h] = @ \cup {cursor[h]}]

(* The promise is kept by one object: one of those that were fed, if there *)
(* are any, and else the next element.                                     *)
Without(s, object) ==
    LET places == {i \in DOMAIN s : s[i] = object}
    IN  IF places = {} THEN s ELSE RemoveAt(s, Max(places))
Keeps(h, object) ==
    /\ fed' = [fed EXCEPT ![h] = Without(@, object)]
    /\ expected' = [expected EXCEPT ![h] = IF fed[h] = <<>> /\ @ # <<>> THEN Tail(@) ELSE @]

(* IteratorObject::Next()                                                  *)
Next(h) ==
    /\ iterator[h] # NoIterator
    /\ \/ /\ pushback[iterator[h]] = <<>>
          /\ Generate(h)
          /\ Keeps(h, value[cursor[h]])
          /\ UNCHANGED pushback
       \/ /\ pushback[iterator[h]] # <<>>
          /\ pushback' = [pushback EXCEPT ![iterator[h]] = Front(@)]
          /\ Keeps(h, Last(pushback[iterator[h]]))
          /\ UNCHANGED <<cursor, seen>>
    /\ UNCHANGED <<listVars, searchVars, iterator, quiet>>

(* Mutant: what was peeked is not pushed back. *)
PeekDropping(h) ==
    /\ iterator[h] # NoIterator
    /\ pushback[iterator[h]] = <<>>
    /\ Generate(h)
    /\ UNCHANGED <<listVars, searchVars, iterator, fed, expected, quiet, pushback>>

(* Both versions of IteratorObject::Peek(), that is Iterator#peek() and    *)
(* Iterator#__bool__(); with something pushed back they change nothing.    *)
Peek(h) ==
    /\ iterator[h] # NoIterator
    /\ pushback[iterator[h]] = <<>>
    /\ Generate(h)
    /\ pushback' = [pushback EXCEPT ![h] = <<value[cursor[h]]>>]
    /\ UNCHANGED <<listVars, searchVars, iterator, fed, expected, quiet>>

(* Iterator#feed(object...)                                                *)
Feed(h, objects) ==
    /\ iterator[h] # NoIterator
    /\ Len(pushback[iterator[h]]) + Len(objects) <= MaxPushback
    /\ pushback' = [pushback EXCEPT ![iterator[h]] = @ \o objects]
    /\ fed' = [fed EXCEPT ![h] = IF quiet[h] THEN @ \o objects ELSE @]
    /\ UNCHANGED <<listVars, searchVars, iterator, cursor, expected, quiet, seen>>

-----------------------------------------------------------------------------
(* The search of List#remove() *)

BeginRemove ==
    /\ search = NoSearch
    /\ front # Null
    /\ search' = [link |-> front, index |-> 0]
    /\ UNCHANGED <<listVars, iteratorVars, stable>>

(* Mutant: the index is not counted.                                       *)
DiffersUncounted ==
    /\ search # NoSearch
    /\ search' = IF next[search.link] = Null THEN NoSearch
                 ELSE [link |-> next[search.link], index |-> search.index]
    /\ stable' = (stable \/ search' = NoSearch)
    /\ UNCHANGED <<listVars, iteratorVars>>

(* The element is not equal to the needle: on to the next, or ValueError.  *)
Differs ==
    /\ search # NoSearch
    /\ search' = IF next[search.link] = Null THEN NoSearch
                 ELSE [link |-> next[search.link], index |-> search.index + 1]
    /\ stable' = (stable \/ search' = NoSearch)
    /\ UNCHANGED <<listVars, iteratorVars>>

(* __eq__() throws: the search ends.                                       *)
Throws ==
    /\ search # NoSearch
    /\ search' = NoSearch
    /\ stable' = TRUE
    /\ UNCHANGED <<listVars, iteratorVars>>

(* The list changed: no iterator can be held to what it promised.          *)
Disturbed ==
    /\ fed' = [h \in Handles |-> <<>>]
    /\ expected' = [h \in Handles |-> <<>>]
    /\ quiet' = [h \in Handles |-> FALSE]
    /\ UNCHANGED <<iterator, cursor, pushback, seen>>

(* The element is equal: what is erased is the element at the index that was *)
(* counted, if there is one.                                               *)
Equal ==
    /\ search # NoSearch
    /\ search' = NoSearch
    /\ stable' = TRUE
    /\ \/ Erase(search.index) /\ Disturbed
       \/ At(search.index) = Null /\ UNCHANGED <<listVars, iteratorVars>>

-----------------------------------------------------------------------------
(* The other calls *)

(* Changes behind which an index still means the same element.             *)
Grow ==
    /\ \/ AppendValue
       \/ \E count \in 1 .. MaxVector : AppendVector(count)
       \/ \E index \in Indexes, object \in Others : SetItem(index, object)
    /\ Disturbed
    /\ UNCHANGED searchVars

Move ==
    /\ \/ \E count \in 1 .. MaxVector : PrependVector(count)
       \/ \E index \in Indexes : Insert(index) \/ PopAt(index)
       \/ PopLast
       \/ Clear
       \/ \E count \in 0 .. MaxVector : Initialize(count)
    /\ Disturbed
    /\ stable' = (search = NoSearch)
    /\ UNCHANGED search

Replace ==
    /\ search = NoSearch
    /\ \/ \E count \in 0 .. MaxVector : Add(count)
       \/ \E times \in {0, 2} : Mul(times)
    /\ Disturbed
    /\ UNCHANGED searchVars

Init ==
    /\ ListInit
    /\ iterator = [h \in Handles |-> NoIterator]
    /\ cursor = [h \in Handles |-> Null]
    /\ pushback = [i \in Handles \cup {EmptyIterator} |-> <<>>]
    /\ fed = [h \in Handles |-> <<>>]
    /\ expected = [h \in Handles |-> <<>>]
    /\ quiet = [h \in Handles |-> FALSE]
    /\ seen = [h \in Handles |-> {}]
    /\ search = NoSearch
    /\ stable = TRUE

Step ==
    \/ Grow \/ Move \/ Replace
    \/ BeginRemove \/ Differs \/ Throws \/ Equal
    \/ \E h \in Handles :
          \/ Iterate(h) \/ Next(h) \/ Peek(h)
          \/ \E objects \in Feeds : Feed(h, objects)

Spec == Init /\ [][Step]_vars

-----------------------------------------------------------------------------
(* Properties *)

TypeOK ==
    /\ ListTypeOK
    /\ iterator \in [Handles -> Handles \cup {EmptyIterator, NoIterator}]
    /\ cursor \in [Handles -> Pointer]
    /\ \A i \in DOMAIN pushback : pushback[i] \in Seq(Object)
    /\ search \in [link : Pointer, index : 0 .. MaxLinks]
    /\ seen \in [Handles -> SUBSET Link]

(* As long as the list is left alone, an iterator delivers each of its     *)
(* elements once and in order, peeking loses none of them, and whatever is *)
(* fed to it comes first, each object once.  In which order is left open:  *)
(* the documentation of Iterator#feed() says "Last In, Last Out", the code *)
(* delivers the last one first.  The iterator that all empty collections   *)
(* share promises nothing: what one script feeds to it the next loop over  *)
(* something empty receives.                                               *)
Rearranged(s) == {[i \in DOMAIN s |-> s[p[i]]] : p \in Bijection(DOMAIN s, DOMAIN s)}
DeliversTheList ==
    \A h \in Handles : quiet[h] /\ iterator[h] = h =>
        \E first \in Rearranged(fed[h]) : Upcoming(h) = first \o expected[h]

(* Whatever is done to the list while it is iterated over, an iterator never *)
(* comes back to a link it went through: elements are not delivered twice. *)
(* (The state has its type, too.)                                          *)
NeverTwice ==
    /\ TypeOK
    /\ \A h \in Handles : ToSet(Walk(cursor[h])) \cap seen[h] = {}

(* The element List#remove() erases is the one it found equal, unless the  *)
(* comparison itself moved elements of the list.                           *)
RemovesWhatItFound ==
    search # NoSearch /\ stable => At(search.index) = search.link
=============================================================================
