----------------------------- MODULE HandleHeap -----------------------------
(***************************************************************************)
(* What the memory manager of tempearly promises to the rest of the        *)
(* interpreter, without generations, counters, marks or members: a set of  *)
(* live objects and a set of handles (src/memory.h, class Handle).  A      *)
(* handle is null or points at a live object, and the only objects that    *)
(* may disappear are those no handle points at.  A collection may break    *)
(* the heap when it deletes something that is still in use elsewhere;      *)
(* after that nothing is promised.                                         *)
(***************************************************************************)
CONSTANTS Slot, Handle, Null

VARIABLES live,    \* the objects that have been allocated and not deleted
          handle,  \* what every handle points at
          broken   \* has a collection deleted what is still in use?

vars == <<live, handle, broken>>

Targets(h) == {h[x] : x \in Handle} \ {Null}

Init == /\ live = {}
        /\ handle = [h \in Handle |-> Null]
        /\ broken = FALSE

(* operator new, followed by the construction of at most one handle. *)
Allocate == \E s \in Slot \ live :
                /\ live' = live \cup {s}
                /\ \/ UNCHANGED handle
                   \/ \E h \in Handle : handle' = [handle EXCEPT ![h] = s]

(* A handle is assigned, moved from or destroyed. *)
Assign == /\ handle' \in [Handle -> live \cup {Null}]
          /\ UNCHANGED live

(* A collection: some objects no handle points at go away, and the handles *)
(* that were members of those objects go away with them.                   *)
Collect == \E dead \in SUBSET (live \ Targets(handle)) :
               /\ live' = live \ dead
               /\ \E gone \in SUBSET Handle :
                      handle' = [h \in Handle |->
                                    IF h \in gone THEN Null ELSE handle[h]]

(* Even the collection that breaks the heap leaves handles their targets.  *)
Keeps == /\ ~broken
         /\ \/ (Allocate \/ Assign) /\ ~broken'
            \/ Collect /\ broken' \in BOOLEAN

(* Pointers that dangle may be taken for handles.                          *)
Astray == broken /\ broken'

Next == Keeps \/ Astray

Spec == Init /\ [][Next]_vars
=============================================================================
