------------------------- MODULE MCGarbageCollector -------------------------
(* Model values, symmetry and the part of the state space that the run of  *)
(* all properties explores.                                                *)
EXTENDS GarbageCollector, TLC, FiniteSetsExt

Symmetry == Permutations(Slot) \cup Permutations(Handle)

MembersInUse == MapThenSumSet(LAMBDA s : Cardinality(children[s]) + Cardinality(blind[s]), Slot)
References   == MapThenSumSet(LAMBDA s : leaked[s], Slot)

(* Two members in the whole heap; one lost reference, and this not together *)
(* with handles that are members or with members Mark() passes over.       *)
Few == /\ MembersInUse <= 2
       /\ \/ References = 0
          \/ References = 1 /\ \A s \in Slot : blind[s] = {} /\ \A h \in Handle : owner[h] = Null

(* States with a dangling handle are checked, but what the program does    *)
(* with it then is not followed.                                           *)
NotAstray == \A h \in Handle : handle[h] # Null => handle[h] \in Allocated

Explored == Few /\ NotAstray
=============================================================================
