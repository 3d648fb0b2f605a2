------------------------------- MODULE HashTable -------------------------------
(***************************************************************************)
(* The hash tables of tempearly: Dictionary (core/dictionary.h), MapObject *)
(* (api/map.cc) and SetObject (api/set.cc).  The three keep their entries  *)
(* in one way: a list in the order of insertion, linked in both directions,*)
(* and for every bucket a list linked by m_child, the newest entry first.  *)
(*                                                                         *)
(* An entry is known by its place in the order in which the entries of its *)
(* table were constructed, and 0 is the null pointer.  An entry that was   *)
(* erased stays where it is, for iterators may still point at it, and      *)
(* keeps its own pointers.                                                 *)
(***************************************************************************)
EXTENDS Integers, SequencesExt

CONSTANT BucketSize      \* m_bucket_size: 32, and kBucketSize: 8

ASSUME BucketSizeAssumption == BucketSize \in Nat \ {0}

Null == 0

(* Kinds of tables; a Dictionary does not count its entries. *)
Kinds == {"dictionary", "map", "set"}

Empty(kind) ==
    [kind   |-> kind,
     entry  |-> <<>>,
     bucket |-> [b \in 0 .. BucketSize - 1 |-> Null],
     front  |-> Null, back |-> Null, size |-> 0]

Bucket(hash) == hash % BucketSize

(* The entries that are met from entry e on when a pointer is followed; a  *)
(* cycle shows as a path that is longer than there are entries.            *)
Follow(pointer, e) ==
    LET path[n \in 0 .. Len(pointer) + 1] ==
            IF n = 0 THEN <<>>
            ELSE LET before == path[n - 1]
                     here   == IF before = <<>> THEN e ELSE pointer[Last(before)]
                 IN  IF here = Null THEN before ELSE Append(before, here)
    IN  path[Len(pointer) + 1]

NextOf(t)     == [e \in DOMAIN t.entry |-> t.entry[e].next]
ChildOf(t)    == [e \in DOMAIN t.entry |-> t.entry[e].child]
PathFrom(t, e) == Follow(NextOf(t), e)

(* The entries of the table in the order of the list.                      *)
Entries(t) == PathFrom(t, t.front)

(* Find() and Has(): the first entry of the bucket with this hash.         *)
Find(t, hash) ==
    LET chain == Follow(ChildOf(t), t.bucket[Bucket(hash)])
        hits  == {i \in DOMAIN chain : t.entry[chain[i]].hash = hash}
    IN  IF hits = {} THEN Null ELSE chain[Min(hits)]

(* A new entry goes to the end of the list and the head of its bucket.     *)
Link(t, hash, key, value) ==
    LET new == Len(t.entry) + 1
        linked == IF t.back = Null THEN t.entry ELSE [t.entry EXCEPT ![t.back].next = new]
    IN  [t EXCEPT !.entry  = Append(linked, [hash |-> hash, key |-> key, value |-> value,
                                             next |-> Null, prev |-> t.back,
                                             child |-> t.bucket[Bucket(hash)]]),
                  !.bucket[Bucket(hash)] = new,
                  !.front = IF t.back = Null THEN new ELSE @,
                  !.back  = new,
                  !.size  = IF t.kind = "dictionary" THEN 0 ELSE @ + 1]

(* Mutant: an entry that exists is not looked for. *)
InsertAnyway(t, hash, key, value) == Link(t, hash, key, value)

(* Insert() and Add().  Objects with the same hash are the same key; a     *)
(* Dictionary keeps the name it has, the others take the new object.       *)
Insert(t, hash, key, value) ==
    LET e == Find(t, hash)
    IN  IF e = Null THEN Link(t, hash, key, value)
        ELSE [t EXCEPT !.entry[e].value = value,
                       !.entry[e].key = IF t.kind = "dictionary" THEN @ ELSE key]

(* The entry leaves the list of its bucket ...                             *)
Unchain(t, e) ==
    LET b == Bucket(t.entry[e].hash)
    IN  IF t.bucket[b] = e THEN [t EXCEPT !.bucket[b] = t.entry[e].child]
        ELSE LET chain  == Follow(ChildOf(t), t.bucket[b])
                 before == CHOOSE p \in ToSet(chain) : t.entry[p].child = e
             IN  [t EXCEPT !.entry[before].child = t.entry[e].child]

(* Mutant: the entry that is erased forgets the next one. *)
UnlinkAndForget(t, e) ==
    LET n == t.entry[e].next
        p == t.entry[e].prev
        entry == [i \in DOMAIN t.entry |->
                    [t.entry[i] EXCEPT !.prev = IF i = n THEN p ELSE @,
                                       !.next = IF i = p THEN n ELSE IF i = e THEN Null ELSE @]]
    IN  [t EXCEPT !.entry = entry, !.front = IF p = Null THEN n ELSE @,
                                   !.back  = IF n = Null THEN p ELSE @]

(* ... and the list of the table.                                          *)
Unlink(t, e) ==
    LET n == t.entry[e].next
        p == t.entry[e].prev
        entry == [i \in DOMAIN t.entry |-> [t.entry[i] EXCEPT !.prev = IF i = n THEN p ELSE @,
                                                              !.next = IF i = p THEN n ELSE @]]
    IN  [t EXCEPT !.entry = entry, !.front = IF p = Null THEN n ELSE @,
                                   !.back  = IF n = Null THEN p ELSE @]

(* Erase() and Remove(): only a SetObject counts what it loses.            *)
Erase(t, hash) ==
    LET e == Find(t, hash)
    IN  IF e = Null THEN t
        ELSE [Unlink(Unchain(t, e), e) EXCEPT !.size = IF t.kind = "set" THEN @ - 1 ELSE @]

Clear(t) == [t EXCEPT !.bucket = Empty(t.kind).bucket,
                      !.front = Null, !.back = Null, !.size = 0]

(* What a loop over the entries of a table meets.                          *)
Items(t) == LET path == Entries(t)
            IN  [i \in DOMAIN path |-> LET e == t.entry[path[i]]
                                       IN  [hash |-> e.hash, key |-> e.key, value |-> e.value]]

(* The loops over the entries of a table nobody else changes: t after the  *)
(* first n items are inserted, inserted if u has them as well, or erased.  *)
Insertions(t, items) ==
    LET after[n \in 0 .. Len(items)] ==
            IF n = 0 THEN t
            ELSE Insert(after[n - 1], items[n].hash, items[n].key, items[n].value)
    IN  after
CommonInsertions(t, items, u) ==
    LET after[n \in 0 .. Len(items)] ==
            IF n = 0 THEN t
            ELSE IF Find(u, items[n].hash) = Null THEN after[n - 1]
            ELSE Insert(after[n - 1], items[n].hash, items[n].key, items[n].value)
    IN  after
Removals(t, items) ==
    LET after[n \in 0 .. Len(items)] == IF n = 0 THEN t ELSE Erase(after[n - 1], items[n].hash)
    IN  after

(* AddAll(), update(), the copies that + makes, keys(), reverse(), Assign()*)
(* and the copy constructors; & and - of sets.                             *)
InsertAll(t, items)       == Insertions(t, items)[Len(items)]
InsertCommon(t, items, u) == CommonInsertions(t, items, u)[Len(items)]
RemoveAll(t, items)       == Removals(t, items)[Len(items)]
=============================================================================
