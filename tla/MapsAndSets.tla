------------------------------ MODULE MapsAndSets ------------------------------
(***************************************************************************)
(* Maps, sets and dictionaries at work: the native methods of Map and Set  *)
(* (api/map.cc, api/set.cc), the operations of Dictionary                  *)
(* (core/dictionary.h), and the loops over a map or a set between whose    *)
(* steps script code runs, which may change the table.                     *)
(*                                                                         *)
(* There are two such loops.  An iterator (MapIterator, SetIterator) holds *)
(* the entry it will deliver.  A walk (join(), as_json()) holds the entry  *)
(* whose conversion runs, and asks it for the next one afterwards; it      *)
(* marks the map as being inspected so as not to enter it again.           *)
(*                                                                         *)
(* Methods that make a new table (+, -, &, keys(), reverse(), copies) put  *)
(* it in the place of one that no loop is looking at.                      *)
(***************************************************************************)
EXTENDS HashTable, FiniteSets

CONSTANTS Objects,       \* keys, values and elements
          Values,        \* those that are values of maps
          Setups,        \* which tables and loops there may be
          Hash(_)        \* hash code of an object

ASSUME ObjectsAssumption == Values \subseteq Objects /\ \A o \in Objects : Hash(o) \in Int
ASSUME SetupsAssumption ==
    \A s \in Setups : s.kind \in [DOMAIN s.kind -> Kinds] /\ s.objects \subseteq Objects

VARIABLES table,         \* the tables
          walker,        \* the loops
          inspecting,    \* tables with FLAG_INSPECTING
          contents,      \* auxiliary: what the lists of the tables contain
          setup          \* which tables and loops there are: the kind of each
                         \* table, the number of entries it can construct and
                         \* the objects it is used with (bounds of the model),
                         \* and the loops

vars == <<table, walker, inspecting, contents, setup>>

kind    == setup.kind
Tables  == DOMAIN kind
Walkers == setup.loops

Off == [on |-> "none", kind |-> "none", at |-> Null, owed |-> {}]

Init ==
    /\ setup \in Setups
    /\ table = [t \in Tables |-> Empty(kind[t])]
    /\ walker = [w \in Walkers |-> Off]
    /\ inspecting = {}
    /\ contents = [t \in Tables |-> <<>>]

Watched(t) == \E w \in Walkers : walker[w].on = t

-----------------------------------------------------------------------------
(* OPERATIONS ON ONE TABLE *)

(* A loop is not owed what is no longer in its table.                      *)
Becomes(t, new) ==
    /\ Len(new.entry) <= setup.most[t]
    /\ table' = [table EXCEPT ![t] = new]
    /\ contents' = [contents EXCEPT ![t] = Items(new)]
    /\ walker' = [w \in Walkers |->
                    IF walker[w].on = t THEN [walker[w] EXCEPT !.owed = @ \cap ToSet(Entries(new))]
                                        ELSE walker[w]]
    /\ UNCHANGED <<inspecting, setup>>

(* Map#__setitem__(), Set#add() and Dictionary::Insert(). *)
SetItem(t) == \E k, v \in setup.objects :
                 /\ IF kind[t] = "set" THEN v = k ELSE v \in Values
                 /\ Becomes(t, Insert(table[t], Hash(k), k, v))

(* Map#pop(), Set#remove(), Set#discard() and Dictionary::Erase(). *)
PopItem(t) == \E k \in setup.objects : Becomes(t, Erase(table[t], Hash(k)))

(* Set#pop(). *)
set_pop(t) == /\ kind[t] = "set" /\ table[t].back # Null
              /\ Becomes(t, Erase(table[t], table[t].entry[table[t].back].hash))

ClearAll(t) == Becomes(t, Clear(table[t]))

(* Map#update(), a map itself included. *)
map_update(t) == \E u \in Tables : /\ kind[t] = "map" /\ kind[u] = "map"
                                   /\ Becomes(t, InsertAll(table[t], Items(table[u])))

-----------------------------------------------------------------------------
(* OPERATIONS THAT MAKE A TABLE *)

Made(t, new) == ~Watched(t) /\ Becomes(t, new)

Alike(t, ks) == \A u \in ks : kind[u] = kind[t]
Fresh(t) == Empty(kind[t])

(* Map#+, Set#+ and the copies of a Dictionary. *)
Sum(t)  == \E u, w \in Tables : /\ Alike(t, {u, w}) /\ kind[t] # "dictionary"
                                /\ Made(t, InsertAll(InsertAll(Fresh(t), Items(table[u])), Items(table[w])))
Copy(t) == \E u \in Tables \ {t} : /\ Alike(t, {u}) /\ kind[t] = "dictionary"
                                   /\ Made(t, InsertAll(Fresh(t), Items(table[u])))

set_sub(t) == \E u, w \in Tables :
                 /\ Alike(t, {u, w}) /\ kind[t] = "set"
                 /\ Made(t, RemoveAll(InsertAll(Fresh(t), Items(table[u])), Items(table[w])))
set_and(t) == \E u, w \in Tables : /\ Alike(t, {u, w}) /\ kind[t] = "set"
                                   /\ Made(t, InsertCommon(Fresh(t), Items(table[w]), table[u]))

(* Of the items of a map, its keys, and its values with the keys in turn.  *)
Keys(items)   == [i \in DOMAIN items |-> [items[i] EXCEPT !.value = items[i].key]]
Turned(items) == [i \in DOMAIN items |->
                    LET v == items[i].value IN [hash |-> Hash(v), key |-> v, value |-> items[i].key]]

map_keys(t)    == \E u \in Tables : /\ kind[t] = "set" /\ kind[u] = "map"
                                    /\ Made(t, InsertAll(Fresh(t), Keys(Items(table[u]))))
map_reverse(t) == \E u \in Tables : /\ Alike(t, {u}) /\ kind[t] = "map"
                                    /\ Made(t, InsertAll(Fresh(t), Turned(Items(table[u]))))

-----------------------------------------------------------------------------
(* LOOPS *)

Starts(w, t, k, at, owed) ==
    walker' = [walker EXCEPT ![w] = [on |-> t, kind |-> k, at |-> at, owed |-> owed]]

(* Map#__iter__() and Set#__iter__(); an empty table has another iterator. *)
Iter(w, t) ==
    /\ walker[w] = Off /\ kind[t] # "dictionary" /\ table[t].front # Null
    /\ Starts(w, t, "iterator", table[t].front, ToSet(Entries(table[t])))
    /\ UNCHANGED <<table, inspecting, contents, setup>>

(* An entry is delivered, and the next one is kept for the next time.      *)
Generate(w) ==
    /\ walker[w].kind = "iterator"
    /\ LET at == walker[w].at IN
       \/ at = Null /\ walker' = [walker EXCEPT ![w] = Off]
       \/ at # Null /\ walker' = [walker EXCEPT ![w].at = table[walker[w].on].entry[at].next,
                                                ![w].owed = @ \ {at}]
    /\ UNCHANGED <<table, inspecting, contents, setup>>

(* Map#join() and Map#as_json() convert the first entry; if the map is     *)
(* being inspected they return at once.                                    *)
Join(w, t) ==
    /\ walker[w] = Off /\ kind[t] = "map" /\ t \notin inspecting /\ table[t].front # Null
    /\ Starts(w, t, "walk", table[t].front, ToSet(Entries(table[t])) \ {table[t].front})
    /\ inspecting' = inspecting \cup {t}
    /\ UNCHANGED <<table, contents, setup>>

Ends(w) == /\ walker' = [walker EXCEPT ![w] = Off]
           /\ inspecting' = inspecting \ {walker[w].on}

(* The conversion returned: on with the next entry, if there is one.       *)
Converted(w) ==
    /\ walker[w].kind = "walk"
    /\ LET next == table[walker[w].on].entry[walker[w].at].next IN
       \/ next = Null /\ Ends(w)
       \/ next # Null /\ walker' = [walker EXCEPT ![w].at = next, ![w].owed = @ \ {next}]
                      /\ UNCHANGED inspecting
    /\ UNCHANGED <<table, contents, setup>>

(* Mutant: the flag stays when a conversion fails. *)
FailedFlagged(w) == /\ walker[w].kind = "walk" /\ walker' = [walker EXCEPT ![w] = Off]
                    /\ UNCHANGED <<table, inspecting, contents, setup>>

(* The conversion failed. *)
Failed(w) == walker[w].kind = "walk" /\ Ends(w) /\ UNCHANGED <<table, contents, setup>>

Next ==
    \/ \E t \in Tables : \/ SetItem(t) \/ PopItem(t) \/ set_pop(t) \/ ClearAll(t) \/ map_update(t)
                         \/ Sum(t) \/ Copy(t) \/ set_sub(t) \/ set_and(t) \/ map_keys(t)
                         \/ map_reverse(t)
    \/ \E w \in Walkers : \/ Generate(w) \/ Converted(w) \/ Failed(w)
                          \/ \E t \in Tables : Iter(w, t) \/ Join(w, t)

Spec == Init /\ [][Next]_vars

-----------------------------------------------------------------------------
(* PROPERTIES *)

(* Through buckets and pointers the tables are ordered maps: insertion     *)
(* keeps the place of a hash that is there, erasing keeps the order of     *)
(* the others, and lookups, sums and differences agree with the order.     *)
Ordered == INSTANCE OrderedMap
ImplementsOrderedMap == Ordered!Spec

(* A loop goes past no entry that was in the table when it began and still *)
(* is, whatever was erased in between, the entry it stands on included; and*)
(* the size of a set is the number of entries a new loop meets.            *)
NothingIsMissed ==
    /\ \A w \in Walkers :
          LET r == walker[w] IN
          r # Off => LET ahead == PathFrom(table[r.on], r.at)
                     IN  r.owed \subseteq ToSet(IF r.kind = "walk" THEN Tail(ahead) ELSE ahead)
    /\ \A t \in Tables : kind[t] = "set" => table[t].size = Len(Entries(table[t]))

(* A map is marked as being inspected exactly while one loop of join() or  *)
(* as_json() is inside, also after a conversion failed in the middle.      *)
FlagIsReleased ==
    \A t \in Tables :
        Cardinality({w \in Walkers : walker[w].on = t /\ walker[w].kind = "walk"})
            = IF t \in inspecting THEN 1 ELSE 0
=============================================================================
