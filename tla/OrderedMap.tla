------------------------------- MODULE OrderedMap ------------------------------
(***************************************************************************)
(* What a Dictionary, a Map and a Set of tempearly promise: a collection   *)
(* with at most one entry for a hash, in the order in which the entries    *)
(* were first inserted.                                                    *)
(***************************************************************************)
EXTENDS Integers, SequencesExt

CONSTANTS Objects,       \* keys, values and elements
          Hash(_)        \* hash code of an object

VARIABLES contents,      \* for every table a sequence of [hash, key, value]
          kind           \* for every table what it is

Tables == DOMAIN kind

Init == contents = [t \in Tables |-> <<>>]

Entry(h, k, v) == [hash |-> h, key |-> k, value |-> v]

(* Where the entry with a hash is, or 0.                                   *)
Place(s, h) == LET at == {i \in DOMAIN s : s[i].hash = h} IN IF at = {} THEN 0 ELSE Min(at)

(* The names in a Dictionary stay; keys and elements are replaced.         *)
Put(k, s, e) ==
    LET p == Place(s, e.hash)
    IN  IF p = 0 THEN Append(s, e)
        ELSE [s EXCEPT ![p] = IF k = "dictionary" THEN [@ EXCEPT !.value = e.value] ELSE e]
Puts(k, s, u) ==
    LET after[n \in 0 .. Len(u)] == IF n = 0 THEN s ELSE Put(k, after[n - 1], u[n])
    IN  after
PutAll(k, s, u) == Puts(k, s, u)[Len(u)]

HashesOf(s) == {e.hash : e \in ToSet(s)}
Selected(s, hs) ==
    LET of[n \in 0 .. Len(s)] == IF n = 0 THEN <<>>
                                 ELSE IF s[n].hash \in hs THEN Append(of[n - 1], s[n]) ELSE of[n - 1]
    IN  of
Within(s, hs)  == Selected(s, hs)[Len(s)]
Without(s, hs) == Within(s, HashesOf(s) \ hs)
Turned(s) == [i \in DOMAIN s |-> Entry(Hash(s[i].value), s[i].value, s[i].key)]
KeysOf(s) == [i \in DOMAIN s |-> Entry(s[i].hash, s[i].key, s[i].key)]

(* One operation gives table t the contents new; c is what tables contain. *)
Operation(c, t, new) ==
    LET k == kind[t]
    IN  \/ new = <<>> \/ new = c[t]
        \/ \E o, v \in Objects : new = Put(k, c[t], Entry(Hash(o), o, v))
        \/ \E o \in Objects : new = Without(c[t], {Hash(o)})
        \/ \E u \in Tables : \/ new = PutAll(k, c[t], c[u])
                             \/ new = c[u]
                             \/ new = PutAll(k, <<>>, Turned(c[u]))
                             \/ new = KeysOf(c[u])
        \/ \E u, w \in Tables : \/ new = PutAll(k, c[u], c[w])
                                \/ new = Without(c[u], HashesOf(c[w]))
                                \/ new = Within(c[w], HashesOf(c[u]))

Next ==
    LET c == contents
        n == contents'
    IN  /\ \E t \in Tables : /\ Operation(c, t, n[t])
                            /\ \A u \in Tables \ {t} : n[u] = c[u]
        /\ UNCHANGED kind

Spec == Init /\ [][Next]_<<contents, kind>>
=============================================================================
