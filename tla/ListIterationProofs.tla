-------------------------- MODULE ListIterationProofs --------------------------
(***************************************************************************)
(* Proofs about ListObject and ListIteration, for any number of links,     *)
(* objects and iterators: the links of a list never form a cycle, what an  *)
(* intact list contains, and what iterators and remove() make of a list    *)
(* that changes under them.                                                *)
(***************************************************************************)
EXTENDS ListIteration, FiniteSetTheorems, SequenceTheorems,
        NaturalsInduction, WellFoundedInduction, TLAPS

-----------------------------------------------------------------------------
(* SEGMENTS OF A LIST *)

(* The links s[1] .. s[n] follow one another from p on, then comes q.      *)
Segment(nxt, p, q, n, s) ==
    /\ p = IF n = 0 THEN q ELSE s[1]
    /\ \A i \in 1 .. n : nxt[s[i]] = IF i = n THEN q ELSE s[i + 1]

Joined(s, n, t, m) == [i \in 1 .. n + m |-> IF i <= n THEN s[i] ELSE t[i - n]]
Rest(s, n, k)      == [i \in 1 .. n - k |-> s[k + i]]
Row(c, count)      == [i \in 1 .. count |-> c + i]
Only(s, k)         == [i \in 1 .. k |-> s[i]]
After(s, n, k, q)  == IF k = n THEN q ELSE s[k + 1]

LEMMA LinkIsNotNull == \A l \in Link : l # Null
  BY DEF Link, Null

LEMMA SegmentsJoin ==
    ASSUME NEW nxt, NEW p, NEW q, NEW r, NEW n \in Nat, NEW m \in Nat,
           NEW s \in [1 .. n -> Link], NEW t \in [1 .. m -> Link],
           Segment(nxt, p, q, n, s), Segment(nxt, q, r, m, t)
    PROVE  /\ Joined(s, n, t, m) \in [1 .. n + m -> Link]
           /\ Segment(nxt, p, r, n + m, Joined(s, n, t, m))
<1> DEFINE u == Joined(s, n, t, m)
<1>1. u \in [1 .. n + m -> Link]
  <2>1. \A i \in 1 .. n + m : i <= n => i \in 1 .. n
    OBVIOUS
  <2>2. \A i \in 1 .. n + m : ~(i <= n) => i - n \in 1 .. m
    OBVIOUS
  <2> QED
    BY <2>1, <2>2 DEF Joined
<1>2. /\ \A i \in 1 .. n : u[i] = s[i]
      /\ \A i \in 1 .. m : u[n + i] = t[i]
  <2>1. \A i \in 1 .. n : i \in 1 .. n + m /\ i <= n
    OBVIOUS
  <2>2. \A i \in 1 .. m : n + i \in 1 .. n + m /\ ~(n + i <= n) /\ (n + i) - n = i
    OBVIOUS
  <2> QED
    BY <2>1, <2>2 DEF Joined
<1> HIDE DEF u
<1>3. p = IF n + m = 0 THEN r ELSE u[1]
  <2>1. CASE n = 0
    BY <1>2, <2>1 DEF Segment
  <2>2. CASE n # 0
    BY <1>2, <2>2 DEF Segment
  <2> QED
    BY <2>1, <2>2
<1>4. ASSUME NEW i \in 1 .. n + m
      PROVE  nxt[u[i]] = IF i = n + m THEN r ELSE u[i + 1]
  <2>1. CASE i < n
    <3>1. i \in 1 .. n /\ i + 1 \in 1 .. n /\ i # n /\ i # n + m
      BY <2>1
    <3> QED
      BY <1>2, <3>1 DEF Segment
  <2>2. CASE i = n
    <3>1. i \in 1 .. n /\ nxt[u[i]] = q
      BY <1>2, <2>2 DEF Segment
    <3>2. CASE m = 0
      BY <2>2, <3>1, <3>2 DEF Segment
    <3>3. CASE m # 0
      <4>1. 1 \in 1 .. m /\ i # n + m
        BY <2>2, <3>3
      <4>2. u[i + 1] = t[1] /\ q = t[1]
        BY <1>2, <2>2, <3>3, <4>1 DEF Segment
      <4> QED
        BY <3>1, <4>1, <4>2
    <3> QED
      BY <3>2, <3>3
  <2>3. CASE i > n
    <3> DEFINE j == i - n
    <3>1. j \in 1 .. m /\ i = n + j /\ j \in Int
      BY <2>3
    <3> HIDE DEF j
    <3>2. nxt[t[j]] = IF j = m THEN r ELSE t[j + 1]
      BY <3>1 DEF Segment
    <3>3. u[i] = t[j]
      BY <1>2, <3>1
    <3>4. CASE j = m
      BY <3>1, <3>2, <3>3, <3>4
    <3>5. CASE j # m
      <4>1. j + 1 \in 1 .. m /\ i + 1 = n + (j + 1) /\ i # n + m
        BY <3>1, <3>5
      <4> QED
        BY <1>2, <3>2, <3>3, <3>5, <4>1
    <3> QED
      BY <3>4, <3>5
  <2> QED
    BY <2>1, <2>2, <2>3
<1> QED
  BY <1>1, <1>3, <1>4 DEF Segment, u

(* The first k links, and those behind them.                               *)
LEMMA SegmentSplits ==
    ASSUME NEW nxt, NEW p, NEW r, NEW n \in Nat, NEW s \in [1 .. n -> Link], NEW k \in 0 .. n,
           Segment(nxt, p, r, n, s)
    PROVE  /\ Only(s, k) \in [1 .. k -> Link] /\ Rest(s, n, k) \in [1 .. n - k -> Link]
           /\ Segment(nxt, p, After(s, n, k, r), k, Only(s, k))
           /\ Segment(nxt, After(s, n, k, r), r, n - k, Rest(s, n, k))
<1>1. k \in Nat /\ n - k \in Nat /\ \A i \in 1 .. k : i \in 1 .. n
  OBVIOUS
<1>2. \A i \in 1 .. n - k : k + i \in 1 .. n
  OBVIOUS
<1>3. Only(s, k) \in [1 .. k -> Link] /\ Rest(s, n, k) \in [1 .. n - k -> Link]
  BY <1>1, <1>2 DEF Only, Rest
<1>4. Segment(nxt, p, After(s, n, k, r), k, Only(s, k))
  <2> DEFINE u == Only(s, k)
  <2>1. \A i \in 1 .. k : u[i] = s[i]
    BY <1>1 DEF Only
  <2> HIDE DEF u
  <2>2. p = IF k = 0 THEN After(s, n, k, r) ELSE u[1]
    <3>1. k # 0 => 1 \in 1 .. k /\ n # 0
      OBVIOUS
    <3>2. CASE k = 0
      BY <3>2 DEF Segment, After
    <3>3. CASE k # 0
      BY <2>1, <3>1, <3>3 DEF Segment
    <3> QED
      BY <3>2, <3>3
  <2>3. ASSUME NEW i \in 1 .. k
        PROVE  nxt[u[i]] = IF i = k THEN After(s, n, k, r) ELSE u[i + 1]
    <3>1. i \in 1 .. n /\ u[i] = s[i] /\ (i # k => i + 1 \in 1 .. k /\ i # n)
      BY <1>1, <2>1
    <3>2. nxt[s[i]] = IF i = n THEN r ELSE s[i + 1]
      BY <3>1 DEF Segment
    <3>3. CASE i = k
      BY <3>1, <3>2, <3>3 DEF After
    <3>4. CASE i # k
      BY <2>1, <3>1, <3>2, <3>4
    <3> QED
      BY <3>3, <3>4
  <2> QED
    BY <2>2, <2>3 DEF Segment, u
<1>5. Segment(nxt, After(s, n, k, r), r, n - k, Rest(s, n, k))
  <2> DEFINE m == n - k
             u == Rest(s, n, k)
  <2>1. m \in Nat /\ \A i \in 1 .. m : u[i] = s[k + i] /\ k + i \in 1 .. n /\ (i = m <=> k + i = n)
    BY <1>1, <1>2 DEF Rest
  <2>2. m = 0 <=> k = n
    OBVIOUS
  <2> HIDE DEF m, u
  <2>3. After(s, n, k, r) = IF m = 0 THEN r ELSE u[1]
    <3>1. m # 0 => 1 \in 1 .. m
      BY <2>1
    <3> QED
      BY <2>1, <2>2, <3>1 DEF After
  <2>4. ASSUME NEW i \in 1 .. m
        PROVE  nxt[u[i]] = IF i = m THEN r ELSE u[i + 1]
    <3>1. nxt[s[k + i]] = IF k + i = n THEN r ELSE s[(k + i) + 1]
      BY <2>1 DEF Segment
    <3>2. i # m => i + 1 \in 1 .. m /\ k + (i + 1) = (k + i) + 1
      BY <2>1
    <3> QED
      BY <2>1, <3>1, <3>2
  <2> QED
    BY <2>3, <2>4 DEF Segment, m, u
<1> QED
  BY <1>3, <1>4, <1>5

(* What happens to other links does not matter, and the last one may get   *)
(* another link behind it.                                                 *)
SameNext(nxt, nxt2, n, s) == \A i \in 1 .. n : nxt2[s[i]] = nxt[s[i]]

LEMMA SegmentElsewhere ==
    ASSUME NEW nxt, NEW nxt2, NEW p, NEW q, NEW n \in Nat, NEW s \in [1 .. n -> Link],
           Segment(nxt, p, q, n, s), SameNext(nxt, nxt2, n, s)
    PROVE  Segment(nxt2, p, q, n, s)
  BY DEF Segment, SameNext

LEMMA SegmentRelinked ==
    ASSUME NEW nxt, NEW nxt2, NEW p, NEW q, NEW r, NEW n \in Nat, NEW s \in [1 .. n -> Link],
           Segment(nxt, p, q, n, s), SameNext(nxt, nxt2, n - 1, s), n # 0, nxt2[s[n]] = r
    PROVE  Segment(nxt2, p, r, n, s)
<1>1. \A i \in 1 .. n : i # n => i \in 1 .. n - 1
  OBVIOUS
<1> QED
  BY <1>1 DEF Segment, SameNext

(* New links are put in a row.                                             *)
LEMMA RowIsSegment ==
    ASSUME NEW nxt, NEW c \in Nat, NEW count \in Nat \ {0}, NEW q, c + count <= MaxLinks,
           \A l \in c + 1 .. c + count - 1 : nxt[l] = l + 1, nxt[c + count] = q
    PROVE  /\ Row(c, count) \in [1 .. count -> Link]
           /\ Segment(nxt, c + 1, q, count, Row(c, count))
<1>1. MaxLinks \in Nat
  BY BoundsAssumption
<1>2. \A i \in 1 .. count : /\ c + i \in Link /\ Row(c, count)[i] = c + i
                            /\ i # count => c + i \in c + 1 .. c + count - 1 /\ i + 1 \in 1 .. count
  BY <1>1 DEF Row, Link
<1>3. 1 \in 1 .. count
  OBVIOUS
<1>4. Row(c, count) \in [1 .. count -> Link]
  BY <1>2 DEF Row
<1> DEFINE u == Row(c, count)
<1> HIDE DEF u
<1>5. ASSUME NEW i \in 1 .. count
      PROVE  nxt[u[i]] = IF i = count THEN q ELSE u[i + 1]
  <2>1. CASE i = count
    BY <1>2, <2>1 DEF u
  <2>2. CASE i # count
    <3>1. nxt[c + i] = (c + i) + 1 /\ u[i + 1] = c + (i + 1) /\ c + (i + 1) = (c + i) + 1
      BY <1>2, <2>2 DEF u
    <3> QED
      BY <1>2, <2>2, <3>1 DEF u
  <2> QED
    BY <2>1, <2>2
<1>6. c + 1 = IF count = 0 THEN q ELSE u[1]
  BY <1>2, <1>3 DEF u
<1> QED
  BY <1>4, <1>5, <1>6 DEF Segment, u
-----------------------------------------------------------------------------
(* THE ORDER OF LINKS *)

(* A set of natural numbers that is not empty has a least element.         *)
LEMMA LeastExists ==
    ASSUME NEW T \in SUBSET Nat, T # {}
    PROVE  \E x \in T : \A y \in T : x <= y
<1>1. PICK x \in T : \A y \in T : ~(<<y, x>> \in OpToRel(<, Nat))
  BY NatLessThanWellFounded, WFMin
<1>2. \A y \in T : y < x => <<y, x>> \in OpToRel(<, Nat)
  BY DEF OpToRel
<1>3. \A y \in T : ~(y < x) /\ y \in Nat /\ x \in Nat
  BY <1>1, <1>2
<1> QED
  BY <1>3

(* Every link has a place, behind that of its previous link and before     *)
(* that of its next one.  In a broken list places are not numbers of       *)
(* elements: a link that was cut off keeps its place.                      *)
Ranked(nxt, prv, pos, B) ==
    /\ pos \in [Link -> Int] /\ B \in Nat
    /\ \A l \in Link : -B <= pos[l] /\ pos[l] <= B
    /\ \A l \in Link : nxt[l] \in Link => pos[l] < pos[nxt[l]]
    /\ \A l \in Link : prv[l] \in Link => pos[prv[l]] < pos[l]

(* The links of a segment are different and in order.                      *)
Rising(pos, n, s) == \A i, j \in 1 .. n : i < j => pos[s[i]] < pos[s[j]]
Differ(s, n)      == \A i, j \in 1 .. n : s[i] = s[j] => i = j

LEMMA SegmentRises ==
    ASSUME NEW nxt, NEW prv, NEW pos, NEW B, Ranked(nxt, prv, pos, B),
           NEW p, NEW q, NEW n \in Nat, NEW s \in [1 .. n -> Link], Segment(nxt, p, q, n, s)
    PROVE  Rising(pos, n, s) /\ Differ(s, n)
<1>1. \A i \in 1 .. n : pos[s[i]] \in Int
  BY DEF Ranked
<1>2. ASSUME NEW i \in 1 .. n, i # n
      PROVE  i + 1 \in 1 .. n /\ pos[s[i]] < pos[s[i + 1]]
  <2>1. i + 1 \in 1 .. n /\ nxt[s[i]] = s[i + 1]
    BY <1>2 DEF Segment
  <2>2. nxt[s[i]] \in Link /\ s[i] \in Link
    BY <2>1
  <2>3. pos[s[i]] < pos[nxt[s[i]]]
    BY <2>2 DEF Ranked
  <2> QED
    BY <2>1, <2>3
<1> DEFINE bad == {j \in 1 .. n : \E i \in 1 .. n : i < j /\ ~(pos[s[i]] < pos[s[j]])}
<1>3. bad = {}
  <2> SUFFICES ASSUME bad # {}  PROVE FALSE
    OBVIOUS
  <2>1. PICK j \in bad : \A k \in bad : j <= k
    <3>1. bad \in SUBSET Nat
      OBVIOUS
    <3> QED
      BY <3>1, LeastExists
  <2>2. PICK i \in 1 .. n : i < j /\ ~(pos[s[i]] < pos[s[j]])
    OBVIOUS
  <2>3. j - 1 \in 1 .. n /\ j - 1 # n /\ (j - 1) + 1 = j /\ i <= j - 1 /\ j - 1 \notin bad
    BY <2>1, <2>2
  <2>4. pos[s[j - 1]] < pos[s[j]]
    BY <1>2, <2>3
  <2>5. i = j - 1 \/ pos[s[i]] < pos[s[j - 1]]
    BY <2>3
  <2> QED
    BY <1>1, <2>2, <2>3, <2>4, <2>5
<1>4. Rising(pos, n, s)
  BY <1>3 DEF Rising
<1>5. ASSUME NEW i \in 1 .. n, NEW j \in 1 .. n, s[i] = s[j]  PROVE i = j
  <2>1. ~(i < j) /\ ~(j < i)
    BY <1>1, <1>4, <1>5 DEF Rising
  <2> QED
    BY <2>1
<1> QED
  BY <1>4, <1>5 DEF Differ

(* From every link a chain of links leads to a null pointer.               *)
LEMMA ChainExists ==
    ASSUME NEW nxt \in [Link -> Pointer], NEW prv, NEW pos, NEW B, Ranked(nxt, prv, pos, B),
           NEW p \in Pointer
    PROVE  \E n \in Nat : \E s \in [1 .. n -> Link] : Segment(nxt, p, Null, n, s)
<1> DEFINE Ends(x) == \E n \in Nat : \E s \in [1 .. n -> Link] : Segment(nxt, x, Null, n, s)
           bad == {l \in Link : ~Ends(l)}
<1>1. Ends(Null)
  <2>1. [i \in 1 .. 0 |-> i] \in [1 .. 0 -> Link] /\ Segment(nxt, Null, Null, 0, [i \in 1 .. 0 |-> i])
    BY DEF Segment
  <2> QED
    BY <2>1
<1>2. ASSUME NEW l \in Link, Ends(nxt[l])  PROVE Ends(l)
  <2>1. PICK n \in Nat : \E s \in [1 .. n -> Link] : Segment(nxt, nxt[l], Null, n, s)
    BY <1>2
  <2>2. PICK s \in [1 .. n -> Link] : Segment(nxt, nxt[l], Null, n, s)
    BY <2>1
  <2> DEFINE q == nxt[l]
             t == [i \in 1 .. 1 |-> l]
  <2>3. t \in [1 .. 1 -> Link] /\ Segment(nxt, l, q, 1, t)
    BY DEF Segment
  <2>4. Segment(nxt, q, Null, n, s)
    BY <2>2
  <2> HIDE DEF q, t
  <2>5. /\ Joined(t, 1, s, n) \in [1 .. 1 + n -> Link]
        /\ Segment(nxt, l, Null, 1 + n, Joined(t, 1, s, n))
    BY <2>3, <2>4, SegmentsJoin
  <2> QED
    BY <2>5
<1>3. bad = {}
  <2> SUFFICES ASSUME bad # {}  PROVE FALSE
    OBVIOUS
  <2> DEFINE left(l) == B - pos[l]
             T == {left(l) : l \in bad}
  <2>1. B \in Nat /\ \A l \in Link : pos[l] \in Int /\ pos[l] <= B
    BY DEF Ranked
  <2>2. T \in SUBSET Nat /\ T # {}
    BY <2>1
  <2>3. PICK x \in T : \A y \in T : x <= y
    BY <2>2, LeastExists
  <2>4. PICK l \in bad : x = left(l)
    OBVIOUS
  <2>5. ASSUME nxt[l] \in Link  PROVE nxt[l] \notin bad
    <3>1. pos[l] < pos[nxt[l]]
      BY <2>5 DEF Ranked
    <3>2. nxt[l] \in bad => left(nxt[l]) \in T
      OBVIOUS
    <3>3. left(nxt[l]) < left(l) /\ left(nxt[l]) \in Int /\ left(l) \in Int
      BY <2>1, <2>5, <3>1
    <3> HIDE DEF left
    <3>4. left(nxt[l]) \in T => left(l) <= left(nxt[l])
      BY <2>3, <2>4
    <3> QED
      BY <3>2, <3>3, <3>4
  <2>6. Ends(nxt[l])
    BY <1>1, <2>5 DEF Pointer
  <2> QED
    BY <1>2, <2>6
<1> QED
  BY <1>1, <1>3 DEF Pointer

(* It has no more links than there are.                                    *)
LEMMA ChainIsShort ==
    ASSUME NEW n \in Nat, NEW s \in [1 .. n -> Link], Differ(s, n)
    PROVE  n <= MaxLinks
<1>1. MaxLinks \in Nat
  BY BoundsAssumption
<1>2. IsFiniteSet(Link) /\ Cardinality(Link) = MaxLinks
  BY <1>1, FS_Interval DEF Link
<1>3. s \in Injection(1 .. n, Link)
  BY DEF Injection, Differ, IsInjective
<1>4. Cardinality(1 .. n) <= Cardinality(Link)
  BY <1>2, <1>3, FS_Injection
<1>5. Cardinality(1 .. n) = n
  BY FS_Interval
<1> QED
  BY <1>2, <1>4, <1>5

(* What Follow() meets.                                                    *)
LEMMA ChainIsFollowed ==
    ASSUME NEW p, NEW n \in Nat, NEW s \in [1 .. n -> Link], Segment(next, p, Null, n, s), Differ(s, n)
    PROVE  \A k \in 0 .. MaxLinks : Follow(p)[k] = IF k < n THEN s[k + 1] ELSE Null
<1> DEFINE step(f) == [k \in 0 .. MaxLinks |->
                         IF k = 0 THEN p
                         ELSE IF f[k - 1] = Null THEN Null ELSE next[f[k - 1]]]
           path == CHOOSE f : f = step(f)
           met  == [k \in 0 .. MaxLinks |-> IF k < n THEN s[k + 1] ELSE Null]
<1>1. MaxLinks \in Nat /\ MaxLinks # 0
  BY BoundsAssumption
<1>2. n <= MaxLinks
  BY ChainIsShort
<1>3. /\ p = IF n = 0 THEN Null ELSE s[1]
      /\ \A i \in 1 .. n : next[s[i]] = IF i = n THEN Null ELSE s[i + 1]
      /\ \A i \in 1 .. n : s[i] # Null
  BY LinkIsNotNull DEF Segment
<1>4. \A k \in 0 .. MaxLinks :
         met[k] = IF k = 0 THEN p ELSE IF met[k - 1] = Null THEN Null ELSE next[met[k - 1]]
  <2> SUFFICES ASSUME NEW k \in 0 .. MaxLinks
               PROVE  met[k] = IF k = 0 THEN p
                               ELSE IF met[k - 1] = Null THEN Null ELSE next[met[k - 1]]
    OBVIOUS
  <2>1. CASE k = 0
    BY <1>3, <2>1
  <2>2. CASE k # 0
    <3>1. k - 1 \in 0 .. MaxLinks /\ (k - 1) + 1 = k
      BY <1>1, <2>2
    <3>2. met[k - 1] = IF k - 1 < n THEN s[k] ELSE Null
      BY <3>1
    <3>3. CASE k <= n
      <4>1. k \in 1 .. n /\ k - 1 < n
        BY <2>2, <3>3
      <4>2. met[k - 1] = s[k] /\ s[k] # Null /\ next[s[k]] = IF k = n THEN Null ELSE s[k + 1]
        BY <1>3, <3>2, <4>1
      <4>3. met[k] = IF k = n THEN Null ELSE s[k + 1]
        BY <4>1
      <4> QED
        BY <2>2, <4>2, <4>3
    <3>4. CASE k > n
      <4>1. ~(k - 1 < n) /\ ~(k < n)
        BY <3>4
      <4>2. met[k - 1] = Null /\ met[k] = Null
        BY <3>2, <4>1
      <4> QED
        BY <2>2, <4>2
    <3> QED
      BY <3>3, <3>4
  <2> QED
    BY <2>1, <2>2
<1>5. met = step(met)
  BY <1>4
<1>6. path = step(path)
  <2> HIDE DEF met, step
  <2> QED
    BY <1>5
<1>7. Follow(p) = path
  BY DEF Follow
<1> HIDE DEF path
<1>8. \A k \in 0 .. MaxLinks :
         path[k] = IF k = 0 THEN p ELSE IF path[k - 1] = Null THEN Null ELSE next[path[k - 1]]
  BY <1>6
<1> HIDE DEF met
<1> DEFINE wrong == {k \in 0 .. MaxLinks : path[k] # met[k]}
<1>9. wrong = {}
  <2> SUFFICES ASSUME wrong # {}  PROVE FALSE
    OBVIOUS
  <2>1. PICK k \in wrong : \A j \in wrong : k <= j
    <3>1. wrong \in SUBSET Nat
      BY <1>1
    <3> QED
      BY <3>1, LeastExists
  <2>2. k # 0
    BY <1>4, <1>8
  <2>3. k - 1 \in 0 .. MaxLinks /\ k - 1 \notin wrong
    BY <1>1, <2>1, <2>2
  <2>4. path[k - 1] = met[k - 1]
    BY <2>3
  <2> QED
    BY <1>4, <1>8, <2>1, <2>2, <2>4
<1>10. \A k \in 0 .. MaxLinks : path[k] = met[k]
  BY <1>9
<1> QED
  BY <1>7, <1>10 DEF met

(* The chain from a link is the walk from it.                              *)
LEMMA ChainIsWalk ==
    ASSUME NEW p, NEW n \in Nat, NEW s \in [1 .. n -> Link], Segment(next, p, Null, n, s), Differ(s, n)
    PROVE  Walk(p) = s
<1> DEFINE met == {i \in 0 .. MaxLinks : Follow(p)[i] # Null}
<1>1. MaxLinks \in Nat /\ n <= MaxLinks
  BY ChainIsShort, BoundsAssumption
<1>2. \A k \in 0 .. MaxLinks : Follow(p)[k] = IF k < n THEN s[k + 1] ELSE Null
  BY ChainIsFollowed
<1>3. \A k \in 0 .. MaxLinks : k < n => k + 1 \in 1 .. n /\ s[k + 1] # Null
  BY LinkIsNotNull
<1>4. \A k : k \in met <=> k \in 0 .. n - 1
  BY <1>1, <1>2, <1>3
<1>5. met = 0 .. n - 1
  BY <1>4
<1>6. Cardinality(0 .. n - 1) = n
  BY FS_Interval
<1>7. Walk(p) = [i \in 1 .. n |-> Follow(p)[i - 1]]
  BY <1>5, <1>6 DEF Walk
<1>8. \A i \in 1 .. n : i - 1 \in 0 .. MaxLinks /\ i - 1 < n /\ (i - 1) + 1 = i
  BY <1>1
<1>9. \A i \in 1 .. n : Follow(p)[i - 1] = s[i]
  BY <1>2, <1>8
<1> QED
  BY <1>7, <1>9
-----------------------------------------------------------------------------
(* THE INDUCTIVE INVARIANT OF A LIST *)

(* The types, but for that of m_size, which is a matter of counting.       *)
Types ==
    /\ created \in 0 .. MaxLinks
    /\ value \in [Link -> Object]
    /\ next \in [Link -> Pointer] /\ prev \in [Link -> Pointer]
    /\ front \in Pointer /\ back \in Pointer
    /\ intact \in BOOLEAN

(* Nothing refers to links that have not been constructed, nor do they.    *)
LinksExist ==
    /\ \A l \in Link : next[l] <= created /\ prev[l] <= created
    /\ \A l \in Link : l > created => next[l] = Null /\ prev[l] = Null
    /\ front <= created /\ back <= created

(* A link knows the one before it, or none; p is what comes before them.   *)
Backwards(prv, p, n, s) ==
    \A i \in 1 .. n : prv[s[i]] = Null \/ prv[s[i]] = IF i = 1 THEN p ELSE s[i - 1]

(* m_back is the last link or is on a part that was cut off.               *)
Ending(bck, n, s) ==
    /\ n = 0 <=> bck = Null
    /\ \A i \in 1 .. n : s[i] = bck => i = n

ValuesOf(f, s, n) == [i \in 1 .. n |-> f[s[i]]]

Promised(n, s) ==
    /\ intact => /\ ideal = ValuesOf(value, s, n)
                 /\ size = n
                 /\ n # 0 => back = s[n]
    /\ ~intact => ideal = <<>>

(* The links that can be reached.                                          *)
Shape(n, s) ==
    /\ Segment(next, front, Null, n, s)
    /\ Backwards(prev, Null, n, s)
    /\ Ending(back, n, s)
    /\ size \in Nat /\ n <= size
    /\ Promised(n, s)

HasShape == \E n \in Nat : \E s \in [1 .. n -> Link] : Shape(n, s)

(* What a step does to the order of links: those that were there stay as   *)
(* they are.                                                               *)
SameOrder(pos, pos2) == \A l, m \in 1 .. created : pos[l] < pos[m] => pos2[l] < pos2[m]

Reordered(nxt2, prv2, pos) ==
    \E pos2, B2 : Ranked(nxt2, prv2, pos2, B2) /\ SameOrder(pos, pos2)

ListInv(pos, B) == Types /\ LinksExist /\ Ranked(next, prev, pos, B) /\ HasShape

-----------------------------------------------------------------------------
(* POINTERS ARE ASSIGNED *)

IsSet(g, f, p, x) == /\ g \in [Link -> Pointer]
                     /\ \A l \in Link : g[l] = IF l = p THEN x ELSE f[l]

LEMMA SetAt ==
    ASSUME NEW f \in [Link -> Pointer], NEW p \in Pointer, NEW x \in Pointer
    PROVE  IsSet(Set(f, p, x), f, p, x)
<1>1. CASE p = Null
  BY <1>1, LinkIsNotNull DEF Set, IsSet
<1>2. CASE p # Null
  <2>1. p \in Link
    BY <1>2 DEF Pointer
  <2> QED
    BY <1>2, <2>1 DEF Set, IsSet, Pointer
<1> QED
  BY <1>1, <1>2

(* New links behind all others ...                                         *)
Behind(nxt2, prv2) ==
    \A l \in Link :
        /\ nxt2[l] \in Link => \/ nxt2[l] > created /\ (l <= created \/ l < nxt2[l])
                               \/ l <= created /\ nxt2[l] = next[l]
        /\ prv2[l] \in Link => \/ l > created /\ (prv2[l] <= created \/ prv2[l] < l)
                               \/ l <= created /\ prv2[l] = prev[l]

LEMMA RanksBehind ==
    ASSUME Types, LinksExist, NEW pos, NEW B, Ranked(next, prev, pos, B),
           NEW nxt2, NEW prv2, Behind(nxt2, prv2)
    PROVE  Reordered(nxt2, prv2, pos)
<1> DEFINE pos2 == [l \in Link |-> IF l > created THEN B + l ELSE pos[l]]
           B2 == B + MaxLinks
<1>1. /\ MaxLinks \in Nat /\ created \in Nat /\ B \in Nat
      /\ \A l \in Link : l \in Nat /\ l <= MaxLinks /\ l # 0
      /\ \A l \in Link : pos[l] \in Int /\ -B <= pos[l] /\ pos[l] <= B
  BY BoundsAssumption DEF Types, Ranked, Link
<1>2. \A l \in Link : pos2[l] = IF l > created THEN B + l ELSE pos[l]
  OBVIOUS
<1>3. pos2 \in [Link -> Int] /\ B2 \in Nat
  BY <1>1
<1> HIDE DEF pos2
<1>4. \A l \in Link : -B2 <= pos2[l] /\ pos2[l] <= B2
  BY <1>1, <1>2
<1> HIDE DEF B2
<1>5. ASSUME NEW l \in Link, nxt2[l] \in Link  PROVE pos2[l] < pos2[nxt2[l]]
  <2>1. CASE nxt2[l] > created /\ (l <= created \/ l < nxt2[l])
    <3> DEFINE m == nxt2[l]
    <3>1. m \in Link /\ pos2[m] = B + m /\ m \in Nat /\ m # 0
      BY <1>1, <1>2, <1>5, <2>1
    <3> HIDE DEF m
    <3>2. pos2[l] < B + m
      BY <1>1, <1>2, <2>1, <3>1 DEF m
    <3> QED
      BY <3>1, <3>2 DEF m
  <2>2. CASE l <= created /\ nxt2[l] = next[l]
    <3>1. pos[l] < pos[next[l]] /\ next[l] <= created
      BY <1>5, <2>2 DEF Ranked, LinksExist
    <3> QED
      BY <1>1, <1>2, <1>5, <2>2, <3>1
  <2> QED
    BY <1>5, <2>1, <2>2 DEF Behind
<1>6. ASSUME NEW l \in Link, prv2[l] \in Link  PROVE pos2[prv2[l]] < pos2[l]
  <2>1. CASE l > created /\ (prv2[l] <= created \/ prv2[l] < l)
    <3> DEFINE m == prv2[l]
    <3>1. m \in Link /\ (m <= created \/ m < l)
      BY <1>6, <2>1
    <3> HIDE DEF m
    <3>2. pos2[m] < B + l
      BY <1>1, <1>2, <2>1, <3>1
    <3> QED
      BY <1>2, <2>1, <3>2 DEF m
  <2>2. CASE l <= created /\ prv2[l] = prev[l]
    <3>1. pos[prev[l]] < pos[l] /\ prev[l] <= created
      BY <1>6, <2>2 DEF Ranked, LinksExist
    <3> QED
      BY <1>1, <1>2, <1>6, <2>2, <3>1
  <2> QED
    BY <1>6, <2>1, <2>2 DEF Behind
<1>7. Ranked(nxt2, prv2, pos2, B2)
  BY <1>3, <1>4, <1>5, <1>6 DEF Ranked
<1>8. SameOrder(pos, pos2)
  <2>1. \A l \in 1 .. created : l \in Link /\ pos2[l] = pos[l]
    BY <1>1, <1>2 DEF Link, Types
  <2> QED
    BY <2>1 DEF SameOrder
<1> QED
  BY <1>7, <1>8 DEF Reordered

(* ... or before them.                                                     *)
Before(nxt2, prv2) ==
    \A l \in Link :
        /\ nxt2[l] \in Link => \/ l > created /\ (nxt2[l] <= created \/ l < nxt2[l])
                               \/ l <= created /\ nxt2[l] = next[l]
        /\ prv2[l] \in Link => \/ l > created /\ prv2[l] > created /\ prv2[l] < l
                               \/ l <= created /\ prv2[l] = prev[l]

LEMMA RanksBefore ==
    ASSUME Types, LinksExist, NEW pos, NEW B, Ranked(next, prev, pos, B),
           NEW nxt2, NEW prv2, Before(nxt2, prv2)
    PROVE  Reordered(nxt2, prv2, pos)
<1> DEFINE B2 == B + MaxLinks + 1
           pos2 == [l \in Link |-> IF l > created THEN l - B2 ELSE pos[l]]
<1>1. /\ MaxLinks \in Nat /\ created \in Nat /\ B \in Nat /\ B2 \in Nat /\ B2 = B + MaxLinks + 1
      /\ \A l \in Link : l \in Nat /\ l <= MaxLinks /\ l # 0
      /\ \A l \in Link : pos[l] \in Int /\ -B <= pos[l] /\ pos[l] <= B
  BY BoundsAssumption DEF Types, Ranked, Link
<1>2. \A l \in Link : pos2[l] = IF l > created THEN l - B2 ELSE pos[l]
  OBVIOUS
<1>3. pos2 \in [Link -> Int]
  BY <1>1
<1> HIDE DEF pos2, B2
<1>4. \A l \in Link : /\ -B2 <= pos2[l] /\ pos2[l] <= B2
                      /\ l - B2 < -B
  BY <1>1, <1>2
<1>5. ASSUME NEW l \in Link, nxt2[l] \in Link  PROVE pos2[l] < pos2[nxt2[l]]
  <2>1. CASE l > created /\ (nxt2[l] <= created \/ l < nxt2[l])
    <3> DEFINE m == nxt2[l]
    <3>1. m \in Link /\ (m <= created \/ l < m)
      BY <1>5, <2>1
    <3> HIDE DEF m
    <3>2. l - B2 < pos2[m]
      <4>1. CASE m <= created
        BY <1>1, <1>2, <1>4, <3>1, <4>1
      <4>2. CASE m > created
        BY <1>1, <1>2, <3>1, <4>2
      <4> QED
        BY <1>1, <3>1, <4>1, <4>2
    <3> QED
      BY <1>2, <2>1, <3>2 DEF m
  <2>2. CASE l <= created /\ nxt2[l] = next[l]
    <3>1. pos[l] < pos[next[l]] /\ next[l] <= created
      BY <1>5, <2>2 DEF Ranked, LinksExist
    <3> QED
      BY <1>1, <1>2, <1>5, <2>2, <3>1
  <2> QED
    BY <1>5, <2>1, <2>2 DEF Before
<1>6. ASSUME NEW l \in Link, prv2[l] \in Link  PROVE pos2[prv2[l]] < pos2[l]
  <2>1. CASE l > created /\ prv2[l] > created /\ prv2[l] < l
    BY <1>1, <1>2, <1>6, <2>1
  <2>2. CASE l <= created /\ prv2[l] = prev[l]
    <3>1. pos[prev[l]] < pos[l] /\ prev[l] <= created
      BY <1>6, <2>2 DEF Ranked, LinksExist
    <3> QED
      BY <1>1, <1>2, <1>6, <2>2, <3>1
  <2> QED
    BY <1>6, <2>1, <2>2 DEF Before
<1>7. Ranked(nxt2, prv2, pos2, B2)
  BY <1>1, <1>3, <1>4, <1>5, <1>6 DEF Ranked
<1>8. SameOrder(pos, pos2)
  <2>1. \A l \in 1 .. created : l \in Link /\ pos2[l] = pos[l]
    BY <1>1, <1>2 DEF Link, Types
  <2> QED
    BY <2>1 DEF SameOrder
<1> QED
  BY <1>7, <1>8 DEF Reordered

(* One new link behind another makes room for it.                          *)
LEMMA RanksBetween ==
    ASSUME Types, LinksExist, NEW pos, NEW B, Ranked(next, prev, pos, B),
           NEW p \in Link, p <= created, created < MaxLinks, NEW nxt2, NEW prv2,
           \A l \in Link : nxt2[l] = IF l = p THEN created + 1 ELSE next[l],
           \A l \in Link : prv2[l] = IF l = next[p] THEN created + 1
                                     ELSE IF l = created + 1 THEN p ELSE prev[l]
    PROVE  Reordered(nxt2, prv2, pos)
<1> DEFINE c == created + 1
           pos2 == [l \in Link |-> IF l = c THEN 2 * pos[p] + 1 ELSE 2 * pos[l]]
           B2 == 2 * B + 1
<1>1. /\ MaxLinks \in Nat /\ created \in Nat /\ B \in Nat /\ c \in Link /\ p # c /\ c > created
      /\ \A l \in Link : l \in Nat /\ pos[l] \in Int /\ -B <= pos[l] /\ pos[l] <= B
  BY BoundsAssumption DEF Types, Ranked, Link
<1>2. \A l \in Link : pos2[l] = IF l = c THEN 2 * pos[p] + 1 ELSE 2 * pos[l]
  OBVIOUS
<1>3. pos2 \in [Link -> Int] /\ B2 \in Nat
  BY <1>1
<1> HIDE DEF pos2
<1>4. \A l \in Link : -B2 <= pos2[l] /\ pos2[l] <= B2
  BY <1>1, <1>2
<1>5. /\ \A l \in Link : next[l] # c /\ prev[l] # c
      /\ next[c] = Null /\ Null \notin Link
  BY <1>1, LinkIsNotNull DEF LinksExist, Types, Pointer, Null
<1>6. \A l \in Link : /\ nxt2[l] = IF l = p THEN c ELSE next[l]
                      /\ prv2[l] = IF l = next[p] THEN c ELSE IF l = c THEN p ELSE prev[l]
  OBVIOUS
<1> HIDE DEF B2, c
<1>7. ASSUME NEW l \in Link, nxt2[l] \in Link  PROVE pos2[l] < pos2[nxt2[l]]
  <2>1. CASE l = p
    BY <1>1, <1>2, <1>6, <2>1
  <2>2. CASE l # p
    <3>1. nxt2[l] = next[l] /\ l # c
      BY <1>5, <1>6, <1>7, <2>2
    <3>2. pos[l] < pos[next[l]]
      BY <1>7, <3>1 DEF Ranked
    <3> QED
      BY <1>1, <1>2, <1>5, <1>7, <3>1, <3>2
  <2> QED
    BY <2>1, <2>2
<1>8. ASSUME NEW l \in Link, prv2[l] \in Link  PROVE pos2[prv2[l]] < pos2[l]
  <2>1. CASE l = next[p]
    <3>1. pos[p] < pos[l]
      BY <2>1 DEF Ranked
    <3> QED
      BY <1>1, <1>2, <1>5, <1>6, <2>1, <3>1
  <2>2. CASE l # next[p] /\ l = c
    BY <1>1, <1>2, <1>6, <2>2
  <2>3. CASE l # next[p] /\ l # c
    <3>1. prv2[l] = prev[l]
      BY <1>6, <2>3
    <3>2. pos[prev[l]] < pos[l]
      BY <1>8, <3>1 DEF Ranked
    <3> QED
      BY <1>1, <1>2, <1>5, <1>8, <2>3, <3>1, <3>2
  <2> QED
    BY <2>1, <2>2, <2>3
<1>9. Ranked(nxt2, prv2, pos2, B2)
  BY <1>3, <1>4, <1>7, <1>8 DEF Ranked
<1>10. SameOrder(pos, pos2)
  <2>1. \A l \in 1 .. created : l \in Link /\ pos2[l] = 2 * pos[l] /\ pos[l] \in Int
    BY <1>1, <1>2 DEF Link, Types, c
  <2> QED
    BY <2>1 DEF SameOrder
<1> QED
  BY <1>9, <1>10 DEF Reordered

(* A link is left out.                                                     *)
LEMMA RanksAround ==
    ASSUME Types, NEW pos, NEW B, Ranked(next, prev, pos, B), NEW p \in Link, NEW nxt2, NEW prv2,
           \A l \in Link : nxt2[l] = IF l = prev[p] THEN next[p] ELSE next[l],
           \A l \in Link : prv2[l] = IF l = next[p] THEN prev[p] ELSE prev[l]
    PROVE  Reordered(nxt2, prv2, pos)
<1>1. \A l \in Link : pos[l] \in Int
  BY DEF Ranked
<1>2. ASSUME NEW l \in Link, nxt2[l] \in Link  PROVE pos[l] < pos[nxt2[l]]
  BY <1>1, <1>2 DEF Ranked
<1>3. ASSUME NEW l \in Link, prv2[l] \in Link  PROVE pos[prv2[l]] < pos[l]
  BY <1>1, <1>3 DEF Ranked
<1>4. Ranked(nxt2, prv2, pos, B)
  BY <1>2, <1>3 DEF Ranked
<1>5. SameOrder(pos, pos)
  BY DEF SameOrder
<1> QED
  BY <1>4, <1>5 DEF Reordered
-----------------------------------------------------------------------------
(* THE LINKS OF A LIST, READ *)

Prior(s, k, p) == IF k = 0 THEN p ELSE s[k]

LEMMA BackwardsJoin ==
    ASSUME NEW prv, NEW p, NEW n \in Nat, NEW m \in Nat,
           NEW s \in [1 .. n -> Link], NEW t \in [1 .. m -> Link],
           Backwards(prv, p, n, s), Backwards(prv, Prior(s, n, p), m, t)
    PROVE  Backwards(prv, p, n + m, Joined(s, n, t, m))
<1> DEFINE u == Joined(s, n, t, m)
<1>1. /\ \A i \in 1 .. n : u[i] = s[i]
      /\ \A i \in 1 .. m : u[n + i] = t[i]
  <2>1. \A i \in 1 .. n : i \in 1 .. n + m /\ i <= n
    OBVIOUS
  <2>2. \A i \in 1 .. m : n + i \in 1 .. n + m /\ ~(n + i <= n) /\ (n + i) - n = i
    OBVIOUS
  <2> QED
    BY <2>1, <2>2 DEF Joined
<1> HIDE DEF u
<1>2. ASSUME NEW i \in 1 .. n + m
      PROVE  prv[u[i]] = Null \/ prv[u[i]] = IF i = 1 THEN p ELSE u[i - 1]
  <2>1. CASE i <= n
    <3>1. i \in 1 .. n /\ (i # 1 => i - 1 \in 1 .. n)
      BY <2>1
    <3> QED
      BY <1>1, <3>1 DEF Backwards
  <2>2. CASE i > n
    <3> DEFINE j == i - n
    <3>1. j \in 1 .. m /\ i = n + j
      BY <2>2
    <3> HIDE DEF j
    <3>2. prv[t[j]] = Null \/ prv[t[j]] = IF j = 1 THEN Prior(s, n, p) ELSE t[j - 1]
      BY <3>1 DEF Backwards
    <3>3. u[i] = t[j]
      BY <1>1, <3>1
    <3>4. CASE j = 1
      <4>1. n # 0 => n \in 1 .. n /\ i - 1 = n /\ i # 1
        BY <3>1, <3>4
      <4>2. n = 0 => i = 1
        BY <3>1, <3>4
      <4> QED
        BY <1>1, <3>2, <3>3, <3>4, <4>1, <4>2 DEF Prior
    <3>5. CASE j # 1
      <4>1. j - 1 \in 1 .. m /\ i - 1 = n + (j - 1) /\ i # 1
        BY <3>1, <3>5
      <4> QED
        BY <1>1, <3>2, <3>3, <3>5, <4>1
    <3> QED
      BY <3>4, <3>5
  <2> QED
    BY <2>1, <2>2
<1> QED
  BY <1>2 DEF Backwards, u

LEMMA BackwardsSplits ==
    ASSUME NEW prv, NEW p, NEW n \in Nat, NEW s \in [1 .. n -> Link], NEW k \in 0 .. n,
           Backwards(prv, p, n, s)
    PROVE  /\ Backwards(prv, p, k, Only(s, k))
           /\ Backwards(prv, Prior(s, k, p), n - k, Rest(s, n, k))
<1>1. Backwards(prv, p, k, Only(s, k))
  <2>1. \A i \in 1 .. k : i \in 1 .. n /\ (i # 1 => i - 1 \in 1 .. k)
    OBVIOUS
  <2> QED
    BY <2>1 DEF Backwards, Only
<1>2. Backwards(prv, Prior(s, k, p), n - k, Rest(s, n, k))
  <2> DEFINE u == Rest(s, n, k)
  <2>1. \A i \in 1 .. n - k : u[i] = s[k + i] /\ k + i \in 1 .. n
    BY DEF Rest
  <2> HIDE DEF u
  <2>2. ASSUME NEW i \in 1 .. n - k
        PROVE  prv[u[i]] = Null \/ prv[u[i]] = IF i = 1 THEN Prior(s, k, p) ELSE u[i - 1]
    <3>1. prv[s[k + i]] = Null \/ prv[s[k + i]] = IF k + i = 1 THEN p ELSE s[(k + i) - 1]
      BY <2>1 DEF Backwards
    <3>2. CASE i = 1
      <4>1. (k + i) - 1 = k /\ (k + i = 1 <=> k = 0)
        BY <3>2
      <4> QED
        BY <2>1, <3>1, <3>2, <4>1 DEF Prior
    <3>3. CASE i # 1
      <4>1. i - 1 \in 1 .. n - k /\ (k + i) - 1 = k + (i - 1) /\ k + i # 1
        BY <3>3
      <4> QED
        BY <2>1, <3>1, <3>3, <4>1
    <3> QED
      BY <3>2, <3>3
  <2> QED
    BY <2>2 DEF Backwards, u
<1> QED
  BY <1>1, <1>2

LEMMA BackwardsElsewhere ==
    ASSUME NEW prv, NEW prv2, NEW p, NEW n \in Nat, NEW s \in [1 .. n -> Link],
           Backwards(prv, p, n, s), SameNext(prv, prv2, n, s)
    PROVE  Backwards(prv2, p, n, s)
  BY DEF Backwards, SameNext

LEMMA BackwardsAnyhow ==
    ASSUME NEW prv, NEW p, NEW n \in Nat, NEW s \in [1 .. n -> Link],
           Backwards(prv, Null, n, s)
    PROVE  Backwards(prv, p, n, s)
  BY DEF Backwards

(* The links of the list have been constructed.                            *)
LEMMA ReachedExist ==
    ASSUME Types, LinksExist, NEW n \in Nat, NEW s \in [1 .. n -> Link],
           Segment(next, front, Null, n, s)
    PROVE  \A i \in 1 .. n : s[i] <= created /\ s[i] \in Nat
<1> SUFFICES ASSUME NEW i \in 1 .. n  PROVE s[i] <= created /\ s[i] \in Nat
  OBVIOUS
<1>1. s[i] \in Link /\ s[i] \in Nat
  BY DEF Link
<1>2. CASE i = 1
  BY <1>1, <1>2 DEF Segment, LinksExist
<1>3. CASE i # 1
  <2>1. i - 1 \in 1 .. n /\ (i - 1) + 1 = i /\ i - 1 # n
    BY <1>3
  <2>2. next[s[i - 1]] = s[i] /\ s[i - 1] \in Link
    BY <2>1 DEF Segment
  <2> QED
    BY <1>1, <2>2 DEF LinksExist
<1> QED
  BY <1>2, <1>3

(* Walk() and At() read them.                                              *)
LEMMA SequenceLength ==
    ASSUME NEW S, NEW n \in Nat, NEW s \in [1 .. n -> S]
    PROVE  s \in Seq(S) /\ Len(s) = n /\ DOMAIN s = 1 .. n
<1>1. DOMAIN s = 1 .. n
  OBVIOUS
<1>2. s \in Seq(S)
  BY SeqDef
<1>3. Len(s) = n
  BY <1>1, <1>2, LenProperties
<1> QED
  BY <1>1, <1>2, <1>3

LEMMA ListIsRead ==
    ASSUME NEW pos, NEW B, Ranked(next, prev, pos, B), NEW n \in Nat, NEW s \in [1 .. n -> Link],
           Shape(n, s)
    PROVE  /\ Walk(front) = s /\ Differ(s, n)
           /\ \A index : At(index) = IF index \in 0 .. n - 1 THEN s[index + 1] ELSE Null
<1>1. Segment(next, front, Null, n, s)
  BY DEF Shape
<1>2. Differ(s, n)
  BY <1>1, SegmentRises
<1>3. Walk(front) = s
  BY <1>1, <1>2, ChainIsWalk
<1>4. Len(s) = n
  BY SequenceLength
<1> QED
  BY <1>2, <1>3, <1>4 DEF At
-----------------------------------------------------------------------------
(* NEW LINKS *)

(* What a step makes of the invariant, for an order of links before it.    *)
Kept(pos) ==
    /\ Types' /\ LinksExist' /\ Reordered(next', prev', pos) /\ HasShape'
    /\ created <= created'

Constructed(count, values) ==
    /\ created + count <= MaxLinks
    /\ created' = created + count
    /\ value' \in [Link -> Object]
    /\ \A l \in Link : l <= created => value'[l] = value[l]
    /\ \A i \in 1 .. count : value'[created + i] = values[i]

LEMMA ConstructedLinks ==
    ASSUME Types, NEW count \in Nat, NEW values \in [1 .. count -> Object], Construct(values)
    PROVE  Constructed(count, values)
<1>1. created \in Nat /\ MaxLinks \in Nat /\ value \in [Link -> Object] /\ Len(values) = count
  BY BoundsAssumption, SequenceLength DEF Types
<1>2. /\ created + count <= MaxLinks /\ created' = created + count
      /\ value' = [l \in Link |-> IF l \in created + 1 .. created + count
                                  THEN values[l - created] ELSE value[l]]
  BY <1>1 DEF Construct
<1>3. \A l \in created + 1 .. created + count : l - created \in 1 .. count
  BY <1>1
<1>4. value' \in [Link -> Object]
  BY <1>1, <1>2, <1>3
<1>5. \A l \in Link : l <= created => l \notin created + 1 .. created + count
  BY <1>1 DEF Link
<1>6. \A l \in Link : l <= created => value'[l] = value[l]
  BY <1>2, <1>5
<1>7. \A i \in 1 .. count : /\ created + i \in created + 1 .. created + count
                            /\ created + i \in Link /\ (created + i) - created = i
  BY <1>1, <1>2 DEF Link
<1>8. \A i \in 1 .. count : value'[created + i] = values[i]
  BY <1>2, <1>7
<1> QED
  BY <1>2, <1>4, <1>6, <1>8 DEF Constructed

LEMMA ConstructedAreMore ==
    ASSUME Types, NEW count \in Nat, NEW values, Constructed(count, values)
    PROVE  created <= created'
  BY DEF Types, Constructed

LEMMA NewObjectsAre ==
    ASSUME Types, NEW count \in Nat, created + count <= MaxLinks
    PROVE  /\ NewObjects(count) = Row(created, count)
           /\ NewObjects(count) \in [1 .. count -> Link]
           /\ NewObjects(count) \in [1 .. count -> Object]
<1>1. \A i \in 1 .. count : created + i \in Link /\ created + i \in Object
  BY BoundsAssumption DEF Types, Link, Object
<1> QED
  BY <1>1 DEF NewObjects, Row

(* Two sequences one after the other.                                      *)
Objects(a, n) == a \in [1 .. n -> Object]

LEMMA Concatenated ==
    ASSUME NEW n \in Nat, NEW m \in Nat, NEW a, NEW b, Objects(a, n), Objects(b, m)
    PROVE  a \o b = Joined(a, n, b, m) /\ Objects(a \o b, n + m)
<1>1. a \in Seq(Object) /\ b \in Seq(Object) /\ Len(a) = n /\ Len(b) = m
  BY SequenceLength DEF Objects
<1>2. /\ a \o b \in Seq(Object) /\ Len(a \o b) = n + m
      /\ \A i \in 1 .. n + m : (a \o b)[i] = IF i <= n THEN a[i] ELSE b[i - n]
  BY <1>1, ConcatProperties
<1>3. DOMAIN (a \o b) = 1 .. n + m /\ a \o b \in [1 .. n + m -> Object]
  BY <1>2, LenProperties
<1> QED
  BY <1>2, <1>3 DEF Joined, Objects

(* Values of joined segments.                                              *)
LEMMA ValuesJoin ==
    ASSUME NEW f, NEW n \in Nat, NEW m \in Nat, NEW s \in [1 .. n -> Link], NEW t \in [1 .. m -> Link]
    PROVE  ValuesOf(f, Joined(s, n, t, m), n + m) = Joined(ValuesOf(f, s, n), n, ValuesOf(f, t, m), m)
<1>1. \A i \in 1 .. n + m : /\ i <= n => i \in 1 .. n
                            /\ ~(i <= n) => i - n \in 1 .. m
  OBVIOUS
<1> QED
  BY <1>1 DEF ValuesOf, Joined

LEMMA ValuesSame ==
    ASSUME NEW f, NEW g, NEW n \in Nat, NEW s \in [1 .. n -> Link],
           \A i \in 1 .. n : g[s[i]] = f[s[i]]
    PROVE  ValuesOf(g, s, n) = ValuesOf(f, s, n)
  BY DEF ValuesOf

(* The new shape of a list, from its parts.                                *)
ShapeParts(n, s) ==
    /\ Segment(next', front', Null, n, s)
    /\ Backwards(prev', Null, n, s)
    /\ Ending(back', n, s)
    /\ size' \in Nat /\ n <= size'
    /\ intact' => /\ ideal' = ValuesOf(value', s, n)
                  /\ size' = n
                  /\ n # 0 => back' = s[n]
    /\ ~intact' => ideal' = <<>>

(* The links that could be reached are still where they were.              *)
Longer(n, s) ==
    \E m \in Nat : \E u \in [1 .. m -> Link] :
        ShapeParts(m, u) /\ n <= m /\ \A i \in 1 .. n : u[i] = s[i]

LEMMA ShapeComes ==
    ASSUME NEW n \in Nat, NEW s \in [1 .. n -> Link], ShapeParts(n, s)
    PROVE  HasShape'
  BY DEF ShapeParts, HasShape, Shape, Promised, ValuesOf
-----------------------------------------------------------------------------
(* APPENDING *)

(* What both versions of Append() have in common: the first of the new     *)
(* links is told about the old last one, or not.                           *)
Appended(count) ==
    /\ Constructed(count, NewObjects(count))
    /\ next' \in [Link -> Pointer] /\ prev' \in [Link -> Pointer]
    /\ \A l \in Link : next'[l] = IF l = back THEN created + 1
                                  ELSE IF l \in created + 1 .. created + count - 1 THEN l + 1 ELSE next[l]
    /\ \A l \in Link : l # created + 1 =>
          prev'[l] = IF l \in created + 2 .. created + count THEN l - 1 ELSE prev[l]
    /\ prev'[created + 1] = Null \/ prev'[created + 1] = back
    /\ front' = IF back = Null THEN created + 1 ELSE front
    /\ back' = created'
    /\ size' = size + count
    /\ intact' = intact
    /\ ideal' = IF intact THEN ideal \o NewObjects(count) ELSE <<>>

LEMMA AppendValueAppends ==
    ASSUME Types, LinksExist, AppendValue
    PROVE  Appended(1)
<1>1. created \in Nat /\ MaxLinks \in Nat
  BY BoundsAssumption DEF Types
<1>2. NewObjects(1) \in [1 .. 1 -> Object]
  <2>1. Len(NewObjects(1)) = 1
    <3>1. NewObjects(1) \in [1 .. 1 -> {created + 1}]
      BY DEF NewObjects
    <3> QED
      BY <3>1, SequenceLength
  <2>2. created + 1 <= MaxLinks
    BY <2>1 DEF AppendValue, Construct
  <2> QED
    BY <2>2, NewObjectsAre
<1>3. Constructed(1, NewObjects(1))
  BY <1>2, ConstructedLinks DEF AppendValue
<1>4. /\ created' = created + 1 /\ created' \in Link /\ created' \in Pointer
      /\ next \in [Link -> Pointer] /\ prev \in [Link -> Pointer] /\ back \in Pointer
  BY <1>1, <1>3 DEF Constructed, Types, Link, Pointer
<1>5. IsSet(next', next, back, created') /\ IsSet(prev', prev, created', back)
  BY <1>4, SetAt DEF AppendValue
<1>6. \A l \in Link : l \notin created + 1 .. created + 1 - 1 /\ l \notin created + 2 .. created + 1
  BY <1>1
<1>7. /\ next' \in [Link -> Pointer] /\ prev' \in [Link -> Pointer]
      /\ prev'[created + 1] = back
  BY <1>4, <1>5 DEF IsSet
<1>8. \A l \in Link : next'[l] = IF l = back THEN created + 1
                                 ELSE IF l \in created + 1 .. created + 1 - 1 THEN l + 1 ELSE next[l]
  BY <1>4, <1>5, <1>6 DEF IsSet
<1>9. \A l \in Link : l # created + 1 =>
         prev'[l] = IF l \in created + 2 .. created + 1 THEN l - 1 ELSE prev[l]
  BY <1>4, <1>5, <1>6 DEF IsSet
<1>10. /\ front' = IF back = Null THEN created + 1 ELSE front
       /\ back' = created' /\ size' = size + 1 /\ intact' = intact
       /\ ideal' = IF intact THEN ideal \o NewObjects(1) ELSE <<>>
  BY <1>4 DEF AppendValue, Promise
<1> QED
  BY <1>3, <1>7, <1>8, <1>9, <1>10 DEF Appended

(* Links in a row.                                                         *)
LEMMA RowsAre ==
    ASSUME Types, NEW count \in Nat, created + count <= MaxLinks
    PROVE  /\ RowNext(count) \in [Link -> Pointer] /\ RowPrev(count) \in [Link -> Pointer]
           /\ \A l \in Link : RowNext(count)[l] = IF l \in created + 1 .. created + count - 1
                                                  THEN l + 1 ELSE next[l]
           /\ \A l \in Link : RowPrev(count)[l] = IF l \in created + 2 .. created + count
                                                  THEN l - 1 ELSE prev[l]
<1>1. created \in Nat /\ MaxLinks \in Nat
  BY BoundsAssumption DEF Types
<1>2. /\ \A l \in Link : l \in created + 1 .. created + count - 1 => l + 1 \in Pointer
      /\ \A l \in Link : l \in created + 2 .. created + count => l - 1 \in Pointer
      /\ \A l \in Link : next[l] \in Pointer /\ prev[l] \in Pointer
  BY <1>1 DEF Types, Link, Pointer
<1> QED
  BY <1>2 DEF RowNext, RowPrev

LEMMA NewObjectsLength ==
    ASSUME NEW count \in Nat, Types
    PROVE  Len(NewObjects(count)) = count
<1>1. NewObjects(count) \in [1 .. count -> Nat]
  BY DEF NewObjects, Types
<1> QED
  BY <1>1, SequenceLength

LEMMA AppendVectorAppends ==
    ASSUME Types, LinksExist, NEW count \in Nat \ {0}, AppendVector(count)
    PROVE  Appended(count)
<1>1. created \in Nat /\ MaxLinks \in Nat
  BY BoundsAssumption DEF Types
<1>2. NewObjects(count) \in [1 .. count -> Object]
  <2>1. created + count <= MaxLinks
    BY NewObjectsLength DEF AppendVector, Construct
  <2> QED
    BY <2>1, NewObjectsAre
<1>3. Constructed(count, NewObjects(count))
  BY <1>2, ConstructedLinks DEF AppendVector
<1>4. /\ created' = created + count /\ created + count <= MaxLinks
      /\ created + 1 \in Link /\ created + 1 \in Pointer /\ back \in Pointer
      /\ created + 1 > created
  BY <1>1, <1>3 DEF Constructed, Types, Link, Pointer
<1>5. /\ RowNext(count) \in [Link -> Pointer] /\ RowPrev(count) \in [Link -> Pointer]
      /\ \A l \in Link : RowNext(count)[l] = IF l \in created + 1 .. created + count - 1
                                             THEN l + 1 ELSE next[l]
      /\ \A l \in Link : RowPrev(count)[l] = IF l \in created + 2 .. created + count
                                             THEN l - 1 ELSE prev[l]
  BY <1>4, RowsAre
<1>6. IsSet(next', RowNext(count), back, created + 1) /\ prev' = RowPrev(count)
  BY <1>4, <1>5, SetAt DEF AppendVector
<1>7. \A l \in Link : next'[l] = IF l = back THEN created + 1
                                 ELSE IF l \in created + 1 .. created + count - 1 THEN l + 1 ELSE next[l]
  BY <1>5, <1>6 DEF IsSet
<1>8. prev'[created + 1] = Null
  <2>1. created + 1 \notin created + 2 .. created + count
    BY <1>1
  <2> QED
    BY <1>4, <1>5, <1>6, <2>1 DEF LinksExist
<1>9. next' \in [Link -> Pointer] /\ prev' \in [Link -> Pointer]
  BY <1>5, <1>6 DEF IsSet
<1>10. /\ front' = IF back = Null THEN created + 1 ELSE front
       /\ back' = created' /\ size' = size + count /\ intact' = intact
       /\ ideal' = IF intact THEN ideal \o NewObjects(count) ELSE <<>>
  BY DEF AppendVector, Promise
<1>11. \A l \in Link : l # created + 1 =>
         prev'[l] = IF l \in created + 2 .. created + count THEN l - 1 ELSE prev[l]
  BY <1>5, <1>6
<1> QED
  BY <1>3, <1>7, <1>8, <1>9, <1>10, <1>11 DEF Appended
LEMMA AppendKeepsLinks ==
    ASSUME NEW pos, NEW B, Types, LinksExist, Ranked(next, prev, pos, B),
           NEW count \in Nat \ {0}, Appended(count)
    PROVE  Types' /\ LinksExist' /\ Reordered(next', prev', pos)
<1>1. /\ created \in Nat /\ MaxLinks \in Nat /\ created + count <= MaxLinks /\ created' = created + count
      /\ back \in Pointer /\ back \in Nat /\ back <= created /\ front \in Pointer
      /\ \A l \in Link : l \in Nat /\ l # 0
      /\ created + 1 \in Link /\ created' \in Link
  BY BoundsAssumption DEF Appended, Constructed, Types, LinksExist, Link, Pointer, Null
<1>2. \A l \in Link : /\ next[l] \in Nat /\ prev[l] \in Nat /\ next[l] <= created /\ prev[l] <= created
                      /\ l > created => next[l] = Null /\ prev[l] = Null
  BY DEF Types, LinksExist, Link, Pointer, Null
<1>3. /\ \A l \in Link : next'[l] = IF l = back THEN created + 1
                                    ELSE IF l \in created + 1 .. created + count - 1 THEN l + 1 ELSE next[l]
      /\ \A l \in Link : l # created + 1 =>
            prev'[l] = IF l \in created + 2 .. created + count THEN l - 1 ELSE prev[l]
      /\ prev'[created + 1] = Null \/ prev'[created + 1] = back
  BY DEF Appended
<1>4. Types'
  BY <1>1 DEF Appended, Constructed, Types, Pointer
<1>5. LinksExist'
  <2>1. ASSUME NEW l \in Link
        PROVE  next'[l] <= created + count /\ (l > created + count => next'[l] = Null)
    BY <1>1, <1>2, <1>3
  <2>2. ASSUME NEW l \in Link
        PROVE  prev'[l] <= created + count /\ (l > created + count => prev'[l] = Null)
    <3>1. CASE l = created + 1
      BY <1>1, <1>3, <3>1 DEF Null
    <3>2. CASE l # created + 1
      BY <1>1, <1>2, <1>3, <3>2
    <3> QED
      BY <3>1, <3>2
  <2>3. front' <= created + count /\ back' <= created + count
    BY <1>1 DEF Appended, LinksExist, Pointer, Null
  <2> QED
    BY <1>1, <2>1, <2>2, <2>3 DEF LinksExist
<1>6. Behind(next', prev')
  <2>1. ASSUME NEW l \in Link, next'[l] \in Link
        PROVE  \/ next'[l] > created /\ (l <= created \/ l < next'[l])
               \/ l <= created /\ next'[l] = next[l]
    <3>1. CASE l = back
      BY <1>1, <1>3, <3>1
    <3>2. CASE l # back /\ l \in created + 1 .. created + count - 1
      BY <1>1, <1>3, <3>2
    <3>3. CASE l # back /\ l \notin created + 1 .. created + count - 1
      <4>1. next'[l] = next[l]
        BY <1>3, <3>3
      <4>2. ~(l > created)
        BY <1>2, <2>1, <4>1, LinkIsNotNull
      <4> QED
        BY <1>1, <4>1, <4>2
    <3> QED
      BY <3>1, <3>2, <3>3
  <2>2. ASSUME NEW l \in Link, prev'[l] \in Link
        PROVE  \/ l > created /\ (prev'[l] <= created \/ prev'[l] < l)
               \/ l <= created /\ prev'[l] = prev[l]
    <3>1. CASE l = created + 1
      <4>1. prev'[l] = back
        BY <1>3, <2>2, <3>1, LinkIsNotNull
      <4> QED
        BY <1>1, <3>1, <4>1
    <3>2. CASE l # created + 1 /\ l \in created + 2 .. created + count
      BY <1>1, <1>3, <3>2
    <3>3. CASE l # created + 1 /\ l \notin created + 2 .. created + count
      <4>1. prev'[l] = prev[l]
        BY <1>3, <3>3
      <4>2. ~(l > created)
        BY <1>2, <2>2, <4>1, LinkIsNotNull
      <4> QED
        BY <1>1, <4>1, <4>2
    <3> QED
      BY <3>1, <3>2, <3>3
  <2> QED
    BY <2>1, <2>2 DEF Behind
<1>7. Reordered(next', prev', pos)
  BY <1>6, RanksBehind
<1> QED
  BY <1>4, <1>5, <1>7

RowBackwards(prv, p, c, count) ==
    /\ \A l \in c + 2 .. c + count : prv[l] = l - 1
    /\ prv[c + 1] = Null \/ prv[c + 1] = p

LEMMA RowIsRow ==
    ASSUME NEW prv, NEW p, NEW c \in Nat, NEW count \in Nat \ {0}, c + count <= MaxLinks,
           RowBackwards(prv, p, c, count)
    PROVE  /\ Backwards(prv, p, count, Row(c, count))
           /\ Ending(c + count, count, Row(c, count))
           /\ \A i \in 1 .. count : Row(c, count)[i] = c + i
           /\ Row(c, count) \in [1 .. count -> Link]
<1>1. MaxLinks \in Nat
  BY BoundsAssumption
<1> DEFINE t == Row(c, count)
<1>2. \A i \in 1 .. count : t[i] = c + i /\ c + i \in Link
  BY <1>1 DEF Row, Link
<1>3. t \in [1 .. count -> Link]
  BY <1>2 DEF Row
<1> HIDE DEF t
<1>4. ASSUME NEW i \in 1 .. count
      PROVE  prv[t[i]] = Null \/ prv[t[i]] = IF i = 1 THEN p ELSE t[i - 1]
  <2>1. CASE i = 1
    BY <1>2, <2>1 DEF RowBackwards
  <2>2. CASE i # 1
    <3>1. i - 1 \in 1 .. count /\ c + i \in c + 2 .. c + count /\ (c + i) - 1 = c + (i - 1)
      BY <2>2
    <3> QED
      BY <1>2, <2>2, <3>1 DEF RowBackwards
  <2> QED
    BY <2>1, <2>2
<1>5. Backwards(prv, p, count, t)
  BY <1>4 DEF Backwards
<1>6. Ending(c + count, count, t)
  BY <1>2 DEF Ending, Null
<1> QED
  BY <1>2, <1>3, <1>5, <1>6 DEF t

(* What is promised of the values when links come behind the others.       *)
LEMMA PromiseGrows ==
    ASSUME Types, LinksExist, NEW n \in Nat, NEW s \in [1 .. n -> Link], Shape(n, s), intact,
           NEW c \in Nat, c = created, NEW count \in Nat, Constructed(count, NewObjects(count))
    PROVE  /\ ideal \o NewObjects(count) = ValuesOf(value', Joined(s, n, Row(c, count), count), n + count)
           /\ NewObjects(count) \o ideal = ValuesOf(value', Joined(Row(c, count), count, s, n), count + n)
<1>1. created + count <= MaxLinks
  BY DEF Constructed
<1>2. /\ NewObjects(count) = Row(c, count) /\ NewObjects(count) \in [1 .. count -> Object]
      /\ Row(c, count) \in [1 .. count -> Link]
  BY <1>1, NewObjectsAre
<1>3. \A i \in 1 .. n : s[i] <= created
  BY ReachedExist DEF Shape
<1>4. \A i \in 1 .. n : value'[s[i]] = value[s[i]]
  BY <1>3 DEF Constructed
<1>5. ValuesOf(value', s, n) = ValuesOf(value, s, n)
  BY <1>4, ValuesSame
<1>6. ideal = ValuesOf(value, s, n)
  BY DEF Shape, Promised
<1>7. ValuesOf(value, s, n) \in [1 .. n -> Object] /\ ideal \in [1 .. n -> Object]
  BY <1>6 DEF ValuesOf, Types
<1>8. ValuesOf(value', Row(c, count), count) = NewObjects(count)
  <2>1. \A i \in 1 .. count : value'[created + i] = NewObjects(count)[i]
    BY DEF Constructed
  <2>2. \A i \in 1 .. count : Row(c, count)[i] = created + i
    BY DEF Row
  <2>3. NewObjects(count) = [i \in 1 .. count |-> created + i]
    BY DEF NewObjects
  <2> QED
    BY <2>1, <2>2, <2>3 DEF ValuesOf
<1>9. /\ ideal \o NewObjects(count) = Joined(ideal, n, NewObjects(count), count)
      /\ NewObjects(count) \o ideal = Joined(NewObjects(count), count, ideal, n)
  <2>1. Objects(ideal, n) /\ Objects(NewObjects(count), count)
    BY <1>2, <1>7 DEF Objects
  <2>2. PICK a, b : a = ideal /\ b = NewObjects(count)
    OBVIOUS
  <2>3. Objects(a, n) /\ Objects(b, count)
    BY <2>1, <2>2
  <2>4. a \o b = Joined(a, n, b, count)
    BY <2>3, Concatenated
  <2>5. b \o a = Joined(b, count, a, n)
    BY <2>3, Concatenated
  <2> QED
    BY <2>2, <2>4, <2>5
<1>10. ValuesOf(value', Joined(s, n, Row(c, count), count), n + count)
         = Joined(ValuesOf(value', s, n), n, ValuesOf(value', Row(c, count), count), count)
  BY <1>2, ValuesJoin
<1>11. ValuesOf(value', Joined(Row(c, count), count, s, n), count + n)
         = Joined(ValuesOf(value', Row(c, count), count), count, ValuesOf(value', s, n), n)
  BY <1>2, ValuesJoin
<1> QED
  BY <1>5, <1>6, <1>8, <1>9, <1>10, <1>11

(* The new links follow the old last one if that can be reached.           *)
LEMMA AppendKeepsShape ==
    ASSUME NEW pos, NEW B, Types, LinksExist, Ranked(next, prev, pos, B),
           NEW n \in Nat, NEW s \in [1 .. n -> Link], Shape(n, s),
           NEW count \in Nat \ {0}, Appended(count)
    PROVE  Longer(n, s)
<1>1. Shape(n, s)
  OBVIOUS
<1>3. PICK c \in Nat : c = created
  BY DEF Types
<1>4. /\ Segment(next, front, Null, n, s) /\ Backwards(prev, Null, n, s) /\ Ending(back, n, s)
      /\ size \in Nat /\ n <= size
  BY <1>1 DEF Shape
<1>5. \A i \in 1 .. n : s[i] <= c /\ s[i] \in Nat
  BY <1>3, <1>4, ReachedExist
<1>6. /\ created' = c + count /\ c + count <= MaxLinks /\ back \in Pointer /\ back \in Nat /\ back <= c
      /\ c + 1 \in Link /\ c + count \in Link
  BY <1>3, BoundsAssumption DEF Appended, Constructed, Types, LinksExist, Link, Pointer, Null
<1>7. /\ \A l \in Link : next'[l] = IF l = back THEN c + 1
                                    ELSE IF l \in c + 1 .. c + count - 1 THEN l + 1 ELSE next[l]
      /\ \A l \in Link : l # c + 1 =>
            prev'[l] = IF l \in c + 2 .. c + count THEN l - 1 ELSE prev[l]
      /\ prev'[c + 1] = Null \/ prev'[c + 1] = back
      /\ front' = IF back = Null THEN c + 1 ELSE front
      /\ back' = c + count
      /\ size' = size + count
      /\ intact' = intact
      /\ ideal' = IF intact THEN ideal \o NewObjects(count) ELSE <<>>
  BY <1>3, <1>6 DEF Appended
<1>8. /\ \A l \in c + 1 .. c + count - 1 : next'[l] = l + 1
      /\ next'[c + count] = Null
      /\ \A l \in c + 2 .. c + count : prev'[l] = l - 1
  <2>1. MaxLinks \in Nat /\ next[c + count] = Null
    BY <1>3, <1>6, BoundsAssumption DEF LinksExist
  <2>2. /\ \A l \in c + 1 .. c + count - 1 : l \in Link /\ l # back
        /\ c + count # back /\ c + count \notin c + 1 .. c + count - 1
        /\ \A l \in c + 2 .. c + count : l \in Link /\ l # c + 1
    BY <1>6, <2>1 DEF Link
  <2> QED
    BY <1>6, <1>7, <2>1, <2>2
<1>9. \A i \in 1 .. n : /\ prev'[s[i]] = prev[s[i]]
                        /\ s[i] # back => next'[s[i]] = next[s[i]]
  BY <1>5, <1>7
<1>10. Backwards(prev', Null, n, s)
  <2>1. SameNext(prev, prev', n, s)
    BY <1>9 DEF SameNext
  <2> QED
    BY <1>4, <2>1, BackwardsElsewhere
<1>11. CASE n = 0 \/ s[n] = back
  <2>1. PICK t : t = Row(c, count)
    OBVIOUS
  <2>2. PICK u : u = Joined(s, n, t, count)
    OBVIOUS
  <2>3. t \in [1 .. count -> Link] /\ Segment(next', c + 1, Null, count, t)
    BY <1>6, <1>8, <2>1, RowIsSegment
  <2>4. /\ Ending(c + count, count, t) /\ \A i \in 1 .. count : t[i] = c + i
        /\ Backwards(prev', back, count, t)
    <3>1. PICK prv, b : prv = prev' /\ b = back
      OBVIOUS
    <3>2. RowBackwards(prv, b, c, count)
      BY <1>7, <1>8, <3>1 DEF RowBackwards
    <3>3. c + count <= MaxLinks
      BY <1>6
    <3>4. Backwards(prv, b, count, t)
      BY <2>1, <3>2, <3>3, RowIsRow
    <3>5. Ending(c + count, count, t)
      BY <2>1, <3>2, <3>3, RowIsRow
    <3>6. \A i \in 1 .. count : t[i] = c + i
      BY <2>1 DEF Row
    <3> QED
      BY <3>1, <3>4, <3>5, <3>6
  <2>5. Segment(next', front', c + 1, n, s)
    <3>1. CASE n = 0
      <4>1. front' = c + 1
        BY <1>4, <1>7, <3>1 DEF Ending
      <4> QED
        BY <3>1, <4>1 DEF Segment
    <3>2. CASE n # 0
      <4>1. back # Null /\ front' = front /\ s[n] = back /\ n \in 1 .. n
        BY <1>4, <1>7, <1>11, <3>2 DEF Ending
      <4>2. \A i \in 1 .. n - 1 : i \in 1 .. n /\ s[i] # back
        BY <1>4 DEF Ending
      <4>3. SameNext(next, next', n - 1, s)
        BY <1>9, <4>2 DEF SameNext
      <4>4. next'[s[n]] = c + 1
        BY <1>7, <4>1
      <4>5. Segment(next', front, c + 1, n, s)
        BY <1>4, <3>2, <4>3, <4>4, SegmentRelinked
      <4> QED
        BY <4>1, <4>5
    <3> QED
      BY <3>1, <3>2
  <2>6. u \in [1 .. n + count -> Link] /\ Segment(next', front', Null, n + count, u)
    BY <2>2, <2>3, <2>5, SegmentsJoin
  <2>7. Backwards(prev', Null, n + count, u)
    <3>1. Prior(s, n, Null) = back
      BY <1>4, <1>11 DEF Prior, Ending
    <3>2. Backwards(prev', Prior(s, n, Null), count, t)
      BY <2>4, <3>1
    <3> QED
      BY <1>10, <2>2, <2>3, <3>2, BackwardsJoin
  <2>8. /\ \A i \in 1 .. n + count : u[i] = IF i <= n THEN s[i] ELSE t[i - n]
        /\ \A i \in 1 .. n + count : ~(i <= n) => i - n \in 1 .. count /\ t[i - n] = c + (i - n)
        /\ \A i \in 1 .. n + count : i <= n => i \in 1 .. n
    BY <2>2, <2>4 DEF Joined
  <2>9. Ending(back', n + count, u)
    <3>1. n + count # 0 /\ back' # Null
      BY <1>7 DEF Null
    <3>2. ASSUME NEW i \in 1 .. n + count, u[i] = c + count  PROVE i = n + count
      <4>1. CASE i <= n
        <5>1. s[i] <= c /\ s[i] \in Nat /\ u[i] = s[i]
          BY <1>5, <2>8, <4>1
        <5> QED
          BY <3>2, <5>1
      <4>2. CASE ~(i <= n)
        <5>1. u[i] = c + (i - n)
          BY <2>8, <4>2
        <5> QED
          BY <3>2, <5>1
      <4> QED
        BY <4>1, <4>2
    <3> QED
      BY <1>7, <3>1, <3>2 DEF Ending
  <2>10. size' \in Nat /\ n + count <= size'
    BY <1>4, <1>7
  <2>11. intact' => /\ ideal' = ValuesOf(value', u, n + count)
                    /\ size' = n + count
                    /\ back' = u[n + count]
    <3> SUFFICES ASSUME intact
                 PROVE  /\ ideal' = ValuesOf(value', u, n + count)
                        /\ size' = n + count
                        /\ back' = u[n + count]
      BY <1>7
    <3>1. size = n
      BY <1>1 DEF Shape, Promised
    <3>2. u[n + count] = c + count
      BY <2>8
    <3>3. ideal' = ValuesOf(value', u, n + count)
      <4>1. ideal' = ideal \o NewObjects(count) /\ Constructed(count, NewObjects(count))
        BY <1>7 DEF Appended
      <4>2. u = Joined(s, n, Row(c, count), count)
        BY <2>1, <2>2
      <4>3. ideal \o NewObjects(count) = ValuesOf(value', Joined(s, n, Row(c, count), count), n + count)
        BY <1>1, <1>3, <4>1, PromiseGrows
      <4> QED
        BY <4>1, <4>2, <4>3
    <3> QED
      BY <1>7, <3>1, <3>2, <3>3
  <2>12. n + count \in Nat /\ (~intact' => ideal' = <<>>)
    BY <1>7
  <2>13. ShapeParts(n + count, u)
    BY <2>6, <2>7, <2>9, <2>10, <2>11, <2>12 DEF ShapeParts
  <2>14. n <= n + count /\ \A i \in 1 .. n : u[i] = s[i]
    <3>1. \A i \in 1 .. n : i \in 1 .. n + count /\ i <= n
      OBVIOUS
    <3> QED
      BY <2>8, <3>1
  <2> QED
    BY <2>6, <2>12, <2>13, <2>14 DEF Longer
<1>12. CASE n # 0 /\ s[n] # back
  <2>1. \A i \in 1 .. n : s[i] # back
    BY <1>4, <1>12 DEF Ending
  <2>2. SameNext(next, next', n, s)
    BY <1>9, <2>1 DEF SameNext
  <2>3. front' = front
    BY <1>4, <1>7, <1>12 DEF Ending
  <2>4. Segment(next', front', Null, n, s)
    BY <1>4, <2>2, <2>3, SegmentElsewhere
  <2>5. Ending(back', n, s)
    <3>1. back' # Null /\ \A i \in 1 .. n : s[i] # back'
      BY <1>5, <1>7 DEF Null
    <3> QED
      BY <1>12, <3>1 DEF Ending
  <2>6. ~intact
    BY <1>1, <1>12 DEF Shape, Promised
  <2>7. size' \in Nat /\ n <= size' /\ ~intact' /\ ideal' = <<>>
    BY <1>4, <1>7, <2>6
  <2>8. ShapeParts(n, s)
    BY <1>10, <2>4, <2>5, <2>7 DEF ShapeParts
  <2> QED
    BY <2>8 DEF Longer
<1> QED
  BY <1>11, <1>12
-----------------------------------------------------------------------------
(* PREPENDING *)

Prepended(count) ==
    /\ Constructed(count, NewObjects(count))
    /\ next' \in [Link -> Pointer] /\ prev' \in [Link -> Pointer]
    /\ \A l \in Link : next'[l] = IF l = created + count THEN front
                                  ELSE IF l \in created + 1 .. created + count - 1 THEN l + 1 ELSE next[l]
    /\ \A l \in Link : prev'[l] = IF l \in created + 2 .. created + count THEN l - 1 ELSE prev[l]
    /\ front' = created + 1
    /\ back' = IF front = Null THEN created + count ELSE back
    /\ size' = size + count
    /\ intact' = intact
    /\ ideal' = IF intact THEN NewObjects(count) \o ideal ELSE <<>>

LEMMA PrependVectorPrepends ==
    ASSUME Types, LinksExist, NEW count \in Nat \ {0}, PrependVector(count)
    PROVE  Prepended(count)
<1>1. created \in Nat /\ MaxLinks \in Nat
  BY BoundsAssumption DEF Types
<1>2. NewObjects(count) \in [1 .. count -> Object]
  <2>1. created + count <= MaxLinks
    BY NewObjectsLength DEF PrependVector, Construct
  <2> QED
    BY <2>1, NewObjectsAre
<1>3. Constructed(count, NewObjects(count))
  BY <1>2, ConstructedLinks DEF PrependVector
<1>4. /\ created' = created + count /\ created + count <= MaxLinks
      /\ created + count \in Pointer /\ front \in Pointer
  BY <1>1, <1>3 DEF Constructed, Types, Link, Pointer
<1>5. /\ RowNext(count) \in [Link -> Pointer] /\ RowPrev(count) \in [Link -> Pointer]
      /\ \A l \in Link : RowNext(count)[l] = IF l \in created + 1 .. created + count - 1
                                             THEN l + 1 ELSE next[l]
      /\ \A l \in Link : RowPrev(count)[l] = IF l \in created + 2 .. created + count
                                             THEN l - 1 ELSE prev[l]
  BY <1>4, RowsAre
<1>6. IsSet(next', RowNext(count), created + count, front) /\ prev' = RowPrev(count)
  BY <1>4, <1>5, SetAt DEF PrependVector, JoinedToFront
<1>7. \A l \in Link : next'[l] = IF l = created + count THEN front
                                 ELSE IF l \in created + 1 .. created + count - 1 THEN l + 1 ELSE next[l]
  BY <1>5, <1>6 DEF IsSet
<1>8. next' \in [Link -> Pointer] /\ prev' \in [Link -> Pointer]
  BY <1>5, <1>6 DEF IsSet
<1>9. /\ front' = created + 1
      /\ back' = IF front = Null THEN created + count ELSE back
      /\ size' = size + count /\ intact' = intact
      /\ ideal' = IF intact THEN NewObjects(count) \o ideal ELSE <<>>
  BY <1>4 DEF PrependVector, Promise
<1>10. \A l \in Link : prev'[l] = IF l \in created + 2 .. created + count THEN l - 1 ELSE prev[l]
  BY <1>5, <1>6
<1> QED
  BY <1>3, <1>7, <1>8, <1>9, <1>10 DEF Prepended

LEMMA PrependKeepsLinks ==
    ASSUME NEW pos, NEW B, Types, LinksExist, Ranked(next, prev, pos, B),
           NEW count \in Nat \ {0}, Prepended(count)
    PROVE  Types' /\ LinksExist' /\ Reordered(next', prev', pos)
<1>1. /\ created \in Nat /\ MaxLinks \in Nat /\ created + count <= MaxLinks /\ created' = created + count
      /\ back \in Pointer /\ front \in Nat /\ front <= created /\ front \in Pointer
      /\ \A l \in Link : l \in Nat /\ l # 0
      /\ created + 1 \in Link /\ created + count \in Link
  BY BoundsAssumption DEF Prepended, Constructed, Types, LinksExist, Link, Pointer, Null
<1>2. \A l \in Link : /\ next[l] \in Nat /\ prev[l] \in Nat /\ next[l] <= created /\ prev[l] <= created
                      /\ l > created => next[l] = Null /\ prev[l] = Null
  BY DEF Types, LinksExist, Link, Pointer, Null
<1>3. /\ \A l \in Link : next'[l] = IF l = created + count THEN front
                                    ELSE IF l \in created + 1 .. created + count - 1 THEN l + 1 ELSE next[l]
      /\ \A l \in Link : prev'[l] = IF l \in created + 2 .. created + count THEN l - 1 ELSE prev[l]
  BY DEF Prepended
<1>4. Types'
  BY <1>1 DEF Prepended, Constructed, Types, Pointer
<1>5. LinksExist'
  <2>1. ASSUME NEW l \in Link
        PROVE  next'[l] <= created + count /\ (l > created + count => next'[l] = Null)
    BY <1>1, <1>2, <1>3
  <2>2. ASSUME NEW l \in Link
        PROVE  prev'[l] <= created + count /\ (l > created + count => prev'[l] = Null)
    BY <1>1, <1>2, <1>3
  <2>3. front' <= created + count /\ back' <= created + count
    <3>1. back \in Nat /\ back <= created
      BY DEF LinksExist, Types, Pointer, Link, Null
    <3> QED
      BY <1>1, <3>1 DEF Prepended
  <2> QED
    BY <1>1, <2>1, <2>2, <2>3 DEF LinksExist
<1>6. Before(next', prev')
  <2>1. ASSUME NEW l \in Link, next'[l] \in Link
        PROVE  \/ l > created /\ (next'[l] <= created \/ l < next'[l])
               \/ l <= created /\ next'[l] = next[l]
    <3>1. CASE l = created + count
      BY <1>1, <1>3, <3>1
    <3>2. CASE l # created + count /\ l \in created + 1 .. created + count - 1
      BY <1>1, <1>3, <3>2
    <3>3. CASE l # created + count /\ l \notin created + 1 .. created + count - 1
      <4>1. next'[l] = next[l]
        BY <1>3, <3>3
      <4>2. ~(l > created)
        BY <1>2, <2>1, <4>1, LinkIsNotNull
      <4> QED
        BY <1>1, <4>1, <4>2
    <3> QED
      BY <3>1, <3>2, <3>3
  <2>2. ASSUME NEW l \in Link, prev'[l] \in Link
        PROVE  \/ l > created /\ prev'[l] > created /\ prev'[l] < l
               \/ l <= created /\ prev'[l] = prev[l]
    <3>1. CASE l \in created + 2 .. created + count
      BY <1>1, <1>3, <3>1
    <3>2. CASE l \notin created + 2 .. created + count
      <4>1. prev'[l] = prev[l]
        BY <1>3, <3>2
      <4>2. ~(l > created)
        BY <1>2, <2>2, <4>1, LinkIsNotNull
      <4> QED
        BY <1>1, <4>1, <4>2
    <3> QED
      BY <3>1, <3>2
  <2> QED
    BY <2>1, <2>2 DEF Before
<1>7. Reordered(next', prev', pos)
  BY <1>6, RanksBefore
<1> QED
  BY <1>4, <1>5, <1>7

LEMMA PrependKeepsShape ==
    ASSUME NEW pos, NEW B, Types, LinksExist, Ranked(next, prev, pos, B), HasShape,
           NEW count \in Nat \ {0}, Prepended(count)
    PROVE  HasShape'
<1>1. PICK n \in Nat : \E s \in [1 .. n -> Link] : Shape(n, s)
  BY DEF HasShape
<1>2. PICK s \in [1 .. n -> Link] : Shape(n, s)
  BY <1>1
<1>3. PICK c \in Nat : c = created
  BY DEF Types
<1>4. /\ Segment(next, front, Null, n, s) /\ Backwards(prev, Null, n, s) /\ Ending(back, n, s)
      /\ size \in Nat /\ n <= size
      /\ n = 0 <=> front = Null
  <2>1. n # 0 => front = s[1] /\ 1 \in 1 .. n
    BY <1>2 DEF Shape, Segment
  <2>2. n = 0 => front = Null
    BY <1>2 DEF Shape, Segment
  <2> QED
    BY <1>2, <2>1, <2>2, LinkIsNotNull DEF Shape
<1>5. \A i \in 1 .. n : s[i] <= c /\ s[i] \in Nat
  BY <1>3, <1>4, ReachedExist
<1>6. /\ created' = c + count /\ c + count <= MaxLinks /\ back \in Nat /\ back <= c
      /\ c + 1 \in Link /\ c + count \in Link
  BY <1>3, BoundsAssumption DEF Prepended, Constructed, Types, LinksExist, Link, Pointer, Null
<1>7. /\ \A l \in Link : next'[l] = IF l = c + count THEN front
                                    ELSE IF l \in c + 1 .. c + count - 1 THEN l + 1 ELSE next[l]
      /\ \A l \in Link : prev'[l] = IF l \in c + 2 .. c + count THEN l - 1 ELSE prev[l]
      /\ front' = c + 1
      /\ back' = IF front = Null THEN c + count ELSE back
      /\ size' = size + count
      /\ intact' = intact
      /\ ideal' = IF intact THEN NewObjects(count) \o ideal ELSE <<>>
  BY <1>3, <1>6 DEF Prepended
<1>8. /\ \A l \in c + 1 .. c + count - 1 : next'[l] = l + 1
      /\ next'[c + count] = front
      /\ \A l \in c + 2 .. c + count : prev'[l] = l - 1
      /\ prev'[c + 1] = Null
  <2>1. MaxLinks \in Nat /\ prev[c + 1] = Null
    BY <1>3, <1>6, BoundsAssumption DEF LinksExist
  <2>2. /\ \A l \in c + 1 .. c + count - 1 : l \in Link /\ l # c + count
        /\ c + 1 \notin c + 2 .. c + count
        /\ \A l \in c + 2 .. c + count : l \in Link
    BY <1>6, <2>1 DEF Link
  <2> QED
    BY <1>6, <1>7, <2>1, <2>2
<1>9. SameNext(next, next', n, s) /\ SameNext(prev, prev', n, s)
  <2>1. \A i \in 1 .. n : /\ s[i] # c + count /\ s[i] \notin c + 1 .. c + count - 1
                          /\ s[i] \notin c + 2 .. c + count
    BY <1>5
  <2> QED
    BY <1>7, <2>1 DEF SameNext
<1>10. PICK t : t = Row(c, count)
  OBVIOUS
<1>11. PICK u : u = Joined(t, count, s, n)
  OBVIOUS
<1>12. t \in [1 .. count -> Link] /\ Segment(next', c + 1, front, count, t)
  BY <1>6, <1>8, <1>10, RowIsSegment
<1>13. /\ Ending(c + count, count, t) /\ \A i \in 1 .. count : t[i] = c + i
       /\ Backwards(prev', Null, count, t)
  <2>1. PICK prv : prv = prev'
    OBVIOUS
  <2>2. RowBackwards(prv, Null, c, count)
    BY <1>8, <2>1 DEF RowBackwards
  <2>3. c + count <= MaxLinks
    BY <1>6
  <2>4. Backwards(prv, Null, count, t)
    BY <1>10, <2>2, <2>3, RowIsRow
  <2>5. Ending(c + count, count, t)
    BY <1>10, <2>2, <2>3, RowIsRow
  <2>6. \A i \in 1 .. count : t[i] = c + i
    BY <1>10 DEF Row
  <2> QED
    BY <2>1, <2>4, <2>5, <2>6
<1>14. Segment(next', front, Null, n, s)
  BY <1>4, <1>9, SegmentElsewhere
<1>15. u \in [1 .. count + n -> Link] /\ Segment(next', front', Null, count + n, u)
  BY <1>7, <1>11, <1>12, <1>14, SegmentsJoin
<1>16. Backwards(prev', Null, count + n, u)
  <2>1. Backwards(prev', Null, n, s)
    BY <1>4, <1>9, BackwardsElsewhere
  <2>2. Backwards(prev', Prior(t, count, Null), n, s)
    BY <2>1, BackwardsAnyhow
  <2> QED
    BY <1>11, <1>12, <1>13, <2>2, BackwardsJoin
<1>17. /\ \A i \in 1 .. count + n : u[i] = IF i <= count THEN t[i] ELSE s[i - count]
       /\ \A i \in 1 .. count + n : i <= count => i \in 1 .. count /\ t[i] = c + i
       /\ \A i \in 1 .. count + n : ~(i <= count) => i - count \in 1 .. n
  BY <1>11, <1>13 DEF Joined
<1>18. Ending(back', count + n, u)
  <2>1. count + n # 0 /\ back' # Null
    BY <1>4, <1>7 DEF Null, Ending
  <2>2. ASSUME NEW i \in 1 .. count + n, u[i] = back'  PROVE i = count + n
    <3>1. CASE n = 0
      BY <1>4, <1>7, <1>17, <2>2, <3>1
    <3>2. CASE n # 0
      <4>1. back' = back
        BY <1>4, <1>7, <3>2
      <4>2. ~(i <= count)
        BY <1>6, <1>17, <2>2, <4>1
      <4>3. i - count \in 1 .. n /\ s[i - count] = back
        BY <1>17, <2>2, <4>1, <4>2
      <4>4. i - count = n
        BY <1>4, <4>3 DEF Ending
      <4> QED
        BY <4>4
    <3> QED
      BY <3>1, <3>2
  <2> QED
    BY <2>1, <2>2 DEF Ending
<1>19. intact => /\ ideal' = ValuesOf(value', u, count + n)
                 /\ size' = count + n
                 /\ back' = u[count + n]
  <2> SUFFICES ASSUME intact
               PROVE  /\ ideal' = ValuesOf(value', u, count + n)
                      /\ size' = count + n
                      /\ back' = u[count + n]
    OBVIOUS
  <2>1. size = n /\ (n # 0 => back = s[n])
    BY <1>2 DEF Shape, Promised
  <2>2. ideal' = NewObjects(count) \o ideal /\ Constructed(count, NewObjects(count))
    BY <1>7 DEF Prepended
  <2>3. u = Joined(Row(c, count), count, s, n)
    BY <1>10, <1>11
  <2>4. NewObjects(count) \o ideal = ValuesOf(value', Joined(Row(c, count), count, s, n), count + n)
    BY <1>2, <1>3, <2>2, PromiseGrows
  <2>5. back' = u[count + n]
    <3>1. CASE n = 0
      BY <1>4, <1>7, <1>17, <3>1
    <3>2. CASE n # 0
      <4>1. u[count + n] = s[n]
        <5>1. count + n \in 1 .. count + n /\ ~(count + n <= count) /\ (count + n) - count = n
          BY <3>2
        <5> QED
          BY <1>17, <5>1
      <4> QED
        BY <1>4, <1>7, <2>1, <3>2, <4>1
    <3> QED
      BY <3>1, <3>2
  <2> QED
    BY <1>7, <2>1, <2>2, <2>3, <2>4, <2>5
<1>20. size' \in Nat /\ count + n <= size' /\ count + n \in Nat /\ (~intact' => ideal' = <<>>)
  BY <1>4, <1>7
<1>21. ShapeParts(count + n, u)
  BY <1>7, <1>15, <1>16, <1>18, <1>19, <1>20 DEF ShapeParts
<1> QED
  BY <1>15, <1>20, <1>21, ShapeComes
-----------------------------------------------------------------------------
(* INSERTING BEHIND A LINK *)

Inserted(p) ==
    /\ Constructed(1, NewObjects(1))
    /\ next' \in [Link -> Pointer] /\ prev' \in [Link -> Pointer]
    /\ \A l \in Link : next'[l] = IF l = p THEN created + 1 ELSE next[l]
    /\ \A l \in Link : prev'[l] = IF l = next[p] THEN created + 1
                                  ELSE IF l = created + 1 THEN p ELSE prev[l]
    /\ front' = front
    /\ back' = IF next[p] = Null THEN created + 1 ELSE back
    /\ size' = size + 1
    /\ intact' = FALSE
    /\ ideal' = <<>>

LEMMA InsertBehindInserts ==
    ASSUME Types, LinksExist, NEW p \in Link, InsertBehind(p)
    PROVE  Inserted(p)
<1>1. created \in Nat /\ MaxLinks \in Nat
  BY BoundsAssumption DEF Types
<1>2. NewObjects(1) \in [1 .. 1 -> Object]
  <2>1. created + 1 <= MaxLinks
    BY NewObjectsLength DEF InsertBehind, Construct
  <2> QED
    BY <2>1, NewObjectsAre
<1>3. Constructed(1, NewObjects(1))
  BY <1>2, ConstructedLinks DEF InsertBehind
<1>4. /\ created' = created + 1 /\ created' \in Link /\ created' \in Pointer /\ p \in Pointer
      /\ next \in [Link -> Pointer] /\ prev \in [Link -> Pointer] /\ next[p] \in Pointer
  BY <1>1, <1>3 DEF Constructed, Types, Link, Pointer
<1>5. IsSet(next', next, p, created') /\ IsSet(Set(prev, created', p), prev, created', p)
  BY <1>4, SetAt DEF InsertBehind
<1>6. IsSet(prev', Set(prev, created', p), next[p], created')
  <2>1. PICK f : f = Set(prev, created', p)
    OBVIOUS
  <2>2. f \in [Link -> Pointer] /\ prev' = Set(f, next[p], created')
    BY <1>5, <2>1 DEF IsSet, InsertBehind
  <2>3. IsSet(prev', f, next[p], created')
    BY <1>4, <2>2, SetAt
  <2> QED
    BY <2>1, <2>3
<1>7. next' \in [Link -> Pointer] /\ prev' \in [Link -> Pointer]
  BY <1>5, <1>6 DEF IsSet
<1>8. \A l \in Link : next'[l] = IF l = p THEN created + 1 ELSE next[l]
  BY <1>4, <1>5 DEF IsSet
<1>9. \A l \in Link : prev'[l] = IF l = next[p] THEN created + 1
                                 ELSE IF l = created + 1 THEN p ELSE prev[l]
  <2>1. \A l \in Link : Set(prev, created', p)[l] = IF l = created + 1 THEN p ELSE prev[l]
    BY <1>4, <1>5 DEF IsSet
  <2>2. \A l \in Link : prev'[l] = IF l = next[p] THEN created + 1 ELSE Set(prev, created', p)[l]
    BY <1>4, <1>6 DEF IsSet
  <2> QED
    BY <2>1, <2>2
<1>10. /\ front' = front /\ back' = IF next[p] = Null THEN created + 1 ELSE back
       /\ size' = size + 1 /\ intact' = FALSE /\ ideal' = <<>>
  BY <1>4 DEF InsertBehind
<1> QED
  BY <1>3, <1>7, <1>8, <1>9, <1>10 DEF Inserted

LEMMA InsertKeepsLinks ==
    ASSUME NEW pos, NEW B, Types, LinksExist, Ranked(next, prev, pos, B),
           NEW p \in Link, p <= created, Inserted(p)
    PROVE  Types' /\ LinksExist' /\ Reordered(next', prev', pos)
<1>1. /\ created \in Nat /\ MaxLinks \in Nat /\ created + 1 <= MaxLinks /\ created' = created + 1
      /\ front \in Nat /\ front <= created /\ front \in Pointer
      /\ back \in Nat /\ back <= created /\ back \in Pointer
      /\ \A l \in Link : l \in Nat /\ l # 0
      /\ created + 1 \in Link /\ created + 1 \in Pointer
  BY BoundsAssumption DEF Inserted, Constructed, Types, LinksExist, Link, Pointer, Null
<1>2. \A l \in Link : /\ next[l] \in Nat /\ prev[l] \in Nat /\ next[l] <= created /\ prev[l] <= created
                      /\ l > created => next[l] = Null /\ prev[l] = Null
  BY DEF Types, LinksExist, Link, Pointer, Null
<1>3. /\ \A l \in Link : next'[l] = IF l = p THEN created + 1 ELSE next[l]
      /\ \A l \in Link : prev'[l] = IF l = next[p] THEN created + 1
                                    ELSE IF l = created + 1 THEN p ELSE prev[l]
  BY DEF Inserted
<1>4. Types'
  <2>1. intact' \in BOOLEAN
    BY DEF Inserted
  <2>2. front' \in Pointer /\ back' \in Pointer
    BY <1>1 DEF Inserted
  <2> QED
    BY <1>1, <2>1, <2>2 DEF Inserted, Constructed, Types
<1>5. LinksExist'
  <2>1. ASSUME NEW l \in Link
        PROVE  next'[l] <= created + 1 /\ (l > created + 1 => next'[l] = Null)
    BY <1>1, <1>2, <1>3
  <2>2. ASSUME NEW l \in Link
        PROVE  prev'[l] <= created + 1 /\ (l > created + 1 => prev'[l] = Null)
    BY <1>1, <1>2, <1>3
  <2>3. front' <= created + 1 /\ back' <= created + 1
    BY <1>1 DEF Inserted
  <2> QED
    BY <1>1, <2>1, <2>2, <2>3 DEF LinksExist
<1>6. Reordered(next', prev', pos)
  <2>1. created < MaxLinks
    BY <1>1
  <2>2. PICK nxt2, prv2 : nxt2 = next' /\ prv2 = prev'
    OBVIOUS
  <2>3. Reordered(nxt2, prv2, pos)
    BY <1>3, <2>1, <2>2, RanksBetween
  <2> QED
    BY <2>2, <2>3
<1> QED
  BY <1>4, <1>5, <1>6

(* The new link is the last one that can be reached.                       *)
LEMMA InsertKeepsShape ==
    ASSUME NEW pos, NEW B, Types, LinksExist, Ranked(next, prev, pos, B),
           NEW n \in Nat, NEW s \in [1 .. n -> Link], Shape(n, s),
           NEW k \in 1 .. n, Inserted(s[k])
    PROVE  HasShape'
<1>1. PICK c \in Nat : c = created
  BY DEF Types
<1>2. PICK q \in Link : q = s[k]
  OBVIOUS
<1>3. /\ Segment(next, front, Null, n, s) /\ Backwards(prev, Null, n, s) /\ Ending(back, n, s)
      /\ size \in Nat /\ n <= size
  BY DEF Shape
<1>4. \A i \in 1 .. n : s[i] <= c /\ s[i] \in Nat
  BY <1>1, <1>3, ReachedExist
<1>5. /\ created' = c + 1 /\ c + 1 <= MaxLinks /\ back \in Nat /\ back <= c
      /\ c + 1 \in Link
  BY <1>1, BoundsAssumption DEF Inserted, Constructed, Types, LinksExist, Link, Pointer, Null
<1>6. /\ \A l \in Link : next'[l] = IF l = q THEN c + 1 ELSE next[l]
      /\ \A l \in Link : prev'[l] = IF l = next[q] THEN c + 1 ELSE IF l = c + 1 THEN q ELSE prev[l]
      /\ front' = front
      /\ back' = IF next[q] = Null THEN c + 1 ELSE back
      /\ size' = size + 1
      /\ ~intact' /\ ideal' = <<>>
  BY <1>1, <1>2 DEF Inserted
<1>7. Differ(s, n)
  BY ListIsRead
<1>8. next[q] = IF k = n THEN Null ELSE s[k + 1]
  BY <1>2, <1>3 DEF Segment
<1>9. k \in Nat /\ k \in 0 .. n /\ k # 0
  OBVIOUS
<1>10. PICK t : t = Only(s, k)
  OBVIOUS
<1>11. PICK v : v = Row(c, 1)
  OBVIOUS
<1>12. PICK u : u = Joined(t, k, v, 1)
  OBVIOUS
<1>13. /\ t \in [1 .. k -> Link] /\ Segment(next, front, After(s, n, k, Null), k, t)
       /\ Backwards(prev, Null, k, t)
  BY <1>3, <1>9, <1>10, SegmentSplits, BackwardsSplits
<1>14. \A i \in 1 .. k : t[i] = s[i] /\ i \in 1 .. n
  BY <1>10 DEF Only
<1>15. Segment(next', front', c + 1, k, t)
  <2>1. \A i \in 1 .. k - 1 : i \in 1 .. k /\ t[i] # q
    BY <1>2, <1>7, <1>14 DEF Differ
  <2>2. SameNext(next, next', k - 1, t)
    BY <1>6, <1>13, <2>1 DEF SameNext
  <2>3. next'[t[k]] = c + 1
    BY <1>2, <1>6, <1>9, <1>14
  <2> QED
    BY <1>6, <1>9, <1>13, <2>2, <2>3, SegmentRelinked
<1>16. v \in [1 .. 1 -> Link] /\ v[1] = c + 1 /\ Segment(next', c + 1, Null, 1, v)
  <2>1. next'[c + 1] = Null
    <3>1. c + 1 # q /\ next[c + 1] = Null
      BY <1>1, <1>2, <1>4, <1>5 DEF LinksExist
    <3> QED
      BY <1>5, <1>6, <3>1
  <2>2. v = [i \in 1 .. 1 |-> c + i]
    BY <1>11 DEF Row
  <2>3. v[1] = c + 1 /\ v \in [1 .. 1 -> Link]
    BY <1>5, <2>2
  <2>4. \A i \in 1 .. 1 : i = 1
    OBVIOUS
  <2> QED
    BY <2>1, <2>3, <2>4 DEF Segment
<1>17. u \in [1 .. k + 1 -> Link] /\ Segment(next', front', Null, k + 1, u)
  BY <1>9, <1>12, <1>13, <1>15, <1>16, SegmentsJoin
<1>18. Backwards(prev', Null, k + 1, u)
  <2>1. \A i \in 1 .. k : prev'[t[i]] = prev[t[i]]
    <3>1. \A i \in 1 .. k : t[i] # c + 1
      BY <1>4, <1>14
    <3>2. \A i \in 1 .. k : t[i] # next[q]
      <4>1. CASE k = n
        BY <1>8, <1>13, <4>1, LinkIsNotNull
      <4>2. CASE k # n
        <5>1. k + 1 \in 1 .. n /\ next[q] = s[k + 1]
          BY <1>8, <4>2
        <5> QED
          BY <1>7, <1>14, <5>1 DEF Differ
      <4> QED
        BY <4>1, <4>2
    <3> QED
      BY <1>6, <1>13, <3>1, <3>2
  <2>2. Backwards(prev', Null, k, t)
    <3>1. SameNext(prev, prev', k, t)
      BY <2>1 DEF SameNext
    <3> QED
      BY <1>9, <1>13, <3>1, BackwardsElsewhere
  <2>3. Prior(t, k, Null) = q
    BY <1>2, <1>9, <1>14 DEF Prior
  <2>4. prev'[c + 1] = q
    <3>1. c + 1 # next[q]
      BY <1>1, <1>2, <1>4, <1>5 DEF LinksExist
    <3> QED
      BY <1>5, <1>6, <3>1
  <2>5. Backwards(prev', Prior(t, k, Null), 1, v)
    <3>1. \A i \in 1 .. 1 : i = 1
      OBVIOUS
    <3> QED
      BY <1>16, <2>3, <2>4, <3>1 DEF Backwards
  <2> QED
    BY <1>9, <1>12, <1>13, <1>16, <2>2, <2>5, BackwardsJoin
<1>19. Ending(back', k + 1, u)
  <2>1. /\ \A i \in 1 .. k + 1 : u[i] = IF i <= k THEN t[i] ELSE v[i - k]
        /\ \A i \in 1 .. k + 1 : i <= k => i \in 1 .. k
        /\ \A i \in 1 .. k + 1 : ~(i <= k) => i - k = 1 /\ i = k + 1
    BY <1>12 DEF Joined
  <2>2. back' # Null
    BY <1>3, <1>6 DEF Ending, Null
  <2>3. ASSUME NEW i \in 1 .. k + 1, u[i] = back'  PROVE i = k + 1
    <3>1. CASE i <= k
      <4>1. i \in 1 .. n /\ s[i] = back' /\ s[i] <= c /\ s[i] \in Nat /\ i \in 1 .. k
        BY <1>4, <1>14, <2>1, <2>3, <3>1
      <4>2. back' = back /\ next[q] # Null
        BY <1>6, <4>1
      <4>3. i = n
        BY <1>3, <4>1, <4>2 DEF Ending
      <4>4. k # n
        BY <1>8, <4>2
      <4> QED
        BY <4>1, <4>3, <4>4
    <3>2. CASE ~(i <= k)
      BY <2>1, <3>2
    <3> QED
      BY <3>1, <3>2
  <2> QED
    BY <1>9, <2>2, <2>3 DEF Ending
<1>20. size' \in Nat /\ k + 1 <= size' /\ k + 1 \in Nat
  BY <1>3, <1>6
<1>21. ShapeParts(k + 1, u)
  BY <1>6, <1>17, <1>18, <1>19, <1>20 DEF ShapeParts
<1> QED
  BY <1>17, <1>20, <1>21, ShapeComes
-----------------------------------------------------------------------------
(* ERASING A LINK *)

LEMMA RemovedAt ==
    ASSUME NEW n \in Nat, NEW a, Objects(a, n), NEW k \in 1 .. n
    PROVE  RemoveAt(a, k) = [i \in 1 .. n - 1 |-> IF i < k THEN a[i] ELSE a[i + 1]]
<1>1. a \in Seq(Object) /\ Len(a) = n /\ \A i \in 1 .. n : a[i] \in Object
  BY SequenceLength DEF Objects
<1> DEFINE x == SubSeq(a, 1, k - 1)
           y == SubSeq(a, k + 1, n)
<1>2. x \in Seq(Object) /\ Len(x) = k - 1 /\ \A i \in 1 .. k - 1 : x[i] = a[i]
  <2>1. \A i \in 1 .. k - 1 : a[i] \in Object
    BY <1>1
  <2>2. /\ x \in Seq(Object) /\ Len(x) = IF 1 <= k - 1 THEN (k - 1) - 1 + 1 ELSE 0
        /\ \A i \in 1 .. (k - 1) - 1 + 1 : x[i] = a[1 + i - 1]
    BY <2>1, SubSeqProperties
  <2>3. \A i \in 1 .. k - 1 : i \in 1 .. (k - 1) - 1 + 1 /\ 1 + i - 1 = i
    OBVIOUS
  <2> QED
    BY <2>2, <2>3
<1>3. y \in Seq(Object) /\ Len(y) = n - k /\ \A i \in 1 .. n - k : y[i] = a[k + i]
  <2>1. \A i \in k + 1 .. n : a[i] \in Object
    BY <1>1
  <2>2. /\ y \in Seq(Object) /\ Len(y) = IF k + 1 <= n THEN n - (k + 1) + 1 ELSE 0
        /\ \A i \in 1 .. n - (k + 1) + 1 : y[i] = a[(k + 1) + i - 1]
    BY <2>1, SubSeqProperties
  <2>3. \A i \in 1 .. n - k : i \in 1 .. n - (k + 1) + 1 /\ (k + 1) + i - 1 = k + i
    OBVIOUS
  <2>4. Len(y) = n - k
    BY <2>2
  <2> QED
    BY <2>2, <2>3, <2>4
<1>4. RemoveAt(a, k) = x \o y
  BY <1>1 DEF RemoveAt
<1> HIDE DEF x, y
<1>5. /\ x \o y \in Seq(Object) /\ Len(x \o y) = (k - 1) + (n - k)
      /\ \A i \in 1 .. (k - 1) + (n - k) : (x \o y)[i] = IF i <= k - 1 THEN x[i] ELSE y[i - (k - 1)]
  <2>1. /\ x \o y \in Seq(Object) /\ Len(x \o y) = Len(x) + Len(y)
        /\ \A i \in 1 .. Len(x) + Len(y) : (x \o y)[i] = IF i <= Len(x) THEN x[i] ELSE y[i - Len(x)]
    BY <1>2, <1>3, ConcatProperties
  <2>2. Len(x) = k - 1 /\ Len(y) = n - k
    BY <1>2, <1>3
  <2> QED
    BY <2>1, <2>2
<1>6. (k - 1) + (n - k) = n - 1 /\ x \o y \in [1 .. n - 1 -> Object]
  <2>1. (k - 1) + (n - k) = n - 1
    OBVIOUS
  <2>2. DOMAIN (x \o y) = 1 .. n - 1
    BY <1>5, <2>1, LenProperties
  <2> QED
    BY <1>5, <2>1, <2>2, LenProperties
<1>7. ASSUME NEW i \in 1 .. n - 1
      PROVE  (x \o y)[i] = IF i < k THEN a[i] ELSE a[i + 1]
  <2>1. CASE i < k
    <3>1. i \in 1 .. k - 1 /\ i <= k - 1 /\ i \in 1 .. (k - 1) + (n - k)
      BY <2>1
    <3> QED
      BY <1>2, <1>5, <2>1, <3>1
  <2>2. CASE ~(i < k)
    <3> DEFINE j == i - (k - 1)
    <3>1. j \in 1 .. n - k /\ k + j = i + 1 /\ ~(i <= k - 1) /\ i \in 1 .. (k - 1) + (n - k)
      BY <2>2
    <3>2. (x \o y)[i] = y[j]
      BY <1>5, <3>1
    <3> HIDE DEF j
    <3>3. y[j] = a[k + j]
      BY <1>3, <3>1
    <3> QED
      BY <2>2, <3>1, <3>2, <3>3
  <2> QED
    BY <2>1, <2>2
<1> QED
  BY <1>4, <1>6, <1>7

Erased(p, k) ==
    /\ created' = created /\ value' = value
    /\ next' \in [Link -> Pointer] /\ prev' \in [Link -> Pointer]
    /\ \A l \in Link : next'[l] = IF l = prev[p] THEN next[p] ELSE next[l]
    /\ \A l \in Link : prev'[l] = IF l = next[p] THEN prev[p] ELSE prev[l]
    /\ front' = IF prev[p] = Null THEN next[p] ELSE front
    /\ back' = IF next[p] = Null THEN prev[p] ELSE back
    /\ size' = size - 1
    /\ intact' = (intact /\ (prev[p] # Null \/ p = front))
    /\ ideal' = IF intact' THEN RemoveAt(ideal, k) ELSE <<>>

LEMMA EraseErases ==
    ASSUME Types, NEW p \in Link, NEW index \in Int, NEW k, k = index + 1, At(index) = p, Erase(index)
    PROVE  Erased(p, k)
<1>1. next \in [Link -> Pointer] /\ prev \in [Link -> Pointer] /\ next[p] \in Pointer /\ prev[p] \in Pointer
  BY DEF Types
<1>2. IsSet(next', next, prev[p], next[p])
  <2>1. PICK q \in Pointer, r \in Pointer : q = prev[p] /\ r = next[p]
    BY <1>1
  <2>2. IsSet(Set(next, q, r), next, q, r)
    BY <1>1, SetAt
  <2> QED
    BY <2>1, <2>2 DEF Erase
<1>3. IsSet(prev', prev, next[p], prev[p])
  <2>1. PICK q \in Pointer, r \in Pointer : q = next[p] /\ r = prev[p]
    BY <1>1
  <2>2. IsSet(Set(prev, q, r), prev, q, r)
    BY <1>1, SetAt
  <2> QED
    BY <2>1, <2>2 DEF Erase
<1>4. /\ created' = created /\ value' = value
      /\ front' = IF prev[p] = Null THEN next[p] ELSE front
      /\ back' = IF next[p] = Null THEN prev[p] ELSE back
      /\ size' = size - 1
      /\ intact' = (intact /\ (prev[p] # Null \/ p = front))
      /\ ideal' = IF intact' THEN RemoveAt(ideal, index + 1) ELSE <<>>
  BY DEF Erase, FrontWithout, BackWithout
<1> QED
  BY <1>2, <1>3, <1>4 DEF Erased, IsSet

LEMMA EraseKeepsLinks ==
    ASSUME NEW pos, NEW B, Types, LinksExist, Ranked(next, prev, pos, B),
           NEW p \in Link, NEW k, Erased(p, k)
    PROVE  Types' /\ LinksExist' /\ Reordered(next', prev', pos)
<1>1. /\ created' = created
      /\ \A l \in Link : next'[l] = IF l = prev[p] THEN next[p] ELSE next[l]
      /\ \A l \in Link : prev'[l] = IF l = next[p] THEN prev[p] ELSE prev[l]
  BY DEF Erased
<1>2. \A l \in Link : /\ next[l] \in Nat /\ prev[l] \in Nat /\ next[l] <= created /\ prev[l] <= created
                      /\ l > created => next[l] = Null /\ prev[l] = Null
                      /\ l \in Nat
  BY DEF Types, LinksExist, Link, Pointer, Null
<1>3. Types'
  <2>1. intact' \in BOOLEAN
    BY DEF Erased, Types
  <2>2. front' \in Pointer /\ back' \in Pointer
    BY DEF Erased, Types
  <2> QED
    BY <2>1, <2>2 DEF Erased, Types
<1>4. LinksExist'
  <2>1. ASSUME NEW l \in Link
        PROVE  next'[l] <= created /\ (l > created => next'[l] = Null)
    <3>1. l > created => l # prev[p]
      BY <1>2 DEF Types
    <3> QED
      BY <1>1, <1>2, <3>1
  <2>2. ASSUME NEW l \in Link
        PROVE  prev'[l] <= created /\ (l > created => prev'[l] = Null)
    <3>1. l > created => l # next[p]
      BY <1>2 DEF Types
    <3> QED
      BY <1>1, <1>2, <3>1
  <2>3. front' <= created /\ back' <= created
    BY <1>2 DEF Erased, LinksExist
  <2> QED
    BY <1>1, <2>1, <2>2, <2>3 DEF LinksExist
<1>5. Reordered(next', prev', pos)
  <2>1. PICK nxt2, prv2 : nxt2 = next' /\ prv2 = prev'
    OBVIOUS
  <2>2. Reordered(nxt2, prv2, pos)
    BY <1>1, <2>1, RanksAround
  <2> QED
    BY <2>1, <2>2
<1> QED
  BY <1>3, <1>4, <1>5
(* The links before and behind an erased one.                              *)
LEMMA EraseKeepsShape ==
    ASSUME NEW pos, NEW B, Types, LinksExist, Ranked(next, prev, pos, B),
           NEW n \in Nat, NEW s \in [1 .. n -> Link], Shape(n, s),
           NEW k \in 1 .. n, Erased(s[k], k)
    PROVE  HasShape'
<1>1. PICK q \in Link : q = s[k]
  OBVIOUS
<1>2. /\ Segment(next, front, Null, n, s) /\ Backwards(prev, Null, n, s) /\ Ending(back, n, s)
      /\ size \in Nat /\ n <= size
  BY DEF Shape
<1>3. /\ value' = value
      /\ \A l \in Link : next'[l] = IF l = prev[q] THEN next[q] ELSE next[l]
      /\ \A l \in Link : prev'[l] = IF l = next[q] THEN prev[q] ELSE prev[l]
      /\ front' = IF prev[q] = Null THEN next[q] ELSE front
      /\ back' = IF next[q] = Null THEN prev[q] ELSE back
      /\ size' = size - 1
      /\ intact' = (intact /\ (prev[q] # Null \/ q = front))
      /\ ideal' = IF intact' THEN RemoveAt(ideal, k) ELSE <<>>
  BY <1>1 DEF Erased
<1>4. Differ(s, n)
  BY ListIsRead
<1>5. next[q] = IF k = n THEN Null ELSE s[k + 1]
  BY <1>1, <1>2 DEF Segment
<1>6. prev[q] = Null \/ (k # 1 /\ prev[q] = s[k - 1])
  BY <1>1, <1>2 DEF Backwards
<1>7. k \in Nat /\ k \in 0 .. n /\ k - 1 \in 0 .. n /\ k - 1 \in Nat /\ n - k \in Nat
  OBVIOUS
<1>8. PICK t : t = Only(s, k - 1)
  OBVIOUS
<1>9. PICK r : r = Rest(s, n, k)
  OBVIOUS
<1>10. /\ \A i \in 1 .. k - 1 : t[i] = s[i] /\ i \in 1 .. n
       /\ \A i \in 1 .. n - k : r[i] = s[k + i] /\ k + i \in 1 .. n
       /\ t \in [1 .. k - 1 -> Link] /\ r \in [1 .. n - k -> Link]
  <2>1. /\ \A i \in 1 .. k - 1 : t[i] = s[i] /\ i \in 1 .. n
        /\ \A i \in 1 .. n - k : r[i] = s[k + i] /\ k + i \in 1 .. n
    BY <1>8, <1>9 DEF Only, Rest
  <2>2. t \in [1 .. k - 1 -> Link] /\ r \in [1 .. n - k -> Link]
    BY <1>2, <1>7, <1>8, <1>9, SegmentSplits
  <2> QED
    BY <2>1, <2>2
<1>11. After(s, n, k, Null) = next[q]
  BY <1>5 DEF After
<1>12. Segment(next, front, After(s, n, k - 1, Null), k - 1, t) /\ Backwards(prev, Null, k - 1, t)
  BY <1>2, <1>7, <1>8, SegmentSplits, BackwardsSplits
<1>13. Segment(next, next[q], Null, n - k, r) /\ Backwards(prev, Prior(s, k, Null), n - k, r)
  <2>1. Segment(next, After(s, n, k, Null), Null, n - k, r)
    BY <1>2, <1>7, <1>9, SegmentSplits
  <2>2. Backwards(prev, Prior(s, k, Null), n - k, r)
    BY <1>2, <1>7, <1>9, BackwardsSplits
  <2> QED
    BY <1>11, <2>1, <2>2
(* Behind the erased link nothing changes but who comes before it.         *)
<1>14. Segment(next', next[q], Null, n - k, r)
  <2>1. \A i \in 1 .. n - k : r[i] # prev[q]
    <3>1. CASE prev[q] = Null
      BY <1>10, <3>1, LinkIsNotNull
    <3>2. CASE k # 1 /\ prev[q] = s[k - 1]
      <4>1. k - 1 \in 1 .. n /\ \A i \in 1 .. n - k : k + i # k - 1
        BY <3>2
      <4> QED
        BY <1>4, <1>10, <3>2, <4>1 DEF Differ
    <3> QED
      BY <1>6, <3>1, <3>2
  <2>2. SameNext(next, next', n - k, r)
    BY <1>3, <1>10, <2>1 DEF SameNext
  <2> QED
    BY <1>7, <1>10, <1>13, <2>2, SegmentElsewhere
<1>15. Backwards(prev', prev[q], n - k, r)
  <2>1. ASSUME NEW i \in 1 .. n - k
        PROVE  prev'[r[i]] = Null \/ prev'[r[i]] = IF i = 1 THEN prev[q] ELSE r[i - 1]
    <3>1. CASE i = 1
      <4>1. k + 1 \in 1 .. n /\ r[1] = s[k + 1] /\ k # n
        BY <1>10, <3>1
      <4>2. r[1] = next[q] /\ r[1] \in Link
        BY <1>5, <4>1
      <4>3. prev'[r[1]] = prev[q]
        BY <1>3, <4>2
      <4> QED
        BY <3>1, <4>3
    <3>2. CASE i # 1
      <4>1. r[i] = s[k + i] /\ k + i \in 1 .. n /\ k + i # k + 1 /\ r[i] \in Link
        BY <1>10, <3>2
      <4>2. r[i] # next[q]
        <5>1. CASE k = n
          BY <1>5, <4>1, <5>1, LinkIsNotNull
        <5>2. CASE k # n
          <6>1. k + 1 \in 1 .. n /\ next[q] = s[k + 1]
            BY <1>5, <5>2
          <6> QED
            BY <1>4, <4>1, <6>1 DEF Differ
        <5> QED
          BY <5>1, <5>2
      <4>3. prev'[r[i]] = prev[r[i]]
        BY <1>3, <4>1, <4>2
      <4>4. prev[r[i]] = Null \/ prev[r[i]] = r[i - 1]
        BY <1>13, <3>2 DEF Backwards
      <4> QED
        BY <3>2, <4>3, <4>4
    <3> QED
      BY <3>1, <3>2
  <2> QED
    BY <2>1 DEF Backwards
<1>16. size' \in Nat /\ n - 1 <= size'
  <2>1. n >= 1
    OBVIOUS
  <2> QED
    BY <1>2, <1>3, <2>1
(* A link that takes itself for the first one without being so takes all   *)
(* links before it with it.                                                *)
<1>17. CASE prev[q] = Null /\ k # 1
  <2>1. front' = next[q]
    BY <1>3, <1>17
  <2>2. ~intact'
    <3>1. front = s[1] /\ 1 \in 1 .. n
      BY <1>2 DEF Segment
    <3>2. q # front
      BY <1>1, <1>4, <1>17, <3>1 DEF Differ
    <3> QED
      BY <1>3, <1>17, <3>2
  <2>3. Ending(back', n - k, r)
    <3>1. CASE k = n
      <4>1. back' = Null /\ n - k = 0
        BY <1>3, <1>5, <1>17, <3>1
      <4> QED
        BY <4>1 DEF Ending
    <3>2. CASE k # n
      <4>1. back' = back /\ back # Null /\ n - k # 0
        <5>1. next[q] # Null
          <6>1. k + 1 \in 1 .. n
            BY <3>2
          <6> QED
            BY <1>5, <3>2, <6>1, LinkIsNotNull
        <5> QED
          BY <1>2, <1>3, <3>2, <5>1 DEF Ending
      <4>2. ASSUME NEW i \in 1 .. n - k, r[i] = back  PROVE i = n - k
        <5>1. k + i \in 1 .. n /\ s[k + i] = back
          BY <1>10, <4>2
        <5>2. k + i = n
          BY <1>2, <5>1 DEF Ending
        <5> QED
          BY <5>2
      <4> QED
        BY <4>1, <4>2 DEF Ending
    <3> QED
      BY <3>1, <3>2
  <2>4. n - k <= size' /\ ideal' = <<>>
    BY <1>3, <1>16, <2>2
  <2>5. Backwards(prev', Null, n - k, r)
    BY <1>15, <1>17
  <2>6. Segment(next', front', Null, n - k, r)
    BY <1>14, <2>1
  <2>7. ShapeParts(n - k, r)
    BY <1>16, <2>2, <2>3, <2>4, <2>5, <2>6 DEF ShapeParts
  <2> QED
    BY <1>7, <1>10, <2>7, ShapeComes
(* Otherwise those before and behind it come together.                     *)
<1>18. CASE ~(prev[q] = Null /\ k # 1)
  <2>1. PICK u : u = Joined(t, k - 1, r, n - k)
    OBVIOUS
  <2>2. \A i \in 1 .. k - 1 : t[i] # next[q]
    <3>1. CASE k = n
      BY <1>5, <1>10, <3>1, LinkIsNotNull
    <3>2. CASE k # n
      <4>1. k + 1 \in 1 .. n /\ next[q] = s[k + 1] /\ \A i \in 1 .. k - 1 : i # k + 1
        BY <1>5, <3>2
      <4> QED
        BY <1>4, <1>10, <4>1 DEF Differ
    <3> QED
      BY <3>1, <3>2
  <2>3. Segment(next', front', next[q], k - 1, t) /\ Prior(t, k - 1, Null) = prev[q]
    <3>1. CASE k = 1
      <4>1. prev[q] = Null /\ front' = next[q] /\ k - 1 = 0
        BY <1>3, <1>6, <3>1
      <4> QED
        BY <4>1 DEF Segment, Prior
    <3>2. CASE k # 1
      <4>1. prev[q] = s[k - 1] /\ prev[q] # Null /\ front' = front /\ k - 1 \in 1 .. k - 1 /\ k - 1 # 0
            /\ t[k - 1] = prev[q]
        BY <1>3, <1>6, <1>10, <1>18, <3>2
      <4>2. \A i \in 1 .. (k - 1) - 1 : i \in 1 .. k - 1 /\ t[i] # prev[q]
        BY <1>4, <1>10, <4>1 DEF Differ
      <4>3. SameNext(next, next', (k - 1) - 1, t)
        BY <1>3, <1>10, <4>2 DEF SameNext
      <4>4. next'[t[k - 1]] = next[q]
        BY <1>3, <1>10, <4>1
      <4>5. Segment(next', front, next[q], k - 1, t)
        <5>1. PICK m \in Nat : m = k - 1
          BY <1>7
        <5>2. PICK a : a = After(s, n, k - 1, Null)
          OBVIOUS
        <5>3. /\ t \in [1 .. m -> Link] /\ Segment(next, front, a, m, t) /\ SameNext(next, next', m - 1, t)
              /\ m # 0 /\ next'[t[m]] = next[q]
          BY <1>10, <1>12, <4>1, <4>3, <4>4, <5>1, <5>2
        <5>4. Segment(next', front, next[q], m, t)
          BY <5>3, SegmentRelinked
        <5> QED
          BY <5>1, <5>4
      <4> QED
        BY <4>1, <4>5 DEF Prior
    <3> QED
      BY <3>1, <3>2
  <2>4. (k - 1) + (n - k) = n - 1
    OBVIOUS
  <2>5. u \in [1 .. n - 1 -> Link] /\ Segment(next', front', Null, n - 1, u)
    <3>1. /\ u \in [1 .. (k - 1) + (n - k) -> Link]
          /\ Segment(next', front', Null, (k - 1) + (n - k), u)
      BY <1>7, <1>10, <1>14, <2>1, <2>3, SegmentsJoin
    <3> QED
      BY <2>4, <3>1
  <2>6. Backwards(prev', Null, n - 1, u)
    <3>1. SameNext(prev, prev', k - 1, t)
      BY <1>3, <1>10, <2>2 DEF SameNext
    <3>2. Backwards(prev', Null, k - 1, t)
      BY <1>7, <1>10, <1>12, <3>1, BackwardsElsewhere
    <3>3. Backwards(prev', Prior(t, k - 1, Null), n - k, r)
      BY <1>15, <2>3
    <3>4. Backwards(prev', Null, (k - 1) + (n - k), u)
      BY <1>7, <1>10, <2>1, <3>2, <3>3, BackwardsJoin
    <3> QED
      BY <2>4, <3>4
  <2>7. \A i \in 1 .. n - 1 : u[i] = IF i < k THEN s[i] ELSE s[i + 1]
    <3>1. u = [i \in 1 .. n - 1 |-> IF i <= k - 1 THEN t[i] ELSE r[i - (k - 1)]]
      BY <2>1, <2>4 DEF Joined
    <3>2. ASSUME NEW i \in 1 .. n - 1  PROVE u[i] = IF i < k THEN s[i] ELSE s[i + 1]
      <4>1. CASE i < k
        <5>1. i <= k - 1 /\ i \in 1 .. k - 1
          BY <4>1
        <5> QED
          BY <1>10, <3>1, <4>1, <5>1
      <4>2. CASE ~(i < k)
        <5>1. ~(i <= k - 1) /\ i - (k - 1) \in 1 .. n - k /\ k + (i - (k - 1)) = i + 1
          BY <4>2
        <5> QED
          BY <1>10, <3>1, <4>2, <5>1
      <4> QED
        BY <4>1, <4>2
    <3> QED
      BY <3>2
  <2>8. k = n => back' = prev[q]
    BY <1>3, <1>5
  <2>9. k # n => back' = back /\ back # Null
    <3>1. k # n => k + 1 \in 1 .. n
      OBVIOUS
    <3> QED
      BY <1>2, <1>3, <1>5, <3>1, LinkIsNotNull DEF Ending
  <2>10. Ending(back', n - 1, u)
    <3>1. CASE k = n
      <4>1. n - 1 = 0 <=> back' = Null
        BY <1>6, <1>18, <2>8, <3>1
      <4>2. ASSUME NEW i \in 1 .. n - 1, u[i] = back'  PROVE i = n - 1
        <5>1. i < k /\ u[i] = s[i] /\ i \in 1 .. n /\ n - 1 # 0
          BY <2>7, <3>1
        <5>2. back' = s[k - 1] /\ k - 1 \in 1 .. n
          BY <1>6, <2>8, <3>1, <4>1, <5>1
        <5>3. i = k - 1
          BY <1>4, <4>2, <5>1, <5>2 DEF Differ
        <5> QED
          BY <3>1, <5>3
      <4> QED
        BY <4>1, <4>2 DEF Ending
    <3>2. CASE k # n
      <4>1. n - 1 # 0 /\ back' = back /\ back # Null
        BY <2>9, <3>2
      <4>2. ASSUME NEW i \in 1 .. n - 1, u[i] = back'  PROVE i = n - 1
        <5>1. CASE i < k
          <6>1. i \in 1 .. n /\ s[i] = back /\ i # n
            BY <2>7, <4>1, <4>2, <5>1
          <6> QED
            BY <1>2, <6>1 DEF Ending
        <5>2. CASE ~(i < k)
          <6>1. i + 1 \in 1 .. n /\ s[i + 1] = back
            BY <2>7, <4>1, <4>2, <5>2
          <6>2. i + 1 = n
            BY <1>2, <6>1 DEF Ending
          <6> QED
            BY <6>2
        <5> QED
          BY <5>1, <5>2
      <4> QED
        BY <4>1, <4>2 DEF Ending
    <3> QED
      BY <3>1, <3>2
  <2>11. intact' => /\ ideal' = ValuesOf(value', u, n - 1)
                    /\ size' = n - 1
                    /\ n - 1 # 0 => back' = u[n - 1]
    <3> SUFFICES ASSUME intact'
                 PROVE  /\ ideal' = ValuesOf(value', u, n - 1)
                        /\ size' = n - 1
                        /\ n - 1 # 0 => back' = u[n - 1]
      OBVIOUS
    <3>1. intact
      BY <1>3
    <3>2. ideal = ValuesOf(value, s, n) /\ size = n /\ back = s[n]
      BY <3>1 DEF Shape, Promised
    <3>3. PICK a : a = ideal
      OBVIOUS
    <3>4. Objects(a, n)
      BY <3>2, <3>3 DEF Objects, ValuesOf, Types
    <3>5. RemoveAt(a, k) = [i \in 1 .. n - 1 |-> IF i < k THEN a[i] ELSE a[i + 1]]
      BY <3>4, RemovedAt
    <3>6. \A i \in 1 .. n - 1 : /\ i < k => a[i] = value[s[i]]
                                /\ ~(i < k) => a[i + 1] = value[s[i + 1]]
      BY <3>2, <3>3 DEF ValuesOf
    <3>7. RemoveAt(a, k) = ValuesOf(value, u, n - 1)
      BY <2>7, <3>5, <3>6 DEF ValuesOf
    <3>8. ideal' = ValuesOf(value', u, n - 1)
      BY <1>3, <3>3, <3>7
    <3>9. n - 1 # 0 => back' = u[n - 1]
      <4> SUFFICES ASSUME n - 1 # 0  PROVE back' = u[n - 1]
        OBVIOUS
      <4>1. n - 1 \in 1 .. n - 1 /\ (n - 1) + 1 = n
        OBVIOUS
      <4>2. CASE k = n
        <5>1. n - 1 < k /\ u[n - 1] = s[n - 1]
          BY <2>7, <4>1, <4>2
        <5>2. back' = s[k - 1]
          BY <1>6, <1>18, <2>8, <4>2
        <5> QED
          BY <4>2, <5>1, <5>2
      <4>3. CASE k # n
        <5>1. ~(n - 1 < k) /\ u[n - 1] = s[n]
          BY <2>7, <4>1, <4>3
        <5> QED
          BY <2>9, <3>2, <4>3, <5>1
      <4> QED
        BY <4>2, <4>3
    <3> QED
      BY <1>3, <3>2, <3>8, <3>9
  <2>12. ~intact' => ideal' = <<>>
    BY <1>3
  <2>13. n - 1 \in Nat
    OBVIOUS
  <2>14. ShapeParts(n - 1, u)
    BY <1>16, <2>5, <2>6, <2>10, <2>11, <2>12 DEF ShapeParts
  <2> QED
    BY <2>5, <2>13, <2>14, ShapeComes
<1> QED
  BY <1>17, <1>18
-----------------------------------------------------------------------------
(* A LIST IS FILLED ANEW *)

Refilled(count, values, total) ==
    /\ Constructed(count, values)
    /\ next' = RowNext(count) /\ prev' = RowPrev(count)
    /\ front' = IF count = 0 THEN Null ELSE created + 1
    /\ back' = IF count = 0 THEN Null ELSE created + count
    /\ size' = total

LEMMA RebuildRefills ==
    ASSUME Types, NEW count \in Nat, NEW values \in [1 .. count -> Object], NEW total,
           Rebuild(values, total)
    PROVE  Refilled(count, values, total)
<1>1. Len(values) = count
  BY SequenceLength
<1>2. Constructed(count, values)
  BY ConstructedLinks DEF Rebuild
<1>3. created' = created + count
  BY <1>2 DEF Constructed
<1> QED
  BY <1>1, <1>2, <1>3 DEF Rebuild, Refilled

LEMMA RefillKeepsLinks ==
    ASSUME NEW pos, NEW B, Types, LinksExist, Ranked(next, prev, pos, B), NEW count \in Nat,
           NEW values \in [1 .. count -> Object], NEW total, Refilled(count, values, total),
           intact' \in BOOLEAN
    PROVE  Types' /\ LinksExist' /\ Reordered(next', prev', pos)
<1>1. /\ created \in Nat /\ MaxLinks \in Nat /\ created + count <= MaxLinks /\ created' = created + count
      /\ \A l \in Link : l \in Nat /\ l # 0
  BY BoundsAssumption DEF Refilled, Constructed, Types, Link
<1>2. \A l \in Link : /\ next[l] \in Nat /\ prev[l] \in Nat /\ next[l] <= created /\ prev[l] <= created
                      /\ l > created => next[l] = Null /\ prev[l] = Null
  BY DEF Types, LinksExist, Link, Pointer, Null
<1>3. /\ next' \in [Link -> Pointer] /\ prev' \in [Link -> Pointer]
      /\ \A l \in Link : next'[l] = IF l \in created + 1 .. created + count - 1 THEN l + 1 ELSE next[l]
      /\ \A l \in Link : prev'[l] = IF l \in created + 2 .. created + count THEN l - 1 ELSE prev[l]
  BY <1>1, RowsAre DEF Refilled
<1>4. /\ front' \in Pointer /\ front' <= created + count
      /\ back' \in Pointer /\ back' <= created + count
  <2>1. CASE count = 0
    BY <1>1, <2>1 DEF Refilled, Pointer, Null
  <2>2. CASE count # 0
    BY <1>1, <2>2 DEF Refilled, Pointer, Link
  <2> QED
    BY <2>1, <2>2
<1>5. Types'
  BY <1>1, <1>3, <1>4 DEF Refilled, Constructed, Types
<1>6. LinksExist'
  <2>1. ASSUME NEW l \in Link
        PROVE  next'[l] <= created + count /\ (l > created + count => next'[l] = Null)
    BY <1>1, <1>2, <1>3
  <2>2. ASSUME NEW l \in Link
        PROVE  prev'[l] <= created + count /\ (l > created + count => prev'[l] = Null)
    BY <1>1, <1>2, <1>3
  <2> QED
    BY <1>1, <1>4, <2>1, <2>2 DEF LinksExist
<1>7. Behind(next', prev')
  <2>1. ASSUME NEW l \in Link, next'[l] \in Link
        PROVE  \/ next'[l] > created /\ (l <= created \/ l < next'[l])
               \/ l <= created /\ next'[l] = next[l]
    <3>1. CASE l \in created + 1 .. created + count - 1
      BY <1>1, <1>3, <3>1
    <3>2. CASE l \notin created + 1 .. created + count - 1
      <4>1. next'[l] = next[l]
        BY <1>3, <3>2
      <4>2. ~(l > created)
        BY <1>2, <2>1, <4>1, LinkIsNotNull
      <4> QED
        BY <1>1, <4>1, <4>2
    <3> QED
      BY <3>1, <3>2
  <2>2. ASSUME NEW l \in Link, prev'[l] \in Link
        PROVE  \/ l > created /\ (prev'[l] <= created \/ prev'[l] < l)
               \/ l <= created /\ prev'[l] = prev[l]
    <3>1. CASE l \in created + 2 .. created + count
      BY <1>1, <1>3, <3>1
    <3>2. CASE l \notin created + 2 .. created + count
      <4>1. prev'[l] = prev[l]
        BY <1>3, <3>2
      <4>2. ~(l > created)
        BY <1>2, <2>2, <4>1, LinkIsNotNull
      <4> QED
        BY <1>1, <4>1, <4>2
    <3> QED
      BY <3>1, <3>2
  <2> QED
    BY <2>1, <2>2 DEF Behind
<1>8. Reordered(next', prev', pos)
  BY <1>7, RanksBehind
<1> QED
  BY <1>5, <1>6, <1>8

LEMMA RefillKeepsShape ==
    ASSUME Types, LinksExist, NEW count \in Nat, NEW values \in [1 .. count -> Object], NEW total \in Nat,
           count <= total, Refilled(count, values, total),
           intact' => ideal' = values /\ total = count,
           ~intact' => ideal' = <<>>
    PROVE  HasShape'
<1>1. PICK c \in Nat : c = created
  BY DEF Types
<1>2. /\ c + count <= MaxLinks /\ MaxLinks \in Nat
      /\ front' = IF count = 0 THEN Null ELSE c + 1
      /\ back' = IF count = 0 THEN Null ELSE c + count
      /\ size' = total
  BY <1>1, BoundsAssumption DEF Refilled, Constructed
<1>3. /\ \A l \in Link : next'[l] = IF l \in c + 1 .. c + count - 1 THEN l + 1 ELSE next[l]
      /\ \A l \in Link : prev'[l] = IF l \in c + 2 .. c + count THEN l - 1 ELSE prev[l]
  BY <1>1, <1>2, RowsAre DEF Refilled
<1>4. PICK u : u = Row(c, count)
  OBVIOUS
<1>5. u \in [1 .. count -> Link] /\ \A i \in 1 .. count : u[i] = c + i
  BY <1>2, <1>4 DEF Row, Link
<1>6. ideal' = values => ideal' = ValuesOf(value', u, count)
  <2>1. \A i \in 1 .. count : value'[c + i] = values[i]
    BY <1>1 DEF Refilled, Constructed
  <2>2. values = ValuesOf(value', u, count)
    BY <1>5, <2>1 DEF ValuesOf
  <2> QED
    BY <2>2
<1>7. CASE count = 0
  <2>1. ShapeParts(count, u)
    BY <1>2, <1>6, <1>7 DEF ShapeParts, Segment, Backwards, Ending
  <2> QED
    BY <1>5, <2>1, ShapeComes
<1>8. CASE count # 0
  <2>1. /\ \A l \in c + 1 .. c + count - 1 : l \in Link
        /\ \A l \in c + 2 .. c + count : l \in Link /\ l # c + 1
        /\ c + 1 \in Link /\ c + count \in Link
        /\ c + count \notin c + 1 .. c + count - 1 /\ c + 1 \notin c + 2 .. c + count
        /\ next[c + count] = Null /\ prev[c + 1] = Null
    BY <1>1, <1>2, <1>8 DEF Link, LinksExist
  <2>2. /\ \A l \in c + 1 .. c + count - 1 : next'[l] = l + 1
        /\ next'[c + count] = Null
    BY <1>3, <2>1
  <2>3. Segment(next', c + 1, Null, count, u)
    BY <1>2, <1>4, <1>8, <2>2, RowIsSegment
  <2>4. Backwards(prev', Null, count, u) /\ Ending(c + count, count, u)
    <3>1. PICK prv : prv = prev'
      OBVIOUS
    <3>2. RowBackwards(prv, Null, c, count)
      BY <1>3, <2>1, <3>1 DEF RowBackwards
    <3>3. Backwards(prv, Null, count, u)
      BY <1>2, <1>4, <1>8, <3>2, RowIsRow
    <3>4. Ending(c + count, count, u)
      BY <1>2, <1>4, <1>8, <3>2, RowIsRow
    <3> QED
      BY <3>1, <3>3, <3>4
  <2>5. u[count] = c + count
    BY <1>5, <1>8
  <2>6. ShapeParts(count, u)
    BY <1>2, <1>6, <1>8, <2>3, <2>4, <2>5 DEF ShapeParts
  <2> QED
    BY <1>5, <2>6, ShapeComes
<1> QED
  BY <1>7, <1>8

LEMMA RefillKeeps ==
    ASSUME NEW pos, NEW B, ListInv(pos, B), NEW count \in Nat,
           NEW values \in [1 .. count -> Object], NEW total \in Nat, count <= total,
           Rebuild(values, total), intact' \in BOOLEAN,
           intact' => ideal' = values /\ total = count,
           ~intact' => ideal' = <<>>
    PROVE  Kept(pos)
<1>1. Types /\ LinksExist /\ Ranked(next, prev, pos, B)
  BY DEF ListInv
<1>2. Refilled(count, values, total)
  BY <1>1, RebuildRefills
<1>3. HasShape'
  BY <1>1, <1>2, RefillKeepsShape
<1>4. Types' /\ LinksExist' /\ Reordered(next', prev', pos)
  BY <1>1, <1>2, RefillKeepsLinks
<1>5. created <= created'
  BY <1>1, <1>2, ConstructedAreMore DEF Refilled
<1> QED
  BY <1>3, <1>4, <1>5 DEF Kept
-----------------------------------------------------------------------------
(* EVERY OPERATION *)

LEMMA AppendLengthens ==
    ASSUME NEW pos, NEW B, ListInv(pos, B), NEW count \in Nat \ {0}, Appended(count)
    PROVE  \A n \in Nat : \A s \in [1 .. n -> Link] : Shape(n, s) => Longer(n, s)
  BY AppendKeepsShape DEF ListInv

LEMMA LongerHasShape ==
    ASSUME HasShape, \A n \in Nat : \A s \in [1 .. n -> Link] : Shape(n, s) => Longer(n, s)
    PROVE  HasShape'
<1>1. PICK n \in Nat : \E s \in [1 .. n -> Link] : Shape(n, s)
  BY DEF HasShape
<1>2. PICK s \in [1 .. n -> Link] : Shape(n, s)
  BY <1>1
<1>3. Longer(n, s)
  BY <1>2
<1>4. PICK m \in Nat : \E u \in [1 .. m -> Link] : ShapeParts(m, u)
  BY <1>3 DEF Longer
<1>5. PICK u \in [1 .. m -> Link] : ShapeParts(m, u)
  BY <1>4
<1> QED
  BY <1>5, ShapeComes

LEMMA AppendKeeps ==
    ASSUME NEW pos, NEW B, ListInv(pos, B), NEW count \in Nat \ {0}, Appended(count)
    PROVE  Kept(pos)
<1>1. Types /\ LinksExist /\ Ranked(next, prev, pos, B) /\ HasShape
  BY DEF ListInv
<1>2. HasShape'
  BY <1>1, AppendLengthens, LongerHasShape
<1>3. Types' /\ LinksExist' /\ Reordered(next', prev', pos)
  BY <1>1, AppendKeepsLinks
<1>4. created <= created'
  BY <1>1, ConstructedAreMore DEF Appended
<1> QED
  BY <1>2, <1>3, <1>4 DEF Kept

LEMMA AppendValueKeeps ==
    ASSUME NEW pos, NEW B, ListInv(pos, B), AppendValue
    PROVE  Kept(pos)
<1>1. Appended(1)
  BY AppendValueAppends DEF ListInv
<1>2. 1 \in Nat \ {0}
  OBVIOUS
<1> QED
  BY <1>1, <1>2, AppendKeeps

LEMMA AppendVectorKeeps ==
    ASSUME NEW pos, NEW B, ListInv(pos, B), NEW count \in Nat \ {0}, AppendVector(count)
    PROVE  Kept(pos)
<1>1. Appended(count)
  BY AppendVectorAppends DEF ListInv
<1> QED
  BY <1>1, AppendKeeps

LEMMA PrependVectorKeeps ==
    ASSUME NEW pos, NEW B, ListInv(pos, B), NEW count \in Nat \ {0}, PrependVector(count)
    PROVE  Kept(pos)
<1>1. Types /\ LinksExist /\ Ranked(next, prev, pos, B) /\ HasShape
  BY DEF ListInv
<1>2. Prepended(count)
  BY <1>1, PrependVectorPrepends
<1>3. HasShape'
  BY <1>1, <1>2, PrependKeepsShape
<1>4. Types' /\ LinksExist' /\ Reordered(next', prev', pos)
  BY <1>1, <1>2, PrependKeepsLinks
<1>5. created <= created'
  BY <1>1, <1>2, ConstructedAreMore DEF Prepended
<1> QED
  BY <1>3, <1>4, <1>5 DEF Kept

(* At() of an index that has a link, in the shape of the list.             *)
LEMMA IndexHasPlace ==
    ASSUME NEW pos, NEW B, ListInv(pos, B), NEW index \in Int, At(index) # Null
    PROVE  \E n \in Nat : \E s \in [1 .. n -> Link] : 
              /\ Shape(n, s) /\ index + 1 \in 1 .. n
              /\ At(index) = s[index + 1]
              /\ s[index + 1] <= created
<1>1. Types /\ LinksExist /\ Ranked(next, prev, pos, B) /\ HasShape
  BY DEF ListInv
<1>2. PICK n \in Nat : \E s \in [1 .. n -> Link] : Shape(n, s)
  BY <1>1 DEF HasShape
<1>3. PICK s \in [1 .. n -> Link] : Shape(n, s)
  BY <1>2
<1>4. At(index) = IF index \in 0 .. n - 1 THEN s[index + 1] ELSE Null
  BY <1>1, <1>3, ListIsRead
<1>5. index \in 0 .. n - 1 /\ index + 1 \in 1 .. n /\ At(index) = s[index + 1]
  BY <1>4
<1>6. s[index + 1] <= created
  BY <1>1, <1>3, <1>5, ReachedExist DEF Shape
<1> QED
  BY <1>3, <1>5, <1>6

LEMMA PositionsAre ==
    ASSUME HasShape, NEW index \in Int
    PROVE  Position(index) \in Int /\ size - 1 \in Int
<1>1. size \in Nat
  BY DEF HasShape, Shape
<1> QED
  BY <1>1 DEF Position

LEMMA InsertKeeps ==
    ASSUME NEW pos, NEW B, ListInv(pos, B), NEW index \in Int, Insert(index)
    PROVE  Kept(pos)
<1>1. Types /\ LinksExist /\ Ranked(next, prev, pos, B) /\ HasShape
  BY DEF ListInv
<1>2. CASE AppendValue
  BY <1>2, AppendValueKeeps
<1>3. CASE At(Position(index)) # Null /\ InsertBehind(At(Position(index)))
  <2>1. PICK j \in Int : j = Position(index)
    BY <1>1, PositionsAre
  <2>2. PICK n \in Nat : \E s \in [1 .. n -> Link] :
              /\ Shape(n, s) /\ j + 1 \in 1 .. n
              /\ At(j) = s[j + 1]
              /\ s[j + 1] <= created
    BY <1>3, <2>1, IndexHasPlace
  <2>3. PICK s \in [1 .. n -> Link] :
              /\ Shape(n, s) /\ j + 1 \in 1 .. n
              /\ At(j) = s[j + 1]
              /\ s[j + 1] <= created
    BY <2>2
  <2>4. PICK k \in 1 .. n : k = j + 1
    BY <2>3
  <2>5. PICK p \in Link : p = s[k]
    OBVIOUS
  <2>6. InsertBehind(p) /\ p <= created
    BY <1>3, <2>1, <2>3, <2>4, <2>5
  <2>7. Inserted(p)
    BY <1>1, <2>6, InsertBehindInserts
  <2>8. Types' /\ LinksExist' /\ Reordered(next', prev', pos)
    BY <1>1, <2>6, <2>7, InsertKeepsLinks
  <2>9. HasShape'
    <3>1. Inserted(s[k])
      BY <2>5, <2>7
    <3> QED
      BY <1>1, <2>3, <3>1, InsertKeepsShape
  <2>10. created <= created'
    BY <1>1, <2>7, ConstructedAreMore DEF Inserted
  <2> QED
    BY <2>8, <2>9, <2>10 DEF Kept
<1> QED
  BY <1>2, <1>3 DEF Insert

LEMMA EraseKeeps ==
    ASSUME NEW pos, NEW B, ListInv(pos, B), NEW j \in Int, Erase(j)
    PROVE  Kept(pos)
<1>1. Types /\ LinksExist /\ Ranked(next, prev, pos, B) /\ HasShape
  BY DEF ListInv
<1>2. At(j) # Null
  BY DEF Erase
<1>3. PICK n \in Nat : \E s \in [1 .. n -> Link] :
            /\ Shape(n, s) /\ j + 1 \in 1 .. n
            /\ At(j) = s[j + 1]
            /\ s[j + 1] <= created
  BY <1>2, IndexHasPlace
<1>4. PICK s \in [1 .. n -> Link] :
            /\ Shape(n, s) /\ j + 1 \in 1 .. n
            /\ At(j) = s[j + 1]
            /\ s[j + 1] <= created
  BY <1>3
<1>5. PICK k \in 1 .. n : k = j + 1
  BY <1>4
<1>6. PICK p \in Link : p = s[k]
  OBVIOUS
<1>7. Erased(p, k)
  <2>1. At(j) = p
    BY <1>4, <1>5, <1>6
  <2> QED
    BY <1>1, <1>5, <2>1, EraseErases
<1>8. Types' /\ LinksExist' /\ Reordered(next', prev', pos)
  BY <1>1, <1>7, EraseKeepsLinks
<1>9. HasShape'
  <2>1. Erased(s[k], k)
    BY <1>6, <1>7
  <2> QED
    BY <1>1, <1>4, <2>1, EraseKeepsShape
<1>10. created <= created'
  BY <1>1, <1>7 DEF Erased, Types
<1> QED
  BY <1>8, <1>9, <1>10 DEF Kept

LEMMA SameLinksKeep ==
    ASSUME NEW pos, NEW B, Ranked(next, prev, pos, B), UNCHANGED <<next, prev>>
    PROVE  Reordered(next', prev', pos)
<1>1. SameOrder(pos, pos)
  BY DEF SameOrder
<1>2. Ranked(next', prev', pos, B)
  OBVIOUS
<1> QED
  BY <1>1, <1>2 DEF Reordered

LEMMA ClearKeeps ==
    ASSUME NEW pos, NEW B, ListInv(pos, B), Clear
    PROVE  Kept(pos)
<1>1. Types /\ LinksExist /\ Ranked(next, prev, pos, B)
  BY DEF ListInv
<1>2. Types' /\ LinksExist'
  BY <1>1 DEF Clear, Types, LinksExist, Pointer, Null
<1>3. Reordered(next', prev', pos)
  BY <1>1, SameLinksKeep DEF Clear
<1>4. HasShape'
  <2>1. PICK s : s = [i \in 1 .. 0 |-> i]
    OBVIOUS
  <2>2. s \in [1 .. 0 -> Link]
    BY <2>1
  <2>3. ValuesOf(value', s, 0) = <<>>
    BY DEF ValuesOf
  <2>4. ShapeParts(0, s)
    BY <2>3 DEF Clear, ShapeParts, Segment, Backwards, Ending
  <2> QED
    BY <2>2, <2>4, ShapeComes
<1>5. created <= created'
  BY <1>1 DEF Clear, Types
<1> QED
  BY <1>2, <1>3, <1>4, <1>5 DEF Kept

LEMMA SetItemKeepsLinks ==
    ASSUME NEW pos, NEW B, ListInv(pos, B), NEW index \in Int, NEW object \in Others,
           SetItem(index, object)
    PROVE  Types' /\ LinksExist' /\ Reordered(next', prev', pos)
<1>1. Types /\ LinksExist /\ Ranked(next, prev, pos, B) /\ HasShape
  BY DEF ListInv
<1>2. PICK j \in Int : j = Position(index)
  BY <1>1, PositionsAre
<1>3. /\ At(j) # Null
      /\ value' = [value EXCEPT ![At(j)] = object]
      /\ intact' = intact
      /\ ideal' = IF intact THEN [ideal EXCEPT ![j + 1] = object] ELSE <<>>
      /\ UNCHANGED <<created, next, prev, front, back, size>>
  BY <1>2 DEF SetItem, Promise
<1>4. Types' /\ LinksExist'
  <2>1. value' \in [Link -> Object]
    BY <1>1, <1>3 DEF Types, Object
  <2> QED
    BY <1>1, <1>3, <2>1 DEF Types, LinksExist
<1>5. Reordered(next', prev', pos)
  BY <1>1, <1>3, SameLinksKeep
<1> QED
  BY <1>4, <1>5

LEMMA SetItemLengthens ==
    ASSUME NEW pos, NEW B, ListInv(pos, B), NEW index \in Int, NEW object \in Others,
           SetItem(index, object)
    PROVE  \A n \in Nat : \A s \in [1 .. n -> Link] : Shape(n, s) => Longer(n, s)
<1> SUFFICES ASSUME NEW n \in Nat, NEW s \in [1 .. n -> Link], Shape(n, s)
             PROVE  Longer(n, s)
  OBVIOUS
<1>1. Types /\ LinksExist /\ Ranked(next, prev, pos, B) /\ HasShape
  BY DEF ListInv
<1>2. PICK j \in Int : j = Position(index)
  BY <1>1, PositionsAre
<1>3. /\ At(j) # Null
      /\ value' = [value EXCEPT ![At(j)] = object]
      /\ intact' = intact
      /\ ideal' = IF intact THEN [ideal EXCEPT ![j + 1] = object] ELSE <<>>
      /\ UNCHANGED <<created, next, prev, front, back, size>>
  BY <1>2 DEF SetItem, Promise
<1>4. At(j) = IF j \in 0 .. n - 1 THEN s[j + 1] ELSE Null
  BY <1>1, ListIsRead
<1>5. Shape(n, s) /\ j + 1 \in 1 .. n /\ At(j) = s[j + 1]
  BY <1>3, <1>4
<1>6. PICK k \in 1 .. n : k = j + 1
  BY <1>5
<1>7. Differ(s, n)
  BY <1>1, <1>5, ListIsRead
<1>8. \A i \in 1 .. n : value'[s[i]] = IF i = k THEN object ELSE value[s[i]]
  <2>1. At(j) = s[k] /\ value \in [Link -> Object]
    BY <1>1, <1>5, <1>6 DEF Types
  <2> QED
    BY <1>3, <1>7, <2>1 DEF Differ
<1>9. intact => ideal' = ValuesOf(value', s, n)
  <2> SUFFICES ASSUME intact  PROVE ideal' = ValuesOf(value', s, n)
    OBVIOUS
  <2>1. ideal = ValuesOf(value, s, n) /\ ideal' = [ideal EXCEPT ![k] = object]
    BY <1>3, <1>5, <1>6 DEF Shape, Promised
  <2> QED
    BY <1>8, <2>1 DEF ValuesOf
<1>10. ShapeParts(n, s)
  BY <1>3, <1>5, <1>9 DEF Shape, Promised, ShapeParts
<1> QED
  BY <1>10 DEF Longer

LEMMA SetItemKeeps ==
    ASSUME NEW pos, NEW B, ListInv(pos, B), NEW index \in Int, NEW object \in Others,
           SetItem(index, object)
    PROVE  Kept(pos)
<1>1. HasShape'
  BY SetItemLengthens, LongerHasShape DEF ListInv
<1>2. Types' /\ LinksExist' /\ Reordered(next', prev', pos)
  BY SetItemKeepsLinks
<1>3. created <= created'
  BY DEF SetItem, ListInv, Types
<1> QED
  BY <1>1, <1>2, <1>3 DEF Kept

LEMMA InitializeKeeps ==
    ASSUME NEW pos, NEW B, ListInv(pos, B), NEW count \in Nat, Initialize(count)
    PROVE  Kept(pos)
<1>1. Types
  BY DEF ListInv
<1>2. PICK values : values = NewObjects(count)
  OBVIOUS
<1>3. created + count <= MaxLinks
  BY <1>1, NewObjectsLength DEF Initialize, Rebuild, Construct
<1>4. values \in [1 .. count -> Object]
  BY <1>1, <1>2, <1>3, NewObjectsAre
<1>5. Rebuild(values, count) /\ intact' = TRUE /\ ideal' = values
  BY <1>2 DEF Initialize
<1>6. intact' \in BOOLEAN /\ (intact' => ideal' = values /\ count = count) /\ (~intact' => ideal' = <<>>)
  BY <1>5
<1> QED
  BY <1>4, <1>5, <1>6, RefillKeeps

(* What the elements of a list are.                                        *)
LEMMA ElementsAre ==
    ASSUME NEW pos, NEW B, Types, Ranked(next, prev, pos, B), NEW n \in Nat, NEW s \in [1 .. n -> Link],
           Shape(n, s)
    PROVE  /\ Elements = ValuesOf(value, s, n) /\ Elements \in [1 .. n -> Object]
           /\ Len(Elements) = n
           /\ intact => ideal = Elements /\ size = n
           /\ ~intact => ideal = <<>>
           /\ size \in Nat /\ n <= size
<1>1. Walk(front) = s /\ DOMAIN s = 1 .. n
  BY ListIsRead
<1>2. Elements = ValuesOf(value, s, n)
  BY <1>1 DEF Elements, Values, ValuesOf
<1>3. Elements \in [1 .. n -> Object]
  BY <1>2 DEF ValuesOf, Types
<1>4. Len(Elements) = n
  BY <1>3, SequenceLength
<1> QED
  BY <1>2, <1>3, <1>4 DEF Shape, Promised

LEMMA AddKeeps ==
    ASSUME NEW pos, NEW B, ListInv(pos, B), NEW count \in Nat, Add(count)
    PROVE  Kept(pos)
<1>1. Types /\ LinksExist /\ Ranked(next, prev, pos, B) /\ HasShape
  BY DEF ListInv
<1>2. PICK n \in Nat : \E s \in [1 .. n -> Link] : Shape(n, s)
  BY <1>1 DEF HasShape
<1>3. PICK s \in [1 .. n -> Link] : Shape(n, s)
  BY <1>2
<1>4. /\ Elements \in [1 .. n -> Object] /\ Len(Elements) = n
      /\ intact => ideal = Elements /\ size = n
      /\ ~intact => ideal = <<>>
      /\ size \in Nat /\ n <= size
  BY <1>1, <1>3, ElementsAre
<1>5. PICK others : others = [i \in 1 .. count |-> created + Len(Elements) + i]
  OBVIOUS
<1>6. PICK elements : elements = Elements
  OBVIOUS
<1>7. PICK values : values = elements \o others
  OBVIOUS
<1>8. Rebuild(values, size + count) /\ intact' = intact /\ ideal' = IF intact THEN ideal \o others ELSE <<>>
  BY <1>5, <1>6, <1>7 DEF Add, AddedSize, Promise
<1>9. Len(values) = n + count
  <2>1. others \in [1 .. count -> Nat]
    BY <1>1, <1>4, <1>5 DEF Types
  <2>2. others \in Seq(Object \cup Nat) /\ Len(others) = count
    <3>1. others \in [1 .. count -> Object \cup Nat]
      BY <2>1
    <3> QED
      BY <3>1, SequenceLength
  <2>3. elements \in Seq(Object \cup Nat) /\ Len(elements) = n
    <3>1. elements \in [1 .. n -> Object \cup Nat]
      BY <1>4, <1>6
    <3> QED
      BY <3>1, SequenceLength
  <2> QED
    BY <1>7, <2>2, <2>3, ConcatProperties
<1>10. created + (n + count) <= MaxLinks
  BY <1>8, <1>9 DEF Rebuild, Construct
<1>11. Objects(others, count)
  <2>1. created \in Nat /\ MaxLinks \in Nat
    BY <1>1, BoundsAssumption DEF Types
  <2>2. \A i \in 1 .. count : created + n + i \in Object
    BY <1>10, <2>1 DEF Link, Object
  <2> QED
    BY <1>4, <1>5, <2>2 DEF Objects
<1>12. Objects(elements, n)
  BY <1>4, <1>6 DEF Objects
<1>13. values \in [1 .. n + count -> Object]
  BY <1>7, <1>11, <1>12, Concatenated DEF Objects
<1>14. n + count \in Nat /\ size + count \in Nat /\ n + count <= size + count
  BY <1>4
<1>15. /\ intact' \in BOOLEAN
       /\ intact' => ideal' = values /\ size + count = n + count
       /\ ~intact' => ideal' = <<>>
  <2>1. intact' \in BOOLEAN
    BY <1>1, <1>8 DEF Types
  <2>2. intact => ideal' = values /\ size + count = n + count
    BY <1>4, <1>6, <1>7, <1>8
  <2> QED
    BY <1>8, <2>1, <2>2
<1>16. PICK m \in Nat, total \in Nat : m = n + count /\ total = size + count
  BY <1>14
<1>17. values \in [1 .. m -> Object] /\ m <= total /\ Rebuild(values, total)
  BY <1>8, <1>13, <1>14, <1>16
<1>18. /\ intact' => ideal' = values /\ total = m
       /\ ~intact' => ideal' = <<>>
  BY <1>15, <1>16
<1> QED
  BY <1>15, <1>17, <1>18, RefillKeeps

LEMMA Repeated ==
    ASSUME NEW n \in Nat, NEW a, Objects(a, n), NEW times \in {0, 2}
    PROVE  Objects(Repeat(a, times), times * n)
<1>1. Len(a) = n
  BY SequenceLength DEF Objects
<1>2. Repeat(a, times) = [i \in 1 .. times * n |-> a[1 + ((i - 1) % n)]]
  BY <1>1 DEF Repeat
<1>3. ASSUME NEW i \in 1 .. times * n  PROVE 1 + ((i - 1) % n) \in 1 .. n
  <2>1. n \in Nat \ {0} /\ i - 1 \in Int
    OBVIOUS
  <2>2. (i - 1) % n \in 0 .. n - 1
    BY <2>1
  <2> QED
    BY <2>1, <2>2
<1> QED
  BY <1>2, <1>3 DEF Objects

LEMMA MulKeeps ==
    ASSUME NEW pos, NEW B, ListInv(pos, B), NEW times \in {0, 2}, Mul(times)
    PROVE  Kept(pos)
<1>1. Types /\ LinksExist /\ Ranked(next, prev, pos, B) /\ HasShape
  BY DEF ListInv
<1>2. PICK n \in Nat : \E s \in [1 .. n -> Link] : Shape(n, s)
  BY <1>1 DEF HasShape
<1>3. PICK s \in [1 .. n -> Link] : Shape(n, s)
  BY <1>2
<1>4. /\ Elements \in [1 .. n -> Object] /\ Len(Elements) = n
      /\ intact => ideal = Elements /\ size = n
      /\ ~intact => ideal = <<>>
      /\ size \in Nat /\ n <= size
  BY <1>1, <1>3, ElementsAre
<1>5. PICK elements : elements = Elements
  OBVIOUS
<1>6. PICK values : values = Repeat(elements, times)
  OBVIOUS
<1>7. Rebuild(values, times * size) /\ intact' = (intact \/ times = 0) /\ ideal' = Repeat(ideal, times)
  BY <1>5, <1>6 DEF Mul
<1>8. Objects(elements, n)
  BY <1>4, <1>5 DEF Objects
<1>9. PICK m \in Nat, total \in Nat : m = times * n /\ total = times * size
  BY <1>4
<1>10. values \in [1 .. m -> Object]
  BY <1>6, <1>8, <1>9, Repeated DEF Objects
<1>11. m <= total
  BY <1>4, <1>9
<1>12. Len(<<>>) = 0
  OBVIOUS
<1>13. ~intact => ideal' = <<>>
  <2>1. Repeat(<<>>, times) = <<>>
    <3>1. times * Len(<<>>) = 0
      BY <1>12
    <3> QED
      BY <3>1 DEF Repeat
  <2> QED
    BY <1>4, <1>7, <2>1
<1>14. intact' => ideal' = values /\ total = m
  <2>1. CASE intact
    BY <1>4, <1>5, <1>6, <1>7, <1>9, <2>1
  <2>2. CASE times = 0 /\ ~intact
    <3>1. values = <<>>
      <4>1. times * Len(elements) = 0
        BY <1>4, <1>5, <2>2
      <4> QED
        BY <1>6, <4>1 DEF Repeat
    <3>2. total = m
      BY <1>4, <1>9, <2>2
    <3> QED
      BY <1>13, <2>2, <3>1, <3>2
  <2> QED
    BY <1>7, <2>1, <2>2
<1>15. intact' \in BOOLEAN /\ (~intact' => ideal' = <<>>)
  <2>1. ~intact' => ~intact
    BY <1>7
  <2>2. intact' \in BOOLEAN
    BY <1>1, <1>7 DEF Types
  <2> QED
    BY <1>13, <2>1, <2>2
<1>16. Rebuild(values, total)
  BY <1>7, <1>9
<1> QED
  BY <1>10, <1>11, <1>14, <1>15, <1>16, RefillKeeps
LEMMA ListStep ==
    ASSUME NEW pos, NEW B, ListInv(pos, B), ListNext
    PROVE  Kept(pos)
<1>1. \A i : i \in Indexes => i \in Int
  BY BoundsAssumption DEF Indexes
<1>2. \A i \in 1 .. MaxVector : i \in Nat \ {0}
  BY BoundsAssumption
<1>3. HasShape
  BY DEF ListInv
<1>4. CASE AppendValue
  BY <1>4, AppendValueKeeps
<1>5. ASSUME NEW count \in 1 .. MaxVector, AppendVector(count)  PROVE Kept(pos)
  BY <1>2, <1>5, AppendVectorKeeps
<1>6. ASSUME NEW count \in 1 .. MaxVector, PrependVector(count)  PROVE Kept(pos)
  BY <1>2, <1>6, PrependVectorKeeps
<1>7. ASSUME NEW index \in Indexes, Insert(index)  PROVE Kept(pos)
  BY <1>1, <1>7, InsertKeeps
<1>8. ASSUME NEW index \in Indexes, PopAt(index)  PROVE Kept(pos)
  <2>1. PICK j \in Int : j = Position(index)
    BY <1>1, <1>3, PositionsAre
  <2>2. Erase(j)
    BY <1>8, <2>1 DEF PopAt
  <2> QED
    BY <2>2, EraseKeeps
<1>9. CASE PopLast
  <2>1. PICK j \in Int : j = size - 1
    BY <1>3 DEF HasShape, Shape
  <2>2. Erase(j)
    BY <1>9, <2>1 DEF PopLast
  <2> QED
    BY <2>2, EraseKeeps
<1>10. CASE Clear
  BY <1>10, ClearKeeps
<1>11. ASSUME NEW index \in Indexes, NEW object \in Others, SetItem(index, object)  PROVE Kept(pos)
  BY <1>1, <1>11, SetItemKeeps
<1>12. ASSUME NEW count \in 0 .. MaxVector, Add(count)  PROVE Kept(pos)
  BY <1>12, AddKeeps
<1>13. ASSUME NEW count \in 0 .. MaxVector, Initialize(count)  PROVE Kept(pos)
  BY <1>13, InitializeKeeps
<1>14. ASSUME NEW times \in {0, 2}, Mul(times)  PROVE Kept(pos)
  BY <1>14, MulKeeps
<1> QED
  BY <1>4, <1>5, <1>6, <1>7, <1>8, <1>9, <1>10, <1>11, <1>12, <1>13, <1>14 DEF ListNext

LEMMA KeptIsInvariant ==
    ASSUME NEW pos, Kept(pos)
    PROVE  \E pos2, B2 : ListInv(pos2, B2)' /\ SameOrder(pos, pos2)
<1>1. PICK pos2, B2 : Ranked(next', prev', pos2, B2) /\ SameOrder(pos, pos2)
  BY DEF Kept, Reordered
<1>2. ListInv(pos2, B2)'
  BY <1>1 DEF Kept, ListInv
<1> QED
  BY <1>1, <1>2

(* A list display.                                                         *)
LEMMA ListInitially ==
    ASSUME ListInit
    PROVE  \E pos, B : ListInv(pos, B)
<1>1. PICK count \in 0 .. MaxVector :
        /\ created = count
        /\ value = [l \in Link |-> l]
        /\ next = [l \in Link |-> IF l < count THEN l + 1 ELSE Null]
        /\ prev = [l \in Link |-> IF l \in 2 .. count THEN l - 1 ELSE Null]
        /\ front = IF count = 0 THEN Null ELSE 1
        /\ back = count
        /\ size = count
        /\ ideal = [i \in 1 .. count |-> i]
        /\ intact = TRUE
  BY DEF ListInit
<1>2. /\ MaxLinks \in Nat /\ count \in Nat /\ count <= MaxLinks
      /\ \A l \in Link : l \in Nat /\ l # 0 /\ l <= MaxLinks
  BY BoundsAssumption DEF Link
<1>3. /\ \A l \in Link : next[l] = IF l < count THEN l + 1 ELSE Null
      /\ \A l \in Link : prev[l] = IF l \in 2 .. count THEN l - 1 ELSE Null
  BY <1>1
<1>4. Types
  <2>1. /\ \A l \in Link : l < count => l + 1 \in Pointer
        /\ \A l \in Link : l \in 2 .. count => l - 1 \in Pointer
        /\ Null \in Pointer
    BY <1>2 DEF Link, Pointer
  <2>2. next \in [Link -> Pointer] /\ prev \in [Link -> Pointer]
    BY <1>1, <2>1
  <2>3. front \in Pointer /\ back \in Pointer
    BY <1>1, <1>2 DEF Pointer, Link, Null
  <2>4. created \in 0 .. MaxLinks /\ intact \in BOOLEAN
    BY <1>1, <1>2
  <2>5. value \in [Link -> Object]
    BY <1>1 DEF Object
  <2> QED
    BY <2>2, <2>3, <2>4, <2>5 DEF Types
<1>5. LinksExist
  <2>1. \A l \in Link : next[l] <= count /\ prev[l] <= count
    BY <1>2, <1>3 DEF Null
  <2>2. \A l \in Link : l > count => next[l] = Null /\ prev[l] = Null
    BY <1>2, <1>3
  <2>3. front <= count /\ back <= count
    BY <1>1, <1>2 DEF Null
  <2> QED
    BY <1>1, <2>1, <2>2, <2>3 DEF LinksExist
<1>6. PICK pos : pos = [l \in Link |-> l]
  OBVIOUS
<1>7. Ranked(next, prev, pos, MaxLinks)
  <2>1. pos \in [Link -> Int] /\ \A l \in Link : pos[l] = l
    BY <1>2, <1>6
  <2>2. \A l \in Link : -MaxLinks <= pos[l] /\ pos[l] <= MaxLinks
    BY <1>2, <2>1
  <2>3. ASSUME NEW l \in Link, next[l] \in Link  PROVE pos[l] < pos[next[l]]
    <3>1. next[l] = l + 1
      BY <1>3, <2>3, LinkIsNotNull
    <3> QED
      BY <1>2, <2>1, <2>3, <3>1
  <2>4. ASSUME NEW l \in Link, prev[l] \in Link  PROVE pos[prev[l]] < pos[l]
    <3>1. prev[l] = l - 1
      BY <1>3, <2>4, LinkIsNotNull
    <3> QED
      BY <1>2, <2>1, <2>4, <3>1
  <2> QED
    BY <1>2, <2>1, <2>2, <2>3, <2>4 DEF Ranked
<1>8. PICK s : s = Row(0, count)
  OBVIOUS
<1>9. s \in [1 .. count -> Link] /\ \A i \in 1 .. count : s[i] = i
  BY <1>2, <1>8 DEF Row, Link
<1>10. ideal = ValuesOf(value, s, count)
  <2>1. \A i \in 1 .. count : value[s[i]] = i
    BY <1>1, <1>9
  <2> QED
    BY <1>1, <2>1 DEF ValuesOf
<1>11. Segment(next, front, Null, count, s)
  <2>1. CASE count = 0
    BY <1>1, <2>1 DEF Segment
  <2>2. CASE count # 0
    <3>1. /\ \A l \in 0 + 1 .. 0 + count - 1 : next[l] = l + 1
          /\ next[0 + count] = Null /\ 0 + count <= MaxLinks /\ count \in Nat \ {0} /\ 0 \in Nat
      BY <1>2, <1>3, <2>2 DEF Link
    <3>2. Segment(next, 0 + 1, Null, count, s)
      BY <1>8, <3>1, RowIsSegment
    <3> QED
      BY <1>1, <2>2, <3>2
  <2> QED
    BY <2>1, <2>2
<1>12. Backwards(prev, Null, count, s)
  <2>1. ASSUME NEW i \in 1 .. count
        PROVE  prev[s[i]] = Null \/ prev[s[i]] = IF i = 1 THEN Null ELSE s[i - 1]
    <3>1. s[i] = i /\ i \in Link
      BY <1>9
    <3>2. prev[i] = IF i \in 2 .. count THEN i - 1 ELSE Null
      BY <1>3, <3>1
    <3>3. i # 1 => i - 1 \in 1 .. count
      OBVIOUS
    <3> QED
      BY <1>9, <3>1, <3>2, <3>3
  <2> QED
    BY <2>1 DEF Backwards
<1>13. Ending(back, count, s) /\ (count # 0 => back = s[count])
  BY <1>1, <1>9 DEF Ending, Null
<1>14. Shape(count, s)
  BY <1>1, <1>2, <1>10, <1>11, <1>12, <1>13 DEF Shape, Promised
<1>15. HasShape
  BY <1>2, <1>9, <1>14 DEF HasShape
<1> QED
  BY <1>4, <1>5, <1>7, <1>15 DEF ListInv

LEMMA ListUnchanged ==
    ASSUME NEW pos, NEW B, ListInv(pos, B), UNCHANGED listVars
    PROVE  ListInv(pos, B)'
  BY DEF listVars, ListInv, Types, LinksExist, HasShape, Shape, Promised

-----------------------------------------------------------------------------
(* WHAT HOLDS OF A LIST *)

IsList == \E pos, B : ListInv(pos, B)

LEMMA IsListAlways == ListSpec => []IsList
<1>1. ListInit => IsList
  BY ListInitially DEF IsList
<1>2. IsList /\ [ListNext]_listVars => IsList'
  <2> SUFFICES ASSUME IsList, [ListNext]_listVars  PROVE IsList'
    OBVIOUS
  <2>1. PICK pos, B : ListInv(pos, B)
    BY DEF IsList
  <2>2. CASE ListNext
    <3>1. Kept(pos)
      BY <2>1, <2>2, ListStep
    <3> QED
      BY <3>1, KeptIsInvariant DEF IsList
  <2>3. CASE UNCHANGED listVars
    <3>1. ListInv(pos, B)'
      BY <2>1, <2>3, ListUnchanged
    <3> QED
      BY <3>1 DEF IsList
  <2> QED
    BY <2>2, <2>3
<1> QED
  BY <1>1, <1>2, PTL DEF ListSpec

LEMMA WalksAre ==
    ASSUME NEW pos, NEW B, ListInv(pos, B), NEW p \in Pointer
    PROVE  \E n \in Nat : \E s \in [1 .. n -> Link] :
              Segment(next, p, Null, n, s) /\ Rising(pos, n, s) /\ Differ(s, n) /\ Walk(p) = s
<1>1. Ranked(next, prev, pos, B) /\ next \in [Link -> Pointer]
  BY DEF ListInv, Types
<1>2. PICK n \in Nat : \E s \in [1 .. n -> Link] : Segment(next, p, Null, n, s)
  BY <1>1, ChainExists
<1>3. PICK s \in [1 .. n -> Link] : Segment(next, p, Null, n, s)
  BY <1>2
<1>4. Rising(pos, n, s) /\ Differ(s, n)
  BY <1>1, <1>3, SegmentRises
<1>5. Walk(p) = s
  BY <1>3, <1>4, ChainIsWalk
<1> QED
  BY <1>3, <1>4, <1>5

LEMMA ListIsWalkable ==
    ASSUME NEW pos, NEW B, ListInv(pos, B)
    PROVE  StaysWalkable /\ KeepsItsElements
<1>1. Types /\ Ranked(next, prev, pos, B) /\ HasShape
  BY DEF ListInv
<1>2. PICK n \in Nat : \E s \in [1 .. n -> Link] : Shape(n, s)
  BY <1>1 DEF HasShape
<1>3. PICK s \in [1 .. n -> Link] : Shape(n, s)
  BY <1>2
<1>4. /\ Len(Elements) = n
      /\ intact => ideal = Elements /\ size = n
      /\ size \in Nat /\ n <= size
  BY <1>1, <1>3, ElementsAre
<1>5. Walk(front) = s /\ Len(s) = n /\ DOMAIN s = 1 .. n
  BY <1>1, <1>3, ListIsRead, SequenceLength
<1>6. (front = Null <=> n = 0) /\ (back = Null <=> n = 0)
  <2>1. n # 0 => front = s[1] /\ 1 \in 1 .. n
    BY <1>3 DEF Shape, Segment
  <2>2. n = 0 => front = Null
    BY <1>3 DEF Shape, Segment
  <2>3. back = Null <=> n = 0
    BY <1>3 DEF Shape, Ending
  <2> QED
    BY <2>1, <2>2, <2>3, LinkIsNotNull
<1>7. ListTypeOK
  BY <1>1, <1>4 DEF Types, ListTypeOK
<1>8. WalksEnd
  <2> SUFFICES ASSUME NEW l \in Link  PROVE IsInjective(Walk(l))
    BY DEF WalksEnd
  <2>1. l \in Pointer
    BY DEF Pointer
  <2>2. PICK m \in Nat : \E t \in [1 .. m -> Link] : Differ(t, m) /\ Walk(l) = t
    BY <2>1, WalksAre
  <2>3. PICK t \in [1 .. m -> Link] : Differ(t, m) /\ Walk(l) = t
    BY <2>2
  <2> QED
    BY <2>3 DEF Differ, IsInjective
<1>9. SizeCoversElements
  BY <1>4, <1>6 DEF SizeCoversElements
<1>10. KeepsItsElements
  <2> SUFFICES ASSUME intact
               PROVE  /\ Elements = ideal
                      /\ size = Len(ideal)
                      /\ front # Null => back = Last(Walk(front))
    BY DEF KeepsItsElements
  <2>1. n # 0 => back = s[n]
    BY <1>3 DEF Shape, Promised
  <2>2. Last(Walk(front)) = s[n]
    BY <1>5 DEF Last
  <2> QED
    BY <1>4, <1>6, <2>1, <2>2
<1> QED
  BY <1>7, <1>8, <1>9, <1>10 DEF StaysWalkable

(* Whatever is done to a list, walks along it end, its size covers what    *)
(* they meet, and it is empty at both ends or at neither.                  *)
THEOREM ListStaysWalkable == ListSpec => []StaysWalkable
<1>1. IsList => StaysWalkable
  BY ListIsWalkable DEF IsList
<1> QED
  BY <1>1, IsListAlways, PTL

(* As long as no broken operation was met, the list is what its methods    *)
(* document.                                                               *)
THEOREM ListKeepsItsElements == ListSpec => []KeepsItsElements
<1>1. IsList => KeepsItsElements
  BY ListIsWalkable DEF IsList
<1> QED
  BY <1>1, IsListAlways, PTL
-----------------------------------------------------------------------------
(* SEQUENCES AN ITERATOR DELIVERS *)

(* What is pushed back comes in reverse, then what the list has left.      *)
Delivery(p, w) == Reverse(p) \o w

LEMMA ReverseIs ==
    ASSUME NEW n \in Nat, NEW p, Objects(p, n)
    PROVE  Objects(Reverse(p), n) /\ \A i \in 1 .. n : Reverse(p)[i] = p[(n - i) + 1]
<1>1. Len(p) = n
  BY SequenceLength DEF Objects
<1>2. Reverse(p) = [i \in 1 .. n |-> p[(n - i) + 1]]
  BY <1>1 DEF Reverse
<1>3. \A i \in 1 .. n : (n - i) + 1 \in 1 .. n
  OBVIOUS
<1> QED
  BY <1>2, <1>3 DEF Objects

LEMMA ObjectsAre ==
    ASSUME NEW w \in Seq(Object)
    PROVE  \E n \in Nat : Objects(w, n) /\ n = Len(w)
  BY LenProperties DEF Objects

LEMMA AreObjects ==
    ASSUME NEW n \in Nat, NEW w, Objects(w, n)
    PROVE  w \in Seq(Object) /\ Len(w) = n
  BY SequenceLength DEF Objects

LEMMA DeliveryIs ==
    ASSUME NEW n \in Nat, NEW m \in Nat, NEW p, NEW w, Objects(p, n), Objects(w, m)
    PROVE  /\ Objects(Delivery(p, w), n + m)
           /\ \A i \in 1 .. n + m : Delivery(p, w)[i] = IF i <= n THEN p[(n - i) + 1] ELSE w[i - n]
<1>1. PICK r : r = Reverse(p)
  OBVIOUS
<1>2. Objects(r, n) /\ \A i \in 1 .. n : r[i] = p[(n - i) + 1]
  BY <1>1, ReverseIs
<1>3. Objects(r \o w, n + m) /\ r \o w = Joined(r, n, w, m)
  BY <1>2, Concatenated
<1>4. \A i \in 1 .. n + m : i <= n => i \in 1 .. n
  OBVIOUS
<1>5. Delivery(p, w) = r \o w
  BY <1>1 DEF Delivery
<1>6. \A i \in 1 .. n + m : (r \o w)[i] = IF i <= n THEN p[(n - i) + 1] ELSE w[i - n]
  BY <1>2, <1>3, <1>4 DEF Joined
<1> QED
  BY <1>3, <1>5, <1>6

(* Nothing is pushed back.                                                 *)
LEMMA NothingPushedBack ==
    ASSUME NEW w \in Seq(Object)
    PROVE  Delivery(<<>>, w) = w
<1>1. PICK m \in Nat : Objects(w, m)
  BY ObjectsAre
<1>2. Objects(<<>>, 0)
  BY DEF Objects
<1>3. PICK e : e = <<>>
  OBVIOUS
<1>4. Objects(e, 0)
  BY <1>2, <1>3
<1>5. /\ Objects(Delivery(e, w), 0 + m)
      /\ \A i \in 1 .. 0 + m : Delivery(e, w)[i] = IF i <= 0 THEN e[(0 - i) + 1] ELSE w[i - 0]
  BY <1>1, <1>4, DeliveryIs
<1>6. PICK d : d = Delivery(e, w)
  OBVIOUS
<1>7. d \in [1 .. m -> Object] /\ w \in [1 .. m -> Object]
  BY <1>1, <1>5, <1>6 DEF Objects
<1>8. \A i \in 1 .. m : d[i] = w[i]
  BY <1>5, <1>6
<1>9. d = w
  BY <1>7, <1>8
<1> QED
  BY <1>3, <1>6, <1>9

(* Tail() of something not empty.                                          *)
LEMMA TailIs ==
    ASSUME NEW n \in Nat, NEW d, Objects(d, n), n # 0
    PROVE  d # <<>> /\ Objects(Tail(d), n - 1) /\ \A i \in 1 .. n - 1 : Tail(d)[i] = d[i + 1]
<1>1. d \in Seq(Object) /\ Len(d) = n
  BY AreObjects
<1>2. d # <<>>
  BY <1>1
<1>3. /\ Tail(d) \in Seq(Object) /\ Len(Tail(d)) = n - 1
      /\ \A i \in 1 .. n - 1 : Tail(d)[i] = d[i + 1]
  BY <1>1, <1>2
<1>4. Objects(Tail(d), n - 1)
  BY <1>3, LenProperties DEF Objects
<1> QED
  BY <1>2, <1>3, <1>4

(* The object pushed back last is delivered.                               *)
LEMMA DeliversPushedBack ==
    ASSUME NEW p \in Seq(Object), NEW w \in Seq(Object), p # <<>>
    PROVE  /\ Front(p) \in Seq(Object)
           /\ Delivery(p, w) # <<>>
           /\ Tail(Delivery(p, w)) = Delivery(Front(p), w)
<1>1. PICK n \in Nat : Objects(p, n) /\ n = Len(p)
  BY ObjectsAre
<1>2. PICK m \in Nat : Objects(w, m)
  BY ObjectsAre
<1>3. n # 0
  BY <1>1, EmptySeq
<1>4. PICK f : f = Front(p)
  OBVIOUS
<1>5. Objects(f, n - 1) /\ \A i \in 1 .. n - 1 : f[i] = p[i]
  <2>1. f = SubSeq(p, 1, n - 1)
    BY <1>1, <1>4 DEF Front
  <2>2. \A i \in 1 .. n - 1 : p[i] \in Object
    BY <1>1 DEF Objects
  <2>3. /\ f \in Seq(Object) /\ Len(f) = IF 1 <= n - 1 THEN (n - 1) - 1 + 1 ELSE 0
        /\ \A i \in 1 .. (n - 1) - 1 + 1 : f[i] = p[1 + i - 1]
    BY <2>1, <2>2, SubSeqProperties
  <2>4. Len(f) = n - 1
    BY <1>3, <2>3
  <2>5. \A i \in 1 .. n - 1 : i \in 1 .. (n - 1) - 1 + 1 /\ 1 + i - 1 = i
    OBVIOUS
  <2>6. Objects(f, n - 1)
    BY <2>3, <2>4, LenProperties DEF Objects
  <2> QED
    BY <2>3, <2>5, <2>6
<1>6. PICK d : d = Delivery(p, w)
  OBVIOUS
<1>7. Objects(d, n + m) /\ \A i \in 1 .. n + m : d[i] = IF i <= n THEN p[(n - i) + 1] ELSE w[i - n]
  BY <1>1, <1>2, <1>6, DeliveryIs
<1>8. PICK k \in Nat : k = n - 1
  BY <1>3
<1>9. PICK e : e = Delivery(f, w)
  OBVIOUS
<1>10. Objects(e, k + m) /\ \A i \in 1 .. k + m : e[i] = IF i <= k THEN f[(k - i) + 1] ELSE w[i - k]
  BY <1>2, <1>5, <1>8, <1>9, DeliveryIs
<1>11. PICK z \in Nat : z = n + m
  OBVIOUS
<1>12. PICK t : t = Tail(d)
  OBVIOUS
<1>13. d # <<>> /\ Objects(t, z - 1) /\ \A i \in 1 .. z - 1 : t[i] = d[i + 1]
  <2>1. Objects(d, z) /\ z # 0
    BY <1>3, <1>7, <1>11
  <2> QED
    BY <1>12, <2>1, TailIs
<1>14. ASSUME NEW i \in 1 .. z - 1  PROVE t[i] = e[i]
  <2>1. i + 1 \in 1 .. n + m /\ i \in 1 .. k + m
    BY <1>8, <1>11
  <2>2. t[i] = IF i + 1 <= n THEN p[(n - (i + 1)) + 1] ELSE w[(i + 1) - n]
    BY <1>7, <1>13, <2>1
  <2>3. e[i] = IF i <= k THEN f[(k - i) + 1] ELSE w[i - k]
    BY <1>10, <2>1
  <2>4. CASE i <= k
    <3>1. i + 1 <= n /\ (n - (i + 1)) + 1 = (k - i) + 1 /\ (k - i) + 1 \in 1 .. n - 1
      BY <1>8, <2>4
    <3> QED
      BY <1>5, <2>2, <2>3, <2>4, <3>1
  <2>5. CASE ~(i <= k)
    <3>1. ~(i + 1 <= n) /\ (i + 1) - n = i - k
      BY <1>8, <2>5
    <3> QED
      BY <2>2, <2>3, <2>5, <3>1
  <2> QED
    BY <2>4, <2>5
<1>15. t = e
  <2>1. z - 1 = k + m
    BY <1>8, <1>11
  <2>2. t \in [1 .. z - 1 -> Object] /\ e \in [1 .. z - 1 -> Object]
    BY <1>10, <1>13, <2>1 DEF Objects
  <2> QED
    BY <1>14, <2>2
<1>16. f \in Seq(Object)
  BY <1>5, <1>8, AreObjects
<1> QED
  BY <1>4, <1>6, <1>9, <1>12, <1>13, <1>15, <1>16

(* What is fed comes first.                                                *)
LEMMA DeliversFed ==
    ASSUME NEW p \in Seq(Object), NEW o \in Seq(Object), NEW w \in Seq(Object)
    PROVE  p \o o \in Seq(Object) /\ Delivery(p \o o, w) = Reverse(o) \o Delivery(p, w)
<1>1. PICK n \in Nat : Objects(p, n)
  BY ObjectsAre
<1>2. PICK k \in Nat : Objects(o, k)
  BY ObjectsAre
<1>3. PICK m \in Nat : Objects(w, m)
  BY ObjectsAre
<1>4. PICK j : j = p \o o
  OBVIOUS
<1>5. Objects(j, n + k) /\ j = Joined(p, n, o, k)
  BY <1>1, <1>2, <1>4, Concatenated
<1>6. PICK d : d = Delivery(j, w)
  OBVIOUS
<1>7. PICK x \in Nat : x = n + k
  OBVIOUS
<1>8. Objects(d, x + m) /\ \A i \in 1 .. x + m : d[i] = IF i <= x THEN j[(x - i) + 1] ELSE w[i - x]
  BY <1>3, <1>5, <1>6, <1>7, DeliveryIs
<1>9. PICK e : e = Delivery(p, w)
  OBVIOUS
<1>10. Objects(e, n + m) /\ \A i \in 1 .. n + m : e[i] = IF i <= n THEN p[(n - i) + 1] ELSE w[i - n]
  BY <1>1, <1>3, <1>9, DeliveryIs
<1>11. PICK y \in Nat : y = n + m
  OBVIOUS
<1>12. PICK f : f = Delivery(o, e)
  OBVIOUS
<1>13. Objects(f, k + y) /\ \A i \in 1 .. k + y : f[i] = IF i <= k THEN o[(k - i) + 1] ELSE e[i - k]
  <2>1. Objects(e, y)
    BY <1>10, <1>11
  <2> QED
    BY <1>2, <1>12, <2>1, DeliveryIs
<1>14. ASSUME NEW i \in 1 .. k + y  PROVE d[i] = f[i]
  <2>1. i \in 1 .. x + m
    BY <1>7, <1>11
  <2>2. d[i] = IF i <= x THEN j[(x - i) + 1] ELSE w[i - x]
    BY <1>8, <2>1
  <2>3. f[i] = IF i <= k THEN o[(k - i) + 1] ELSE e[i - k]
    BY <1>13
  <2>4. CASE i <= k
    <3>1. i <= x /\ (x - i) + 1 \in 1 .. n + k /\ ~((x - i) + 1 <= n) /\ ((x - i) + 1) - n = (k - i) + 1
      BY <1>7, <2>4
    <3>2. j[(x - i) + 1] = o[(k - i) + 1]
      BY <1>5, <3>1 DEF Joined
    <3> QED
      BY <2>2, <2>3, <2>4, <3>1, <3>2
  <2>5. CASE ~(i <= k) /\ i <= x
    <3>1. i - k \in 1 .. n + m /\ i - k <= n
      BY <1>7, <1>11, <2>5
    <3>2. e[i - k] = p[(n - (i - k)) + 1]
      BY <1>10, <3>1
    <3>3. (x - i) + 1 \in 1 .. n + k /\ (x - i) + 1 <= n /\ (x - i) + 1 = (n - (i - k)) + 1
      BY <1>7, <2>5
    <3>4. j[(x - i) + 1] = p[(x - i) + 1]
      BY <1>5, <3>3 DEF Joined
    <3> QED
      BY <2>2, <2>3, <2>5, <3>2, <3>3, <3>4
  <2>6. CASE ~(i <= x)
    <3>1. ~(i <= k) /\ i - k \in 1 .. n + m /\ ~(i - k <= n) /\ (i - k) - n = i - x
      BY <1>7, <1>11, <2>6
    <3>2. e[i - k] = w[i - x]
      BY <1>10, <3>1
    <3> QED
      BY <2>2, <2>3, <2>6, <3>1, <3>2
  <2> QED
    BY <2>4, <2>5, <2>6
<1>15. d = f
  <2>1. x + m = k + y
    BY <1>7, <1>11
  <2>2. d \in [1 .. k + y -> Object] /\ f \in [1 .. k + y -> Object]
    BY <1>8, <1>13, <2>1 DEF Objects
  <2> QED
    BY <1>14, <2>2
<1>16. j \in Seq(Object)
  <2>1. Objects(j, x)
    BY <1>5, <1>7
  <2> QED
    BY <2>1, AreObjects
<1>17. f = Reverse(o) \o e
  BY <1>12 DEF Delivery
<1> QED
  BY <1>4, <1>6, <1>9, <1>15, <1>16, <1>17
-----------------------------------------------------------------------------
(* THE INDUCTIVE INVARIANT OF ITERATION *)

(* What the list has left for an iterator at p.                            *)
Left(p) == Values(Walk(p))

IterationTypes ==
    /\ iterator \in [Handles -> Handles \cup {EmptyIterator, NoIterator}]
    /\ \A h \in Handles : iterator[h] \in {h, EmptyIterator, NoIterator}
    /\ cursor \in [Handles -> Pointer]
    /\ \A h \in Handles : cursor[h] <= created
    /\ pushback \in [Handles \cup {EmptyIterator} -> Seq(Object)]
    /\ fed = [h \in Handles |-> fed[h]]
    /\ \A h \in Handles : quiet[h] /\ iterator[h] = h => fed[h] \in Seq(Object)
    /\ expected \in [Handles -> Seq(Object)]
    /\ quiet \in [Handles -> BOOLEAN]
    /\ seen \in [Handles -> SUBSET Link]

(* An iterator is behind every link it went through.                       *)
SeenBefore(pos) ==
    \A h \in Handles : \A x \in seen[h] :
        /\ x <= created
        /\ cursor[h] # Null => pos[x] < pos[cursor[h]]

(* An iterator delivers what it is expected to, and what was fed before it, *)
(* the last object first.                                                  *)
DeliversLeft ==
    \A h \in Handles : quiet[h] /\ iterator[h] = h =>
        Delivery(fed[h], expected[h]) = Delivery(pushback[h], Left(cursor[h]))

(* The index of a search counts links before the one it has come to.       *)
Passed(pos, q, i) ==
    /\ q \in Link /\ q <= created /\ i \in Nat
    /\ \E c \in [1 .. i -> Link] :
          /\ Rising(pos, i, c)
          /\ \A j \in 1 .. i : c[j] <= created /\ pos[c[j]] < pos[q]

Passing(pos) ==
    /\ stable \in BOOLEAN
    /\ search = NoSearch
       \/ \E q, i : search = [link |-> q, index |-> i] /\ Passed(pos, q, i)

(* While nothing moved it is the index of that link.                       *)
Finds(n, s) ==
    search # NoSearch /\ stable =>
        search.index + 1 \in 1 .. n /\ s[search.index + 1] = search.link

Found == \E n \in Nat : \E s \in [1 .. n -> Link] : Shape(n, s) /\ Finds(n, s)

IterInv(pos, B) ==
    /\ ListInv(pos, B)
    /\ IterationTypes
    /\ SeenBefore(pos)
    /\ DeliversLeft
    /\ Passing(pos)
    /\ Found

-----------------------------------------------------------------------------
(* THE SEARCH OF remove() *)

LEMMA PassedAndFound ==
    ASSUME NEW pos, NEW B, Ranked(next, prev, pos, B), NEW q, NEW i, Passed(pos, q, i)
    PROVE  /\ i + 1 <= MaxLinks
           /\ \E u \in [1 .. i + 1 -> Link] :
                 /\ Rising(pos, i + 1, u)
                 /\ \A j \in 1 .. i + 1 : u[j] <= created /\ (u[j] = q \/ pos[u[j]] < pos[q])
<1>1. PICK c \in [1 .. i -> Link] :
          /\ Rising(pos, i, c)
          /\ \A j \in 1 .. i : c[j] <= created /\ pos[c[j]] < pos[q]
  BY DEF Passed
<1>2. q \in Link /\ q <= created /\ i \in Nat
  BY DEF Passed
<1>3. PICK u : u = [j \in 1 .. i + 1 |-> IF j <= i THEN c[j] ELSE q]
  OBVIOUS
<1>4. /\ u \in [1 .. i + 1 -> Link]
      /\ \A j \in 1 .. i + 1 : /\ j <= i => j \in 1 .. i /\ u[j] = c[j]
                               /\ ~(j <= i) => j = i + 1 /\ u[j] = q
  BY <1>2, <1>3
<1>5. ASSUME NEW j \in 1 .. i + 1, NEW k \in 1 .. i + 1, j < k  PROVE pos[u[j]] < pos[u[k]]
  <2>1. j \in 1 .. i /\ u[j] = c[j]
    BY <1>2, <1>4, <1>5
  <2>2. CASE k <= i
    BY <1>1, <1>4, <1>5, <2>1, <2>2 DEF Rising
  <2>3. CASE ~(k <= i)
    BY <1>1, <1>4, <2>1, <2>3
  <2> QED
    BY <2>2, <2>3
<1>6. Rising(pos, i + 1, u)
  BY <1>5 DEF Rising
<1>7. Differ(u, i + 1)
  <2>1. \A j \in 1 .. i + 1 : pos[u[j]] \in Int
    BY <1>4 DEF Ranked
  <2>2. ASSUME NEW j \in 1 .. i + 1, NEW k \in 1 .. i + 1, u[j] = u[k]  PROVE j = k
    <3>1. ~(j < k) /\ ~(k < j)
      BY <1>6, <2>1, <2>2 DEF Rising
    <3> QED
      BY <1>2, <3>1
  <2> QED
    BY <2>2 DEF Differ
<1>8. i + 1 <= MaxLinks
  <2>1. i + 1 \in Nat
    BY <1>2
  <2> QED
    BY <1>4, <1>7, <2>1, ChainIsShort
<1>9. \A j \in 1 .. i + 1 : u[j] <= created /\ (u[j] = q \/ pos[u[j]] < pos[q])
  BY <1>1, <1>2, <1>4
<1> QED
  BY <1>4, <1>6, <1>8, <1>9

LEMMA PassesOn ==
    ASSUME NEW pos, NEW B, Types, LinksExist, Ranked(next, prev, pos, B),
           NEW q, NEW i, Passed(pos, q, i), next[q] # Null
    PROVE  Passed(pos, next[q], i + 1)
<1>1. PICK u \in [1 .. i + 1 -> Link] :
          /\ Rising(pos, i + 1, u)
          /\ \A j \in 1 .. i + 1 : u[j] <= created /\ (u[j] = q \/ pos[u[j]] < pos[q])
  BY PassedAndFound
<1>2. q \in Link /\ i \in Nat
  BY DEF Passed
<1>3. next[q] \in Link /\ next[q] <= created /\ pos[q] < pos[next[q]]
  BY <1>2 DEF Types, Pointer, LinksExist, Ranked
<1>4. pos[q] \in Int /\ pos[next[q]] \in Int /\ \A j \in 1 .. i + 1 : pos[u[j]] \in Int
  BY <1>2, <1>3 DEF Ranked
<1>5. \A j \in 1 .. i + 1 : u[j] <= created /\ pos[u[j]] < pos[next[q]]
  BY <1>1, <1>3, <1>4
<1> QED
  BY <1>1, <1>2, <1>3, <1>5 DEF Passed

LEMMA PassedStays ==
    ASSUME NEW pos, NEW pos2, SameOrder(pos, pos2), created \in Nat, created' \in Nat, created <= created',
           NEW q, NEW i, Passed(pos, q, i)
    PROVE  Passed(pos2, q, i)'
<1>1. PICK c \in [1 .. i -> Link] :
          /\ Rising(pos, i, c)
          /\ \A j \in 1 .. i : c[j] <= created /\ pos[c[j]] < pos[q]
  BY DEF Passed
<1>2. q \in Link /\ q <= created /\ i \in Nat
  BY DEF Passed
<1>3. q \in 1 .. created /\ \A j \in 1 .. i : c[j] \in 1 .. created
  BY <1>1, <1>2 DEF Link
<1>4. Rising(pos2, i, c)
  BY <1>1, <1>3 DEF Rising, SameOrder
<1>5. \A j \in 1 .. i : c[j] <= created' /\ pos2[c[j]] < pos2[q]
  BY <1>1, <1>3 DEF SameOrder
<1>6. q <= created'
  BY <1>3
<1> QED
  BY <1>2, <1>4, <1>5, <1>6 DEF Passed

-----------------------------------------------------------------------------
(* THE LIST CHANGES UNDER ITERATORS *)

LEMMA ListChanges ==
    ASSUME NEW pos, NEW B, IterInv(pos, B), Kept(pos), Disturbed, Found',
           search' = search \/ search' = NoSearch, stable' \in BOOLEAN
    PROVE  \E pos2, B2 : IterInv(pos2, B2)'
<1>1. PICK pos2, B2 : ListInv(pos2, B2)' /\ SameOrder(pos, pos2)
  BY KeptIsInvariant
<1>2. created \in Nat /\ created' \in Nat /\ created <= created'
  BY DEF IterInv, ListInv, Types, Kept
<1>3. /\ fed' = [h \in Handles |-> <<>>]
      /\ expected' = [h \in Handles |-> <<>>]
      /\ quiet' = [h \in Handles |-> FALSE]
      /\ UNCHANGED <<iterator, cursor, pushback, seen>>
  BY DEF Disturbed
<1>4. IterationTypes'
  <2>1. IterationTypes
    BY DEF IterInv
  <2>2. \A h \in Handles : cursor[h] <= created'
    <3>1. \A h \in Handles : cursor[h] \in Nat
      BY <2>1 DEF IterationTypes, Pointer, Link, Null
    <3> QED
      BY <1>2, <2>1, <3>1 DEF IterationTypes
  <2>3. /\ fed' = [h \in Handles |-> fed'[h]]
        /\ \A h \in Handles : quiet'[h] /\ iterator'[h] = h => fed'[h] \in Seq(Object)
        /\ expected' \in [Handles -> Seq(Object)]
    BY <1>3
  <2>4. quiet' \in [Handles -> BOOLEAN]
    BY <1>3
  <2> QED
    BY <1>3, <2>1, <2>2, <2>3, <2>4 DEF IterationTypes
<1>5. SeenBefore(pos2)'
  <2> SUFFICES ASSUME NEW h \in Handles, NEW x \in seen[h]
               PROVE  /\ x <= created'
                      /\ cursor[h] # Null => pos2[x] < pos2[cursor[h]]
    BY <1>3 DEF SeenBefore
  <2>1. x \in Link /\ x <= created /\ (cursor[h] # Null => pos[x] < pos[cursor[h]])
    BY DEF IterInv, IterationTypes, SeenBefore
  <2>2. x \in 1 .. created
    BY <1>2, <2>1 DEF Link
  <2>3. cursor[h] # Null => cursor[h] \in 1 .. created
    BY <1>2 DEF IterInv, IterationTypes, Pointer, Link
  <2> QED
    BY <1>1, <1>2, <2>1, <2>2, <2>3 DEF SameOrder
<1>6. DeliversLeft'
  BY <1>3 DEF DeliversLeft
<1>7. Passing(pos2)'
  <2>1. CASE search' = NoSearch
    BY <2>1 DEF Passing, NoSearch
  <2>2. CASE search' = search /\ search # NoSearch
    <3>1. PICK q, i : search = [link |-> q, index |-> i] /\ Passed(pos, q, i)
      BY <2>2 DEF IterInv, Passing
    <3>2. Passed(pos2, q, i)'
      BY <1>1, <1>2, <3>1, PassedStays
    <3> QED
      BY <2>2, <3>1, <3>2 DEF Passing
  <2> QED
    BY <2>1, <2>2
<1> QED
  BY <1>1, <1>4, <1>5, <1>6, <1>7 DEF IterInv
-----------------------------------------------------------------------------
(* WHAT THE LIST HAS LEFT FOR AN ITERATOR *)

LEMMA LeftOfChain ==
    ASSUME Types, NEW p, NEW n \in Nat, NEW s \in [1 .. n -> Link], Walk(p) = s
    PROVE  Left(p) = ValuesOf(value, s, n) /\ Objects(Left(p), n)
<1>1. DOMAIN s = 1 .. n
  OBVIOUS
<1>2. Left(p) = ValuesOf(value, s, n)
  BY <1>1 DEF Left, Values, ValuesOf
<1>3. ValuesOf(value, s, n) \in [1 .. n -> Object]
  BY DEF ValuesOf, Types
<1> QED
  BY <1>2, <1>3 DEF Objects

LEMMA LeftIsSequence ==
    ASSUME NEW pos, NEW B, ListInv(pos, B), NEW c \in Pointer
    PROVE  Left(c) \in Seq(Object)
<1>1. PICK n \in Nat : \E s \in [1 .. n -> Link] : Walk(c) = s
  BY WalksAre
<1>2. PICK s \in [1 .. n -> Link] : Walk(c) = s
  BY <1>1
<1>3. Objects(Left(c), n)
  BY <1>2, LeftOfChain DEF ListInv
<1> QED
  BY <1>3, AreObjects

(* The value of the link, then what comes behind it.                       *)
LEMMA LeftAtLink ==
    ASSUME NEW pos, NEW B, ListInv(pos, B), NEW c \in Link
    PROVE  /\ next[c] \in Pointer
           /\ Left(c) # <<>>
           /\ Tail(Left(c)) = Left(next[c])
           /\ <<value[c]>> \in Seq(Object)
           /\ Delivery(<<value[c]>>, Left(next[c])) = Left(c)
<1>1. Types /\ Ranked(next, prev, pos, B)
  BY DEF ListInv
<1>2. c \in Pointer /\ next[c] \in Pointer /\ value[c] \in Object
  BY <1>1 DEF Types, Pointer
<1>3. PICK n \in Nat : \E s \in [1 .. n -> Link] :
          Segment(next, c, Null, n, s) /\ Rising(pos, n, s) /\ Differ(s, n) /\ Walk(c) = s
  BY <1>2, WalksAre
<1>4. PICK s \in [1 .. n -> Link] :
          Segment(next, c, Null, n, s) /\ Rising(pos, n, s) /\ Differ(s, n) /\ Walk(c) = s
  BY <1>3
<1>5. n # 0 /\ c = s[1] /\ 1 \in 0 .. n /\ 1 \in 1 .. n
  BY <1>4, LinkIsNotNull DEF Segment
<1>6. PICK r : r = Rest(s, n, 1)
  OBVIOUS
<1>7. /\ r \in [1 .. n - 1 -> Link] /\ n - 1 \in Nat
      /\ Segment(next, next[c], Null, n - 1, r)
      /\ \A i \in 1 .. n - 1 : r[i] = s[i + 1]
  <2>1. /\ Rest(s, n, 1) \in [1 .. n - 1 -> Link]
        /\ Segment(next, After(s, n, 1, Null), Null, n - 1, Rest(s, n, 1))
    BY <1>4, <1>5, SegmentSplits
  <2>2. next[c] = IF 1 = n THEN Null ELSE s[1 + 1]
    BY <1>4, <1>5 DEF Segment
  <2>3. next[c] = After(s, n, 1, Null)
    BY <2>2 DEF After
  <2>4. \A i \in 1 .. n - 1 : Rest(s, n, 1)[i] = s[1 + i] /\ 1 + i = i + 1
    BY DEF Rest
  <2> QED
    BY <1>5, <1>6, <2>1, <2>3, <2>4
<1>8. PICK k \in Nat : k = n - 1
  BY <1>7
<1>9. Walk(next[c]) = r /\ r \in [1 .. k -> Link]
  <2>1. Differ(r, k)
    <3>1. \A i \in 1 .. k : i + 1 \in 1 .. n /\ r[i] = s[i + 1]
      BY <1>7, <1>8
    <3> QED
      BY <1>4, <3>1 DEF Differ
  <2> QED
    BY <1>7, <1>8, <2>1, ChainIsWalk
<1>10. PICK a : a = Left(c)
  OBVIOUS
<1>11. PICK b : b = Left(next[c])
  OBVIOUS
<1>12. Objects(a, n) /\ \A i \in 1 .. n : a[i] = value[s[i]]
  BY <1>1, <1>4, <1>10, LeftOfChain DEF ValuesOf
<1>13. Objects(b, k) /\ \A i \in 1 .. k : b[i] = value[r[i]]
  BY <1>1, <1>9, <1>11, LeftOfChain DEF ValuesOf
<1>14. a # <<>> /\ Objects(Tail(a), n - 1) /\ \A i \in 1 .. n - 1 : Tail(a)[i] = a[i + 1]
  BY <1>5, <1>12, TailIs
<1>15. Tail(a) = b
  <2>1. Tail(a) \in [1 .. k -> Object] /\ b \in [1 .. k -> Object]
    BY <1>8, <1>13, <1>14 DEF Objects
  <2>2. \A i \in 1 .. k : i + 1 \in 1 .. n /\ i \in 1 .. n - 1
    BY <1>8
  <2>3. \A i \in 1 .. k : Tail(a)[i] = b[i]
    BY <1>7, <1>12, <1>13, <1>14, <2>2
  <2> QED
    BY <2>1, <2>3
<1>16. PICK v : v = <<value[c]>>
  OBVIOUS
<1>17. v \in Seq(Object) /\ Objects(v, 1) /\ v[1] = value[c]
  BY <1>2, <1>16 DEF Objects
<1>18. PICK d : d = Delivery(v, b)
  OBVIOUS
<1>19. Objects(d, 1 + k) /\ \A i \in 1 .. 1 + k : d[i] = IF i <= 1 THEN v[(1 - i) + 1] ELSE b[i - 1]
  BY <1>13, <1>17, <1>18, DeliveryIs
<1>20. d = a
  <2>1. d \in [1 .. n -> Object] /\ a \in [1 .. n -> Object] /\ 1 + k = n
    BY <1>8, <1>12, <1>19 DEF Objects
  <2>2. ASSUME NEW i \in 1 .. n  PROVE d[i] = a[i]
    <3>1. d[i] = IF i <= 1 THEN v[(1 - i) + 1] ELSE b[i - 1]
      BY <1>19, <2>1
    <3>2. CASE i = 1
      <4>1. a[i] = value[c]
        BY <1>5, <1>12, <3>2
      <4>2. d[i] = v[1]
        BY <3>1, <3>2
      <4> QED
        BY <1>17, <4>1, <4>2
    <3>3. CASE i # 1
      <4>1. ~(i <= 1) /\ i - 1 \in 1 .. k /\ i - 1 \in 1 .. n - 1 /\ (i - 1) + 1 = i
        BY <1>8, <3>3
      <4>2. r[i - 1] = s[i]
        BY <1>7, <4>1
      <4> QED
        BY <1>12, <1>13, <3>1, <4>1, <4>2
    <3> QED
      BY <3>2, <3>3
  <2> QED
    BY <2>1, <2>2
<1> QED
  BY <1>2, <1>10, <1>11, <1>14, <1>15, <1>16, <1>17, <1>18, <1>20

LEMMA LeftStays ==
    ASSUME UNCHANGED listVars, NEW c
    PROVE  Left(c)' = Left(c)
  BY DEF listVars, Left, Values, Walk, Follow
LEMMA FoundStillThere ==
    ASSUME Found, \A n \in Nat : \A s \in [1 .. n -> Link] : Shape(n, s) => Longer(n, s),
           UNCHANGED searchVars
    PROVE  Found'
<1>1. PICK n \in Nat : \E s \in [1 .. n -> Link] : Shape(n, s) /\ Finds(n, s)
  BY DEF Found
<1>2. PICK s \in [1 .. n -> Link] : Shape(n, s) /\ Finds(n, s)
  BY <1>1
<1>3. Longer(n, s)
  BY <1>2
<1>4. PICK m \in Nat : \E u \in [1 .. m -> Link] :
          ShapeParts(m, u) /\ n <= m /\ \A i \in 1 .. n : u[i] = s[i]
  BY <1>3 DEF Longer
<1>5. PICK u \in [1 .. m -> Link] :
          ShapeParts(m, u) /\ n <= m /\ \A i \in 1 .. n : u[i] = s[i]
  BY <1>4
<1>6. Shape(m, u)'
  BY <1>5 DEF ShapeParts, Shape, Promised, ValuesOf
<1>7. Finds(m, u)'
  <2>1. \A i \in 1 .. n : i \in 1 .. m
    BY <1>5
  <2> QED
    BY <1>2, <1>5, <2>1 DEF Finds, searchVars
<1> QED
  BY <1>6, <1>7 DEF Found

(* Without a search or when the search lost its place.                     *)
LEMMA NothingToFind ==
    ASSUME NEW pos, Kept(pos), search' = NoSearch \/ ~stable'
    PROVE  Found'
<1>1. PICK n \in Nat : (\E s \in [1 .. n -> Link] : Shape(n, s))'
  BY DEF Kept, HasShape
<1>2. PICK s \in [1 .. n -> Link] : Shape(n, s)'
  BY <1>1
<1>3. Finds(n, s)'
  BY DEF Finds
<1> QED
  BY <1>2, <1>3 DEF Found

LEMMA IndexesAreNumbers ==
    /\ \A i \in Indexes : i \in Int
    /\ \A i \in 1 .. MaxVector : i \in Nat \ {0}
    /\ \A i \in 0 .. MaxVector : i \in Nat
  BY BoundsAssumption DEF Indexes

LEMMA GrowStep ==
    ASSUME NEW pos, NEW B, IterInv(pos, B), Grow
    PROVE  \E pos2, B2 : IterInv(pos2, B2)'
<1> DEFINE Lengthens == \A n \in Nat : \A s \in [1 .. n -> Link] : Shape(n, s) => Longer(n, s)
<1>1. ListInv(pos, B) /\ Found /\ stable \in BOOLEAN
  BY DEF IterInv, Passing
<1>2. Disturbed /\ UNCHANGED searchVars
  BY DEF Grow
<1>3. Kept(pos) /\ Lengthens
  <2>1. CASE AppendValue
    <3>1. Appended(1) /\ 1 \in Nat \ {0}
      BY <1>1, <2>1, AppendValueAppends DEF ListInv
    <3>2. Lengthens
      BY <1>1, <3>1, AppendLengthens
    <3> QED
      BY <1>1, <2>1, <3>2, AppendValueKeeps
  <2>2. ASSUME NEW count \in 1 .. MaxVector, AppendVector(count)  PROVE Kept(pos) /\ Lengthens
    <3>1. count \in Nat \ {0}
      BY IndexesAreNumbers
    <3>2. Appended(count)
      BY <1>1, <2>2, <3>1, AppendVectorAppends DEF ListInv
    <3>3. Lengthens
      BY <1>1, <3>1, <3>2, AppendLengthens
    <3> QED
      BY <1>1, <2>2, <3>1, <3>3, AppendVectorKeeps
  <2>3. ASSUME NEW index \in Indexes, NEW object \in Others, SetItem(index, object)
        PROVE  Kept(pos) /\ Lengthens
    <3>1. index \in Int
      BY IndexesAreNumbers
    <3>2. Lengthens
      BY <1>1, <2>3, <3>1, SetItemLengthens
    <3> QED
      BY <1>1, <2>3, <3>1, <3>2, SetItemKeeps
  <2> HIDE DEF Lengthens
  <2> QED
    BY <2>1, <2>2, <2>3 DEF Grow
<1>4. Found'
  BY <1>1, <1>2, <1>3, FoundStillThere
<1> HIDE DEF Lengthens
<1>5. search' = search /\ stable' \in BOOLEAN
  BY <1>1, <1>2 DEF searchVars
<1> QED
  BY <1>2, <1>3, <1>4, <1>5, ListChanges

LEMMA MoveStep ==
    ASSUME NEW pos, NEW B, IterInv(pos, B), Move
    PROVE  \E pos2, B2 : IterInv(pos2, B2)'
<1>1. ListInv(pos, B) /\ HasShape
  BY DEF IterInv, ListInv
<1>2. Disturbed /\ stable' = (search = NoSearch) /\ search' = search
  BY DEF Move
<1>3. Kept(pos)
  <2>1. ASSUME NEW count \in 1 .. MaxVector, PrependVector(count)  PROVE Kept(pos)
    BY <1>1, <2>1, IndexesAreNumbers, PrependVectorKeeps
  <2>2. ASSUME NEW index \in Indexes, Insert(index)  PROVE Kept(pos)
    BY <1>1, <2>2, IndexesAreNumbers, InsertKeeps
  <2>3. ASSUME NEW index \in Indexes, PopAt(index)  PROVE Kept(pos)
    <3>1. PICK j \in Int : j = Position(index)
      BY <1>1, IndexesAreNumbers, PositionsAre
    <3>2. Erase(j)
      BY <2>3, <3>1 DEF PopAt
    <3> QED
      BY <1>1, <3>2, EraseKeeps
  <2>4. CASE PopLast
    <3>1. PICK j \in Int : j = size - 1
      BY <1>1 DEF HasShape, Shape
    <3>2. Erase(j)
      BY <2>4, <3>1 DEF PopLast
    <3> QED
      BY <1>1, <3>2, EraseKeeps
  <2>5. CASE Clear
    BY <1>1, <2>5, ClearKeeps
  <2>6. ASSUME NEW count \in 0 .. MaxVector, Initialize(count)  PROVE Kept(pos)
    BY <1>1, <2>6, IndexesAreNumbers, InitializeKeeps
  <2> QED
    BY <2>1, <2>2, <2>3, <2>4, <2>5, <2>6 DEF Move
<1>4. stable' \in BOOLEAN
  BY <1>2
<1>5. search' = NoSearch \/ ~stable'
  BY <1>2
<1>6. Found'
  BY <1>3, <1>5, NothingToFind
<1> QED
  BY <1>2, <1>3, <1>4, <1>6, ListChanges

LEMMA ReplaceStep ==
    ASSUME NEW pos, NEW B, IterInv(pos, B), Replace
    PROVE  \E pos2, B2 : IterInv(pos2, B2)'
<1>1. ListInv(pos, B) /\ stable \in BOOLEAN
  BY DEF IterInv, Passing
<1>2. Disturbed /\ search = NoSearch /\ search' = search /\ stable' = stable
  BY DEF Replace, searchVars
<1>3. Kept(pos)
  <2>1. ASSUME NEW count \in 0 .. MaxVector, Add(count)  PROVE Kept(pos)
    BY <1>1, <2>1, IndexesAreNumbers, AddKeeps
  <2>2. ASSUME NEW times \in {0, 2}, Mul(times)  PROVE Kept(pos)
    BY <1>1, <2>2, MulKeeps
  <2> QED
    BY <2>1, <2>2 DEF Replace
<1>4. Found'
  BY <1>2, <1>3, NothingToFind
<1>5. stable' \in BOOLEAN
  BY <1>1, <1>2
<1> QED
  BY <1>2, <1>3, <1>4, <1>5, ListChanges
-----------------------------------------------------------------------------
(* THE SEARCH GOES ON *)

LEMMA IteratorsUnchanged ==
    ASSUME NEW pos, NEW B, IterInv(pos, B), UNCHANGED <<listVars, iteratorVars>>
    PROVE  ListInv(pos, B)' /\ IterationTypes' /\ SeenBefore(pos)' /\ DeliversLeft'
<1>1. ListInv(pos, B) /\ IterationTypes /\ SeenBefore(pos) /\ DeliversLeft
  BY DEF IterInv
<1>2. UNCHANGED listVars /\ UNCHANGED created /\ UNCHANGED iteratorVars
  BY DEF listVars
<1>3. ListInv(pos, B)'
  BY <1>1, <1>2, ListUnchanged
<1>4. IterationTypes' /\ SeenBefore(pos)'
  BY <1>1, <1>2 DEF iteratorVars, IterationTypes, SeenBefore
<1>5. DeliversLeft'
  <2> SUFFICES ASSUME NEW h \in Handles, quiet'[h], iterator'[h] = h
               PROVE  Delivery(fed'[h], expected'[h]) = Delivery(pushback'[h], Left(cursor[h])')
    BY <1>2 DEF DeliversLeft, iteratorVars, Delivery
  <2>1. Delivery(fed[h], expected[h]) = Delivery(pushback[h], Left(cursor[h]))
    BY <1>1, <1>2 DEF DeliversLeft, iteratorVars
  <2>2. PICK c : c = cursor[h]
    OBVIOUS
  <2>3. Left(c)' = Left(c)
    BY <1>2, LeftStays
  <2>4. c = cursor'[h]
    BY <1>2, <2>2 DEF iteratorVars
  <2>5. Left(cursor[h])' = Left(cursor[h])
    BY <2>2, <2>3, <2>4
  <2> QED
    BY <1>2, <2>1, <2>5 DEF iteratorVars
<1> QED
  BY <1>3, <1>4, <1>5

LEMMA ShapeUnchanged ==
    ASSUME UNCHANGED listVars, NEW n, NEW s, Shape(n, s)
    PROVE  Shape(n, s)'
  BY DEF listVars, Shape, Promised, ValuesOf

LEMMA PassedUnchanged ==
    ASSUME UNCHANGED listVars, NEW pos, NEW q, NEW i, Passed(pos, q, i)
    PROVE  Passed(pos, q, i)'
  BY DEF listVars, Passed

LEMMA FoundUnchanged ==
    ASSUME UNCHANGED listVars, Found, search' = NoSearch \/ UNCHANGED searchVars
    PROVE  Found'
<1>1. PICK n \in Nat : \E s \in [1 .. n -> Link] : Shape(n, s) /\ Finds(n, s)
  BY DEF Found
<1>2. PICK s \in [1 .. n -> Link] : Shape(n, s) /\ Finds(n, s)
  BY <1>1
<1>3. Shape(n, s)'
  BY <1>2, ShapeUnchanged
<1>4. Finds(n, s)'
  BY <1>2 DEF Finds, searchVars
<1> QED
  BY <1>3, <1>4 DEF Found

LEMMA PassingUnchanged ==
    ASSUME UNCHANGED <<listVars, searchVars>>, NEW pos, Passing(pos)
    PROVE  Passing(pos)'
<1>1. UNCHANGED listVars /\ search' = search /\ stable' = stable
  BY DEF searchVars
<1>2. stable' \in BOOLEAN
  BY <1>1 DEF Passing
<1>3. CASE search = NoSearch
  BY <1>1, <1>2, <1>3 DEF Passing, NoSearch
<1>4. CASE search # NoSearch
  <2>1. PICK q, i : search = [link |-> q, index |-> i] /\ Passed(pos, q, i)
    BY <1>4 DEF Passing
  <2>2. Passed(pos, q, i)'
    BY <1>1, <2>1, PassedUnchanged
  <2> QED
    BY <1>1, <1>2, <2>1, <2>2 DEF Passing
<1> QED
  BY <1>3, <1>4

LEMMA BeginRemoveStep ==
    ASSUME NEW pos, NEW B, IterInv(pos, B), BeginRemove
    PROVE  IterInv(pos, B)'
<1>1. /\ search = NoSearch /\ front # Null
      /\ search' = [link |-> front, index |-> 0]
      /\ UNCHANGED listVars /\ UNCHANGED iteratorVars /\ stable' = stable
  BY DEF BeginRemove
<1>2. Types /\ LinksExist /\ stable \in BOOLEAN
  BY DEF IterInv, ListInv, Passing
<1>3. Passed(pos, front, 0)
  <2>1. front \in Link /\ front <= created
    BY <1>1, <1>2 DEF Types, Pointer, LinksExist
  <2>2. PICK c : c = [i \in 1 .. 0 |-> i]
    OBVIOUS
  <2>3. c \in [1 .. 0 -> Link] /\ Rising(pos, 0, c)
    BY <2>2 DEF Rising
  <2>4. \A j \in 1 .. 0 : c[j] <= created /\ pos[c[j]] < pos[front]
    OBVIOUS
  <2>5. \E d \in [1 .. 0 -> Link] :
           /\ Rising(pos, 0, d)
           /\ \A j \in 1 .. 0 : d[j] <= created /\ pos[d[j]] < pos[front]
    BY <2>3, <2>4
  <2>6. 0 \in Nat
    OBVIOUS
  <2> QED
    BY <2>1, <2>5, <2>6, Zenon DEF Passed
<1>4. Passing(pos)'
  <2>1. PICK q : q = front
    OBVIOUS
  <2>2. Passed(pos, q, 0)'
    BY <1>1, <1>3, <2>1, PassedUnchanged
  <2>3. stable' \in BOOLEAN
    BY <1>1, <1>2
  <2>4. search' = [link |-> q, index |-> 0]
    BY <1>1, <2>1
  <2> QED
    BY <2>2, <2>3, <2>4 DEF Passing
<1>5. Found'
  <2>1. PICK n \in Nat : \E s \in [1 .. n -> Link] : Shape(n, s)
    BY DEF IterInv, Found
  <2>2. PICK s \in [1 .. n -> Link] : Shape(n, s)
    BY <2>1
  <2>3. n # 0 /\ front = s[1]
    BY <1>1, <2>2 DEF Shape, Segment
  <2>4. search'.index = 0 /\ search'.link = front
    BY <1>1
  <2>5. 0 + 1 \in 1 .. n /\ s[0 + 1] = front
    BY <2>3
  <2>6. Finds(n, s)'
    BY <2>4, <2>5 DEF Finds
  <2>7. Shape(n, s)'
    BY <1>1, <2>2, ShapeUnchanged
  <2> QED
    BY <2>6, <2>7 DEF Found
<1>6. ListInv(pos, B)' /\ IterationTypes' /\ SeenBefore(pos)' /\ DeliversLeft'
  BY <1>1, IteratorsUnchanged
<1> QED
  BY <1>4, <1>5, <1>6 DEF IterInv

(* The search ends.                                                        *)
LEMMA SearchEnds ==
    ASSUME NEW pos, NEW B, IterInv(pos, B), search' = NoSearch, stable' \in BOOLEAN,
           UNCHANGED <<listVars, iteratorVars>>
    PROVE  IterInv(pos, B)'
<1>1. Found'
  BY FoundUnchanged DEF IterInv
<1>2. Passing(pos)'
  BY DEF Passing, NoSearch
<1>3. ListInv(pos, B)' /\ IterationTypes' /\ SeenBefore(pos)' /\ DeliversLeft'
  BY IteratorsUnchanged
<1> QED
  BY <1>1, <1>2, <1>3 DEF IterInv

LEMMA DiffersStep ==
    ASSUME NEW pos, NEW B, IterInv(pos, B), Differs
    PROVE  IterInv(pos, B)'
<1>1. /\ search # NoSearch
      /\ search' = IF next[search.link] = Null THEN NoSearch
                   ELSE [link |-> next[search.link], index |-> search.index + 1]
      /\ stable' = (stable \/ search' = NoSearch)
      /\ UNCHANGED listVars /\ UNCHANGED iteratorVars
  BY DEF Differs
<1>2. stable' \in BOOLEAN
  BY <1>1
<1>3. PICK q, i : search = [link |-> q, index |-> i] /\ Passed(pos, q, i)
  BY <1>1 DEF IterInv, Passing
<1>4. search.link = q /\ search.index = i
  BY <1>3
<1>5. CASE next[q] = Null
  BY <1>1, <1>2, <1>4, <1>5, SearchEnds
<1>6. CASE next[q] # Null
  <2>1. PICK t : t = next[q]
    OBVIOUS
  <2>2. search' = [link |-> t, index |-> i + 1]
    BY <1>1, <1>4, <1>6, <2>1
  <2>3. Passed(pos, t, i + 1)'
    <3>1. Passed(pos, t, i + 1)
      BY <1>3, <1>6, <2>1, PassesOn DEF IterInv, ListInv
    <3>2. PICK k : k = i + 1
      OBVIOUS
    <3>3. Passed(pos, t, k)'
      BY <1>1, <3>1, <3>2, PassedUnchanged
    <3> QED
      BY <3>2, <3>3
  <2>4. Passing(pos)'
    BY <1>2, <2>2, <2>3 DEF Passing
  <2>5. Found'
    <3>1. PICK n \in Nat : \E s \in [1 .. n -> Link] : Shape(n, s) /\ Finds(n, s)
      BY DEF IterInv, Found
    <3>2. PICK s \in [1 .. n -> Link] : Shape(n, s) /\ Finds(n, s)
      BY <3>1
    <3>3. search' # NoSearch
      <4>1. t # Null
        BY <1>6, <2>1
      <4>2. search'.link = t /\ NoSearch.link = Null
        BY <2>2 DEF NoSearch
      <4> QED
        BY <4>1, <4>2
    <3>4. stable' => stable
      BY <1>1, <3>3
    <3>5. i \in Nat
      BY <1>3 DEF Passed
    <3>6. stable => i + 1 \in 1 .. n /\ s[i + 1] = q
      BY <1>1, <1>4, <3>2 DEF Finds
    <3>7. stable => (i + 1) + 1 \in 1 .. n /\ s[(i + 1) + 1] = t
      <4> SUFFICES ASSUME stable  PROVE (i + 1) + 1 \in 1 .. n /\ s[(i + 1) + 1] = t
        OBVIOUS
      <4>1. PICK k \in 1 .. n : k = i + 1
        BY <3>6
      <4>2. next[q] = IF k = n THEN Null ELSE s[k + 1]
        BY <3>2, <3>6, <4>1 DEF Shape, Segment
      <4>3. k # n /\ t = s[k + 1]
        BY <1>6, <2>1, <4>2
      <4> QED
        BY <3>5, <4>1, <4>3
    <3>8. search'.index = i + 1 /\ search'.link = t
      BY <2>2
    <3>9. Finds(n, s)'
      BY <3>4, <3>7, <3>8 DEF Finds
    <3>10. Shape(n, s)'
      BY <1>1, <3>2, ShapeUnchanged
    <3> QED
      BY <3>9, <3>10 DEF Found
  <2>6. ListInv(pos, B)' /\ IterationTypes' /\ SeenBefore(pos)' /\ DeliversLeft'
    BY <1>1, IteratorsUnchanged
  <2> QED
    BY <2>4, <2>5, <2>6 DEF IterInv
<1> QED
  BY <1>5, <1>6

LEMMA EqualStep ==
    ASSUME NEW pos, NEW B, IterInv(pos, B), Equal
    PROVE  \E pos2, B2 : IterInv(pos2, B2)'
<1>1. search # NoSearch /\ search' = NoSearch /\ stable' = TRUE
  BY DEF Equal
<1>2. CASE Erase(search.index) /\ Disturbed
  <2>1. PICK q, i : search = [link |-> q, index |-> i] /\ Passed(pos, q, i)
    BY <1>1 DEF IterInv, Passing
  <2>2. search.index = i /\ i \in Int
    BY <2>1 DEF Passed
  <2>3. Erase(i)
    BY <1>2, <2>2
  <2>4. Kept(pos)
    BY <2>2, <2>3, EraseKeeps DEF IterInv
  <2>5. Found'
    BY <1>1, <2>4, NothingToFind
  <2> QED
    BY <1>1, <1>2, <2>4, <2>5, ListChanges
<1>3. CASE UNCHANGED <<listVars, iteratorVars>>
  <2>1. IterInv(pos, B)'
    BY <1>1, <1>3, SearchEnds
  <2> QED
    BY <2>1
<1> QED
  BY <1>2, <1>3 DEF Equal
-----------------------------------------------------------------------------
(* THE STEPS OF ITERATORS *)

LEMMA DeliveredFirst ==
    ASSUME NEW p \in Seq(Object), NEW w \in Seq(Object), p # <<>>
    PROVE  Delivery(p, w)[1] = Last(p)
<1>1. PICK n \in Nat : Objects(p, n) /\ n = Len(p)
  BY ObjectsAre
<1>2. PICK m \in Nat : Objects(w, m)
  BY ObjectsAre
<1>3. n # 0
  BY <1>1, EmptySeq
<1>4. 1 \in 1 .. n + m /\ 1 <= n /\ (n - 1) + 1 = n
  BY <1>2, <1>3
<1>5. \A i \in 1 .. n + m : Delivery(p, w)[i] = IF i <= n THEN p[(n - i) + 1] ELSE w[i - n]
  BY <1>1, <1>2, DeliveryIs
<1> QED
  BY <1>1, <1>4, <1>5 DEF Last

(* What is left at a link begins with the value of the link.               *)
LEMMA LeftBegins ==
    ASSUME NEW pos, NEW B, ListInv(pos, B), NEW c \in Link
    PROVE  Left(c)[1] = value[c]
<1>1. PICK v : v = <<value[c]>>
  OBVIOUS
<1>2. PICK w : w = Left(next[c])
  OBVIOUS
<1>3. v \in Seq(Object) /\ Delivery(v, w) = Left(c) /\ next[c] \in Pointer
  BY <1>1, <1>2, LeftAtLink
<1>4. w \in Seq(Object)
  BY <1>2, <1>3, LeftIsSequence
<1>5. v # <<>> /\ Last(v) = value[c]
  BY <1>1 DEF Last
<1> QED
  BY <1>3, <1>4, <1>5, DeliveredFirst

(* What iterators will deliver, for a list that stays as it is.            *)
Delivers(it, cu, pb, fe, ex, qu) ==
    \A h \in Handles : qu[h] /\ it[h] = h => Delivery(fe[h], ex[h]) = Delivery(pb[h], Left(cu[h]))

LEMMA DeliversLater ==
    ASSUME UNCHANGED listVars, Delivers(iterator', cursor', pushback', fed', expected', quiet')
    PROVE  DeliversLeft'
<1> SUFFICES ASSUME NEW h \in Handles, quiet'[h], iterator'[h] = h
             PROVE  Delivery(fed'[h], expected'[h]) = Delivery(pushback'[h], Left(cursor[h])')
  BY DEF DeliversLeft, Delivery
<1>1. PICK c : c = cursor'[h]
  OBVIOUS
<1>2. Delivery(fed'[h], expected'[h]) = Delivery(pushback'[h], Left(c))
  BY <1>1 DEF Delivers
<1>3. PICK lf : lf = Left(c)
  OBVIOUS
<1>4. Left(c)' = lf
  BY <1>3, LeftStays
<1>5. Left(cursor[h])' = lf
  BY <1>1, <1>4
<1> QED
  BY <1>2, <1>3, <1>5

LEMMA IteratorsStep ==
    ASSUME NEW pos, NEW B, IterInv(pos, B), UNCHANGED <<listVars, searchVars>>,
           IterationTypes', SeenBefore(pos)',
           Delivers(iterator', cursor', pushback', fed', expected', quiet')
    PROVE  IterInv(pos, B)'
<1>1. ListInv(pos, B)'
  BY ListUnchanged DEF IterInv
<1>2. DeliversLeft'
  BY DeliversLater
<1>3. Passing(pos)'
  BY PassingUnchanged DEF IterInv
<1>4. Found'
  BY FoundUnchanged DEF IterInv
<1> QED
  BY <1>1, <1>2, <1>3, <1>4 DEF IterInv

LEMMA IterationIs ==
    ASSUME NEW pos, NEW B, IterInv(pos, B)
    PROVE  /\ ListInv(pos, B) /\ Types /\ LinksExist /\ Ranked(next, prev, pos, B)
           /\ IterationTypes /\ SeenBefore(pos)
           /\ Delivers(iterator, cursor, pushback, fed, expected, quiet)
           /\ created \in Nat
  BY DEF IterInv, ListInv, DeliversLeft, Delivers, Types

LEMMA FrontIsRead ==
    ASSUME NEW pos, NEW B, ListInv(pos, B)
    PROVE  front \in Pointer /\ front <= created /\ Elements = Left(front) /\ Elements \in Seq(Object)
<1>1. front \in Pointer /\ front <= created
  BY DEF ListInv, Types, LinksExist
<1>2. Elements = Left(front)
  BY DEF Elements, Left
<1> QED
  BY <1>1, <1>2, LeftIsSequence

LEMMA IterateStep ==
    ASSUME NEW pos, NEW B, IterInv(pos, B), NEW h \in Handles, Iterate(h)
    PROVE  IterInv(pos, B)'
<1>1. /\ ListInv(pos, B) /\ IterationTypes /\ SeenBefore(pos) /\ created \in Nat
      /\ Delivers(iterator, cursor, pushback, fed, expected, quiet)
  BY IterationIs
<1>2. PICK p : p = front
  OBVIOUS
<1>3. PICK e : e = Elements
  OBVIOUS
<1>4. p \in Pointer /\ p <= created /\ e = Left(p) /\ e \in Seq(Object)
  BY <1>1, <1>2, <1>3, FrontIsRead
<1>5. PICK i : i = IF p = Null THEN EmptyIterator ELSE h
  OBVIOUS
<1>6. /\ iterator' = [iterator EXCEPT ![h] = i]
      /\ cursor' = [cursor EXCEPT ![h] = p]
      /\ pushback' = [pushback EXCEPT ![h] = <<>>]
      /\ fed' = [fed EXCEPT ![h] = <<>>]
      /\ expected' = [expected EXCEPT ![h] = e]
      /\ quiet' = [quiet EXCEPT ![h] = TRUE]
      /\ seen' = [seen EXCEPT ![h] = {}]
      /\ UNCHANGED listVars /\ UNCHANGED searchVars /\ created' = created
  BY <1>2, <1>3, <1>5 DEF Iterate, listVars
<1>7. IterationTypes'
  <2>1. <<>> \in Seq(Object)
    OBVIOUS
  <2>2. iterator' \in [Handles -> Handles \cup {EmptyIterator, NoIterator}]
    BY <1>1, <1>5, <1>6 DEF IterationTypes
  <2>3. \A g \in Handles : iterator'[g] \in {g, EmptyIterator, NoIterator}
    BY <1>1, <1>5, <1>6 DEF IterationTypes
  <2>4. cursor' \in [Handles -> Pointer] /\ \A g \in Handles : cursor'[g] <= created'
    BY <1>1, <1>4, <1>6 DEF IterationTypes
  <2>5. pushback' \in [Handles \cup {EmptyIterator} -> Seq(Object)]
    BY <1>1, <1>6, <2>1 DEF IterationTypes
  <2>6. expected' \in [Handles -> Seq(Object)] /\ fed' = [g \in Handles |-> fed'[g]]
    BY <1>1, <1>4, <1>6 DEF IterationTypes
  <2>9. \A g \in Handles : quiet'[g] /\ iterator'[g] = g => fed'[g] \in Seq(Object)
    BY <1>1, <1>6, <2>1 DEF IterationTypes
  <2>7. quiet' \in [Handles -> BOOLEAN]
    BY <1>1, <1>6 DEF IterationTypes
  <2>8. seen' \in [Handles -> SUBSET Link]
    BY <1>1, <1>6 DEF IterationTypes
  <2> QED
    BY <2>2, <2>3, <2>4, <2>5, <2>6, <2>7, <2>8, <2>9 DEF IterationTypes
<1>8. SeenBefore(pos)'
  <2> SUFFICES ASSUME NEW g \in Handles, NEW x \in seen'[g]
               PROVE  x <= created' /\ (cursor'[g] # Null => pos[x] < pos[cursor'[g]])
    BY DEF SeenBefore
  <2>1. g # h /\ x \in seen[g] /\ cursor'[g] = cursor[g]
    BY <1>1, <1>6 DEF IterationTypes
  <2> QED
    BY <1>1, <1>6, <2>1 DEF SeenBefore
<1>9. Delivers(iterator', cursor', pushback', fed', expected', quiet')
  <2> SUFFICES ASSUME NEW g \in Handles, quiet'[g], iterator'[g] = g
               PROVE  Delivery(fed'[g], expected'[g]) = Delivery(pushback'[g], Left(cursor'[g]))
    BY DEF Delivers
  <2>1. CASE g = h
    <3>1. cursor'[g] = p /\ pushback'[g] = <<>> /\ fed'[g] = <<>> /\ expected'[g] = e
      BY <1>1, <1>6, <2>1 DEF IterationTypes
    <3> QED
      BY <1>4, <3>1, NothingPushedBack
  <2>2. CASE g # h
    <3>1. /\ cursor'[g] = cursor[g] /\ pushback'[g] = pushback[g] /\ expected'[g] = expected[g] /\ fed'[g] = fed[g]
          /\ quiet'[g] = quiet[g] /\ iterator'[g] = iterator[g]
      BY <1>1, <1>6, <2>2 DEF IterationTypes
    <3> QED
      BY <1>1, <3>1 DEF Delivers
  <2> QED
    BY <2>1, <2>2
<1> QED
  BY <1>6, <1>7, <1>8, <1>9, IteratorsStep
(* One link further.                                                       *)
LEMMA GenerateKeeps ==
    ASSUME NEW pos, NEW B, IterInv(pos, B), NEW h \in Handles, Generate(h), UNCHANGED listVars
    PROVE  \E c \in Link :
              /\ c = cursor[h] /\ iterator[h] = h
              /\ cursor' = [cursor EXCEPT ![h] = next[c]]
              /\ cursor' \in [Handles -> Pointer] /\ \A g \in Handles : cursor'[g] <= created'
              /\ seen' \in [Handles -> SUBSET Link]
              /\ SeenBefore(pos)'
<1>1. Types /\ LinksExist /\ Ranked(next, prev, pos, B) /\ IterationTypes /\ SeenBefore(pos)
  BY IterationIs
<1>2. PICK c : c = cursor[h]
  OBVIOUS
<1>3. c \in Link /\ c <= created
  BY <1>1, <1>2 DEF Generate, IterationTypes, Pointer
<1>4. /\ cursor' = [cursor EXCEPT ![h] = next[c]]
      /\ seen' = [seen EXCEPT ![h] = @ \cup {c}]
      /\ iterator[h] = h /\ created' = created
  BY <1>2 DEF Generate, listVars
<1>5. next[c] \in Pointer /\ next[c] <= created
  BY <1>1, <1>3 DEF Types, LinksExist
<1>6. cursor' \in [Handles -> Pointer] /\ \A g \in Handles : cursor'[g] <= created'
  BY <1>1, <1>4, <1>5 DEF IterationTypes
<1>7. seen' \in [Handles -> SUBSET Link]
  BY <1>1, <1>3, <1>4 DEF IterationTypes
<1>8. SeenBefore(pos)'
  <2> SUFFICES ASSUME NEW g \in Handles, NEW x \in seen'[g]
               PROVE  x <= created' /\ (cursor'[g] # Null => pos[x] < pos[cursor'[g]])
    BY DEF SeenBefore
  <2>1. CASE g # h
    <3>1. x \in seen[g] /\ cursor'[g] = cursor[g]
      BY <1>1, <1>4, <2>1 DEF IterationTypes
    <3> QED
      BY <1>1, <1>4, <3>1 DEF SeenBefore
  <2>2. CASE g = h
    <3>1. cursor'[g] = next[c] /\ (x \in seen[h] \/ x = c)
      BY <1>1, <1>4, <2>2 DEF IterationTypes
    <3>2. x \in Link /\ x <= created /\ (x = c \/ pos[x] < pos[c])
      <4>1. CASE x = c
        BY <1>3, <4>1
      <4>2. CASE x \in seen[h]
        <5>1. cursor[h] # Null
          BY <1>2, <1>3, LinkIsNotNull
        <5> QED
          BY <1>1, <1>2, <4>2, <5>1 DEF SeenBefore, IterationTypes
      <4> QED
        BY <3>1, <4>1, <4>2
    <3>3. next[c] # Null => next[c] \in Link /\ pos[c] < pos[next[c]]
      BY <1>1, <1>3, <1>5 DEF Ranked, Pointer
    <3>4. next[c] # Null => pos[x] < pos[next[c]]
      <4>1. pos[x] \in Int /\ pos[c] \in Int /\ (next[c] # Null => pos[next[c]] \in Int)
        BY <1>1, <1>3, <3>2, <3>3 DEF Ranked
      <4> QED
        BY <3>2, <3>3, <4>1
    <3> QED
      BY <1>4, <3>1, <3>2, <3>4
  <2> QED
    BY <2>1, <2>2
<1> QED
  BY <1>2, <1>3, <1>4, <1>6, <1>7, <1>8

LEMMA PushbackIs ==
    ASSUME IterationTypes, NEW h \in Handles, iterator[h] # NoIterator
    PROVE  /\ iterator[h] \in Handles \cup {EmptyIterator}
           /\ pushback[iterator[h]] \in Seq(Object)
           /\ \A g \in Handles : iterator[g] = g /\ g = iterator[h] => g = h
<1>1. iterator[h] \in {h, EmptyIterator}
  BY DEF IterationTypes
<1>2. EmptyIterator \notin Handles
  BY IteratorsAssumption
<1> QED
  BY <1>1, <1>2 DEF IterationTypes

(* The rest of a sequence that has one.                                    *)
LEMMA RestIsSequence ==
    ASSUME NEW e \in Seq(Object)
    PROVE  (IF e = <<>> THEN e ELSE Tail(e)) \in Seq(Object)
  OBVIOUS

(* The promise of an iterator is kept by the first object of what it is to *)
(* deliver.                                                                *)
LEMMA PromiseIsKept ==
    ASSUME NEW r \in Seq(Object), NEW x \in Seq(Object), NEW d, d = Delivery(r, x), d # <<>>
    PROVE  /\ Without(r, d[1]) \in Seq(Object)
           /\ Delivery(Without(r, d[1]), IF r = <<>> /\ x # <<>> THEN Tail(x) ELSE x) = Tail(d)
<1>1. CASE r = <<>>
  <2>1. d = x
    BY <1>1, NothingPushedBack
  <2>2. Without(r, d[1]) = <<>>
    BY <1>1 DEF Without
  <2>3. Tail(x) \in Seq(Object)
    BY <2>1
  <2> QED
    BY <1>1, <2>1, <2>2, <2>3, NothingPushedBack
<1>2. CASE r # <<>>
  <2>1. PICK n \in Nat : Objects(r, n) /\ n = Len(r)
    BY ObjectsAre
  <2>2. PICK m \in Nat : Objects(x, m)
    BY ObjectsAre
  <2>3. n # 0 /\ n \in 1 .. n
    BY <1>2, <2>1, EmptySeq
  <2>4. d[1] = r[n]
    <3>1. 1 \in 1 .. n + m /\ 1 <= n /\ (n - 1) + 1 = n
      BY <2>2, <2>3
    <3>2. \A i \in 1 .. n + m : d[i] = IF i <= n THEN r[(n - i) + 1] ELSE x[i - n]
      BY <2>1, <2>2, DeliveryIs
    <3> QED
      BY <3>1, <3>2
  <2>5. PICK places : places = {i \in DOMAIN r : r[i] = d[1]}
    OBVIOUS
  <2>6. n \in places /\ \A i \in places : i \in Nat /\ n >= i
    BY <2>1, <2>3, <2>4, <2>5 DEF Objects
  <2>7. Max(places) = n
    <3>1. ASSUME NEW k \in places, \A i \in places : k >= i  PROVE k = n
      BY <2>6, <3>1
    <3> QED
      BY <2>6, <3>1 DEF Max
  <2>8. Without(r, d[1]) = RemoveAt(r, n)
    BY <2>5, <2>6, <2>7 DEF Without
  <2>9. RemoveAt(r, n) = [i \in 1 .. n - 1 |-> IF i < n THEN r[i] ELSE r[i + 1]]
    BY <2>1, <2>3, RemovedAt
  <2>10. Front(r) = [i \in 1 .. n - 1 |-> r[i]]
    BY <2>1, <2>3 DEF Front
  <2>11. Without(r, d[1]) = Front(r)
    BY <2>3, <2>8, <2>9, <2>10
  <2>12. Front(r) \in Seq(Object) /\ Tail(d) = Delivery(Front(r), x)
    BY <1>2, DeliversPushedBack
  <2> QED
    BY <1>2, <2>11, <2>12
<1> QED
  BY <1>1, <1>2

LEMMA NextStep ==
    ASSUME NEW pos, NEW B, IterInv(pos, B), NEW h \in Handles, Next(h)
    PROVE  IterInv(pos, B)'
<1>1. /\ ListInv(pos, B) /\ IterationTypes /\ SeenBefore(pos) /\ created \in Nat
      /\ Delivers(iterator, cursor, pushback, fed, expected, quiet)
  BY IterationIs
<1>2. PICK e : e = IF fed[h] = <<>> /\ expected[h] # <<>> THEN Tail(expected[h]) ELSE expected[h]
  OBVIOUS
<1>3. /\ iterator[h] # NoIterator
      /\ UNCHANGED listVars /\ UNCHANGED searchVars /\ iterator' = iterator /\ quiet' = quiet
      /\ created' = created
  BY DEF Next, listVars
<1>4. e \in Seq(Object)
  <2>1. PICK x : x = expected[h]
    OBVIOUS
  <2>2. x \in Seq(Object)
    BY <1>1, <2>1 DEF IterationTypes
  <2> QED
    BY <1>2, <2>1, <2>2
<1>5. ASSUME NEW o, Keeps(h, o), NEW d, d # <<>>, d[1] = o,
             quiet[h] /\ iterator[h] = h => d = Delivery(fed[h], expected[h])
      PROVE  /\ expected' \in [Handles -> Seq(Object)] /\ fed' = [g \in Handles |-> fed'[g]]
             /\ \A g \in Handles : quiet'[g] /\ iterator'[g] = g => fed'[g] \in Seq(Object)
             /\ \A g \in Handles : g # h => fed'[g] = fed[g] /\ expected'[g] = expected[g]
             /\ quiet[h] /\ iterator[h] = h => Delivery(fed'[h], expected'[h]) = Tail(d)
  <2>1. fed' = [fed EXCEPT ![h] = Without(@, o)] /\ expected' = [expected EXCEPT ![h] = e]
    BY <1>2, <1>5 DEF Keeps
  <2>2. expected' \in [Handles -> Seq(Object)] /\ fed' = [g \in Handles |-> fed'[g]]
    BY <1>1, <1>4, <2>1 DEF IterationTypes
  <2>3. /\ \A g \in Handles : g # h => fed'[g] = fed[g] /\ expected'[g] = expected[g]
        /\ fed'[h] = Without(fed[h], o) /\ expected'[h] = e
    BY <1>1, <2>1 DEF IterationTypes
  <2>4. ASSUME quiet[h], iterator[h] = h
        PROVE  fed'[h] \in Seq(Object) /\ Delivery(fed'[h], expected'[h]) = Tail(d)
    <3>1. fed[h] \in Seq(Object) /\ expected[h] \in Seq(Object)
      BY <1>1, <2>4 DEF IterationTypes
    <3>2. PICK r \in Seq(Object) : r = fed[h]
      BY <3>1
    <3>3. PICK x \in Seq(Object) : x = expected[h]
      BY <3>1
    <3>4. d = Delivery(r, x)
      BY <1>5, <2>4, <3>2, <3>3
    <3>5. /\ Without(r, d[1]) \in Seq(Object)
          /\ Delivery(Without(r, d[1]), IF r = <<>> /\ x # <<>> THEN Tail(x) ELSE x) = Tail(d)
      BY <1>5, <3>4, PromiseIsKept
    <3> QED
      BY <1>2, <1>5, <2>3, <3>2, <3>3, <3>5
  <2>5. \A g \in Handles : quiet'[g] /\ iterator'[g] = g => fed'[g] \in Seq(Object)
    BY <1>1, <1>3, <2>3, <2>4 DEF IterationTypes
  <2> QED
    BY <2>2, <2>3, <2>4, <2>5
<1>7. CASE pushback[iterator[h]] = <<>> /\ Generate(h) /\ Keeps(h, value[cursor[h]]) /\ UNCHANGED pushback
  <2>1. PICK c \in Link :
            /\ c = cursor[h] /\ iterator[h] = h
            /\ cursor' = [cursor EXCEPT ![h] = next[c]]
            /\ cursor' \in [Handles -> Pointer] /\ \A g \in Handles : cursor'[g] <= created'
            /\ seen' \in [Handles -> SUBSET Link]
            /\ SeenBefore(pos)'
    BY <1>3, <1>7, GenerateKeeps
  <2>2. /\ next[c] \in Pointer /\ Left(c) # <<>> /\ Tail(Left(c)) = Left(next[c])
        /\ Left(c) \in Seq(Object) /\ Left(c)[1] = value[c]
    <3>1. c \in Pointer
      BY DEF Pointer
    <3> QED
      BY <1>1, <3>1, LeftAtLink, LeftIsSequence, LeftBegins
  <2>3. PICK d : d = Left(c)
    OBVIOUS
  <2>4. pushback[h] = <<>> /\ cursor[h] = c
    BY <1>7, <2>1
  <2>5. quiet[h] /\ iterator[h] = h => d = Delivery(fed[h], expected[h])
    <3>1. Delivery(<<>>, Left(c)) = Left(c)
      BY <2>2, NothingPushedBack
    <3> QED
      BY <1>1, <2>3, <2>4, <3>1 DEF Delivers
  <2>6. Keeps(h, value[c]) /\ d # <<>> /\ d[1] = value[c]
    BY <1>7, <2>1, <2>2, <2>3
  <2>7. /\ expected' \in [Handles -> Seq(Object)] /\ fed' = [g \in Handles |-> fed'[g]]
        /\ \A g \in Handles : quiet'[g] /\ iterator'[g] = g => fed'[g] \in Seq(Object)
        /\ \A g \in Handles : g # h => fed'[g] = fed[g] /\ expected'[g] = expected[g]
        /\ quiet[h] /\ iterator[h] = h => Delivery(fed'[h], expected'[h]) = Tail(d)
    BY <1>5, <2>5, <2>6
  <2>8. IterationTypes'
    BY <1>1, <1>3, <1>7, <2>1, <2>7 DEF IterationTypes
  <2>9. \A g \in Handles : cursor'[g] = IF g = h THEN next[c] ELSE cursor[g]
    BY <1>1, <2>1 DEF IterationTypes
  <2>10. Delivers(iterator', cursor', pushback', fed', expected', quiet')
    <3> SUFFICES ASSUME NEW g \in Handles, quiet'[g], iterator'[g] = g
                 PROVE  Delivery(fed'[g], expected'[g]) = Delivery(pushback'[g], Left(cursor'[g]))
      BY DEF Delivers
    <3>1. /\ Delivery(fed[g], expected[g]) = Delivery(pushback[g], Left(cursor[g]))
          /\ pushback'[g] = pushback[g] /\ quiet[g] /\ iterator[g] = g
      BY <1>1, <1>3, <1>7 DEF Delivers
    <3>2. CASE g = h
      <4>1. Left(next[c]) = Delivery(<<>>, Left(next[c]))
        BY <1>1, <2>2, LeftIsSequence, NothingPushedBack
      <4>2. cursor'[g] = next[c] /\ pushback'[g] = <<>>
        BY <2>4, <2>9, <3>1, <3>2
      <4>3. Delivery(fed'[g], expected'[g]) = Left(next[c])
        BY <2>2, <2>3, <2>7, <3>1, <3>2
      <4> QED
        BY <4>1, <4>2, <4>3
    <3>3. CASE g # h
      <4>1. fed'[g] = fed[g] /\ expected'[g] = expected[g] /\ cursor'[g] = cursor[g]
        BY <2>7, <2>9, <3>3
      <4> QED
        BY <3>1, <4>1
    <3> QED
      BY <3>2, <3>3
  <2> QED
    BY <1>3, <2>1, <2>8, <2>10, IteratorsStep
<1>8. CASE /\ pushback[iterator[h]] # <<>>
           /\ pushback' = [pushback EXCEPT ![iterator[h]] = Front(@)]
           /\ Keeps(h, Last(pushback[iterator[h]]))
           /\ UNCHANGED <<cursor, seen>>
  <2>1. PICK i : i = iterator[h]
    OBVIOUS
  <2>2. PICK p : p = pushback[i]
    OBVIOUS
  <2>3. /\ i \in Handles \cup {EmptyIterator} /\ p \in Seq(Object) /\ p # <<>>
        /\ \A g \in Handles : iterator[g] = g /\ g = i => g = h
    BY <1>1, <1>3, <1>8, <2>1, <2>2, PushbackIs
  <2>4. PICK f : f = Front(p)
    OBVIOUS
  <2>5. pushback' = [pushback EXCEPT ![i] = f]
    BY <1>8, <2>1, <2>2, <2>4
  <2>6. f \in Seq(Object)
    <3>1. <<>> \in Seq(Object)
      OBVIOUS
    <3> QED
      BY <2>3, <2>4, <3>1, DeliversPushedBack
  <2>7. PICK w : w = Left(cursor[h])
    OBVIOUS
  <2>8. w \in Seq(Object)
    BY <1>1, <2>7, LeftIsSequence DEF IterationTypes
  <2>9. PICK d : d = Delivery(p, w)
    OBVIOUS
  <2>10. d # <<>> /\ Tail(d) = Delivery(f, w) /\ d[1] = Last(p)
    BY <2>3, <2>4, <2>8, <2>9, DeliversPushedBack, DeliveredFirst
  <2>11. quiet[h] /\ iterator[h] = h => d = Delivery(fed[h], expected[h])
    BY <1>1, <2>1, <2>2, <2>7, <2>9 DEF Delivers
  <2>12. Keeps(h, Last(p))
    BY <1>8, <2>1, <2>2
  <2>13. /\ expected' \in [Handles -> Seq(Object)] /\ fed' = [g \in Handles |-> fed'[g]]
         /\ \A g \in Handles : quiet'[g] /\ iterator'[g] = g => fed'[g] \in Seq(Object)
         /\ \A g \in Handles : g # h => fed'[g] = fed[g] /\ expected'[g] = expected[g]
         /\ quiet[h] /\ iterator[h] = h => Delivery(fed'[h], expected'[h]) = Tail(d)
    BY <1>5, <2>10, <2>11, <2>12
  <2>14. IterationTypes'
    <3>1. pushback' \in [Handles \cup {EmptyIterator} -> Seq(Object)]
      BY <1>1, <2>5, <2>6 DEF IterationTypes
    <3> QED
      BY <1>1, <1>3, <1>8, <2>13, <3>1 DEF IterationTypes
  <2>15. SeenBefore(pos)'
    BY <1>1, <1>3, <1>8 DEF SeenBefore
  <2>16. Delivers(iterator', cursor', pushback', fed', expected', quiet')
    <3> SUFFICES ASSUME NEW g \in Handles, quiet'[g], iterator'[g] = g
                 PROVE  Delivery(fed'[g], expected'[g]) = Delivery(pushback'[g], Left(cursor'[g]))
      BY DEF Delivers
    <3>1. /\ Delivery(fed[g], expected[g]) = Delivery(pushback[g], Left(cursor[g]))
          /\ cursor'[g] = cursor[g] /\ iterator[g] = g /\ quiet[g]
      BY <1>1, <1>3, <1>8 DEF Delivers
    <3>2. CASE g = h
      <4>1. i = h
        BY <2>1, <3>1, <3>2
      <4>2. pushback'[h] = f
        BY <1>1, <2>5, <4>1 DEF IterationTypes
      <4> QED
        BY <2>7, <2>10, <2>13, <3>1, <3>2, <4>2
    <3>3. CASE g # h
      <4>1. g # i
        BY <2>3, <3>1, <3>3
      <4>2. fed'[g] = fed[g] /\ expected'[g] = expected[g] /\ pushback'[g] = pushback[g]
        BY <1>1, <2>5, <2>13, <3>3, <4>1 DEF IterationTypes
      <4> QED
        BY <3>1, <4>2
    <3> QED
      BY <3>2, <3>3
  <2> QED
    BY <1>3, <2>14, <2>15, <2>16, IteratorsStep
<1> QED
  BY <1>7, <1>8 DEF Next

LEMMA PeekStep ==
    ASSUME NEW pos, NEW B, IterInv(pos, B), NEW h \in Handles, Peek(h)
    PROVE  IterInv(pos, B)'
<1>1. /\ ListInv(pos, B) /\ IterationTypes /\ SeenBefore(pos) /\ created \in Nat
      /\ Delivers(iterator, cursor, pushback, fed, expected, quiet)
  BY IterationIs
<1>2. /\ Generate(h) /\ pushback[iterator[h]] = <<>>
      /\ pushback' = [pushback EXCEPT ![h] = <<value[cursor[h]]>>]
      /\ UNCHANGED listVars /\ UNCHANGED searchVars
      /\ iterator' = iterator /\ quiet' = quiet /\ fed' = fed /\ expected' = expected
  BY DEF Peek
<1>3. PICK c \in Link :
          /\ c = cursor[h] /\ iterator[h] = h
          /\ cursor' = [cursor EXCEPT ![h] = next[c]]
          /\ cursor' \in [Handles -> Pointer] /\ \A g \in Handles : cursor'[g] <= created'
          /\ seen' \in [Handles -> SUBSET Link]
          /\ SeenBefore(pos)'
  BY <1>2, GenerateKeeps
<1>4. PICK v : v = <<value[c]>>
  OBVIOUS
<1>5. PICK w : w = Left(next[c])
  OBVIOUS
<1>6. v \in Seq(Object) /\ Delivery(v, w) = Left(c)
  BY <1>1, <1>4, <1>5, LeftAtLink
<1>7. pushback' = [pushback EXCEPT ![h] = v]
  BY <1>2, <1>3, <1>4
<1>8. IterationTypes'
  <2>1. pushback' \in [Handles \cup {EmptyIterator} -> Seq(Object)]
    BY <1>1, <1>6, <1>7 DEF IterationTypes
  <2> QED
    BY <1>1, <1>2, <1>3, <2>1 DEF IterationTypes
<1>9. Delivers(iterator', cursor', pushback', fed', expected', quiet')
  <2> SUFFICES ASSUME NEW g \in Handles, quiet'[g], iterator'[g] = g
               PROVE  Delivery(fed'[g], expected'[g]) = Delivery(pushback'[g], Left(cursor'[g]))
    BY DEF Delivers
  <2>1. Delivery(fed'[g], expected'[g]) = Delivery(pushback[g], Left(cursor[g]))
    BY <1>1, <1>2 DEF Delivers
  <2>2. CASE g = h
    <3>1. pushback[h] = <<>> /\ cursor[h] = c
      BY <1>2, <1>3
    <3>2. Left(c) \in Seq(Object)
      BY <1>1, LeftIsSequence DEF Pointer
    <3>3. Delivery(fed'[g], expected'[g]) = Left(c)
      BY <2>1, <2>2, <3>1, <3>2, NothingPushedBack
    <3>4. pushback'[g] = v /\ cursor'[g] = next[c]
      BY <1>1, <1>3, <1>7, <2>2 DEF IterationTypes
    <3> QED
      BY <1>5, <1>6, <3>3, <3>4
  <2>3. CASE g # h
    <3>1. pushback'[g] = pushback[g] /\ cursor'[g] = cursor[g]
      BY <1>1, <1>3, <1>7, <2>3 DEF IterationTypes
    <3> QED
      BY <2>1, <3>1
  <2> QED
    BY <2>2, <2>3
<1> QED
  BY <1>2, <1>3, <1>8, <1>9, IteratorsStep

LEMMA FeedStep ==
    ASSUME NEW pos, NEW B, IterInv(pos, B), NEW h \in Handles, NEW objects \in Seq(Object),
           Feed(h, objects)
    PROVE  IterInv(pos, B)'
<1>1. /\ ListInv(pos, B) /\ IterationTypes /\ SeenBefore(pos) /\ created \in Nat
      /\ Delivers(iterator, cursor, pushback, fed, expected, quiet)
  BY IterationIs
<1>2. PICK e : e = IF quiet[h] THEN fed[h] \o objects ELSE fed[h]
  OBVIOUS
<1>3. PICK i : i = iterator[h]
  OBVIOUS
<1>4. PICK p : p = pushback[i]
  OBVIOUS
<1>5. PICK f : f = p \o objects
  OBVIOUS
<1>6. /\ i # NoIterator
      /\ pushback' = [pushback EXCEPT ![i] = f]
      /\ fed' = [fed EXCEPT ![h] = e]
      /\ expected' = expected
      /\ UNCHANGED listVars /\ UNCHANGED searchVars
      /\ iterator' = iterator /\ cursor' = cursor /\ quiet' = quiet /\ seen' = seen
      /\ created' = created
  BY <1>2, <1>3, <1>4, <1>5 DEF Feed, listVars
<1>7. /\ i \in Handles \cup {EmptyIterator} /\ p \in Seq(Object)
      /\ \A g \in Handles : iterator[g] = g /\ g = i => g = h
  BY <1>1, <1>3, <1>4, <1>6, PushbackIs
<1>8. f \in Seq(Object)
  BY <1>5, <1>7
<1>9. quiet[h] /\ iterator[h] = h => e \in Seq(Object)
  <2>1. quiet[h] /\ iterator[h] = h => fed[h] \in Seq(Object)
    BY <1>1 DEF IterationTypes
  <2> QED
    BY <1>2, <2>1
<1>10. IterationTypes'
  <2>1. pushback' \in [Handles \cup {EmptyIterator} -> Seq(Object)]
    BY <1>1, <1>6, <1>8 DEF IterationTypes
  <2>2. /\ fed' = [g \in Handles |-> fed'[g]]
        /\ \A g \in Handles : quiet'[g] /\ iterator'[g] = g => fed'[g] \in Seq(Object)
    BY <1>1, <1>6, <1>9 DEF IterationTypes
  <2> QED
    BY <1>1, <1>6, <2>1, <2>2 DEF IterationTypes
<1>11. SeenBefore(pos)'
  BY <1>1, <1>6 DEF SeenBefore
<1>12. Delivers(iterator', cursor', pushback', fed', expected', quiet')
  <2> SUFFICES ASSUME NEW g \in Handles, quiet'[g], iterator'[g] = g
               PROVE  Delivery(fed'[g], expected'[g]) = Delivery(pushback'[g], Left(cursor'[g]))
    BY DEF Delivers
  <2>1. /\ Delivery(fed[g], expected[g]) = Delivery(pushback[g], Left(cursor[g]))
        /\ cursor'[g] = cursor[g] /\ iterator[g] = g /\ quiet[g]
    BY <1>1, <1>6 DEF Delivers
  <2>2. CASE g = h
    <3>1. PICK w : w = Left(cursor[h])
      OBVIOUS
    <3>2. w \in Seq(Object)
      BY <1>1, <3>1, LeftIsSequence DEF IterationTypes
    <3>3. i = h /\ pushback[h] = p
      BY <1>3, <1>4, <2>1, <2>2
    <3>4. PICK r : r = fed[h]
      OBVIOUS
    <3>5. PICK x : x = expected[h]
      OBVIOUS
    <3>6. r \in Seq(Object) /\ x \in Seq(Object)
      BY <1>1, <2>1, <2>2, <3>4, <3>5 DEF IterationTypes
    <3>7. Delivery(r, x) = Delivery(p, w)
      BY <2>1, <2>2, <3>1, <3>3, <3>4, <3>5
    <3>8. Delivery(f, w) = Reverse(objects) \o Delivery(p, w)
      BY <1>5, <1>7, <3>2, DeliversFed
    <3>9. e = r \o objects
      BY <1>2, <2>1, <2>2, <3>4
    <3>10. Delivery(e, x) = Reverse(objects) \o Delivery(r, x)
      BY <3>6, <3>9, DeliversFed
    <3>11. pushback'[h] = f /\ fed'[h] = e /\ expected'[h] = x
      BY <1>1, <1>6, <3>3, <3>5 DEF IterationTypes
    <3> QED
      BY <2>1, <2>2, <3>1, <3>7, <3>8, <3>10, <3>11
  <2>3. CASE g # h
    <3>1. g # i
      BY <1>7, <2>1, <2>3
    <3>2. fed'[g] = fed[g] /\ expected'[g] = expected[g] /\ pushback'[g] = pushback[g]
      BY <1>1, <1>6, <2>3, <3>1 DEF IterationTypes
    <3> QED
      BY <2>1, <3>2
  <2> QED
    BY <2>2, <2>3
<1> QED
  BY <1>6, <1>10, <1>11, <1>12, IteratorsStep
-----------------------------------------------------------------------------
(* WHAT HOLDS OF ITERATION *)

IsIterated == \E pos, B : IterInv(pos, B)

LEMMA IterationBegins == Init => IsIterated
<1> SUFFICES ASSUME Init  PROVE IsIterated
  OBVIOUS
<1>1. PICK pos, B : ListInv(pos, B)
  BY ListInitially DEF Init
<1>2. /\ iterator = [h \in Handles |-> NoIterator]
      /\ cursor = [h \in Handles |-> Null]
      /\ pushback = [i \in Handles \cup {EmptyIterator} |-> <<>>]
      /\ fed = [h \in Handles |-> <<>>]
      /\ expected = [h \in Handles |-> <<>>]
      /\ quiet = [h \in Handles |-> FALSE]
      /\ seen = [h \in Handles |-> {}]
      /\ search = NoSearch /\ stable = TRUE
  BY DEF Init
<1>3. IterationTypes
  <2>1. <<>> \in Seq(Object) /\ Null \in Pointer /\ Null <= created
    BY <1>1 DEF ListInv, Types, Pointer, Null
  <2> QED
    BY <1>2, <2>1 DEF IterationTypes
<1>4. SeenBefore(pos)
  BY <1>2 DEF SeenBefore
<1>5. DeliversLeft
  BY <1>2 DEF DeliversLeft
<1>6. Passing(pos)
  BY <1>2 DEF Passing
<1>7. Found
  <2>1. PICK n \in Nat : \E s \in [1 .. n -> Link] : Shape(n, s)
    BY <1>1 DEF ListInv, HasShape
  <2>2. PICK s \in [1 .. n -> Link] : Shape(n, s)
    BY <2>1
  <2>3. Finds(n, s)
    BY <1>2 DEF Finds
  <2> QED
    BY <2>2, <2>3 DEF Found
<1> QED
  BY <1>1, <1>3, <1>4, <1>5, <1>6, <1>7 DEF IterInv, IsIterated

LEMMA IterationGoesOn == IsIterated /\ [Step]_vars => IsIterated'
<1> SUFFICES ASSUME IsIterated, [Step]_vars  PROVE IsIterated'
  OBVIOUS
<1>1. PICK pos, B : IterInv(pos, B)
  BY DEF IsIterated
<1>2. CASE Grow
  BY <1>1, <1>2, GrowStep DEF IsIterated
<1>3. CASE Move
  BY <1>1, <1>3, MoveStep DEF IsIterated
<1>4. CASE Replace
  BY <1>1, <1>4, ReplaceStep DEF IsIterated
<1>5. CASE BeginRemove
  <2>1. IterInv(pos, B)'
    BY <1>1, <1>5, BeginRemoveStep
  <2> QED
    BY <2>1 DEF IsIterated
<1>6. CASE Differs
  <2>1. IterInv(pos, B)'
    BY <1>1, <1>6, DiffersStep
  <2> QED
    BY <2>1 DEF IsIterated
<1>7. CASE Throws
  <2>1. /\ search' = NoSearch /\ stable' \in BOOLEAN
        /\ UNCHANGED <<listVars, iteratorVars>>
    BY <1>7 DEF Throws
  <2>2. IterInv(pos, B)'
    BY <1>1, <2>1, SearchEnds
  <2> QED
    BY <2>2 DEF IsIterated
<1>8. CASE Equal
  BY <1>1, <1>8, EqualStep DEF IsIterated
<1>9. ASSUME NEW h \in Handles, Iterate(h)  PROVE IsIterated'
  <2>1. IterInv(pos, B)'
    BY <1>1, <1>9, IterateStep
  <2> QED
    BY <2>1 DEF IsIterated
<1>10. ASSUME NEW h \in Handles, Next(h)  PROVE IsIterated'
  <2>1. IterInv(pos, B)'
    BY <1>1, <1>10, NextStep
  <2> QED
    BY <2>1 DEF IsIterated
<1>11. ASSUME NEW h \in Handles, Peek(h)  PROVE IsIterated'
  <2>1. IterInv(pos, B)'
    BY <1>1, <1>11, PeekStep
  <2> QED
    BY <2>1 DEF IsIterated
<1>12. ASSUME NEW h \in Handles, NEW objects \in Feeds, Feed(h, objects)  PROVE IsIterated'
  <2>1. objects \in Seq(Object)
    BY IteratorsAssumption
  <2>2. IterInv(pos, B)'
    BY <1>1, <1>12, <2>1, FeedStep
  <2> QED
    BY <2>2 DEF IsIterated
<1>13. CASE UNCHANGED vars
  <2>1. UNCHANGED listVars /\ UNCHANGED iteratorVars /\ UNCHANGED searchVars
    BY <1>13 DEF vars
  <2>2. ListInv(pos, B)' /\ IterationTypes' /\ SeenBefore(pos)' /\ DeliversLeft'
    BY <1>1, <2>1, IteratorsUnchanged
  <2>3. Passing(pos)' /\ Found'
    BY <1>1, <2>1, PassingUnchanged, FoundUnchanged DEF IterInv
  <2>4. IterInv(pos, B)'
    BY <2>2, <2>3 DEF IterInv
  <2> QED
    BY <2>4 DEF IsIterated
<1> QED
  BY <1>2, <1>3, <1>4, <1>5, <1>6, <1>7, <1>8, <1>9, <1>10, <1>11, <1>12, <1>13 DEF Step

LEMMA IsIteratedAlways == Spec => []IsIterated
  BY IterationBegins, IterationGoesOn, PTL DEF Spec

(* While the list is left alone an iterator delivers what was there when it *)
(* was made, what is fed to it before that, and a peek takes nothing away. *)
THEOREM IteratorDeliversTheList == Spec => []DeliversTheList
<1>1. IsIterated => DeliversTheList
  <2> SUFFICES ASSUME IsIterated, NEW h \in Handles, quiet[h], iterator[h] = h
               PROVE  \E first \in Rearranged(fed[h]) : Upcoming(h) = first \o expected[h]
    BY DEF DeliversTheList
  <2>1. PICK pos, B : IterInv(pos, B)
    BY DEF IsIterated
  <2>2. PICK r : r = fed[h]
    OBVIOUS
  <2>3. r \in Seq(Object)
    BY <2>1, <2>2 DEF IterInv, IterationTypes
  <2>4. Delivery(r, expected[h]) = Delivery(pushback[h], Left(cursor[h]))
    BY <2>1, <2>2 DEF IterInv, DeliversLeft
  <2>5. Upcoming(h) = Reverse(pushback[h]) \o Values(Walk(cursor[h]))
    BY DEF Upcoming
  <2>6. Upcoming(h) = Reverse(r) \o expected[h]
    BY <2>4, <2>5 DEF Delivery, Left
  <2>7. Reverse(r) \in Rearranged(r)
    <3>1. PICK n \in Nat : Objects(r, n)
      BY <2>3, ObjectsAre
    <3>2. DOMAIN r = 1 .. n
      BY <3>1 DEF Objects
    <3>3. PICK p : p = [i \in 1 .. n |-> (n - i) + 1]
      OBVIOUS
    <3>4. p \in [1 .. n -> 1 .. n] /\ \A i \in 1 .. n : p[i] = (n - i) + 1
      BY <3>3
    <3>5. IsInjective(p)
      BY <3>4 DEF IsInjective
    <3>6. \A k \in 1 .. n : \E i \in 1 .. n : p[i] = k
      <4>1. ASSUME NEW k \in 1 .. n  PROVE (n - k) + 1 \in 1 .. n /\ p[(n - k) + 1] = k
        BY <3>4
      <4> QED
        BY <4>1
    <3>7. p \in Bijection(1 .. n, 1 .. n)
      BY <3>4, <3>5, <3>6 DEF Bijection, Injection, Surjection, IsInjective
    <3>8. Objects(Reverse(r), n) /\ \A i \in 1 .. n : Reverse(r)[i] = r[(n - i) + 1]
      BY <3>1, ReverseIs
    <3>9. Reverse(r) = [i \in 1 .. n |-> r[p[i]]]
      BY <3>4, <3>8 DEF Objects
    <3> QED
      BY <3>2, <3>7, <3>9 DEF Rearranged
  <2> QED
    BY <2>2, <2>6, <2>7
<1> QED
  BY <1>1, IsIteratedAlways, PTL

LEMMA IterationHasTypes ==
    ASSUME NEW pos, NEW B, IterInv(pos, B)
    PROVE  TypeOK
<1>1. ListTypeOK
  BY ListIsWalkable DEF IterInv, StaysWalkable
<1>2. IterationTypes
  BY DEF IterInv
<1>3. search \in [link : Pointer, index : 0 .. MaxLinks]
  <2>1. CASE search = NoSearch
    BY <2>1, BoundsAssumption DEF NoSearch, Pointer
  <2>2. CASE search # NoSearch
    <3>1. PICK q, i : search = [link |-> q, index |-> i] /\ Passed(pos, q, i)
      BY <2>2 DEF IterInv, Passing
    <3>2. i + 1 <= MaxLinks /\ i \in Nat /\ q \in Link
      BY <3>1, PassedAndFound DEF IterInv, ListInv, Passed
    <3>3. i \in 0 .. MaxLinks
      BY <3>2, BoundsAssumption
    <3> QED
      BY <3>1, <3>2, <3>3 DEF Pointer
  <2> QED
    BY <2>1, <2>2
<1> QED
  BY <1>1, <1>2, <1>3 DEF TypeOK, IterationTypes

(* Whatever is done to the list, no iterator comes back to a link it went  *)
(* through.                                                                *)
THEOREM IteratorNeverDeliversTwice == Spec => []NeverTwice
<1>1. IsIterated => NeverTwice
  <2> SUFFICES ASSUME IsIterated  PROVE NeverTwice
    OBVIOUS
  <2>1. PICK pos, B : IterInv(pos, B)
    BY DEF IsIterated
  <2>2. ASSUME NEW h \in Handles  PROVE ToSet(Walk(cursor[h])) \cap seen[h] = {}
    <3>1. PICK c \in Pointer : c = cursor[h]
      BY <2>1 DEF IterInv, IterationTypes
    <3>2. PICK n \in Nat : \E s \in [1 .. n -> Link] :
              Segment(next, c, Null, n, s) /\ Rising(pos, n, s) /\ Differ(s, n) /\ Walk(c) = s
      BY <2>1, WalksAre DEF IterInv
    <3>3. PICK s \in [1 .. n -> Link] :
              Segment(next, c, Null, n, s) /\ Rising(pos, n, s) /\ Differ(s, n) /\ Walk(c) = s
      BY <3>2
    <3>4. ASSUME NEW k \in 1 .. n, s[k] \in seen[h]  PROVE FALSE
      <4>1. n # 0 /\ c = s[1] /\ 1 \in 1 .. n
        BY <3>3 DEF Segment
      <4>2. c # Null
        BY <4>1, LinkIsNotNull
      <4>3. pos[s[k]] < pos[s[1]]
        BY <2>1, <3>1, <3>4, <4>1, <4>2 DEF IterInv, SeenBefore
      <4>4. pos[s[k]] \in Int /\ pos[s[1]] \in Int
        BY <2>1, <4>1 DEF IterInv, ListInv, Ranked
      <4>5. k = 1 \/ pos[s[1]] < pos[s[k]]
        BY <3>3, <4>1 DEF Rising
      <4> QED
        BY <4>3, <4>4, <4>5
    <3>5. ToSet(s) = {s[k] : k \in 1 .. n}
      BY DEF ToSet
    <3> QED
      BY <3>1, <3>3, <3>4, <3>5
  <2> QED
    BY <2>1, <2>2, IterationHasTypes DEF NeverTwice
<1> QED
  BY <1>1, IsIteratedAlways, PTL

(* remove() erases the element it found equal, unless elements were moved  *)
(* by the comparison.                                                      *)
THEOREM RemoveErasesWhatItFound == Spec => []RemovesWhatItFound
<1>1. IsIterated => RemovesWhatItFound
  <2> SUFFICES ASSUME IsIterated, search # NoSearch, stable
               PROVE  At(search.index) = search.link
    BY DEF RemovesWhatItFound
  <2>1. PICK pos, B : IterInv(pos, B)
    BY DEF IsIterated
  <2>2. PICK n \in Nat : \E s \in [1 .. n -> Link] : Shape(n, s) /\ Finds(n, s)
    BY <2>1 DEF IterInv, Found
  <2>3. PICK s \in [1 .. n -> Link] : Shape(n, s) /\ Finds(n, s)
    BY <2>2
  <2>4. PICK i : i = search.index
    OBVIOUS
  <2>5. At(i) = IF i \in 0 .. n - 1 THEN s[i + 1] ELSE Null
    BY <2>1, <2>3, ListIsRead DEF IterInv, ListInv
  <2>6. i + 1 \in 1 .. n /\ s[i + 1] = search.link
    BY <2>3, <2>4 DEF Finds
  <2>7. i \in Int
    <3>1. PICK q, j : search = [link |-> q, index |-> j] /\ Passed(pos, q, j)
      BY <2>1 DEF IterInv, Passing
    <3> QED
      BY <2>4, <3>1 DEF Passed
  <2> QED
    BY <2>4, <2>5, <2>6, <2>7
<1> QED
  BY <1>1, IsIteratedAlways, PTL
=============================================================================
