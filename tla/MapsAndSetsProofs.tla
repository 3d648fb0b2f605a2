--------------------------- MODULE MapsAndSetsProofs ---------------------------
(***************************************************************************)
(* Proofs about MapsAndSets and Iterables, for any number of tables, loops *)
(* and objects, any hash codes and any number of buckets:                  *)
(*   - loops miss nothing, whatever happens to the table between two of    *)
(*     their steps;                                                        *)
(*   - maps and sets are ordered maps: every operation on the chains and   *)
(*     the list of a table is one of OrderedMap on its contents;           *)
(*   - the flag that keeps join() and as_json() from entering a map again  *)
(*     is set as long as one of them is inside, and no longer;             *)
(*   - all of this also while the methods of iterables run, and the ranges *)
(*     they run through deliver their elements in order.                   *)
(***************************************************************************)
EXTENDS Iterables, FiniteSetTheorems, SequenceTheorems, NaturalsInduction,
        WellFoundedInduction, TLAPS

-----------------------------------------------------------------------------
(* SEQUENCES AND LOOPS *)

(* A set of natural numbers that is not empty has a least element.         *)
LEMMA LeastExists ==
    ASSUME NEW T \in SUBSET Nat, T # {}
    PROVE  \E x \in T : \A y \in T : x <= y
<1>1. PICK x \in T : \A y \in T : ~(<<y, x>> \in OpToRel(<, Nat))
  BY NatLessThanWellFounded, WFMin
<1>2. \A y \in T : y < x => <<y, x>> \in OpToRel(<, Nat)
  BY DEF OpToRel
<1>3. \A y \in T : ~(y < x) /\ y \in Nat /\ x \in Nat
  BY <1>1, <1>2
<1> QED
  BY <1>3

LEMMA SequenceLength ==
    ASSUME NEW S, NEW n \in Nat, NEW s \in [1 .. n -> S]
    PROVE  s \in Seq(S) /\ Len(s) = n /\ DOMAIN s = 1 .. n
<1>1. DOMAIN s = 1 .. n
  OBVIOUS
<1>2. s \in Seq(S)
  BY SeqDef
<1>3. Len(s) = n
  BY <1>1, <1>2, LenProperties
<1> QED
  BY <1>1, <1>2, <1>3

IsRow(s, n, S) == s \in [1 .. n -> S]

(* t is the row s of n elements and x after it.                            *)
Adds(t, s, n, x) == (\A i \in 1 .. n : t[i] = s[i]) /\ t[n + 1] = x

LEMMA Appended ==
    ASSUME NEW S, NEW n \in Nat, NEW s, IsRow(s, n, S), NEW x \in S
    PROVE  IsRow(Append(s, x), n + 1, S) /\ Adds(Append(s, x), s, n, x)
<1>1. s \in Seq(S) /\ Len(s) = n
  BY SequenceLength DEF IsRow
<1>2. /\ Append(s, x) \in Seq(S) /\ Len(Append(s, x)) = n + 1
      /\ \A i \in 1 .. n : Append(s, x)[i] = s[i]
      /\ Append(s, x)[n + 1] = x
  BY <1>1, AppendProperties
<1>3. DOMAIN Append(s, x) = 1 .. n + 1 /\ Append(s, x) \in [1 .. n + 1 -> S]
  BY <1>2, LenProperties
<1> QED
  BY <1>2, <1>3 DEF IsRow, Adds

(* A loop that runs m times, each time from one state to another.          *)
Runs(f, m, X, c, g) ==
    f \in [0 .. m -> X] /\ f[0] = c /\ \A n \in 1 .. m : f[n] = g[<<n, f[n - 1]>>]

LEMMA LoopExists ==
    ASSUME NEW X, NEW c \in X, NEW m \in Nat, NEW g \in [(1 .. m) \X X -> X]
    PROVE  \E f : Runs(f, m, X, c, g)
<1> DEFINE Upto(n) == \E f : Runs(f, n, X, c, g)
           bad == {n \in 0 .. m : ~Upto(n)}
<1>1. Upto(0)
  <2>1. Runs([n \in 0 .. 0 |-> c], 0, X, c, g)
    BY DEF Runs
  <2> QED
    BY <2>1
<1>2. ASSUME NEW n \in 1 .. m, Upto(n - 1)  PROVE Upto(n)
  <2>1. PICK f : Runs(f, n - 1, X, c, g)
    BY <1>2
  <2> DEFINE h == [k \in 0 .. n |-> IF k = n THEN g[<<n, f[n - 1]>>] ELSE f[k]]
  <2>2. f \in [0 .. n - 1 -> X] /\ f[0] = c /\ \A k \in 1 .. n - 1 : f[k] = g[<<k, f[k - 1]>>]
    BY <2>1 DEF Runs
  <2>3. n - 1 \in 0 .. n - 1 /\ n # 0 /\ \A k \in 0 .. n : k = n \/ k \in 0 .. n - 1
    OBVIOUS
  <2>4. f[n - 1] \in X /\ g[<<n, f[n - 1]>>] \in X
    BY <2>2, <2>3
  <2>5. h \in [0 .. n -> X] /\ h[0] = c
    BY <2>2, <2>3, <2>4
  <2>6. ASSUME NEW k \in 1 .. n  PROVE h[k] = g[<<k, h[k - 1]>>]
    <3>1. k - 1 \in 0 .. n - 1 /\ k - 1 # n /\ k - 1 \in 0 .. n /\ n \in 0 .. n
      OBVIOUS
    <3>2. h[k - 1] = f[k - 1]
      BY <3>1
    <3>3. CASE k = n
      <4>1. h[n] = g[<<n, f[n - 1]>>]
        BY <3>1
      <4> HIDE DEF h
      <4> QED
        BY <3>2, <3>3, <4>1
    <3>4. CASE k # n
      <4>1. k \in 1 .. n - 1 /\ k \in 0 .. n
        BY <3>4
      <4>2. h[k] = f[k]
        BY <3>4, <4>1
      <4> HIDE DEF h
      <4> QED
        BY <2>2, <3>2, <4>1, <4>2
    <3> QED
      BY <3>3, <3>4
  <2> HIDE DEF h
  <2>7. Runs(h, n, X, c, g)
    BY <2>5, <2>6 DEF Runs
  <2> QED
    BY <2>7
<1>3. bad = {}
  <2> SUFFICES ASSUME bad # {}  PROVE FALSE
    OBVIOUS
  <2>1. PICK n \in bad : \A k \in bad : n <= k
    <3>1. bad \in SUBSET Nat
      OBVIOUS
    <3> QED
      BY <3>1, LeastExists
  <2> HIDE DEF Upto
  <2>2. n \in 0 .. m /\ ~Upto(n)
    OBVIOUS
  <2>3. n # 0
    BY <1>1, <2>2
  <2>4. n \in 1 .. m /\ n - 1 \in 0 .. m /\ n - 1 \notin bad
    BY <2>1, <2>2, <2>3
  <2>5. Upto(n - 1)
    BY <2>4
  <2> QED
    BY <1>2, <2>2, <2>4, <2>5
<1>4. m \in 0 .. m
  OBVIOUS
<1> QED
  BY <1>3, <1>4

-----------------------------------------------------------------------------
(* PATHS *)

(* The entries s, n of them, are met when ptr is followed from e.          *)
Path(ptr, e, n, s) ==
    /\ e = 0 <=> n = 0
    /\ n # 0 => s[1] = e
    /\ \A i \in 1 .. n : ptr[s[i]] = IF i = n THEN 0 ELSE s[i + 1]

(* Entries have ranks, and a pointer leads to an entry with a lower one.   *)
Sinks(ptr, N, rank) ==
    /\ ptr \in [1 .. N -> 0 .. N] /\ rank \in [1 .. N -> 1 .. N]
    /\ \A e \in 1 .. N : ptr[e] # 0 => rank[ptr[e]] < rank[e]

Lowers(rank, s, n) == \A i, j \in 1 .. n : i < j => rank[s[j]] < rank[s[i]]

(* Ranks go down along a path, so that there are no more entries on it     *)
(* than there are ranks.                                                   *)
LEMMA RanksGoDown ==
    ASSUME NEW N \in Nat, NEW ptr, NEW rank, Sinks(ptr, N, rank),
           NEW n \in Nat, NEW s, IsRow(s, n, 1 .. N),
           \A i \in 1 .. n - 1 : ptr[s[i]] = s[i + 1]
    PROVE  n <= N /\ Lowers(rank, s, n)
<1>0. s \in [1 .. n -> 1 .. N]
  BY DEF IsRow
<1>1. \A i \in 1 .. n : rank[s[i]] \in 1 .. N
  BY <1>0 DEF Sinks
<1>2. ASSUME NEW i \in 1 .. n - 1
      PROVE  i \in 1 .. n /\ i + 1 \in 1 .. n /\ rank[s[i + 1]] < rank[s[i]]
  <2>1. i \in 1 .. n /\ i + 1 \in 1 .. n
    OBVIOUS
  <2>2. s[i] \in 1 .. N /\ s[i + 1] \in 1 .. N /\ ptr[s[i]] = s[i + 1]
    BY <1>0, <2>1
  <2>3. s[i + 1] # 0
    BY <2>2
  <2> QED
    BY <2>1, <2>2, <2>3 DEF Sinks
<1> DEFINE bad == {j \in 1 .. n : \/ ~(rank[s[j]] <= N + 1 - j)
                                 \/ \E i \in 1 .. n : i < j /\ ~(rank[s[j]] < rank[s[i]])}
<1>3. bad = {}
  <2> SUFFICES ASSUME bad # {}  PROVE FALSE
    OBVIOUS
  <2>1. PICK j \in bad : \A k \in bad : j <= k
    <3>1. bad \in SUBSET Nat
      OBVIOUS
    <3> QED
      BY <3>1, LeastExists
  <2>2. j # 1
    BY <1>1
  <2>3. j - 1 \in 1 .. n - 1 /\ (j - 1) + 1 = j /\ j - 1 \notin bad
    <3>1. j \in 1 .. n
      OBVIOUS
    <3> HIDE DEF bad
    <3> QED
      BY <2>1, <2>2, <3>1
  <2>4. rank[s[j]] < rank[s[j - 1]] /\ j - 1 \in 1 .. n
    BY <1>2, <2>3
  <2>5. rank[s[j - 1]] <= N + 1 - (j - 1) /\ \A i \in 1 .. n : i < j - 1 => rank[s[j - 1]] < rank[s[i]]
    BY <2>3, <2>4
  <2>6. rank[s[j]] \in 1 .. N /\ rank[s[j - 1]] \in 1 .. N
    BY <1>1, <2>4
  <2>7. rank[s[j]] <= N + 1 - j
    BY <2>4, <2>5, <2>6
  <2>8. ASSUME NEW i \in 1 .. n, i < j  PROVE rank[s[j]] < rank[s[i]]
    <3>1. i = j - 1 \/ i < j - 1
      BY <2>8
    <3>2. rank[s[i]] \in 1 .. N
      BY <1>1
    <3>3. i < j - 1 => rank[s[j - 1]] < rank[s[i]]
      BY <2>5
    <3> HIDE DEF bad
    <3>4. CASE i = j - 1
      BY <2>4, <3>4
    <3>5. CASE i < j - 1
      BY <2>4, <2>6, <3>2, <3>3, <3>5
    <3> QED
      BY <3>1, <3>4, <3>5
  <2> QED
    BY <2>1, <2>7, <2>8
<1>4. \A j \in 1 .. n : /\ rank[s[j]] <= N + 1 - j
                        /\ \A i \in 1 .. n : i < j => rank[s[j]] < rank[s[i]]
  BY <1>3
<1>5. n <= N
  <2>1. CASE n = 0
    BY <2>1
  <2>2. CASE n # 0
    <3>1. n \in 1 .. n
      BY <2>2
    <3>2. rank[s[n]] <= N + 1 - n
      BY <1>4, <3>1
    <3>3. rank[s[n]] \in 1 .. N
      BY <1>1, <3>1
    <3> QED
      BY <3>2, <3>3
  <2> QED
    BY <2>1, <2>2
<1> QED
  BY <1>4, <1>5 DEF Lowers

(* Two paths from the same entry are the same.                             *)
LEMMA PathsAgree ==
    ASSUME NEW S, 0 \notin S, NEW ptr, NEW e, NEW n \in Nat, NEW s \in [1 .. n -> S], Path(ptr, e, n, s),
           NEW m \in Nat, NEW t \in [1 .. m -> S], Path(ptr, e, m, t)
    PROVE  n = m /\ s = t
<1> DEFINE bad == {i \in 1 .. n : i \notin 1 .. m \/ s[i] # t[i]}
<1>0. (e = 0 <=> n = 0) /\ (e = 0 <=> m = 0)
  BY DEF Path
<1>1. bad = {}
  <2> SUFFICES ASSUME bad # {}  PROVE FALSE
    OBVIOUS
  <2>1. PICK i \in bad : \A k \in bad : i <= k
    <3>1. bad \in SUBSET Nat
      OBVIOUS
    <3> QED
      BY <3>1, LeastExists
  <2>2. n # 0 /\ m # 0
    BY <1>0
  <2>3. i # 1
    <3>1. s[1] = e /\ t[1] = e /\ 1 \in 1 .. m
      BY <2>2 DEF Path
    <3> QED
      BY <3>1
  <2>4. i - 1 \in 1 .. n /\ (i - 1) + 1 = i /\ i - 1 # n /\ i - 1 \notin bad
    BY <2>1, <2>3
  <2>5. i - 1 \in 1 .. m /\ s[i - 1] = t[i - 1]
    BY <2>4
  <2>6. ptr[s[i - 1]] = s[i] /\ s[i] # 0
    BY <2>4 DEF Path
  <2>7. ptr[t[i - 1]] = IF i - 1 = m THEN 0 ELSE t[i]
    BY <2>4, <2>5 DEF Path
  <2>8. i - 1 # m /\ s[i] = t[i]
    BY <2>5, <2>6, <2>7
  <2>9. i \in 1 .. m
    BY <2>4, <2>5, <2>8
  <2> QED
    BY <2>8, <2>9
<1>2. \A i \in 1 .. n : i \in 1 .. m /\ s[i] = t[i]
  BY <1>1
<1>3. n <= m
  <2>1. CASE n = 0
    BY <2>1
  <2>2. CASE n # 0
    BY <1>2, <2>2
  <2> QED
    BY <2>1, <2>2
<1>4. n = m
  <2> SUFFICES ASSUME n # m  PROVE FALSE
    OBVIOUS
  <2>1. n # 0 /\ n < m /\ n \in 1 .. n /\ n \in 1 .. m /\ n + 1 \in 1 .. m
    BY <1>0, <1>3
  <2>2. ptr[s[n]] = 0 /\ ptr[t[n]] = t[n + 1] /\ s[n] = t[n]
    BY <1>2, <2>1 DEF Path
  <2>3. t[n + 1] \in S
    BY <2>1
  <2> QED
    BY <2>2, <2>3
<1> QED
  BY <1>2, <1>4

(* What Follow() has met after k steps.                                    *)
Walked(ptr, e, k, n, s) ==
    /\ n <= k
    /\ n = 0 => k = 0 \/ e = 0
    /\ n # 0 => e # 0 /\ s[1] = e
    /\ \A i \in 1 .. n - 1 : ptr[s[i]] = s[i + 1]
    /\ n # 0 /\ n < k => ptr[s[n]] = 0

Step(ptr, e, s) ==
    LET here == IF s = <<>> THEN e ELSE ptr[Last(s)]
    IN  IF here = 0 THEN s ELSE Append(s, here)

LEMMA WalkedStep ==
    ASSUME NEW N \in Nat, NEW ptr \in [1 .. N -> 0 .. N], NEW e \in 0 .. N, NEW k \in Nat,
           NEW n \in Nat, NEW s \in [1 .. n -> 1 .. N], Walked(ptr, e, k, n, s)
    PROVE  \E m \in Nat : /\ Step(ptr, e, s) \in [1 .. m -> 1 .. N]
                          /\ Walked(ptr, e, k + 1, m, Step(ptr, e, s))
<1> DEFINE here == IF s = <<>> THEN e ELSE ptr[Last(s)]
<1>1. s \in Seq(1 .. N) /\ Len(s) = n
  BY SequenceLength
<1>2. (s = <<>> <=> n = 0) /\ (n # 0 => Last(s) = s[n] /\ s[n] \in 1 .. N)
  BY <1>1 DEF Last
<1>3. here \in 0 .. N
  BY <1>2
<1>4. here = IF n = 0 THEN e ELSE ptr[s[n]]
  BY <1>2
<1> HIDE DEF here
<1>5. CASE here = 0
  <2>1. Step(ptr, e, s) = s
    BY <1>5 DEF Step, here
  <2>2. Walked(ptr, e, k + 1, n, s)
    BY <1>4, <1>5 DEF Walked
  <2> QED
    BY <2>1, <2>2
<1>6. CASE here # 0
  <2> DEFINE t == Append(s, here)
  <2>1. here \in 1 .. N
    BY <1>3, <1>6
  <2>2. Step(ptr, e, s) = Append(s, here)
    BY <1>6 DEF Step, here
  <2>3. /\ IsRow(t, n + 1, 1 .. N)
        /\ \A i \in 1 .. n : t[i] = s[i]
        /\ t[n + 1] = here
    <3>1. IsRow(s, n, 1 .. N)
      BY DEF IsRow
    <3>2. IsRow(t, n + 1, 1 .. N) /\ Adds(t, s, n, here)
      BY <2>1, <3>1, Appended
    <3> QED
      BY <3>2 DEF Adds
  <2> HIDE DEF t
  <2>4. n = k
    BY <1>4, <1>6 DEF Walked
  <2>5. t[1] = e
    <3>1. CASE n = 0
      BY <1>4, <2>3, <3>1
    <3>2. CASE n # 0
      <4>1. 1 \in 1 .. n /\ s[1] = e
        BY <3>2 DEF Walked
      <4> QED
        BY <2>3, <4>1
    <3> QED
      BY <3>1, <3>2
  <2>6. ASSUME NEW i \in 1 .. n  PROVE ptr[t[i]] = t[i + 1]
    <3>1. t[i] = s[i] /\ (i = n => t[i + 1] = here)
      BY <2>3
    <3>2. i # n => i + 1 \in 1 .. n /\ i \in 1 .. n - 1
      OBVIOUS
    <3>3. i # n => t[i + 1] = s[i + 1] /\ ptr[s[i]] = s[i + 1]
      BY <2>3, <3>2 DEF Walked
    <3>4. n # 0
      OBVIOUS
    <3> QED
      BY <1>4, <3>1, <3>3, <3>4
  <2>7. e # 0
    BY <1>4, <1>6 DEF Walked
  <2>8. n + 1 - 1 = n /\ n + 1 <= k + 1 /\ n + 1 # 0 /\ ~(n + 1 < k + 1)
    BY <2>4
  <2>9. Walked(ptr, e, k + 1, n + 1, t)
    BY <2>5, <2>6, <2>7, <2>8 DEF Walked
  <2>10. Walked(ptr, e, k + 1, n + 1, Step(ptr, e, s)) /\ Step(ptr, e, s) \in [1 .. n + 1 -> 1 .. N]
    BY <2>2, <2>3, <2>9 DEF IsRow, t
  <2>11. n + 1 \in Nat
    OBVIOUS
  <2> QED
    BY <2>10, <2>11
<1> QED
  BY <1>5, <1>6

(* Follow() runs once more than there are entries.                         *)
LEMMA FollowRuns ==
    ASSUME NEW N \in Nat, NEW ptr \in [1 .. N -> 0 .. N], NEW e \in 0 .. N
    PROVE  \E f \in [0 .. N + 1 -> Seq(1 .. N)] :
               /\ f[0] = <<>> /\ Follow(ptr, e) = f[N + 1]
               /\ \A k \in 1 .. N + 1 : f[k] = Step(ptr, e, f[k - 1])
<1> DEFINE step(f) == [n \in 0 .. N + 1 |->
                         IF n = 0 THEN <<>>
                         ELSE LET before == f[n - 1]
                                  here   == IF before = <<>> THEN e ELSE ptr[Last(before)]
                              IN  IF here = Null THEN before ELSE Append(before, here)]
           path == CHOOSE f : f = step(f)
           X == Seq(1 .. N)
           g == [p \in (1 .. N + 1) \X X |-> Step(ptr, e, p[2])]
<1>1. Len(ptr) = N
  <2>1. 0 .. N = 0 .. N
    OBVIOUS
  <2> QED
    BY SequenceLength
<1>2. Follow(ptr, e) = path[N + 1]
  BY <1>1 DEF Follow
<1>3. ASSUME NEW s \in X  PROVE Step(ptr, e, s) \in X
  <2> DEFINE here == IF s = <<>> THEN e ELSE ptr[Last(s)]
  <2>1. s # <<>> => Last(s) \in 1 .. N
    BY DEF Last
  <2>2. here \in 0 .. N
    BY <2>1
  <2>3. Step(ptr, e, s) = IF here = 0 THEN s ELSE Append(s, here)
    BY DEF Step
  <2> HIDE DEF here
  <2>4. CASE here = 0
    BY <2>3, <2>4
  <2>5. CASE here # 0
    <3>1. here \in 1 .. N
      BY <2>2, <2>5
    <3> QED
      BY <2>3, <2>5, <3>1, AppendProperties
  <2> QED
    BY <2>4, <2>5
<1>4. <<>> \in X
  OBVIOUS
<1>5. g \in [(1 .. N + 1) \X X -> X]
  BY <1>3
<1> HIDE DEF g
<1>6. PICK f : Runs(f, N + 1, X, <<>>, g)
  <2>1. N + 1 \in Nat
    OBVIOUS
  <2> HIDE DEF X
  <2> QED
    BY <1>4, <1>5, <2>1, LoopExists
<1>7. f \in [0 .. N + 1 -> X] /\ f[0] = <<>> /\ \A n \in 1 .. N + 1 : f[n] = g[<<n, f[n - 1]>>]
  BY <1>6 DEF Runs
<1>8. ASSUME NEW n \in 1 .. N + 1  PROVE f[n] = Step(ptr, e, f[n - 1])
  <2>1. n - 1 \in 0 .. N + 1
    OBVIOUS
  <2>2. f[n - 1] \in X
    BY <1>7, <2>1
  <2>3. <<n, f[n - 1]>> \in (1 .. N + 1) \X X
    BY <2>2
  <2>4. g[<<n, f[n - 1]>>] = Step(ptr, e, f[n - 1])
    BY <2>3 DEF g
  <2> QED
    BY <1>7, <2>4
<1>9. f = step(f)
  <2>1. ASSUME NEW n \in 0 .. N + 1
        PROVE  f[n] = IF n = 0 THEN <<>>
                      ELSE LET before == f[n - 1]
                               here   == IF before = <<>> THEN e ELSE ptr[Last(before)]
                           IN  IF here = Null THEN before ELSE Append(before, here)
    <3>1. CASE n = 0
      BY <1>7, <3>1
    <3>2. CASE n # 0
      <4>1. n \in 1 .. N + 1
        BY <3>2
      <4>2. f[n] = Step(ptr, e, f[n - 1])
        BY <1>8, <4>1
      <4> QED
        BY <3>2, <4>2 DEF Step, Null
    <3> QED
      BY <3>1, <3>2
  <2> QED
    BY <1>7, <2>1
<1>10. path = step(path)
  <2> HIDE DEF step
  <2> QED
    BY <1>9
<1> HIDE DEF path
<1>11. ASSUME NEW n \in 1 .. N + 1  PROVE path[n] = Step(ptr, e, path[n - 1])
  <2>1. n \in 0 .. N + 1 /\ n # 0
    OBVIOUS
  <2>2. path[n] = LET before == path[n - 1]
                      here   == IF before = <<>> THEN e ELSE ptr[Last(before)]
                  IN  IF here = Null THEN before ELSE Append(before, here)
    BY <1>10, <2>1
  <2> QED
    BY <2>2 DEF Step, Null
<1>12. path[0] = <<>>
  BY <1>10
<1>13. path \in [0 .. N + 1 -> X]
  <2>1. path = [n \in 0 .. N + 1 |-> path[n]]
    <3> DEFINE D == 0 .. N + 1
               body(n) == IF n = 0 THEN <<>> ELSE Step(ptr, e, path[n - 1])
    <3>1. path = [n \in D |-> body(n)]
      BY <1>10 DEF Step, Null
    <3> HIDE DEF D, body
    <3>2. path = [n \in D |-> path[n]]
      BY <3>1
    <3> QED
      BY <3>2 DEF D
  <2> DEFINE bad == {n \in 0 .. N + 1 : path[n] \notin X}
  <2>2. bad = {}
    <3> SUFFICES ASSUME bad # {}  PROVE FALSE
      OBVIOUS
    <3>1. PICK n \in bad : \A k \in bad : n <= k
      <4>1. bad \in SUBSET Nat
        OBVIOUS
      <4> QED
        BY <4>1, LeastExists
    <3>2. n # 0
      BY <1>4, <1>12
    <3>3. n \in 1 .. N + 1 /\ n - 1 \in 0 .. N + 1
      BY <3>2
    <3>4. n - 1 \notin bad
      <4>1. ~(n <= n - 1)
        BY <3>3
      <4> HIDE DEF bad
      <4> QED
        BY <3>1, <4>1
    <3>5. path[n - 1] \in X
      BY <3>3, <3>4
    <3> HIDE DEF X
    <3>6. path[n] \in X
      BY <1>3, <1>11, <3>3, <3>5
    <3> QED
      BY <3>6
  <2>3. \A n \in 0 .. N + 1 : path[n] \in X
    BY <2>2
  <2> DEFINE D == 0 .. N + 1
  <2>4. path = [n \in D |-> path[n]] /\ \A n \in D : path[n] \in X
    BY <2>1, <2>3
  <2> HIDE DEF bad, X, D
  <2>5. path \in [D -> X]
    BY <2>4
  <2> QED
    BY <2>5 DEF D
<1> QED
  BY <1>2, <1>11, <1>12, <1>13

(* Follow() meets a path.                                                  *)
LEMMA FollowIsPath ==
    ASSUME NEW N \in Nat, NEW ptr, NEW rank, Sinks(ptr, N, rank), NEW e \in 0 .. N
    PROVE  \E n \in 0 .. N : Follow(ptr, e) \in [1 .. n -> 1 .. N] /\ Path(ptr, e, n, Follow(ptr, e))
<1>1. ptr \in [1 .. N -> 0 .. N]
  BY DEF Sinks
<1>2. PICK f \in [0 .. N + 1 -> Seq(1 .. N)] :
               /\ f[0] = <<>> /\ Follow(ptr, e) = f[N + 1]
               /\ \A k \in 1 .. N + 1 : f[k] = Step(ptr, e, f[k - 1])
  BY <1>1, FollowRuns
<1> DEFINE Good(k) == \E n \in Nat : f[k] \in [1 .. n -> 1 .. N] /\ Walked(ptr, e, k, n, f[k])
           bad == {k \in 0 .. N + 1 : ~Good(k)}
<1>3. Good(0)
  <2>1. f[0] \in [1 .. 0 -> 1 .. N]
    <3>1. <<>> \in Seq(1 .. N) /\ Len(<<>>) = 0
      OBVIOUS
    <3>2. <<>> \in [1 .. 0 -> 1 .. N]
      BY <3>1, LenProperties
    <3> QED
      BY <1>2, <3>2
  <2>2. Walked(ptr, e, 0, 0, f[0])
    BY DEF Walked
  <2> QED
    BY <2>1, <2>2
<1>4. ASSUME NEW k \in 1 .. N + 1, Good(k - 1)  PROVE Good(k)
  <2>1. PICK n \in Nat : f[k - 1] \in [1 .. n -> 1 .. N] /\ Walked(ptr, e, k - 1, n, f[k - 1])
    BY <1>4
  <2>2. k - 1 \in Nat /\ (k - 1) + 1 = k
    OBVIOUS
  <2>3. \E m \in Nat : /\ Step(ptr, e, f[k - 1]) \in [1 .. m -> 1 .. N]
                       /\ Walked(ptr, e, (k - 1) + 1, m, Step(ptr, e, f[k - 1]))
    BY <1>1, <2>1, <2>2, WalkedStep
  <2>4. f[k] = Step(ptr, e, f[k - 1])
    BY <1>2
  <2> QED
    BY <2>2, <2>3, <2>4
<1>5. bad = {}
  <2> SUFFICES ASSUME bad # {}  PROVE FALSE
    OBVIOUS
  <2>1. PICK n \in bad : \A k \in bad : n <= k
    <3>1. bad \in SUBSET Nat
      OBVIOUS
    <3> QED
      BY <3>1, LeastExists
  <2> HIDE DEF Good
  <2>2. n # 0
    BY <1>3
  <2>3. n \in 1 .. N + 1 /\ n - 1 \in 0 .. N + 1 /\ ~(n <= n - 1)
    BY <2>2
  <2>4. n - 1 \notin bad
    <3> HIDE DEF bad
    <3> QED
      BY <2>1, <2>3
  <2> QED
    BY <1>4, <2>3, <2>4
<1>6. Good(N + 1)
  <2>1. N + 1 \in 0 .. N + 1
    OBVIOUS
  <2> HIDE DEF Good
  <2> QED
    BY <1>5, <2>1
<1>7. PICK n \in Nat : f[N + 1] \in [1 .. n -> 1 .. N] /\ Walked(ptr, e, N + 1, n, f[N + 1])
  BY <1>6
<1> DEFINE s == f[N + 1]
<1> HIDE DEF s
<1>8. s \in [1 .. n -> 1 .. N] /\ Walked(ptr, e, N + 1, n, s) /\ Follow(ptr, e) = s
  BY <1>2, <1>7 DEF s
<1>9. \A i \in 1 .. n - 1 : ptr[s[i]] = s[i + 1]
  BY <1>8 DEF Walked
<1>10. n <= N
  <2>1. IsRow(s, n, 1 .. N)
    BY <1>8 DEF IsRow
  <2> QED
    BY <1>9, <2>1, RanksGoDown
<1>11. Path(ptr, e, n, s)
  <2>1. /\ n = 0 => e = 0
        /\ n # 0 => e # 0 /\ s[1] = e /\ ptr[s[n]] = 0
    BY <1>8, <1>10 DEF Walked
  <2>2. \A i \in 1 .. n : i = n \/ i \in 1 .. n - 1
    OBVIOUS
  <2>3. \A i \in 1 .. n : ptr[s[i]] = IF i = n THEN 0 ELSE s[i + 1]
    <3> TAKE i \in 1 .. n
    <3>1. n # 0
      OBVIOUS
    <3>2. i # n => i \in 1 .. n - 1
      BY <2>2
    <3> QED
      BY <1>9, <2>1, <3>1, <3>2
  <2> QED
    BY <2>1, <2>3 DEF Path
<1>12. n \in 0 .. N
  BY <1>10
<1> QED
  BY <1>8, <1>11, <1>12

(* The entries met from e on.                                              *)
Met(ptr, e) == ToSet(Follow(ptr, e))

Members(s, n) == {s[i] : i \in 1 .. n}

LEMMA MembersOf ==
    ASSUME NEW S, NEW n \in Nat, NEW s, IsRow(s, n, S)
    PROVE  ToSet(s) = Members(s, n) /\ Len(s) = n /\ DOMAIN s = 1 .. n
  BY SequenceLength DEF ToSet, IsRow, Members

LEMMA PathBehind ==
    ASSUME NEW S, NEW ptr, NEW e, NEW n \in Nat, n # 0, NEW s \in [1 .. n -> S], 0 \notin S,
           Path(ptr, e, n, s),
           NEW t, t = [i \in 1 .. n - 1 |-> s[i + 1]]
    PROVE  t \in [1 .. n - 1 -> S] /\ Path(ptr, ptr[e], n - 1, t)
<1>1. \A i \in 1 .. n - 1 : i + 1 \in 1 .. n /\ i \in 1 .. n
  OBVIOUS
<1>2. t \in [1 .. n - 1 -> S]
  BY <1>1
<1>3. s[1] = e /\ 1 \in 1 .. n
  BY DEF Path
<1>4. ptr[e] = IF 1 = n THEN 0 ELSE s[1 + 1]
  BY <1>3 DEF Path
<1>5. ptr[e] = 0 <=> n - 1 = 0
  <2>1. 1 # n => 1 + 1 \in 1 .. n
    OBVIOUS
  <2> QED
    BY <1>4, <2>1
<1>6. n - 1 # 0 => t[1] = ptr[e]
  <2> SUFFICES ASSUME n - 1 # 0  PROVE t[1] = ptr[e]
    OBVIOUS
  <2>1. 1 \in 1 .. n - 1 /\ 1 # n
    OBVIOUS
  <2> QED
    BY <1>4, <2>1
<1>7. ASSUME NEW i \in 1 .. n - 1  PROVE ptr[t[i]] = IF i = n - 1 THEN 0 ELSE t[i + 1]
  <2>1. t[i] = s[i + 1] /\ i + 1 \in 1 .. n
    BY <1>1
  <2>2. ptr[s[i + 1]] = IF i + 1 = n THEN 0 ELSE s[(i + 1) + 1]
    BY <2>1 DEF Path
  <2>3. i # n - 1 => t[i + 1] = s[(i + 1) + 1] /\ i + 1 # n
    <3> SUFFICES ASSUME i # n - 1  PROVE t[i + 1] = s[(i + 1) + 1] /\ i + 1 # n
      OBVIOUS
    <3>1. i + 1 \in 1 .. n - 1
      OBVIOUS
    <3> QED
      BY <3>1
  <2>4. i = n - 1 => i + 1 = n
    OBVIOUS
  <2> QED
    BY <2>1, <2>2, <2>3, <2>4
<1> QED
  BY <1>2, <1>5, <1>6, <1>7 DEF Path

(* What is met from e on is e and what is met from the next entry on.      *)
LEMMA FollowUnfolds ==
    ASSUME NEW N \in Nat, NEW ptr, NEW rank, Sinks(ptr, N, rank), NEW e \in 1 .. N
    PROVE  /\ Follow(ptr, e) # <<>> /\ Follow(ptr, e)[1] = e
           /\ Tail(Follow(ptr, e)) = Follow(ptr, ptr[e])
           /\ Met(ptr, e) = {e} \cup Met(ptr, ptr[e])
<1> DEFINE P == 1 .. N
           s == Follow(ptr, e)
           r == Follow(ptr, ptr[e])
<1>1. e \in 0 .. N /\ ptr[e] \in 0 .. N /\ 0 \notin P
  BY DEF Sinks
<1>2. PICK n \in 0 .. N : s \in [1 .. n -> P] /\ Path(ptr, e, n, s)
  BY <1>1, FollowIsPath
<1>3. PICK m \in 0 .. N : r \in [1 .. m -> P] /\ Path(ptr, ptr[e], m, r)
  BY <1>1, FollowIsPath
<1> HIDE DEF P, s, r
<1>4. n # 0 /\ s[1] = e /\ n \in Nat /\ m \in Nat
  BY <1>2 DEF Path, P
<1> DEFINE t == [i \in 1 .. n - 1 |-> s[i + 1]]
<1>5. t \in [1 .. n - 1 -> P] /\ Path(ptr, ptr[e], n - 1, t)
  BY <1>1, <1>2, <1>4, PathBehind
<1> HIDE DEF t
<1>6. n - 1 \in Nat
  BY <1>4
<1>7. n - 1 = m /\ t = r
  BY <1>1, <1>3, <1>4, <1>5, <1>6, PathsAgree
<1>8. s \in Seq(P) /\ Len(s) = n
  BY <1>2, <1>4, SequenceLength
<1>9. s # <<>>
  BY <1>4, <1>8
<1>10. Tail(s) = t
  <2>1. Tail(s) \in Seq(P) /\ Len(Tail(s)) = n - 1 /\ \A i \in 1 .. n - 1 : Tail(s)[i] = s[i + 1]
    BY <1>8, <1>9, HeadTailProperties
  <2>2. Tail(s) \in [1 .. n - 1 -> P]
    BY <2>1, LenProperties
  <2> QED
    BY <2>1, <2>2 DEF t
<1>11. ToSet(s) = {s[i] : i \in 1 .. n} /\ ToSet(r) = {r[i] : i \in 1 .. m}
  <2>1. IsRow(s, n, P) /\ IsRow(r, m, P)
    BY <1>2, <1>3 DEF IsRow
  <2>2. ToSet(s) = Members(s, n) /\ ToSet(r) = Members(r, m)
    BY <1>4, <2>1, MembersOf
  <2> QED
    BY <2>2 DEF Members
<1>12. ToSet(s) = {e} \cup ToSet(r)
  <2>1. ASSUME NEW i \in 1 .. n  PROVE s[i] \in {e} \cup ToSet(r)
    <3>1. CASE i = 1
      BY <1>4, <3>1
    <3>2. CASE i # 1
      <4>1. i - 1 \in 1 .. n - 1 /\ (i - 1) + 1 = i
        BY <3>2
      <4>2. t[i - 1] = s[i]
        BY <4>1 DEF t
      <4> QED
        BY <1>7, <1>11, <4>1, <4>2
    <3> QED
      BY <3>1, <3>2
  <2>2. ASSUME NEW i \in 1 .. m  PROVE r[i] \in ToSet(s)
    <3>1. i \in 1 .. n - 1 /\ i + 1 \in 1 .. n
      BY <1>7
    <3>2. r[i] = s[i + 1]
      BY <1>7, <3>1 DEF t
    <3> QED
      BY <1>11, <3>1, <3>2
  <2>3. e \in ToSet(s)
    <3>1. 1 \in 1 .. n
      BY <1>4
    <3> QED
      BY <1>4, <1>11, <3>1
  <2> QED
    BY <1>11, <2>1, <2>2, <2>3
<1> QED
  BY <1>4, <1>7, <1>9, <1>10, <1>12 DEF s, r, Met

LEMMA FollowNull ==
    ASSUME NEW N \in Nat, NEW ptr, NEW rank, Sinks(ptr, N, rank)
    PROVE  Follow(ptr, 0) = <<>> /\ Met(ptr, 0) = {} /\ Len(Follow(ptr, 0)) = 0
<1> DEFINE s == Follow(ptr, 0)
<1>1. 0 \in 0 .. N
  OBVIOUS
<1>2. PICK n \in 0 .. N : s \in [1 .. n -> 1 .. N] /\ Path(ptr, 0, n, s)
  BY <1>1, FollowIsPath
<1>3. n = 0
  BY <1>2 DEF Path
<1> HIDE DEF s
<1>4. s \in Seq(1 .. N) /\ Len(s) = 0
  BY <1>2, <1>3, SequenceLength
<1>5. s = <<>>
  BY <1>4
<1>6. ToSet(<<>>) = {} /\ Len(<<>>) = 0
  BY DEF ToSet
<1> QED
  BY <1>5, <1>6 DEF Met, s

-----------------------------------------------------------------------------
(* POINTERS TO LATER AND TO EARLIER ENTRIES *)

Ups(ptr, N)   == ptr \in [1 .. N -> 0 .. N] /\ \A e \in 1 .. N : ptr[e] # 0 => e < ptr[e]
Downs(ptr, N) == ptr \in [1 .. N -> 0 .. N] /\ \A e \in 1 .. N : ptr[e] < e

UpRank(N)   == [e \in 1 .. N |-> N + 1 - e]
DownRank(N) == [e \in 1 .. N |-> e]

LEMMA UpsSink == ASSUME NEW N \in Nat, NEW ptr, Ups(ptr, N)  PROVE Sinks(ptr, N, UpRank(N))
<1>1. UpRank(N) \in [1 .. N -> 1 .. N]
  BY DEF UpRank
<1>2. ASSUME NEW e \in 1 .. N, ptr[e] # 0  PROVE UpRank(N)[ptr[e]] < UpRank(N)[e]
  <2>1. ptr[e] \in 1 .. N /\ e < ptr[e]
    BY <1>2 DEF Ups
  <2> QED
    BY <2>1 DEF UpRank
<1> QED
  BY <1>1, <1>2 DEF Ups, Sinks

LEMMA DownsSink == ASSUME NEW N \in Nat, NEW ptr, Downs(ptr, N)  PROVE Sinks(ptr, N, DownRank(N))
<1>1. DownRank(N) \in [1 .. N -> 1 .. N]
  BY DEF DownRank
<1>2. ASSUME NEW e \in 1 .. N, ptr[e] # 0  PROVE DownRank(N)[ptr[e]] < DownRank(N)[e]
  <2>1. ptr[e] \in 1 .. N /\ ptr[e] < e
    BY <1>2 DEF Downs
  <2> QED
    BY <2>1 DEF DownRank
<1> QED
  BY <1>1, <1>2 DEF Downs, Sinks

Rises(s, n) == \A i, j \in 1 .. n : i < j => s[i] < s[j]

(* Entries that are met along next pointers come in order.                 *)
LEMMA FollowRises ==
    ASSUME NEW N \in Nat, NEW ptr, Ups(ptr, N), NEW e \in 0 .. N
    PROVE  \E n \in 0 .. N : /\ IsRow(Follow(ptr, e), n, 1 .. N) /\ Path(ptr, e, n, Follow(ptr, e))
                             /\ Rises(Follow(ptr, e), n)
<1> DEFINE s == Follow(ptr, e)
           rank == UpRank(N)
<1>1. Sinks(ptr, N, rank)
  BY UpsSink
<1>2. PICK n \in 0 .. N : s \in [1 .. n -> 1 .. N] /\ Path(ptr, e, n, s)
  BY <1>1, FollowIsPath
<1> HIDE DEF s, rank
<1>3. \A i \in 1 .. n - 1 : ptr[s[i]] = s[i + 1]
  BY <1>2 DEF Path
<1>4. \A i, j \in 1 .. n : i < j => rank[s[j]] < rank[s[i]]
  <2>1. n \in Nat /\ IsRow(s, n, 1 .. N)
    BY <1>2 DEF IsRow
  <2>2. Lowers(rank, s, n)
    BY <1>1, <1>3, <2>1, RanksGoDown
  <2> QED
    BY <2>2 DEF Lowers
<1>5. \A i \in 1 .. n : s[i] \in 1 .. N
  BY <1>2
<1>6. \A x \in 1 .. N : rank[x] = N + 1 - x
  BY DEF rank, UpRank
<1>7. ASSUME NEW i \in 1 .. n, NEW j \in 1 .. n, i < j  PROVE s[i] < s[j]
  <2>1. rank[s[j]] < rank[s[i]] /\ s[i] \in 1 .. N /\ s[j] \in 1 .. N
    BY <1>4, <1>5, <1>7
  <2>2. rank[s[j]] = N + 1 - s[j] /\ rank[s[i]] = N + 1 - s[i]
    BY <1>6, <2>1
  <2> QED
    BY <2>1, <2>2
<1> QED
  BY <1>2, <1>7 DEF s, Rises, IsRow

(* Pointers that lead from a member of K to the next one, or to the one    *)
(* before it.                                                              *)
Onward(ptr, K) ==
    /\ \A e \in K : ptr[e] \in K \cup {0}
    /\ \A e, f \in K : e < f => ptr[e] # 0 /\ ptr[e] <= f
Backward(ptr, K) ==
    /\ \A e \in K : ptr[e] \in K \cup {0}
    /\ \A e, f \in K : e < f => e <= ptr[f]

From(K, x) == {f \in K : x <= f}
UpTo(K, x) == {f \in K : f <= x}

LEMMA MetOnward ==
    ASSUME NEW N \in Nat, NEW ptr, Ups(ptr, N), NEW K \in SUBSET (1 .. N), Onward(ptr, K), NEW x \in K
    PROVE  Met(ptr, x) = From(K, x)
<1> DEFINE rank == UpRank(N)
           bad == {e \in K : Met(ptr, e) # {f \in K : e <= f}}
           T == {N - e : e \in bad}
<1>1. Sinks(ptr, N, rank)
  BY UpsSink
<1> HIDE DEF rank
<1>2. bad = {}
  <2> SUFFICES ASSUME bad # {}  PROVE FALSE
    OBVIOUS
  <2>1. T \in SUBSET Nat /\ T # {}
    OBVIOUS
  <2>2. PICK d \in T : \A c \in T : d <= c
    BY <2>1, LeastExists
  <2>3. PICK e \in bad : d = N - e
    OBVIOUS
  <2>4. e \in K /\ e \in 1 .. N
    OBVIOUS
  <2>5. \A c \in bad : c <= e
    <3> TAKE c \in bad
    <3>1. N - c \in T /\ c \in 1 .. N
      OBVIOUS
    <3>2. N - e <= N - c
      BY <2>2, <2>3, <3>1
    <3> HIDE DEF bad, T
    <3> QED
      BY <2>4, <3>1, <3>2
  <2>6. Met(ptr, e) = {e} \cup Met(ptr, ptr[e])
    BY <1>1, <2>4, FollowUnfolds
  <2>7. CASE ptr[e] = 0
    <3>1. Met(ptr, e) = {e}
      BY <1>1, <2>6, <2>7, FollowNull
    <3>2. \A f \in K : e <= f <=> f = e
      BY <2>4, <2>7 DEF Onward
    <3> QED
      BY <2>4, <3>1, <3>2
  <2>8. CASE ptr[e] # 0
    <3>1. ptr[e] \in K /\ e < ptr[e] /\ ptr[e] \in 1 .. N
      BY <2>4, <2>8 DEF Onward, Ups
    <3>2. ptr[e] \notin bad
      <4>1. ~(ptr[e] <= e)
        BY <2>4, <3>1
      <4> HIDE DEF bad
      <4> QED
        BY <2>5, <4>1
    <3>3. Met(ptr, ptr[e]) = {f \in K : ptr[e] <= f}
      BY <3>1, <3>2
    <3>4. \A f \in K : e <= f <=> f = e \/ ptr[e] <= f
      <4> TAKE f \in K
      <4>1. f \in 1 .. N
        OBVIOUS
      <4>2. e < f => ptr[e] <= f
        BY <2>4 DEF Onward
      <4> QED
        BY <2>4, <3>1, <4>1, <4>2
    <3>5. Met(ptr, e) = {f \in K : e <= f}
      BY <2>4, <2>6, <3>3, <3>4
    <3> QED
      BY <3>5
  <2> QED
    BY <2>7, <2>8
<1> QED
  BY <1>2 DEF From

LEMMA MetBackward ==
    ASSUME NEW N \in Nat, NEW ptr, Downs(ptr, N), NEW K \in SUBSET (1 .. N), Backward(ptr, K), NEW x \in K
    PROVE  Met(ptr, x) = UpTo(K, x)
<1> DEFINE rank == DownRank(N)
           bad == {e \in K : Met(ptr, e) # {f \in K : f <= e}}
<1>1. Sinks(ptr, N, rank)
  BY DownsSink
<1> HIDE DEF rank
<1>2. bad = {}
  <2> SUFFICES ASSUME bad # {}  PROVE FALSE
    OBVIOUS
  <2>1. bad \in SUBSET Nat
    <3>1. bad \subseteq K
      OBVIOUS
    <3>2. K \subseteq Nat
      OBVIOUS
    <3> HIDE DEF bad
    <3> QED
      BY <3>1, <3>2
  <2>2. PICK e \in bad : \A c \in bad : e <= c
    BY <2>1, LeastExists
  <2>4. e \in K /\ e \in 1 .. N
    OBVIOUS
  <2>6. Met(ptr, e) = {e} \cup Met(ptr, ptr[e])
    BY <1>1, <2>4, FollowUnfolds
  <2>7. CASE ptr[e] = 0
    <3>1. Met(ptr, e) = {e}
      BY <1>1, <2>6, <2>7, FollowNull
    <3>2. \A f \in K : f <= e <=> f = e
      BY <2>4, <2>7 DEF Backward
    <3> QED
      BY <2>4, <3>1, <3>2
  <2>8. CASE ptr[e] # 0
    <3>1. ptr[e] \in K /\ ptr[e] < e /\ ptr[e] \in 1 .. N
      BY <2>4, <2>8 DEF Backward, Downs
    <3>2. ptr[e] \notin bad
      <4>1. ~(e <= ptr[e])
        BY <2>4, <3>1
      <4> HIDE DEF bad
      <4> QED
        BY <2>2, <4>1
    <3>3. Met(ptr, ptr[e]) = {f \in K : f <= ptr[e]}
      BY <3>1, <3>2
    <3>4. \A f \in K : f <= e <=> f = e \/ f <= ptr[e]
      <4> TAKE f \in K
      <4>1. f \in 1 .. N
        OBVIOUS
      <4>2. f < e => f <= ptr[e]
        BY <2>4 DEF Backward
      <4> QED
        BY <2>4, <3>1, <4>1, <4>2
    <3>5. Met(ptr, e) = {f \in K : f <= e}
      BY <2>4, <2>6, <3>3, <3>4
    <3> QED
      BY <3>5
  <2> QED
    BY <2>7, <2>8
<1> QED
  BY <1>2 DEF UpTo

-----------------------------------------------------------------------------
(* ROWS IN ORDER *)

(* A set of entries can be put in order in one way.                        *)
LEMMA RisingRowsAgree ==
    ASSUME NEW S \in SUBSET Int,
           NEW n \in Nat, NEW s, IsRow(s, n, S), Rises(s, n),
           NEW m \in Nat, NEW t, IsRow(t, m, S), Rises(t, m),
           Members(s, n) = Members(t, m)
    PROVE  n = m /\ s = t
<1>0. s \in [1 .. n -> S] /\ t \in [1 .. m -> S]
  BY DEF IsRow
<1>1. /\ \A i \in 1 .. n : s[i] \in Int /\ \E j \in 1 .. m : s[i] = t[j]
      /\ \A j \in 1 .. m : t[j] \in Int /\ \E i \in 1 .. n : s[i] = t[j]
  BY <1>0 DEF Members
<1>2. /\ \A i, j \in 1 .. n : i < j => s[i] < s[j]
      /\ \A i, j \in 1 .. m : i < j => t[i] < t[j]
  BY DEF Rises
<1> DEFINE bad == {i \in 1 .. n : i \notin 1 .. m \/ s[i] # t[i]}
<1>3. bad = {}
  <2> SUFFICES ASSUME bad # {}  PROVE FALSE
    OBVIOUS
  <2>1. PICK i \in bad : \A k \in bad : i <= k
    <3>1. bad \in SUBSET Nat
      OBVIOUS
    <3> QED
      BY <3>1, LeastExists
  <2>2. i \in 1 .. n /\ (i \notin 1 .. m \/ s[i] # t[i])
    OBVIOUS
  <2>3. ASSUME NEW k \in 1 .. n, k < i  PROVE k \in 1 .. m /\ s[k] = t[k]
    <3>1. ~(i <= k)
      BY <2>2, <2>3
    <3>2. k \notin bad
      <4> HIDE DEF bad
      <4> QED
        BY <2>1, <3>1
    <3> QED
      BY <3>2
  <2> HIDE DEF bad
  <2>4. PICK j \in 1 .. m : s[i] = t[j]
    BY <1>1, <2>2
  <2>5. ~(j < i)
    <3> SUFFICES ASSUME j < i  PROVE FALSE
      OBVIOUS
    <3>1. j \in 1 .. n
      BY <2>2
    <3>2. s[j] = t[j] /\ s[j] < s[i] /\ s[j] \in Int /\ s[i] \in Int
      BY <1>1, <1>2, <2>2, <2>3, <3>1
    <3> QED
      BY <2>4, <3>2
  <2>6. i \in 1 .. m /\ s[i] # t[i] /\ i < j
    BY <2>2, <2>4, <2>5
  <2>7. PICK k \in 1 .. n : t[i] = s[k]
    BY <1>1, <2>6
  <2>8. t[i] < t[j] /\ t[i] \in Int /\ t[j] \in Int
    BY <1>1, <1>2, <2>6
  <2>9. ~(k < i)
    <3> SUFFICES ASSUME k < i  PROVE FALSE
      OBVIOUS
    <3>1. k \in 1 .. m /\ s[k] = t[k]
      BY <2>3
    <3>2. t[k] < t[i] /\ t[k] \in Int
      BY <1>1, <1>2, <2>6, <3>1
    <3> QED
      BY <2>7, <2>8, <3>1, <3>2
  <2>10. k # i
    BY <2>6, <2>7
  <2>11. i < k
    BY <2>2, <2>9, <2>10
  <2>12. s[i] < s[k] /\ s[i] \in Int /\ s[k] \in Int
    BY <1>1, <1>2, <2>2, <2>11
  <2> QED
    BY <2>4, <2>7, <2>8, <2>12
<1>4. \A i \in 1 .. n : i \in 1 .. m /\ s[i] = t[i]
  BY <1>3
<1>5. n <= m
  <2>1. n # 0 => n \in 1 .. n
    OBVIOUS
  <2>2. n # 0 => n \in 1 .. m
    BY <1>4, <2>1
  <2> QED
    BY <2>2
<1>6. n = m
  <2> SUFFICES ASSUME n < m  PROVE FALSE
    BY <1>5
  <2>1. n + 1 \in 1 .. m
    OBVIOUS
  <2>2. PICK i \in 1 .. n : s[i] = t[n + 1]
    BY <1>1, <2>1
  <2>3. i \in 1 .. m /\ s[i] = t[i] /\ i < n + 1
    BY <1>4
  <2>4. t[i] < t[n + 1] /\ t[i] \in Int
    BY <1>1, <1>2, <2>1, <2>3
  <2> QED
    BY <2>2, <2>3, <2>4
<1> QED
  BY <1>0, <1>4, <1>6

(* A row without its element at p.                                         *)
Shorter(s, n, p) == [i \in 1 .. n - 1 |-> IF i < p THEN s[i] ELSE s[i + 1]]

Lacks(r, m, s, n, x) == Members(r, m) = Members(s, n) \ {x}

LEMMA ShorterRises ==
    ASSUME NEW S \in SUBSET Int, NEW n \in Nat, NEW s, IsRow(s, n, S), Rises(s, n), NEW p \in 1 .. n
    PROVE  /\ n - 1 \in Nat /\ IsRow(Shorter(s, n, p), n - 1, S) /\ Rises(Shorter(s, n, p), n - 1)
           /\ Lacks(Shorter(s, n, p), n - 1, s, n, s[p])
<1> DEFINE t == Shorter(s, n, p)
<1>1. s \in [1 .. n -> S] /\ n - 1 \in Nat
  BY DEF IsRow
<1>2. \A i \in 1 .. n - 1 : /\ i \in 1 .. n /\ i + 1 \in 1 .. n
                            /\ t[i] = IF i < p THEN s[i] ELSE s[i + 1]
  BY DEF Shorter
<1>3. IsRow(t, n - 1, S)
  <2>1. t = [i \in 1 .. n - 1 |-> IF i < p THEN s[i] ELSE s[i + 1]]
    BY DEF Shorter
  <2> HIDE DEF t
  <2> QED
    BY <1>1, <1>2, <2>1 DEF IsRow
<1> HIDE DEF t
<1>4. \A i, j \in 1 .. n : i < j => s[i] < s[j]
  BY DEF Rises
<1>5. ASSUME NEW i \in 1 .. n - 1, NEW j \in 1 .. n - 1, i < j  PROVE t[i] < t[j]
  <2>1. i \in 1 .. n /\ i + 1 \in 1 .. n /\ j \in 1 .. n /\ j + 1 \in 1 .. n
    BY <1>2
  <2>2. s[i] < s[j] /\ s[i] < s[j + 1] /\ s[i + 1] < s[j + 1]
    BY <1>4, <1>5, <2>1
  <2>3. ~(i < p) => ~(j < p)
    BY <1>5
  <2> QED
    BY <1>2, <2>2, <2>3
<1>6. \A i \in 1 .. n : i # p => s[i] # s[p]
  <2> TAKE i \in 1 .. n
  <2>1. s[i] \in Int /\ s[p] \in Int
    BY <1>1
  <2>2. i < p \/ i = p \/ p < i
    OBVIOUS
  <2> QED
    BY <1>4, <2>1, <2>2
<1>7. ASSUME NEW i \in 1 .. n - 1  PROVE t[i] \in Members(s, n) \ {s[p]}
  <2>1. CASE i < p
    BY <1>2, <1>6, <2>1 DEF Members
  <2>2. CASE ~(i < p)
    <3>1. i + 1 # p /\ i + 1 \in 1 .. n
      BY <2>2
    <3> QED
      BY <1>2, <1>6, <2>2, <3>1 DEF Members
  <2> QED
    BY <2>1, <2>2
<1>8. ASSUME NEW i \in 1 .. n, i # p  PROVE s[i] \in Members(t, n - 1)
  <2>1. CASE i < p
    <3>1. i \in 1 .. n - 1
      BY <2>1
    <3>2. t[i] = s[i]
      BY <1>2, <2>1, <3>1
    <3> QED
      BY <3>1, <3>2 DEF Members
  <2>2. CASE ~(i < p)
    <3>1. i - 1 \in 1 .. n - 1 /\ ~(i - 1 < p) /\ (i - 1) + 1 = i
      BY <1>8, <2>2
    <3>2. t[i - 1] = s[i]
      BY <1>2, <3>1
    <3> QED
      BY <3>1, <3>2 DEF Members
  <2> QED
    BY <2>1, <2>2
<1>9. Members(t, n - 1) = Members(s, n) \ {s[p]}
  BY <1>7, <1>8 DEF Members
<1> QED
  BY <1>1, <1>3, <1>5, <1>9 DEF Rises, Lacks, t

Exceeds(x, K) == \A y \in K : y < x

LEMMA LongerRises ==
    ASSUME NEW S \in SUBSET Int, NEW n \in Nat, NEW s, IsRow(s, n, S), Rises(s, n),
           NEW x \in S, Exceeds(x, Members(s, n)), NEW t, IsRow(t, n + 1, S), Adds(t, s, n, x)
    PROVE  Rises(t, n + 1) /\ Members(t, n + 1) = Members(s, n) \cup {x}
<1>1. IsRow(t, n + 1, S) /\ Adds(t, s, n, x)
  OBVIOUS
<1>2. \A i \in 1 .. n : t[i] = s[i] /\ s[i] < x
  BY <1>1 DEF Adds, Members, Exceeds
<1>3. t[n + 1] = x /\ \A i \in 1 .. n + 1 : i \in 1 .. n \/ i = n + 1
  BY <1>1 DEF Adds
<1>4. \A i, j \in 1 .. n : i < j => s[i] < s[j]
  BY DEF Rises
<1>5. ASSUME NEW i \in 1 .. n + 1, NEW j \in 1 .. n + 1, i < j  PROVE t[i] < t[j]
  <2>1. i \in 1 .. n
    BY <1>5
  <2>2. CASE j \in 1 .. n
    BY <1>2, <1>4, <1>5, <2>1, <2>2
  <2>3. CASE j = n + 1
    BY <1>2, <1>3, <2>1, <2>3
  <2> QED
    BY <1>3, <2>2, <2>3
<1>6. Members(t, n + 1) = Members(s, n) \cup {x}
  <2>1. n + 1 \in 1 .. n + 1 /\ \A i \in 1 .. n : i \in 1 .. n + 1
    OBVIOUS
  <2> QED
    BY <1>2, <1>3, <2>1 DEF Members
<1> QED
  BY <1>1, <1>5, <1>6 DEF Rises

-----------------------------------------------------------------------------
(* TABLES *)

EntryType == [hash : Int, key : Objects, value : Objects, next : Nat, prev : Nat, child : Nat]
TableType == [kind : Kinds, entry : Seq(EntryType), bucket : [0 .. BucketSize - 1 -> Nat],
              front : Nat, back : Nat, size : Int]

Constructed(t) == 1 .. Len(t.entry)

(* Pointers lead to entries that were constructed later, or earlier, also  *)
(* those of an entry that was erased, and a hash is that of the key.       *)
Pointing(t) ==
    /\ \A e \in Constructed(t) : /\ t.entry[e].next \in 0 .. Len(t.entry)
                                 /\ t.entry[e].next # 0 => e < t.entry[e].next
    /\ \A e \in Constructed(t) : t.entry[e].child < e
    /\ \A e \in Constructed(t) : t.entry[e].hash = Hash(t.entry[e].key)

(* The list of the table has the entries L in order.                       *)
Lists(t, L) ==
    /\ L \subseteq Constructed(t)
    /\ t.front \in L \cup {0} /\ t.back \in L \cup {0}
    /\ \A e \in L : t.front # 0 /\ t.front <= e /\ e <= t.back
    /\ \A e \in L : t.entry[e].next \in L \cup {0}
    /\ \A e \in L : t.entry[e].prev \in L \cup {0} /\ t.entry[e].prev < e
    /\ \A e, f \in L : e < f => t.entry[e].next # 0 /\ t.entry[e].next <= f
    /\ \A e, f \in L : e < f => e <= t.entry[f].prev

BucketOf(t, e) == Bucket(t.entry[e].hash)

(* The chains of the buckets have them as well, and no two have a hash.    *)
Chains(t, L) ==
    /\ \A b \in 0 .. BucketSize - 1 : /\ t.bucket[b] \in L \cup {0}
                                      /\ t.bucket[b] # 0 => BucketOf(t, t.bucket[b]) = b
    /\ \A e \in L : e <= t.bucket[BucketOf(t, e)]
    /\ \A e \in L : /\ t.entry[e].child \in L \cup {0}
                    /\ t.entry[e].child # 0 => BucketOf(t, t.entry[e].child) = BucketOf(t, e)
    /\ \A e, f \in L : e < f /\ BucketOf(t, e) = BucketOf(t, f) => e <= t.entry[f].child
    /\ \A e, f \in L : t.entry[e].hash = t.entry[f].hash => e = f

Whole(t, L) == t \in TableType /\ Pointing(t) /\ Lists(t, L) /\ Chains(t, L)

Sized(t) == t.kind = "set" => t.size = Len(Entries(t))

Live(t) == ToSet(Entries(t))

Good(t) == Whole(t, Live(t)) /\ Sized(t)

LEMMA FieldTypes ==
    ASSUME NEW t \in TableType
    PROVE  /\ t.kind \in Kinds /\ t.bucket \in [0 .. BucketSize - 1 -> Nat]
           /\ t.front \in Nat /\ t.back \in Nat /\ t.size \in Int
           /\ t.entry \in Seq(EntryType) /\ Len(t.entry) \in Nat /\ DOMAIN t.entry = Constructed(t)
  BY DEF TableType, Constructed

LEMMA EntryTypes ==
    ASSUME NEW t \in TableType, NEW e \in Constructed(t)
    PROVE  /\ t.entry[e] \in EntryType
           /\ t.entry[e].hash \in Int /\ t.entry[e].key \in Objects /\ t.entry[e].value \in Objects
           /\ t.entry[e].next \in Nat /\ t.entry[e].prev \in Nat /\ t.entry[e].child \in Nat
<1>1. t.entry \in Seq(EntryType)
  BY FieldTypes
<1>2. t.entry[e] \in EntryType
  BY <1>1, ElementOfSeq DEF Constructed
<1> QED
  BY <1>2 DEF EntryType

LEMMA BucketsAre ==
    ASSUME NEW h \in Int
    PROVE  Bucket(h) \in 0 .. BucketSize - 1
<1>1. BucketSize \in Nat /\ BucketSize > 0
  BY BucketSizeAssumption
<1> QED
  BY <1>1 DEF Bucket

LEMMA PointersOf ==
    ASSUME NEW t \in TableType, Pointing(t)
    PROVE  /\ Ups(NextOf(t), Len(t.entry)) /\ Downs(ChildOf(t), Len(t.entry))
           /\ \A e \in Constructed(t) : NextOf(t)[e] = t.entry[e].next /\ ChildOf(t)[e] = t.entry[e].child
<1>1. DOMAIN t.entry = Constructed(t) /\ Len(t.entry) \in Nat
  BY FieldTypes
<1>2. \A e \in Constructed(t) : NextOf(t)[e] = t.entry[e].next /\ ChildOf(t)[e] = t.entry[e].child
  BY <1>1 DEF NextOf, ChildOf
<1>3. \A e \in Constructed(t) : t.entry[e].child \in Nat
  BY EntryTypes
<1>4. \A e \in Constructed(t) : t.entry[e].child \in 0 .. Len(t.entry) /\ t.entry[e].child < e
  BY <1>1, <1>3 DEF Pointing, Constructed
<1>5. ChildOf(t) \in [1 .. Len(t.entry) -> 0 .. Len(t.entry)]
  BY <1>1, <1>4 DEF ChildOf, Constructed
<1>6. NextOf(t) \in [1 .. Len(t.entry) -> 0 .. Len(t.entry)]
  BY <1>1 DEF NextOf, Constructed, Pointing
<1>7. Downs(ChildOf(t), Len(t.entry))
  BY <1>2, <1>4, <1>5 DEF Downs, Constructed
<1>8. Ups(NextOf(t), Len(t.entry))
  BY <1>2, <1>6 DEF Ups, Constructed, Pointing
<1> QED
  BY <1>2, <1>7, <1>8

(* The loop over the entries meets those of the list, in order.            *)
LEMMA ListIsMet ==
    ASSUME NEW t \in TableType, Pointing(t), NEW L, Lists(t, L)
    PROVE  /\ Live(t) = L
           /\ \E n \in Nat : /\ IsRow(Entries(t), n, Constructed(t)) /\ Rises(Entries(t), n)
                             /\ Members(Entries(t), n) = L /\ Len(Entries(t)) = n
<1> DEFINE N == Len(t.entry)
           ptr == NextOf(t)
<1>1. N \in Nat /\ Ups(ptr, N) /\ \A e \in Constructed(t) : ptr[e] = t.entry[e].next
  BY FieldTypes, PointersOf
<1>2. L \in SUBSET (1 .. N) /\ t.front \in L \cup {0}
  BY DEF Lists, Constructed
<1>3. Onward(ptr, L)
  <2>1. \A e \in L : ptr[e] = t.entry[e].next
    BY <1>1 DEF Lists
  <2> QED
    BY <2>1 DEF Onward, Lists
<1>4. Entries(t) = Follow(ptr, t.front) /\ Live(t) = Met(ptr, t.front)
  BY DEF Entries, PathFrom, Live, Met
<1> HIDE DEF N, ptr
<1>5. Live(t) = L
  <2>1. CASE t.front = 0
    <3>1. Met(ptr, 0) = {}
      <4>1. Sinks(ptr, N, UpRank(N))
        BY <1>1, UpsSink
      <4> QED
        BY <1>1, <4>1, FollowNull
    <3>2. L = {}
      BY <2>1 DEF Lists
    <3> QED
      BY <1>4, <2>1, <3>1, <3>2
  <2>2. CASE t.front # 0
    <3>1. t.front \in L
      BY <1>2, <2>2
    <3>2. Met(ptr, t.front) = From(L, t.front)
      BY <1>1, <1>2, <1>3, <3>1, MetOnward
    <3> QED
      BY <1>4, <3>2 DEF Lists, From
  <2> QED
    BY <2>1, <2>2
<1>6. t.front \in 0 .. N
  <2>1. L \cup {0} \subseteq 0 .. N
    BY <1>1, <1>2
  <2> QED
    BY <1>2, <2>1
<1>7. PICK n \in 0 .. N : /\ IsRow(Follow(ptr, t.front), n, 1 .. N)
                          /\ Path(ptr, t.front, n, Follow(ptr, t.front))
                          /\ Rises(Follow(ptr, t.front), n)
  BY <1>1, <1>6, FollowRises
<1>8. n \in Nat /\ IsRow(Entries(t), n, Constructed(t)) /\ Rises(Entries(t), n)
  BY <1>1, <1>4, <1>7 DEF Constructed, N
<1>9. ToSet(Entries(t)) = Members(Entries(t), n) /\ Len(Entries(t)) = n
  BY <1>8, MembersOf
<1> QED
  BY <1>5, <1>8, <1>9 DEF Live

(* Entries of the list with the hashes of a bucket.                        *)
Bucketed(t, L, b) == {e \in L : BucketOf(t, e) = b}

LEMMA ChainIsMet ==
    ASSUME NEW t, NEW L, Whole(t, L), NEW b \in 0 .. BucketSize - 1
    PROVE  /\ Met(ChildOf(t), t.bucket[b]) = Bucketed(t, L, b)
           /\ \E n \in Nat : /\ IsRow(Follow(ChildOf(t), t.bucket[b]), n, Constructed(t))
                             /\ Path(ChildOf(t), t.bucket[b], n, Follow(ChildOf(t), t.bucket[b]))
<1> DEFINE N == Len(t.entry)
           ptr == ChildOf(t)
           K == Bucketed(t, L, b)
<1>0. t \in TableType /\ Pointing(t) /\ Lists(t, L) /\ Chains(t, L)
  BY DEF Whole
<1>1. N \in Nat /\ Downs(ptr, N) /\ \A e \in Constructed(t) : ptr[e] = t.entry[e].child
  BY <1>0, FieldTypes, PointersOf
<1>2. K \in SUBSET (1 .. N) /\ L \subseteq Constructed(t)
  BY <1>0 DEF Lists, Constructed, Bucketed
<1>3. Backward(ptr, K)
  <2>1. \A e \in K : ptr[e] = t.entry[e].child /\ e \in L /\ BucketOf(t, e) = b
    BY <1>1, <1>2 DEF Bucketed
  <2>2. \A e \in K : ptr[e] \in K \cup {0}
    BY <1>0, <2>1 DEF Chains, Bucketed
  <2>3. \A e, f \in K : e < f => e <= ptr[f]
    BY <1>0, <2>1 DEF Chains
  <2> QED
    BY <2>2, <2>3 DEF Backward
<1>4. t.bucket[b] \in K \cup {0} /\ \A e \in K : e <= t.bucket[b]
  BY <1>0 DEF Chains, Bucketed
<1>5. Sinks(ptr, N, DownRank(N))
  BY <1>1, DownsSink
<1> HIDE DEF N, ptr, K
<1>6. Met(ptr, t.bucket[b]) = K
  <2>1. CASE t.bucket[b] = 0
    <3>1. Met(ptr, 0) = {}
      BY <1>1, <1>5, FollowNull
    <3>2. K = {}
      BY <1>2, <1>4, <2>1
    <3> QED
      BY <2>1, <3>1, <3>2
  <2>2. CASE t.bucket[b] # 0
    <3>1. t.bucket[b] \in K
      BY <1>4, <2>2
    <3>2. Met(ptr, t.bucket[b]) = UpTo(K, t.bucket[b])
      BY <1>1, <1>2, <1>3, <3>1, MetBackward
    <3> QED
      BY <1>4, <3>2 DEF UpTo
  <2> QED
    BY <2>1, <2>2
<1>7. t.bucket[b] \in 0 .. N
  <2>1. K \cup {0} \subseteq 0 .. N
    BY <1>1, <1>2
  <2> QED
    BY <1>4, <2>1
<1>8. PICK n \in 0 .. N : /\ Follow(ptr, t.bucket[b]) \in [1 .. n -> 1 .. N]
                          /\ Path(ptr, t.bucket[b], n, Follow(ptr, t.bucket[b]))
  BY <1>1, <1>5, <1>7, FollowIsPath
<1>9. n \in Nat /\ IsRow(Follow(ptr, t.bucket[b]), n, Constructed(t))
  BY <1>1, <1>8 DEF IsRow, Constructed, N
<1> QED
  BY <1>6, <1>8, <1>9 DEF K, ptr

(* Find() finds the entry with the hash if there is one.                   *)
LEMMA FindFinds ==
    ASSUME NEW t, NEW L, Whole(t, L), NEW h \in Int
    PROVE  /\ Find(t, h) \in L \cup {0}
           /\ Find(t, h) # 0 => t.entry[Find(t, h)].hash = h
           /\ \A e \in L : t.entry[e].hash = h => Find(t, h) = e
<1> DEFINE b == Bucket(h)
           c == Follow(ChildOf(t), t.bucket[b])
           hits == {i \in DOMAIN c : t.entry[c[i]].hash = h}
<1>0. t \in TableType /\ Pointing(t) /\ Lists(t, L) /\ Chains(t, L)
  BY DEF Whole
<1>1. b \in 0 .. BucketSize - 1
  BY BucketsAre
<1>2. PICK n \in Nat : IsRow(c, n, Constructed(t))
  BY <1>1, ChainIsMet
<1>3. ToSet(c) = Members(c, n) /\ DOMAIN c = 1 .. n
  BY <1>2, MembersOf
<1>4. Members(c, n) = Bucketed(t, L, b)
  BY <1>1, <1>3, ChainIsMet DEF Met
<1>5. Find(t, h) = IF hits = {} THEN 0 ELSE c[Min(hits)]
  BY DEF Find, Null
<1> HIDE DEF b, c
<1>6. \A i \in 1 .. n : c[i] \in L
  BY <1>4 DEF Members, Bucketed
<1>7. \A e \in L : t.entry[e].hash = h => \E i \in hits : c[i] = e
  <2> TAKE e \in L
  <2> HAVE t.entry[e].hash = h
  <2>1. e \in Bucketed(t, L, b)
    BY DEF Bucketed, BucketOf, b
  <2>2. PICK i \in 1 .. n : c[i] = e
    BY <1>4, <2>1 DEF Members
  <2> QED
    BY <1>3, <2>2
<1>8. CASE hits = {}
  BY <1>5, <1>7, <1>8
<1>9. CASE hits # {}
  <2>1. hits \in SUBSET Nat
    BY <1>3
  <2>2. PICK x \in hits : \A y \in hits : x <= y
    BY <1>9, <2>1, LeastExists
  <2>3. Min(hits) \in hits
    <3> HIDE DEF hits
    <3> QED
      BY <2>2 DEF Min
  <2>4. Find(t, h) = c[Min(hits)] /\ t.entry[c[Min(hits)]].hash = h /\ c[Min(hits)] \in L
    BY <1>3, <1>5, <1>6, <1>9, <2>3
  <2>5. \A e \in L : 0 \notin L
    BY <1>0 DEF Lists, Constructed
  <2> HIDE DEF hits
  <2>6. \A e \in L : t.entry[e].hash = h => Find(t, h) = e
    BY <1>0, <2>4 DEF Chains
  <2> QED
    BY <2>4, <2>6
<1> QED
  BY <1>8, <1>9

-----------------------------------------------------------------------------
(* A NEW ENTRY *)

SameItem(x, y) == x.hash = y.hash /\ x.key = y.key /\ x.value = y.value

LinkedTo(t, u, h, k, v) ==
    LET N == Len(t.entry)
    IN  /\ u \in TableType /\ u.kind = t.kind /\ Len(u.entry) = N + 1
        /\ \A e \in Constructed(t) : /\ SameItem(u.entry[e], t.entry[e])
                                     /\ u.entry[e].next = IF e = t.back THEN N + 1 ELSE t.entry[e].next
                                     /\ u.entry[e].prev = t.entry[e].prev
                                     /\ u.entry[e].child = t.entry[e].child
        /\ u.entry[N + 1].hash = h /\ u.entry[N + 1].key = k /\ u.entry[N + 1].value = v
        /\ u.entry[N + 1].next = 0 /\ u.entry[N + 1].prev = t.back
        /\ u.entry[N + 1].child = t.bucket[Bucket(h)]
        /\ \A b \in 0 .. BucketSize - 1 : u.bucket[b] = IF b = Bucket(h) THEN N + 1 ELSE t.bucket[b]
        /\ u.front = IF t.back = 0 THEN N + 1 ELSE t.front
        /\ u.back = N + 1
        /\ u.size = IF t.kind = "dictionary" THEN 0 ELSE t.size + 1

LEMMA LinkLinks ==
    ASSUME NEW t \in TableType, t.back \in 0 .. Len(t.entry),
           NEW h \in Int, NEW k \in Objects, NEW v \in Objects
    PROVE  LinkedTo(t, Link(t, h, k, v), h, k, v)
<1> DEFINE N == Len(t.entry)
           b0 == Bucket(h)
           x == [hash |-> h, key |-> k, value |-> v, next |-> 0, prev |-> t.back,
                 child |-> t.bucket[b0]]
           linked == IF t.back = 0 THEN t.entry ELSE [t.entry EXCEPT ![t.back].next = N + 1]
           entry == Append(linked, x)
           bucket == [t.bucket EXCEPT ![b0] = N + 1]
           size == IF t.kind = "dictionary" THEN 0 ELSE t.size + 1
           front == IF t.back = 0 THEN N + 1 ELSE t.front
           u == Link(t, h, k, v)
<1>1. /\ t.kind \in Kinds /\ t.bucket \in [0 .. BucketSize - 1 -> Nat]
      /\ t.front \in Nat /\ t.back \in Nat /\ t.size \in Int
      /\ t.entry \in Seq(EntryType) /\ N \in Nat /\ DOMAIN t.entry = 1 .. N
  BY FieldTypes DEF Constructed
<1>2. b0 \in 0 .. BucketSize - 1 /\ t.bucket[b0] \in Nat
  <2>1. b0 \in 0 .. BucketSize - 1
    BY BucketsAre
  <2> HIDE DEF b0
  <2> QED
    BY <1>1, <2>1
<1>3. x \in EntryType
  BY <1>1, <1>2 DEF EntryType
<1>4. /\ linked \in Seq(EntryType) /\ Len(linked) = N
      /\ \A e \in 1 .. N : linked[e] = IF e = t.back THEN [t.entry[e] EXCEPT !.next = N + 1] ELSE t.entry[e]
  <2>1. CASE t.back = 0
    BY <1>1, <2>1
  <2>2. CASE t.back # 0
    <3>1. t.back \in 1 .. N
      BY <1>1, <2>2
    <3>2. t.entry[t.back] \in EntryType
      BY <1>1, <3>1, ElementOfSeq
    <3> DEFINE y == [t.entry[t.back] EXCEPT !.next = N + 1]
    <3>3. y \in EntryType
      <4> DEFINE z == t.entry[t.back]
      <4>1. z \in EntryType /\ y = [z EXCEPT !.next = N + 1] /\ N + 1 \in Nat
        BY <1>1, <3>2
      <4> HIDE DEF z, y
      <4> QED
        BY <4>1 DEF EntryType
    <3>4. linked = [t.entry EXCEPT ![t.back] = y]
      BY <2>2
    <3> HIDE DEF y, linked
    <3>5. /\ linked \in Seq(EntryType) /\ Len(linked) = N
          /\ \A e \in 1 .. N : linked[e] = IF e = t.back THEN y ELSE t.entry[e]
      BY <1>1, <3>1, <3>3, <3>4, ExceptSeq
    <3> QED
      BY <3>5 DEF y
  <2> QED
    BY <2>1, <2>2
<1>5. /\ entry \in Seq(EntryType) /\ Len(entry) = N + 1
      /\ \A e \in 1 .. N : entry[e] = linked[e]
      /\ entry[N + 1] = x
  <2> HIDE DEF x, linked
  <2> QED
    BY <1>3, <1>4, AppendProperties
<1>6. u = [t EXCEPT !.entry = entry, !.bucket = bucket, !.front = front, !.back = N + 1, !.size = size]
  BY <1>1, <1>2 DEF Link, Null, TableType
<1> HIDE DEF u
<1>7. bucket \in [0 .. BucketSize - 1 -> Nat] /\ size \in Int /\ front \in Nat /\ N + 1 \in Nat
  BY <1>1, <1>2
<1>8. /\ \A b \in 0 .. BucketSize - 1 : bucket[b] = IF b = b0 THEN N + 1 ELSE t.bucket[b]
  BY <1>1, <1>2
<1>9. ASSUME NEW e \in 1 .. N
      PROVE  /\ SameItem(entry[e], t.entry[e])
             /\ entry[e].next = IF e = t.back THEN N + 1 ELSE t.entry[e].next
             /\ entry[e].prev = t.entry[e].prev
             /\ entry[e].child = t.entry[e].child
  <2>1. t.entry[e] \in EntryType
    BY <1>1, ElementOfSeq
  <2>2. entry[e] = IF e = t.back THEN [t.entry[e] EXCEPT !.next = N + 1] ELSE t.entry[e]
    BY <1>4, <1>5
  <2> HIDE DEF entry
  <2> QED
    BY <2>1, <2>2 DEF EntryType, SameItem
<1>10. /\ entry[N + 1].hash = h /\ entry[N + 1].key = k /\ entry[N + 1].value = v
       /\ entry[N + 1].next = 0 /\ entry[N + 1].prev = t.back /\ entry[N + 1].child = t.bucket[b0]
  BY <1>5
<1> HIDE DEF entry, bucket, size, front, b0
<1>11. /\ u \in TableType /\ u.kind = t.kind /\ u.entry = entry /\ u.bucket = bucket
       /\ u.front = front /\ u.back = N + 1 /\ u.size = size
  BY <1>1, <1>5, <1>6, <1>7 DEF TableType
<1> HIDE DEF N, x, linked
<1>12. u.front = IF t.back = 0 THEN N + 1 ELSE t.front
  BY <1>11 DEF front
<1>13. u.size = IF t.kind = "dictionary" THEN 0 ELSE t.size + 1
  BY <1>11 DEF size
<1> QED
  BY <1>5, <1>8, <1>9, <1>10, <1>11, <1>12, <1>13 DEF LinkedTo, N, b0, u, Constructed

(* The table stays whole, with one more entry.                             *)
LEMMA LinkKeepsWhole ==
    ASSUME NEW t, NEW L, Whole(t, L), NEW h, NEW k \in Objects, NEW v, h = Hash(k), h \in Int,
           \A e \in L : t.entry[e].hash # h,
           NEW u, LinkedTo(t, u, h, k, v)
    PROVE  Whole(u, L \cup {Len(t.entry) + 1})
<1> DEFINE N == Len(t.entry)
           M == L \cup {N + 1}
<1>0. t \in TableType /\ Pointing(t) /\ Lists(t, L) /\ Chains(t, L) /\ N \in Nat
  BY FieldTypes DEF Whole
<1>1. L \subseteq 1 .. N /\ Constructed(t) = 1 .. N /\ Constructed(u) = 1 .. N + 1
  BY <1>0 DEF Lists, Constructed, LinkedTo
<1>2. \A e \in 1 .. N : /\ SameItem(u.entry[e], t.entry[e])
                        /\ u.entry[e].next = IF e = t.back THEN N + 1 ELSE t.entry[e].next
                        /\ u.entry[e].prev = t.entry[e].prev
                        /\ u.entry[e].child = t.entry[e].child
  BY <1>1 DEF LinkedTo
<1>3. /\ u.entry[N + 1].hash = h /\ u.entry[N + 1].key = k /\ u.entry[N + 1].value = v
      /\ u.entry[N + 1].next = 0 /\ u.entry[N + 1].prev = t.back
      /\ u.entry[N + 1].child = t.bucket[Bucket(h)]
  BY DEF LinkedTo
<1>4. \A b \in 0 .. BucketSize - 1 : u.bucket[b] = IF b = Bucket(h) THEN N + 1 ELSE t.bucket[b]
  BY DEF LinkedTo
<1>5. u.front = (IF t.back = 0 THEN N + 1 ELSE t.front) /\ u.back = N + 1 /\ u \in TableType
      /\ Len(u.entry) = N + 1
  BY DEF LinkedTo
<1>6. /\ t.back \in L \cup {0} /\ t.front \in L \cup {0} /\ 0 \notin L /\ N + 1 \notin L
      /\ \A e \in L : t.front # 0 /\ t.front <= e /\ e <= t.back /\ e \in 1 .. N
  BY <1>0, <1>1 DEF Lists
<1>7. Bucket(h) \in 0 .. BucketSize - 1 /\ t.bucket[Bucket(h)] \in L \cup {0}
  BY <1>0, BucketsAre DEF Chains
<1>8. \A e \in 1 .. N + 1 : e \in 1 .. N \/ e = N + 1
  BY <1>0
<1>9. Pointing(u)
  <2>1. ASSUME NEW e \in 1 .. N
        PROVE  /\ u.entry[e].next \in 0 .. N + 1
               /\ u.entry[e].next # 0 => e < u.entry[e].next
               /\ u.entry[e].child < e
               /\ u.entry[e].hash = Hash(u.entry[e].key)
    <3>1. /\ t.entry[e].next \in 0 .. N /\ (t.entry[e].next # 0 => e < t.entry[e].next)
          /\ t.entry[e].child < e /\ t.entry[e].hash = Hash(t.entry[e].key)
      BY <1>0, <1>1 DEF Pointing
    <3>2. /\ SameItem(u.entry[e], t.entry[e]) /\ u.entry[e].child = t.entry[e].child
          /\ u.entry[e].next = IF e = t.back THEN N + 1 ELSE t.entry[e].next
      BY <1>2
    <3>3. u.entry[e].hash = Hash(u.entry[e].key)
      BY <3>1, <3>2 DEF SameItem
    <3> QED
      BY <1>0, <3>1, <3>2, <3>3
  <2>2. /\ u.entry[N + 1].next \in 0 .. N + 1 /\ u.entry[N + 1].child < N + 1
        /\ u.entry[N + 1].next = 0 /\ u.entry[N + 1].hash = Hash(u.entry[N + 1].key)
    <3>1. t.bucket[Bucket(h)] \in 0 .. N
      <4>1. L \cup {0} \subseteq 0 .. N
        BY <1>0, <1>1
      <4> QED
        BY <1>7, <4>1
    <3>2. u.entry[N + 1].hash = Hash(u.entry[N + 1].key)
      BY <1>3
    <3> QED
      BY <1>0, <1>3, <3>1, <3>2
  <2> QED
    BY <1>1, <1>5, <1>8, <2>1, <2>2 DEF Pointing
<1>10. Lists(u, M)
  <2>1. M \subseteq Constructed(u) /\ u.front \in M \cup {0} /\ u.back \in M \cup {0}
    <3>1. L \subseteq 1 .. N + 1 /\ N + 1 \in 1 .. N + 1
      BY <1>0, <1>1
    <3>2. u.front \in M \cup {0} /\ u.back \in M \cup {0}
      BY <1>5, <1>6
    <3> QED
      BY <1>1, <3>1, <3>2
  <2>2. \A e \in M : u.front # 0 /\ u.front <= e /\ e <= u.back
    <3>1. t.back = 0 => L = {}
      BY <1>6
    <3>2. t.back # 0 => t.back \in L /\ t.front # 0 /\ t.front \in 1 .. N
      BY <1>1, <1>6
    <3> QED
      BY <1>0, <1>5, <1>6, <3>1, <3>2
  <2>3. ASSUME NEW e \in L
        PROVE  /\ u.entry[e].next \in M \cup {0}
               /\ u.entry[e].prev \in M \cup {0} /\ u.entry[e].prev < e
    BY <1>0, <1>2, <1>6 DEF Lists
  <2>4. u.entry[N + 1].next \in M \cup {0} /\ u.entry[N + 1].prev \in M \cup {0} /\ u.entry[N + 1].prev < N + 1
    BY <1>0, <1>3, <1>6
  <2>5. ASSUME NEW e \in L, NEW f \in L, e < f
        PROVE  u.entry[e].next # 0 /\ u.entry[e].next <= f /\ e <= u.entry[f].prev
    <3>1. e # t.back /\ e \in 1 .. N /\ f \in 1 .. N
      BY <1>6, <2>5
    <3>2. t.entry[e].next # 0 /\ t.entry[e].next <= f /\ e <= t.entry[f].prev
      BY <1>0, <2>5 DEF Lists
    <3> QED
      BY <1>2, <3>1, <3>2
  <2>6. ASSUME NEW e \in L
        PROVE  u.entry[e].next # 0 /\ u.entry[e].next <= N + 1 /\ e <= u.entry[N + 1].prev /\ e < N + 1
    <3>1. e \in 1 .. N /\ e <= t.back
      BY <1>6
    <3>2. CASE e = t.back
      BY <1>0, <1>2, <1>3, <3>1, <3>2
    <3>3. CASE e # t.back
      <4>1. t.back \in L /\ e < t.back
        BY <1>6, <3>1, <3>3
      <4>2. t.entry[e].next # 0 /\ t.entry[e].next <= t.back
        BY <1>0, <4>1 DEF Lists
      <4>3. t.entry[e].next \in 0 .. N
        BY <1>0, <1>1, <3>1 DEF Pointing
      <4> QED
        BY <1>0, <1>2, <1>3, <3>1, <3>3, <4>2, <4>3
    <3> QED
      BY <3>2, <3>3
  <2>7. \A e, f \in M : e < f => u.entry[e].next # 0 /\ u.entry[e].next <= f
    <3> TAKE e, f \in M
    <3> HAVE e < f
    <3>1. e \in L
      BY <1>0, <1>6
    <3> QED
      BY <2>5, <2>6, <3>1
  <2>8. \A e, f \in M : e < f => e <= u.entry[f].prev
    <3> TAKE e, f \in M
    <3> HAVE e < f
    <3>1. e \in L
      BY <1>0, <1>6
    <3> QED
      BY <2>5, <2>6, <3>1
  <2>9. \A e \in M : u.entry[e].next \in M \cup {0}
    BY <2>3, <2>4
  <2>10. \A e \in M : u.entry[e].prev \in M \cup {0} /\ u.entry[e].prev < e
    BY <2>3, <2>4
  <2> HIDE DEF M
  <2> QED
    BY <2>1, <2>2, <2>7, <2>8, <2>9, <2>10 DEF Lists
<1>11. Chains(u, M)
  <2>0. (\A e \in L : BucketOf(u, e) = BucketOf(t, e)) /\ BucketOf(u, N + 1) = Bucket(h)
    BY <1>2, <1>3, <1>6 DEF BucketOf, SameItem
  <2>1. \A b \in 0 .. BucketSize - 1 : /\ u.bucket[b] \in M \cup {0}
                                       /\ u.bucket[b] # 0 => BucketOf(u, u.bucket[b]) = b
    <3> TAKE b \in 0 .. BucketSize - 1
    <3>1. t.bucket[b] \in L \cup {0} /\ (t.bucket[b] # 0 => BucketOf(t, t.bucket[b]) = b)
      BY <1>0 DEF Chains
    <3> QED
      BY <1>4, <2>0, <3>1
  <2>2. ASSUME NEW e \in L
        PROVE  /\ e <= u.bucket[BucketOf(u, e)]
               /\ u.entry[e].child \in M \cup {0}
               /\ u.entry[e].child # 0 => BucketOf(u, u.entry[e].child) = BucketOf(u, e)
    <3>1. /\ e <= t.bucket[BucketOf(t, e)] /\ t.entry[e].child \in L \cup {0}
          /\ t.entry[e].child # 0 => BucketOf(t, t.entry[e].child) = BucketOf(t, e)
      BY <1>0 DEF Chains
    <3>2. e \in 1 .. N /\ u.entry[e].child = t.entry[e].child
      BY <1>2, <1>6
    <3>3. BucketOf(t, e) \in 0 .. BucketSize - 1
      BY <1>0, <1>1, <3>2, EntryTypes, BucketsAre DEF BucketOf
    <3>4. e <= u.bucket[BucketOf(u, e)]
      BY <1>0, <1>4, <2>0, <3>1, <3>2, <3>3
    <3> QED
      BY <2>0, <3>1, <3>2, <3>4
  <2>3. /\ N + 1 <= u.bucket[BucketOf(u, N + 1)]
        /\ u.entry[N + 1].child \in M \cup {0}
        /\ u.entry[N + 1].child # 0 => BucketOf(u, u.entry[N + 1].child) = BucketOf(u, N + 1)
    <3>1. t.bucket[Bucket(h)] # 0 => BucketOf(t, t.bucket[Bucket(h)]) = Bucket(h)
      BY <1>0, <1>7 DEF Chains
    <3>2. u.bucket[Bucket(h)] = N + 1
      BY <1>4, <1>7
    <3> QED
      BY <1>0, <1>3, <1>7, <2>0, <3>1, <3>2
  <2>4. ASSUME NEW e \in L, NEW f \in L, e < f, BucketOf(u, e) = BucketOf(u, f)
        PROVE  e <= u.entry[f].child
    <3>1. e <= t.entry[f].child
      BY <1>0, <2>0, <2>4 DEF Chains
    <3> QED
      BY <1>2, <1>6, <3>1
  <2>5. ASSUME NEW e \in L, BucketOf(u, e) = BucketOf(u, N + 1)
        PROVE  e <= u.entry[N + 1].child
    <3>1. e <= t.bucket[BucketOf(t, e)] /\ BucketOf(t, e) = Bucket(h)
      BY <1>0, <2>0, <2>5 DEF Chains
    <3> QED
      BY <1>3, <3>1
  <2>6. \A e, f \in M : e < f /\ BucketOf(u, e) = BucketOf(u, f) => e <= u.entry[f].child
    <3> TAKE e, f \in M
    <3> HAVE e < f /\ BucketOf(u, e) = BucketOf(u, f)
    <3>1. e \in L
      BY <1>0, <1>6
    <3> QED
      BY <2>4, <2>5, <3>1
  <2>7. \A e, f \in M : u.entry[e].hash = u.entry[f].hash => e = f
    <3>1. \A e \in L : u.entry[e].hash = t.entry[e].hash /\ u.entry[e].hash # h
      BY <1>2, <1>6 DEF SameItem
    <3>2. \A e, f \in L : t.entry[e].hash = t.entry[f].hash => e = f
      BY <1>0 DEF Chains
    <3> QED
      BY <1>3, <3>1, <3>2
  <2>8. \A e \in M : e <= u.bucket[BucketOf(u, e)]
    BY <2>2, <2>3
  <2>9. \A e \in M : /\ u.entry[e].child \in M \cup {0}
                     /\ u.entry[e].child # 0 => BucketOf(u, u.entry[e].child) = BucketOf(u, e)
    BY <2>2, <2>3
  <2> HIDE DEF M
  <2> QED
    BY <2>1, <2>6, <2>7, <2>8, <2>9 DEF Chains
<1> QED
  BY <1>5, <1>9, <1>10, <1>11 DEF Whole

(* One more entry is met, after the others.                                *)
LEMMA LinkedList ==
    ASSUME NEW t, NEW L, Whole(t, L), NEW u, NEW N, N = Len(t.entry), Whole(u, L \cup {N + 1}),
           Constructed(u) = 1 .. N + 1
    PROVE  Entries(u) = Append(Entries(t), N + 1) /\ Live(u) = Live(t) \cup {N + 1}
<1>0. /\ t \in TableType /\ Pointing(t) /\ Lists(t, L) /\ N \in Nat /\ Constructed(t) = 1 .. N
      /\ u \in TableType /\ Pointing(u) /\ Lists(u, L \cup {N + 1})
  BY FieldTypes DEF Whole, Constructed
<1>1. PICK n \in Nat : /\ IsRow(Entries(t), n, 1 .. N) /\ Rises(Entries(t), n)
                       /\ Members(Entries(t), n) = L
  BY <1>0, ListIsMet
<1>2. PICK m \in Nat : /\ IsRow(Entries(u), m, 1 .. N + 1) /\ Rises(Entries(u), m)
                       /\ Members(Entries(u), m) = L \cup {N + 1}
  BY <1>0, ListIsMet
<1> DEFINE S == 1 .. N + 1
           s == Entries(t)
<1>3. S \in SUBSET Int /\ N + 1 \in S /\ IsRow(s, n, S) /\ Exceeds(N + 1, Members(s, n))
  <2>1. L \subseteq 1 .. N /\ Members(s, n) = L
    BY <1>0, <1>1 DEF Lists
  <2>4. 1 .. N \subseteq S /\ N + 1 \in S /\ S \subseteq Int
    BY <1>0
  <2>2. Exceeds(N + 1, Members(s, n))
    <3>1. \A y \in L : y < N + 1
      BY <1>0, <2>1
    <3> QED
      BY <2>1, <3>1 DEF Exceeds
  <2>3. IsRow(s, n, S)
    <3> HIDE DEF S, s
    <3>1. s \in [1 .. n -> 1 .. N]
      BY <1>1 DEF IsRow, s
    <3> QED
      BY <2>4, <3>1 DEF IsRow
  <2> HIDE DEF S, s
  <2> QED
    BY <2>2, <2>3, <2>4
<1> HIDE DEF S, s
<1>4. /\ IsRow(Append(s, N + 1), n + 1, S) /\ Rises(Append(s, N + 1), n + 1)
      /\ Members(Append(s, N + 1), n + 1) = L \cup {N + 1}
  <2>1. Rises(s, n)
    BY <1>1 DEF s
  <2>5. Members(s, n) = L
    BY <1>1 DEF s
  <2> DEFINE x == N + 1
  <2>2. x \in S /\ Exceeds(x, Members(s, n))
    BY <1>3
  <2> HIDE DEF x
  <2> DEFINE r == Append(s, x)
  <2>3. IsRow(r, n + 1, S) /\ Adds(r, s, n, x)
    BY <1>3, <2>2, Appended
  <2> HIDE DEF r
  <2>4. Rises(r, n + 1) /\ Members(r, n + 1) = Members(s, n) \cup {x}
    BY <1>3, <2>1, <2>2, <2>3, LongerRises
  <2> QED
    BY <2>3, <2>4, <2>5 DEF x, r
<1>5. Entries(u) = Append(s, N + 1)
  <2>1. IsRow(Entries(u), m, S) /\ n + 1 \in Nat
    BY <1>2 DEF S
  <2> QED
    BY <1>2, <1>3, <1>4, <2>1, RisingRowsAgree
<1>6. Live(t) = L /\ Live(u) = L \cup {N + 1}
  BY <1>0, ListIsMet
<1> QED
  BY <1>5, <1>6 DEF s

-----------------------------------------------------------------------------
(* AN ENTRY THAT IS ERASED *)

Unlinked(t, u, L, e) ==
    LET n == t.entry[e].next
        p == t.entry[e].prev
    IN  /\ u \in TableType /\ u.kind = t.kind /\ Len(u.entry) = Len(t.entry)
        /\ \A i \in Constructed(t) :
              /\ SameItem(u.entry[i], t.entry[i])
              /\ u.entry[i].next = IF i = p THEN n ELSE t.entry[i].next
              /\ u.entry[i].prev = IF i = n THEN p ELSE t.entry[i].prev
              /\ u.entry[i].child = IF i \in L /\ t.entry[i].child = e THEN t.entry[e].child
                                                                    ELSE t.entry[i].child
        /\ \A b \in 0 .. BucketSize - 1 : u.bucket[b] = IF t.bucket[b] = e THEN t.entry[e].child
                                                                        ELSE t.bucket[b]
        /\ u.front = IF p = 0 THEN n ELSE t.front
        /\ u.back  = IF n = 0 THEN p ELSE t.back

(* The table with the entry out of its bucket.                             *)
Unchained(t, u, L, e) ==
    /\ u \in TableType /\ u.kind = t.kind /\ Len(u.entry) = Len(t.entry)
    /\ \A i \in Constructed(t) :
          /\ SameItem(u.entry[i], t.entry[i])
          /\ u.entry[i].next = t.entry[i].next /\ u.entry[i].prev = t.entry[i].prev
          /\ u.entry[i].child = IF i \in L /\ t.entry[i].child = e THEN t.entry[e].child
                                                                ELSE t.entry[i].child
    /\ \A b \in 0 .. BucketSize - 1 : u.bucket[b] = IF t.bucket[b] = e THEN t.entry[e].child
                                                                    ELSE t.bucket[b]
    /\ u.front = t.front /\ u.back = t.back /\ u.size = t.size

(* Only one entry of a chain comes before another one.                     *)
LEMMA OneBefore ==
    ASSUME NEW t, NEW L, Whole(t, L), NEW e \in L
    PROVE  /\ e \in Constructed(t) /\ BucketOf(t, e) \in 0 .. BucketSize - 1
           /\ \A b \in 0 .. BucketSize - 1 : t.bucket[b] = e => b = BucketOf(t, e)
           /\ t.bucket[BucketOf(t, e)] = e => \A p \in L : t.entry[p].child # e
           /\ t.bucket[BucketOf(t, e)] # e =>
                \E p \in Bucketed(t, L, BucketOf(t, e)) : /\ t.entry[p].child = e
                                                         /\ \A q \in L : t.entry[q].child = e => q = p
<1> DEFINE N == Len(t.entry)
           b == BucketOf(t, e)
<1>0. t \in TableType /\ Pointing(t) /\ Lists(t, L) /\ Chains(t, L) /\ N \in Nat
  BY FieldTypes DEF Whole
<1>1. L \subseteq 1 .. N /\ Constructed(t) = 1 .. N /\ e \in 1 .. N /\ 0 \notin L
  BY <1>0 DEF Lists, Constructed
<1>2. b \in 0 .. BucketSize - 1
  BY <1>0, <1>1, EntryTypes, BucketsAre DEF BucketOf
<1>3. \A c \in 0 .. BucketSize - 1 : t.bucket[c] = e => c = b
  BY <1>0, <1>1 DEF Chains
<1>4. \A p \in L : t.entry[p].child = e => BucketOf(t, p) = b /\ e < p
  <2> TAKE p \in L
  <2> HAVE t.entry[p].child = e
  <2>1. t.entry[p].child # 0 => BucketOf(t, t.entry[p].child) = BucketOf(t, p)
    BY <1>0 DEF Chains
  <2>2. e < p
    BY <1>0, <1>1 DEF Pointing
  <2> QED
    BY <1>1, <2>1, <2>2
<1>5. \A p \in L : p <= t.bucket[BucketOf(t, p)]
  BY <1>0 DEF Chains
<1>6. t.bucket[b] = e => \A p \in L : t.entry[p].child # e
  <2> HAVE t.bucket[b] = e
  <2> TAKE p \in L
  <2>1. SUFFICES ASSUME t.entry[p].child = e PROVE FALSE
    OBVIOUS
  <2>2. BucketOf(t, p) = b /\ e < p
    BY <1>4, <2>1
  <2>3. p <= e
    BY <1>5, <2>2
  <2> QED
    BY <1>1, <2>2, <2>3
<1>7. ASSUME t.bucket[b] # e
      PROVE  \E p \in Bucketed(t, L, b) : /\ t.entry[p].child = e
                                          /\ \A q \in L : t.entry[q].child = e => q = p
  <2> DEFINE s == Follow(ChildOf(t), t.bucket[b])
  <2>1. PICK n \in Nat : IsRow(s, n, 1 .. N) /\ Path(ChildOf(t), t.bucket[b], n, s)
    BY <1>1, <1>2, ChainIsMet
  <2>2. Members(s, n) = Bucketed(t, L, b)
    BY <1>2, <2>1, ChainIsMet, MembersOf DEF Met
  <2> HIDE DEF s, b
  <2>3. e \in Members(s, n)
    BY <2>2 DEF Bucketed, b
  <2>4. PICK i \in 1 .. n : s[i] = e
    BY <2>3 DEF Members
  <2>5. i # 1
    BY <1>7, <2>4 , <2>1 DEF Path
  <2>6. i - 1 \in 1 .. n /\ i - 1 # n /\ (i - 1) + 1 = i
    BY <2>1, <2>4, <2>5
  <2> DEFINE j == i - 1
             p == s[j]
  <2>7. ChildOf(t)[p] = e
    <3>1. \A k \in 1 .. n : ChildOf(t)[s[k]] = IF k = n THEN 0 ELSE s[k + 1]
      BY <2>1 DEF Path
    <3> QED
      BY <2>4, <2>6, <3>1
  <2>8. p \in Bucketed(t, L, b) /\ p \in L
    <3>1. p \in Members(s, n)
      BY <2>6 DEF Members
    <3> QED
      BY <2>2, <3>1 DEF Bucketed
  <2>9. t.entry[p].child = e
    <3>1. \A x \in Constructed(t) : ChildOf(t)[x] = t.entry[x].child
      BY <1>0, PointersOf
    <3> HIDE DEF p
    <3> QED
      BY <1>1, <2>7, <2>8, <3>1
  <2> HIDE DEF p
  <2>10. \A q \in L : t.entry[q].child = e => q = p
    <3> TAKE q \in L
    <3> HAVE t.entry[q].child = e
    <3>1. BucketOf(t, q) = b /\ e < q /\ BucketOf(t, p) = b /\ e < p
      BY <1>4, <2>8, <2>9 DEF b
    <3>2. p < q => p <= t.entry[q].child
      BY <1>0, <2>8, <3>1 DEF Chains
    <3>3. q < p => q <= t.entry[p].child
      BY <1>0, <2>8, <3>1 DEF Chains
    <3>4. p \in 1 .. N /\ q \in 1 .. N
      BY <1>1, <2>8
    <3> QED
      BY <1>1, <2>9, <3>1, <3>2, <3>3, <3>4
  <2> QED
    BY <2>8, <2>9, <2>10
<1> HIDE DEF b
<1>8. QED
  BY <1>1, <1>2, <1>3, <1>6, <1>7 DEF b

LEMMA UnchainUnchains ==
    ASSUME NEW t, NEW L, Whole(t, L), NEW e \in L
    PROVE  Unchained(t, Unchain(t, e), L, e)
<1> DEFINE N == Len(t.entry)
           b == BucketOf(t, e)
           s == Follow(ChildOf(t), t.bucket[b])
           c == t.entry[e].child
           u == Unchain(t, e)
<1>0. t \in TableType /\ Pointing(t) /\ Lists(t, L) /\ Chains(t, L)
  BY DEF Whole
<1>1. /\ t.kind \in Kinds /\ t.bucket \in [0 .. BucketSize - 1 -> Nat]
      /\ t.front \in Nat /\ t.back \in Nat /\ t.size \in Int
      /\ t.entry \in Seq(EntryType) /\ N \in Nat /\ DOMAIN t.entry = 1 .. N /\ Constructed(t) = 1 .. N
  BY <1>0, FieldTypes DEF Constructed
<1>2. e \in 1 .. N /\ c \in Nat
  BY <1>0, <1>1, EntryTypes DEF Lists
<1>3. /\ b \in 0 .. BucketSize - 1
      /\ \A d \in 0 .. BucketSize - 1 : t.bucket[d] = e => d = b
      /\ t.bucket[b] = e => \A p \in L : t.entry[p].child # e
      /\ t.bucket[b] # e => \E p \in Bucketed(t, L, b) : /\ t.entry[p].child = e
                                                        /\ \A q \in L : t.entry[q].child = e => q = p
  BY OneBefore
<1>4. u = IF t.bucket[b] = e THEN [t EXCEPT !.bucket[b] = c]
          ELSE [t EXCEPT !.entry[CHOOSE p \in ToSet(s) : t.entry[p].child = e].child = c]
  BY DEF Unchain, BucketOf
<1>5. CASE t.bucket[b] = e
  <2> DEFINE bucket == [t.bucket EXCEPT ![b] = c]
  <2>1. u = [t EXCEPT !.bucket = bucket]
    BY <1>4, <1>5
  <2>2. bucket \in [0 .. BucketSize - 1 -> Nat]
    BY <1>1, <1>2
  <2>3. \A d \in 0 .. BucketSize - 1 : bucket[d] = IF t.bucket[d] = e THEN c ELSE t.bucket[d]
    BY <1>1, <1>3, <1>5
  <2> HIDE DEF bucket, b, c, u
  <2>4. /\ u \in TableType /\ u.kind = t.kind /\ u.entry = t.entry /\ u.bucket = bucket
        /\ u.front = t.front /\ u.back = t.back /\ u.size = t.size
    BY <1>0, <2>1, <2>2 DEF TableType
  <2>5. \A p \in L : t.entry[p].child # e
    BY <1>3, <1>5
  <2>6. \A i \in 1 .. N : SameItem(u.entry[i], t.entry[i])
    BY <2>4 DEF SameItem
  <2> QED
    BY <1>1, <2>3, <2>4, <2>5, <2>6 DEF Unchained, c, u
<1>6. CASE t.bucket[b] # e
  <2>1. PICK p \in Bucketed(t, L, b) : /\ t.entry[p].child = e
                                       /\ \A q \in L : t.entry[q].child = e => q = p
    BY <1>3, <1>6
  <2>2. ToSet(s) = Bucketed(t, L, b)
    BY <1>3, ChainIsMet DEF Met
  <2> HIDE DEF s, b
  <2> DEFINE before == CHOOSE q \in ToSet(s) : t.entry[q].child = e
  <2>3. before \in Bucketed(t, L, b) /\ t.entry[before].child = e
    BY <2>1, <2>2
  <2>4. before = p
    BY <2>1, <2>3 DEF Bucketed
  <2> HIDE DEF before
  <2>5. p \in L /\ p \in 1 .. N
    BY <1>0, <1>1 DEF Bucketed, Lists
  <2> DEFINE y == [t.entry[p] EXCEPT !.child = c]
             entry == [t.entry EXCEPT ![p] = y]
  <2>6. u = [t EXCEPT !.entry[before].child = c]
    BY <1>4, <1>6 DEF before
  <2>7. u = [t EXCEPT !.entry = entry]
    BY <2>4, <2>6
  <2>8. y \in EntryType /\ SameItem(y, t.entry[p]) /\ y.next = t.entry[p].next
        /\ y.prev = t.entry[p].prev /\ y.child = c
    <3> DEFINE z == t.entry[p]
    <3>1. z \in EntryType /\ y = [z EXCEPT !.child = c]
      BY <1>0, <1>1, <2>5, EntryTypes
    <3> HIDE DEF z, y, c
    <3>2. y \in EntryType /\ SameItem(y, z) /\ y.next = z.next /\ y.prev = z.prev /\ y.child = c
      BY <1>2, <3>1 DEF EntryType, SameItem, c
    <3> QED
      BY <3>2 DEF z
  <2>9. /\ entry \in Seq(EntryType) /\ Len(entry) = N
        /\ \A i \in 1 .. N : entry[i] = IF i = p THEN y ELSE t.entry[i]
    <3> HIDE DEF y
    <3> QED
      BY <1>1, <2>5, <2>8, ExceptSeq
  <2> HIDE DEF y, entry, c, u
  <2>10. /\ u \in TableType /\ u.kind = t.kind /\ u.entry = entry /\ u.bucket = t.bucket
         /\ u.front = t.front /\ u.back = t.back /\ u.size = t.size
    BY <1>0, <2>7, <2>9 DEF TableType
  <2>11. \A i \in 1 .. N : /\ SameItem(u.entry[i], t.entry[i])
                           /\ u.entry[i].next = t.entry[i].next /\ u.entry[i].prev = t.entry[i].prev
                           /\ u.entry[i].child = IF i = p THEN c ELSE t.entry[i].child
    BY <2>8, <2>9, <2>10 DEF SameItem
  <2>12. \A i \in 1 .. N : (i \in L /\ t.entry[i].child = e) <=> i = p
    BY <2>1, <2>5
  <2>13. \A d \in 0 .. BucketSize - 1 : t.bucket[d] # e
    BY <1>3, <1>6
  <2>14. \A i \in 1 .. N : u.entry[i].child = IF i \in L /\ t.entry[i].child = e THEN c ELSE t.entry[i].child
    BY <2>11, <2>12
  <2> QED
    BY <1>1, <2>9, <2>10, <2>11, <2>13, <2>14 DEF Unchained, c, u
<1> QED
  BY <1>5, <1>6

LEMMA UnlinkUnlinks ==
    ASSUME NEW t \in TableType, NEW e \in Constructed(t)
    PROVE  LET n == t.entry[e].next
               p == t.entry[e].prev
               u == Unlink(t, e)
           IN  /\ u \in TableType /\ u.kind = t.kind /\ Len(u.entry) = Len(t.entry)
               /\ \A i \in Constructed(t) :
                     /\ SameItem(u.entry[i], t.entry[i])
                     /\ u.entry[i].next = IF i = p THEN n ELSE t.entry[i].next
                     /\ u.entry[i].prev = IF i = n THEN p ELSE t.entry[i].prev
                     /\ u.entry[i].child = t.entry[i].child
               /\ u.bucket = t.bucket
               /\ u.front = IF p = 0 THEN n ELSE t.front
               /\ u.back  = IF n = 0 THEN p ELSE t.back
               /\ u.size = t.size
<1> DEFINE N == Len(t.entry)
           n == t.entry[e].next
           p == t.entry[e].prev
           u == Unlink(t, e)
           y(i) == [t.entry[i] EXCEPT !.prev = IF i = n THEN p ELSE @, !.next = IF i = p THEN n ELSE @]
           entry == [i \in DOMAIN t.entry |-> y(i)]
           front == IF p = 0 THEN n ELSE t.front
           back == IF n = 0 THEN p ELSE t.back
<1>1. /\ t.kind \in Kinds /\ t.bucket \in [0 .. BucketSize - 1 -> Nat]
      /\ t.front \in Nat /\ t.back \in Nat /\ t.size \in Int
      /\ t.entry \in Seq(EntryType) /\ N \in Nat /\ DOMAIN t.entry = 1 .. N /\ Constructed(t) = 1 .. N
  BY FieldTypes DEF Constructed
<1>2. n \in Nat /\ p \in Nat
  BY EntryTypes
<1>3. ASSUME NEW i \in 1 .. N
      PROVE  /\ y(i) \in EntryType /\ SameItem(y(i), t.entry[i])
             /\ y(i).next = IF i = p THEN n ELSE t.entry[i].next
             /\ y(i).prev = IF i = n THEN p ELSE t.entry[i].prev
             /\ y(i).child = t.entry[i].child
  <2> DEFINE z == t.entry[i]
             x == y(i)
  <2>1. z \in EntryType /\ x = [z EXCEPT !.prev = IF i = n THEN p ELSE @, !.next = IF i = p THEN n ELSE @]
    BY <1>1, EntryTypes
  <2> HIDE DEF z, x, n, p
  <2>2. /\ x \in EntryType /\ SameItem(x, z)
        /\ x.next = IF i = p THEN n ELSE z.next
        /\ x.prev = IF i = n THEN p ELSE z.prev
        /\ x.child = z.child
    BY <1>2, <2>1 DEF EntryType, SameItem
  <2> QED
    BY <2>2 DEF z, x
<1>4. u = [t EXCEPT !.entry = entry, !.front = front, !.back = back]
  BY DEF Unlink, Null
<1> HIDE DEF y
<1>5. entry \in [1 .. N -> EntryType] /\ \A i \in 1 .. N : entry[i] = y(i)
  BY <1>1, <1>3
<1>6. entry \in Seq(EntryType) /\ Len(entry) = N
  BY <1>1, <1>5, SequenceLength
<1>7. front \in Nat /\ back \in Nat
  BY <1>1, <1>2
<1> HIDE DEF entry, front, back, u
<1>8. /\ u \in TableType /\ u.kind = t.kind /\ u.entry = entry /\ u.bucket = t.bucket
      /\ u.front = front /\ u.back = back /\ u.size = t.size
  BY <1>4, <1>6, <1>7 DEF TableType
<1>9. \A i \in 1 .. N :
        /\ SameItem(u.entry[i], t.entry[i])
        /\ u.entry[i].next = IF i = p THEN n ELSE t.entry[i].next
        /\ u.entry[i].prev = IF i = n THEN p ELSE t.entry[i].prev
        /\ u.entry[i].child = t.entry[i].child
  BY <1>3, <1>5, <1>8
<1>10. u.front = (IF p = 0 THEN n ELSE t.front) /\ u.back = (IF n = 0 THEN p ELSE t.back)
  BY <1>8 DEF front, back
<1> HIDE DEF n, p
<1> QED
  BY <1>1, <1>6, <1>8, <1>9, <1>10 DEF n, p, u

Resized(t, u) == u.size = IF t.kind = "set" THEN t.size - 1 ELSE t.size

LEMMA EraseErases ==
    ASSUME NEW t, NEW L, Whole(t, L), NEW h \in Int, NEW e, e = Find(t, h), e # 0
    PROVE  e \in L /\ Unlinked(t, Erase(t, h), L, e) /\ Resized(t, Erase(t, h))
<1> DEFINE N == Len(t.entry)
           x == Unchain(t, e)
           w == Unlink(x, e)
           u == Erase(t, h)
           size == IF t.kind = "set" THEN w.size - 1 ELSE w.size
<1>0. t \in TableType /\ N \in Nat /\ L \subseteq Constructed(t)
  BY FieldTypes DEF Whole, Lists
<1>1. e \in L /\ e \in Constructed(t)
  <2>1. Find(t, h) \in L \cup {0}
    BY FindFinds
  <2> QED
    BY <1>0, <2>1
<1>2. Unchained(t, x, L, e)
  BY <1>1, UnchainUnchains
<1>3. u = [w EXCEPT !.size = IF t.kind = "set" THEN @ - 1 ELSE @]
  BY DEF Erase, Null
<1> HIDE DEF x, u, w
<1>4. x \in TableType /\ Constructed(x) = Constructed(t) /\ Len(x.entry) = N
  BY <1>2 DEF Unchained, Constructed
<1> DEFINE n == x.entry[e].next
           p == x.entry[e].prev
<1>5. n = t.entry[e].next /\ p = t.entry[e].prev
  BY <1>1, <1>2 DEF Unchained
<1>6. /\ w \in TableType /\ w.kind = x.kind /\ Len(w.entry) = N
      /\ \A i \in Constructed(t) :
             /\ SameItem(w.entry[i], x.entry[i])
             /\ w.entry[i].next = IF i = p THEN n ELSE x.entry[i].next
             /\ w.entry[i].prev = IF i = n THEN p ELSE x.entry[i].prev
             /\ w.entry[i].child = x.entry[i].child
      /\ w.bucket = x.bucket
      /\ w.front = (IF p = 0 THEN n ELSE x.front)
      /\ w.back  = (IF n = 0 THEN p ELSE x.back)
      /\ w.size = x.size
  BY <1>1, <1>4, UnlinkUnlinks DEF w
<1>7. u = [w EXCEPT !.size = size] /\ size \in Int
  <2>1. w.size \in Int
    BY <1>6, FieldTypes
  <2> QED
    BY <1>3, <2>1
<1>8. /\ u \in TableType /\ u.kind = w.kind /\ u.entry = w.entry /\ u.bucket = w.bucket
      /\ u.front = w.front /\ u.back = w.back /\ u.size = size
  <2> HIDE DEF size
  <2> QED
    BY <1>6, <1>7 DEF TableType
<1>9. Resized(t, u)
  BY <1>2, <1>6, <1>8 DEF Unchained, Resized
<1> HIDE DEF n, p, size
<1>10. ASSUME NEW i \in Constructed(t)
       PROVE  /\ SameItem(u.entry[i], t.entry[i])
              /\ u.entry[i].next = IF i = p THEN n ELSE t.entry[i].next
              /\ u.entry[i].prev = IF i = n THEN p ELSE t.entry[i].prev
              /\ u.entry[i].child = IF i \in L /\ t.entry[i].child = e THEN t.entry[e].child
                                                                    ELSE t.entry[i].child
  <2>1. /\ SameItem(x.entry[i], t.entry[i])
        /\ x.entry[i].next = t.entry[i].next /\ x.entry[i].prev = t.entry[i].prev
        /\ x.entry[i].child = IF i \in L /\ t.entry[i].child = e THEN t.entry[e].child
                                                              ELSE t.entry[i].child
    BY <1>2 DEF Unchained
  <2>2. SameItem(u.entry[i], t.entry[i])
    BY <1>6, <1>8, <2>1 DEF SameItem
  <2> QED
    BY <1>6, <1>8, <2>1, <2>2
<1>11. /\ \A b \in 0 .. BucketSize - 1 : x.bucket[b] = IF t.bucket[b] = e THEN t.entry[e].child
                                                                        ELSE t.bucket[b]
       /\ x.front = t.front /\ x.back = t.back /\ x.kind = t.kind
  BY <1>2 DEF Unchained
<1>12. Unlinked(t, u, L, e)
  BY <1>5, <1>6, <1>8, <1>10, <1>11 DEF Unlinked
<1> QED
  BY <1>1, <1>9, <1>12 DEF u

(* The table stays whole, with one entry less.                             *)
LEMMA EraseKeepsWhole ==
    ASSUME NEW t, NEW L, Whole(t, L), NEW e \in L, NEW u, Unlinked(t, u, L, e)
    PROVE  Whole(u, L \ {e})
<1> DEFINE N == Len(t.entry)
           M == L \ {e}
           n == t.entry[e].next
           p == t.entry[e].prev
           c == t.entry[e].child
<1>0. t \in TableType /\ Pointing(t) /\ Lists(t, L) /\ Chains(t, L) /\ N \in Nat
  BY FieldTypes DEF Whole
<1>1. L \subseteq 1 .. N /\ Constructed(t) = 1 .. N /\ e \in 1 .. N /\ 0 \notin L
  BY <1>0 DEF Lists, Constructed
<1>2. Constructed(u) = 1 .. N /\ u \in TableType /\ Len(u.entry) = N
  BY DEF Unlinked, Constructed
<1>3. /\ n \in L \cup {0} /\ p \in L \cup {0} /\ p < e /\ (n # 0 => e < n)
      /\ n \in 0 .. N /\ p \in Nat /\ c \in Nat /\ c < e
      /\ c \in L \cup {0} /\ (c # 0 => BucketOf(t, c) = BucketOf(t, e))
  BY <1>0, <1>1, EntryTypes DEF Lists, Pointing, Chains
<1>4. \A i \in 1 .. N : /\ SameItem(u.entry[i], t.entry[i])
                        /\ u.entry[i].next = IF i = p THEN n ELSE t.entry[i].next
                        /\ u.entry[i].prev = IF i = n THEN p ELSE t.entry[i].prev
                        /\ u.entry[i].child = IF i \in L /\ t.entry[i].child = e THEN c ELSE t.entry[i].child
  BY <1>1 DEF Unlinked
<1>5. /\ \A b \in 0 .. BucketSize - 1 : u.bucket[b] = IF t.bucket[b] = e THEN c ELSE t.bucket[b]
      /\ u.front = IF p = 0 THEN n ELSE t.front
      /\ u.back  = IF n = 0 THEN p ELSE t.back
  BY DEF Unlinked
<1> HIDE DEF n, p, c
<1>6. /\ \A f \in L : f < e => p # 0 /\ f <= p
      /\ \A f \in L : e < f => n # 0 /\ n <= f
  <2>1. \A f \in L : f < e => f <= p
    BY <1>0 DEF Lists, p
  <2>2. \A f \in L : e < f => n # 0 /\ n <= f
    BY <1>0 DEF Lists, n
  <2> QED
    BY <1>1, <2>1, <2>2
<1>7. \A f \in M : f \in L /\ f \in 1 .. N /\ f # e /\ (f < e \/ e < f)
  BY <1>1
<1>8. (n # 0 => n \in M) /\ (p # 0 => p \in M)
  BY <1>1, <1>3
<1>9. Pointing(u)
  <2>1. ASSUME NEW i \in 1 .. N
        PROVE  /\ u.entry[i].next \in 0 .. N /\ (u.entry[i].next # 0 => i < u.entry[i].next)
               /\ u.entry[i].child < i
               /\ u.entry[i].hash = Hash(u.entry[i].key)
    <3>1. /\ t.entry[i].next \in 0 .. N /\ (t.entry[i].next # 0 => i < t.entry[i].next)
          /\ t.entry[i].child < i /\ t.entry[i].hash = Hash(t.entry[i].key) /\ t.entry[i].child \in Nat
      BY <1>0, <1>1, EntryTypes DEF Pointing
    <3>2. u.entry[i].hash = Hash(u.entry[i].key)
      BY <1>4, <3>1 DEF SameItem
    <3>3. u.entry[i].child < i
      BY <1>1, <1>3, <1>4, <3>1
    <3>4. u.entry[i].next \in 0 .. N /\ (u.entry[i].next # 0 => i < u.entry[i].next)
      BY <1>1, <1>3, <1>4, <3>1
    <3> QED
      BY <3>2, <3>3, <3>4
  <2> QED
    BY <1>2, <2>1 DEF Pointing
<1>10. Lists(u, M)
  <2>1. t.front \in L \cup {0} /\ t.back \in L \cup {0} /\ \A f \in L : t.front # 0 /\ t.front <= f /\ f <= t.back
    BY <1>0 DEF Lists
  <2>2. M \subseteq Constructed(u)
    BY <1>1, <1>2
  <2>3. u.front \in M \cup {0} /\ \A f \in M : u.front # 0 /\ u.front <= f
    <3>1. CASE p = 0
      <4>1. \A f \in M : e < f
        BY <1>6, <1>7, <3>1
      <4> QED
        BY <1>5, <1>6, <1>7, <1>8, <3>1, <4>1
    <3>2. CASE p # 0
      <4>1. t.front <= p /\ t.front # 0 /\ t.front \in L /\ p \in L
        BY <1>3, <2>1, <3>2
      <4>2. t.front # e
        BY <1>1, <1>3, <4>1
      <4> QED
        BY <1>5, <1>7, <2>1, <3>2, <4>1, <4>2
    <3> QED
      BY <3>1, <3>2
  <2>4. u.back \in M \cup {0} /\ \A f \in M : f <= u.back
    <3>1. CASE n = 0
      <4>1. \A f \in M : f < e
        BY <1>6, <1>7, <3>1
      <4> QED
        BY <1>5, <1>6, <1>7, <1>8, <3>1, <4>1
    <3>2. CASE n # 0
      <4>1. n <= t.back /\ n \in L
        BY <1>3, <2>1, <3>2
      <4>2. t.back # e /\ (t.back = 0 => n <= 0)
        BY <1>1, <1>3, <3>2, <4>1
      <4>3. t.back \in M \cup {0}
        BY <2>1, <4>2
      <4> QED
        BY <1>5, <1>7, <2>1, <3>2, <4>3
    <3> QED
      BY <3>1, <3>2
  <2>5. ASSUME NEW f \in M
        PROVE  u.entry[f].next \in M \cup {0} /\ u.entry[f].prev \in M \cup {0} /\ u.entry[f].prev < f
    <3>1. /\ t.entry[f].next \in L \cup {0} /\ t.entry[f].prev \in L \cup {0} /\ t.entry[f].prev < f
          /\ (t.entry[f].next # 0 => f < t.entry[f].next)
      BY <1>0, <1>1, <1>7 DEF Lists, Pointing
    <3>2. t.entry[f].next = e => f = p
      <4> HAVE t.entry[f].next = e
      <4>1. f < e
        BY <1>1, <3>1
      <4>2. f <= p /\ p # 0 /\ p \in L
        BY <1>3, <1>6, <1>7, <4>1
      <4>3. f < p => t.entry[f].next <= p
        BY <1>0, <1>7, <4>2 DEF Lists
      <4> QED
        BY <1>1, <1>3, <1>7, <4>2, <4>3
    <3>3. t.entry[f].prev = e => f = n
      <4> HAVE t.entry[f].prev = e
      <4>1. e < f
        BY <3>1
      <4>2. n <= f /\ n # 0 /\ n \in L
        BY <1>3, <1>6, <1>7, <4>1
      <4>3. n < f => n <= e
        BY <1>0, <1>7, <4>2 DEF Lists
      <4>4. n \in 1 .. N /\ e < n /\ e \in 1 .. N /\ f \in 1 .. N
        BY <1>1, <1>3, <1>7, <4>2
      <4> QED
        BY <4>2, <4>3, <4>4
    <3>4. u.entry[f].next = (IF f = p THEN n ELSE t.entry[f].next) /\ u.entry[f].prev = IF f = n THEN p ELSE t.entry[f].prev
      BY <1>4, <1>7
    <3>5. u.entry[f].next \in M \cup {0}
      BY <1>8, <3>1, <3>2, <3>4
    <3>6. u.entry[f].prev \in M \cup {0} /\ u.entry[f].prev < f
      <4>1. CASE f = n
        BY <1>1, <1>3, <1>7, <1>8, <3>4, <4>1
      <4>2. CASE f # n
        BY <3>1, <3>3, <3>4, <4>2
      <4> QED
        BY <4>1, <4>2
    <3> QED
      BY <3>5, <3>6
  <2>6. ASSUME NEW f \in M, NEW g \in M, f < g
        PROVE  u.entry[f].next # 0 /\ u.entry[f].next <= g /\ f <= u.entry[g].prev
    <3>1. t.entry[f].next # 0 /\ t.entry[f].next <= g /\ f <= t.entry[g].prev
      BY <1>0, <1>7, <2>6 DEF Lists
    <3>2. u.entry[f].next = (IF f = p THEN n ELSE t.entry[f].next) /\ u.entry[g].prev = IF g = n THEN p ELSE t.entry[g].prev
      BY <1>4, <1>7
    <3>3. f = p => n # 0 /\ n <= g
      <4> HAVE f = p
      <4>1. e < g
        BY <1>1, <1>3, <1>6, <1>7, <2>6
      <4> QED
        BY <1>6, <1>7, <4>1
    <3>4. g = n => f <= p
      <4> HAVE g = n
      <4>1. f < e
        BY <1>1, <1>3, <1>6, <1>7, <2>6
      <4> QED
        BY <1>6, <1>7, <4>1
    <3> QED
      BY <3>1, <3>2, <3>3, <3>4
  <2>7. \A f, g \in M : f < g => u.entry[f].next # 0 /\ u.entry[f].next <= g
    BY <2>6
  <2>8. \A f, g \in M : f < g => f <= u.entry[g].prev
    BY <2>6
  <2>9. /\ \A f \in M : u.entry[f].next \in M \cup {0}
        /\ \A f \in M : u.entry[f].prev \in M \cup {0} /\ u.entry[f].prev < f
    BY <2>5
  <2> HIDE DEF M
  <2> QED
    BY <2>2, <2>3, <2>4, <2>7, <2>8, <2>9 DEF Lists
<1>11. Chains(u, M)
  <2>0. \A f \in L : BucketOf(u, f) = BucketOf(t, f) /\ u.entry[f].hash = t.entry[f].hash
    BY <1>1, <1>4 DEF BucketOf, SameItem
  <2>1. /\ BucketOf(t, e) \in 0 .. BucketSize - 1
        /\ \A b \in 0 .. BucketSize - 1 : t.bucket[b] = e => b = BucketOf(t, e)
    BY OneBefore
  <2>2. c # 0 => c \in M /\ c \in L
    BY <1>1, <1>3
  <2>3. \A b \in 0 .. BucketSize - 1 : /\ u.bucket[b] \in M \cup {0}
                                       /\ u.bucket[b] # 0 => BucketOf(u, u.bucket[b]) = b
    <3> TAKE b \in 0 .. BucketSize - 1
    <3>1. t.bucket[b] \in L \cup {0} /\ (t.bucket[b] # 0 => BucketOf(t, t.bucket[b]) = b)
      BY <1>0 DEF Chains
    <3>2. CASE t.bucket[b] = e
      BY <1>3, <1>5, <2>0, <2>1, <2>2, <3>2
    <3>3. CASE t.bucket[b] # e
      BY <1>5, <2>0, <3>1, <3>3
    <3> QED
      BY <3>2, <3>3
  <2>4. ASSUME NEW f \in M
        PROVE  f <= u.bucket[BucketOf(u, f)]
    <3>1. f <= t.bucket[BucketOf(t, f)] /\ BucketOf(t, f) \in 0 .. BucketSize - 1 /\ BucketOf(u, f) = BucketOf(t, f)
      <4>1. f <= t.bucket[BucketOf(t, f)]
        BY <1>0, <1>7 DEF Chains
      <4> QED
        BY <1>7, <2>0, <4>1, OneBefore
    <3>2. CASE t.bucket[BucketOf(t, f)] = e
      <4>1. f < e /\ BucketOf(t, f) = BucketOf(t, e)
        BY <1>1, <1>7, <2>1, <3>1, <3>2
      <4>2. f <= c
        BY <1>0, <1>7, <4>1 DEF Chains, c
      <4> QED
        BY <1>5, <3>1, <3>2, <4>2
    <3>3. CASE t.bucket[BucketOf(t, f)] # e
      BY <1>5, <3>1, <3>3
    <3> QED
      BY <3>2, <3>3
  <2>5. ASSUME NEW f \in M
        PROVE  /\ u.entry[f].child = IF t.entry[f].child = e THEN c ELSE t.entry[f].child
               /\ u.entry[f].child \in M \cup {0}
               /\ u.entry[f].child # 0 => BucketOf(u, u.entry[f].child) = BucketOf(u, f)
    <3>1. u.entry[f].child = IF t.entry[f].child = e THEN c ELSE t.entry[f].child
      BY <1>4, <1>7
    <3>2. t.entry[f].child \in L \cup {0} /\ (t.entry[f].child # 0 => BucketOf(t, t.entry[f].child) = BucketOf(t, f))
      BY <1>0, <1>7 DEF Chains
    <3>3. CASE t.entry[f].child = e
      <4>1. u.entry[f].child = c /\ BucketOf(t, e) = BucketOf(t, f)
        BY <1>1, <3>1, <3>2, <3>3
      <4> QED
        BY <1>3, <1>7, <2>0, <2>2, <3>1, <4>1
    <3>4. CASE t.entry[f].child # e
      <4>1. u.entry[f].child = t.entry[f].child
        BY <3>1, <3>4
      <4> QED
        BY <1>7, <2>0, <3>1, <3>2, <3>4, <4>1
    <3> QED
      BY <3>3, <3>4
  <2>6. ASSUME NEW f \in M, NEW g \in M, f < g, BucketOf(u, f) = BucketOf(u, g)
        PROVE  f <= u.entry[g].child
    <3>1. f <= t.entry[g].child /\ BucketOf(t, f) = BucketOf(t, g)
      BY <1>0, <1>7, <2>0, <2>6 DEF Chains
    <3>2. CASE t.entry[g].child = e
      <4>1. f < e /\ BucketOf(t, e) = BucketOf(t, g)
        BY <1>0, <1>1, <1>7, <3>1, <3>2 DEF Chains
      <4>2. f <= c
        BY <1>0, <1>7, <3>1, <4>1 DEF Chains, c
      <4> QED
        BY <2>5, <3>2, <4>2
    <3>3. CASE t.entry[g].child # e
      BY <2>5, <3>1, <3>3
    <3> QED
      BY <3>2, <3>3
  <2>7. \A f, g \in M : u.entry[f].hash = u.entry[g].hash => f = g
    <3>1. \A f, g \in L : t.entry[f].hash = t.entry[g].hash => f = g
      BY <1>0 DEF Chains
    <3> QED
      BY <1>7, <2>0, <3>1
  <2>8. \A f \in M : f <= u.bucket[BucketOf(u, f)]
    BY <2>4
  <2>9. \A f \in M : /\ u.entry[f].child \in M \cup {0}
                     /\ u.entry[f].child # 0 => BucketOf(u, u.entry[f].child) = BucketOf(u, f)
    BY <2>5
  <2>10. \A f, g \in M : f < g /\ BucketOf(u, f) = BucketOf(u, g) => f <= u.entry[g].child
    BY <2>6
  <2> HIDE DEF M
  <2> QED
    BY <2>3, <2>7, <2>8, <2>9, <2>10 DEF Chains
<1> QED
  BY <1>2, <1>9, <1>10, <1>11 DEF Whole

(* One entry less is met, and the others as before.                        *)
LEMMA ErasedList ==
    ASSUME NEW t, NEW L, Whole(t, L), NEW e \in L, NEW u, Whole(u, L \ {e}), Constructed(u) = Constructed(t)
    PROVE  \E n \in Nat : \E p \in 1 .. n :
              /\ IsRow(Entries(t), n, Constructed(t)) /\ Len(Entries(t)) = n /\ Entries(t)[p] = e
              /\ Entries(u) = Shorter(Entries(t), n, p) /\ Len(Entries(u)) = n - 1
<1>0. /\ t \in TableType /\ Pointing(t) /\ Lists(t, L) /\ u \in TableType /\ Pointing(u) /\ Lists(u, L \ {e})
  BY DEF Whole
<1> DEFINE S == Constructed(t)
           s == Entries(t)
<1>1. PICK n \in Nat : IsRow(s, n, S) /\ Rises(s, n) /\ Members(s, n) = L /\ Len(s) = n
  BY <1>0, ListIsMet
<1>2. PICK m \in Nat : /\ IsRow(Entries(u), m, S) /\ Rises(Entries(u), m)
                       /\ Members(Entries(u), m) = L \ {e} /\ Len(Entries(u)) = m
  BY <1>0, ListIsMet
<1>3. S \in SUBSET Int
  BY <1>0, FieldTypes DEF Constructed
<1> HIDE DEF S, s
<1>4. PICK p \in 1 .. n : s[p] = e
  BY <1>1 DEF Members
<1> DEFINE r == Shorter(s, n, p)
<1>5. /\ n - 1 \in Nat /\ IsRow(r, n - 1, S) /\ Rises(r, n - 1) /\ Members(r, n - 1) = Members(s, n) \ {s[p]}
  <2>1. IsRow(s, n, S) /\ Rises(s, n)
    BY <1>1
  <2>2. n - 1 \in Nat /\ IsRow(r, n - 1, S) /\ Rises(r, n - 1)
    BY <1>3, <2>1, ShorterRises
  <2>3. Lacks(r, n - 1, s, n, s[p])
    BY <1>3, <2>1, ShorterRises
  <2> HIDE DEF r
  <2> QED
    BY <2>2, <2>3 DEF Lacks
<1> HIDE DEF r
<1>6. Members(r, n - 1) = Members(Entries(u), m)
  BY <1>1, <1>2, <1>4, <1>5
<1>7. m = n - 1 /\ Entries(u) = r
  <2>1. /\ IsRow(Entries(u), m, S) /\ Rises(Entries(u), m) /\ IsRow(r, n - 1, S) /\ Rises(r, n - 1) /\ n - 1 \in Nat
    BY <1>2, <1>5
  <2> QED
    BY <1>3, <1>6, <2>1, RisingRowsAgree
<1> QED
  BY <1>1, <1>2, <1>4, <1>7 DEF S, s, r

-----------------------------------------------------------------------------
(* WHAT A LOOP WILL MEET *)

(* Pointers v, m of them, lead to the entries of K to which ptr, n of them,*)
(* led, past those that are not in K.                                      *)
Bypasses(ptr, n, v, m, K) ==
    /\ n <= m
    /\ \A e \in 1 .. n : \/ v[e] = ptr[e] \/ ptr[e] = 0
                         \/ ptr[e] \notin K /\ v[e] = ptr[ptr[e]]

LEMMA MetInRange ==
    ASSUME NEW N \in Nat, NEW ptr, Ups(ptr, N), NEW e \in 0 .. N
    PROVE  Met(ptr, e) \in SUBSET (1 .. N)
<1>1. PICK n \in 0 .. N : IsRow(Follow(ptr, e), n, 1 .. N)
  BY FollowRises
<1>2. n \in Nat
  OBVIOUS
<1>3. ToSet(Follow(ptr, e)) = Members(Follow(ptr, e), n)
  BY <1>1, <1>2, MembersOf
<1>4. \A i \in 1 .. n : Follow(ptr, e)[i] \in 1 .. N
  BY <1>1 DEF IsRow
<1> QED
  BY <1>3, <1>4 DEF Met, Members

(* An entry is not met again.                                              *)
LEMMA MetBehind ==
    ASSUME NEW N \in Nat, NEW ptr, Ups(ptr, N), NEW e \in 1 .. N
    PROVE  /\ ptr[e] \in 0 .. N
           /\ Met(ptr, e) = {e} \cup Met(ptr, ptr[e]) /\ e \notin Met(ptr, ptr[e])
           /\ Follow(ptr, e) # <<>> /\ ToSet(Tail(Follow(ptr, e))) = Met(ptr, ptr[e])
<1> DEFINE s == Follow(ptr, ptr[e])
<1>1. Sinks(ptr, N, UpRank(N)) /\ ptr[e] \in 0 .. N /\ (ptr[e] # 0 => e < ptr[e])
  BY UpsSink DEF Ups
<1>2. Met(ptr, e) = {e} \cup Met(ptr, ptr[e]) /\ Tail(Follow(ptr, e)) = s /\ Follow(ptr, e) # <<>>
  BY <1>1, FollowUnfolds
<1>3. PICK n \in 0 .. N : IsRow(s, n, 1 .. N) /\ Path(ptr, ptr[e], n, s) /\ Rises(s, n)
  BY <1>1, FollowRises
<1>4. ToSet(s) = Members(s, n) /\ Met(ptr, ptr[e]) = Members(s, n)
  BY <1>3, MembersOf DEF Met
<1> HIDE DEF s
<1>5. \A i \in 1 .. n : e < s[i]
  <2> TAKE i \in 1 .. n
  <2>1. ptr[e] # 0 /\ s[1] = ptr[e] /\ 1 \in 1 .. n
    BY <1>3 DEF Path
  <2>2. s[1] \in Int /\ s[i] \in Int
    BY <1>3, <2>1 DEF IsRow
  <2>3. s[1] <= s[i]
    BY <1>3, <2>1, <2>2 DEF Rises
  <2> QED
    BY <1>1, <2>1, <2>2, <2>3
<1>6. e \notin Met(ptr, ptr[e])
  BY <1>4, <1>5 DEF Members
<1> QED
  BY <1>1, <1>2, <1>4, <1>6 DEF s

LEMMA MetKept ==
    ASSUME NEW n \in Nat, NEW ptr, Ups(ptr, n), NEW m \in Nat, NEW v, Ups(v, m), NEW K,
           Bypasses(ptr, n, v, m, K), NEW x \in 0 .. n
    PROVE  Met(ptr, x) \cap K \subseteq Met(v, x)
<1> DEFINE Kept(y) == Met(ptr, y) \cap K \subseteq Met(v, y)
           bad == {y \in 0 .. n : ~Kept(y)}
           T == {n - y : y \in bad}
<1>1. SUFFICES ASSUME bad # {} PROVE FALSE
  OBVIOUS
<1>2. T \in SUBSET Nat /\ T # {}
  BY <1>1
<1>3. PICK z \in T : \A c \in T : z <= c
  BY <1>2, LeastExists
<1>4. PICK y \in bad : z = n - y
  BY <1>3
<1>5. y \in 0 .. n /\ ~Kept(y) /\ \A c \in 0 .. n : y < c => Kept(c)
  <2>1. y \in 0 .. n /\ ~Kept(y)
    BY <1>4
  <2>2. ASSUME NEW c \in 0 .. n, y < c PROVE Kept(c)
    <3>1. SUFFICES ASSUME c \in bad PROVE FALSE
      BY <2>2
    <3> HIDE DEF bad
    <3>2. n - c \in T
      BY <3>1
    <3>3. n - y <= n - c
      BY <1>3, <1>4, <3>2
    <3> QED
      BY <2>1, <2>2, <3>3
  <2> QED
    BY <2>1, <2>2
<1> HIDE DEF bad, T
<1>6. Met(ptr, 0) = {}
  <2>1. Sinks(ptr, n, UpRank(n))
    BY UpsSink
  <2> QED
    BY <2>1, FollowNull
<1>7. y \in 1 .. n
  BY <1>5, <1>6
<1>8. /\ ptr[y] \in 0 .. n /\ Met(ptr, y) = {y} \cup Met(ptr, ptr[y])
      /\ ptr[y] # 0 => y < ptr[y]
  <2>1. ptr[y] \in 0 .. n /\ Met(ptr, y) = {y} \cup Met(ptr, ptr[y])
    BY <1>7, MetBehind
  <2>2. ptr[y] # 0 => y < ptr[y]
    BY <1>7 DEF Ups
  <2> QED
    BY <2>1, <2>2
<1>9. y \in 1 .. m /\ Met(v, y) = {y} \cup Met(v, v[y])
  <2>1. y \in 1 .. m
    BY <1>7 DEF Bypasses
  <2> QED
    BY <2>1, MetBehind
<1>10. ptr[y] # 0 => Kept(ptr[y])
  BY <1>5, <1>8
<1>11. v[y] = ptr[y] \/ ptr[y] = 0 \/ (ptr[y] \notin K /\ v[y] = ptr[ptr[y]])
  BY <1>7 DEF Bypasses
<1>12. CASE ptr[y] = 0
  BY <1>5, <1>6, <1>8, <1>9, <1>12
<1>13. CASE ptr[y] # 0 /\ v[y] = ptr[y]
  BY <1>5, <1>8, <1>9, <1>10, <1>13
<1>14. CASE ptr[y] # 0 /\ ptr[y] \notin K /\ v[y] = ptr[ptr[y]]
  <2> DEFINE w == ptr[y]
  <2>1. w \in 1 .. n
    BY <1>8, <1>14
  <2>2. /\ ptr[w] \in 0 .. n /\ Met(ptr, w) = {w} \cup Met(ptr, ptr[w])
        /\ ptr[w] # 0 => w < ptr[w]
    <3> HIDE DEF w
    <3>1. ptr[w] \in 0 .. n /\ Met(ptr, w) = {w} \cup Met(ptr, ptr[w])
      BY <2>1, MetBehind
    <3>2. ptr[w] # 0 => w < ptr[w]
      BY <2>1 DEF Ups
    <3> QED
      BY <3>1, <3>2
  <2>3. Met(ptr, ptr[w]) \cap K \subseteq Met(v, ptr[w])
    <3>1. ptr[w] # 0 => Kept(ptr[w])
      BY <1>5, <1>8, <1>14, <2>1, <2>2
    <3> QED
      BY <1>6, <3>1
  <2> QED
    BY <1>5, <1>8, <1>9, <1>14, <2>2, <2>3
<1> QED
  BY <1>11, <1>12, <1>13, <1>14

(* A table that changed and may be walked on: what a loop would have met   *)
(* from an entry on, and is still there, it will meet.                     *)
Keeps(t, u) ==
    /\ Len(t.entry) <= Len(u.entry) /\ t.kind = u.kind
    /\ Live(u) \cap Constructed(t) \subseteq Live(t)
    /\ \A x \in 0 .. Len(t.entry) : Met(NextOf(t), x) \cap Live(u) \subseteq Met(NextOf(u), x)

LEMMA KeepsItself ==
    ASSUME NEW t, Good(t)
    PROVE  Keeps(t, t)
<1>1. Len(t.entry) \in Nat
  BY FieldTypes DEF Good, Whole
<1> QED
  BY <1>1 DEF Keeps

LEMMA KeepsOn ==
    ASSUME NEW t, Good(t), NEW u, Good(u), NEW v, Good(v), Keeps(t, u), Keeps(u, v)
    PROVE  Keeps(t, v)
<1>1. /\ Len(t.entry) \in Nat /\ Len(u.entry) \in Nat /\ Len(v.entry) \in Nat
      /\ Ups(NextOf(t), Len(t.entry))
  BY FieldTypes, PointersOf DEF Good, Whole
<1>2. Len(t.entry) <= Len(v.entry) /\ t.kind = v.kind
  BY <1>1 DEF Keeps
<1>3. Constructed(t) \subseteq Constructed(u)
  BY <1>1 DEF Keeps, Constructed
<1>4. Live(v) \cap Constructed(t) \subseteq Live(t)
  BY <1>3 DEF Keeps
<1>5. ASSUME NEW x \in 0 .. Len(t.entry)
      PROVE  Met(NextOf(t), x) \cap Live(v) \subseteq Met(NextOf(v), x)
  <2>1. Met(NextOf(t), x) \in SUBSET Constructed(t)
    BY <1>1, MetInRange DEF Constructed
  <2>2. x \in 0 .. Len(u.entry)
    BY <1>1 DEF Keeps
  <2>3. Met(NextOf(t), x) \cap Live(u) \subseteq Met(NextOf(u), x)
    BY DEF Keeps
  <2>4. Met(NextOf(u), x) \cap Live(v) \subseteq Met(NextOf(v), x)
    BY <2>2 DEF Keeps
  <2>5. Live(v) \cap Constructed(u) \subseteq Live(u)
    BY DEF Keeps
  <2> QED
    BY <1>3, <2>1, <2>3, <2>4, <2>5
<1> QED
  BY <1>2, <1>4, <1>5 DEF Keeps

-----------------------------------------------------------------------------
(* ITEMS *)

ItemType == {x \in [hash : Int, key : Objects, value : Objects] : x.hash = Hash(x.key)}

ItemAt(t, e) == [hash |-> t.entry[e].hash, key |-> t.entry[e].key, value |-> t.entry[e].value]

Distinct(s, n) == \A i, j \in 1 .. n : s[i].hash = s[j].hash => i = j

(* The items are those of the entries of the list.                         *)
ItemsAre(t, s, n) == \A i \in 1 .. n : s[i] = ItemAt(t, Entries(t)[i])

LEMMA ItemsOf ==
    ASSUME NEW t, Good(t)
    PROVE  \E n \in Nat : /\ IsRow(Entries(t), n, Constructed(t)) /\ Len(Entries(t)) = n
                          /\ Members(Entries(t), n) = Live(t) /\ Rises(Entries(t), n)
                          /\ IsRow(Items(t), n, ItemType) /\ Len(Items(t)) = n
                          /\ ItemsAre(t, Items(t), n) /\ Distinct(Items(t), n)
<1> DEFINE L == Live(t)
           s == Items(t)
           r == Entries(t)
<1>1. t \in TableType /\ Pointing(t) /\ Lists(t, L) /\ Chains(t, L)
  BY DEF Good, Whole
<1>2. PICK n \in Nat : /\ IsRow(r, n, Constructed(t)) /\ Rises(r, n)
                       /\ Members(r, n) = L /\ Len(r) = n
  BY <1>1, ListIsMet
<1>3. DOMAIN r = 1 .. n /\ \A i \in 1 .. n : r[i] \in Constructed(t) /\ r[i] \in L
  <2>1. DOMAIN r = 1 .. n
    BY <1>2, MembersOf
  <2>2. \A i \in 1 .. n : r[i] \in Constructed(t) /\ r[i] \in Members(r, n)
    BY <1>2 DEF IsRow, Members
  <2> QED
    BY <1>2, <2>1, <2>2
<1>4. s = [i \in 1 .. n |-> ItemAt(t, r[i])]
  BY <1>3 DEF Items, ItemAt
<1> HIDE DEF s, r, L
<1>5. ASSUME NEW e \in Constructed(t) PROVE ItemAt(t, e) \in ItemType /\ ItemAt(t, e).hash = t.entry[e].hash
  <2>1. t.entry[e].hash \in Int /\ t.entry[e].key \in Objects /\ t.entry[e].value \in Objects
    BY <1>1, EntryTypes
  <2>2. t.entry[e].hash = Hash(t.entry[e].key)
    BY <1>1 DEF Pointing
  <2> QED
    BY <2>1, <2>2 DEF ItemAt, ItemType
<1>6. s \in [1 .. n -> ItemType] /\ \A i \in 1 .. n : s[i] = ItemAt(t, r[i])
  BY <1>3, <1>4, <1>5
<1>7. Len(s) = n
  BY <1>6, SequenceLength
<1>8. Distinct(s, n)
  <2> SUFFICES ASSUME NEW i \in 1 .. n, NEW j \in 1 .. n, s[i].hash = s[j].hash PROVE i = j
    BY DEF Distinct
  <2>1. t.entry[r[i]].hash = t.entry[r[j]].hash
    BY <1>3, <1>5, <1>6
  <2>2. r[i] = r[j]
    BY <1>1, <1>3, <2>1 DEF Chains
  <2>3. r[i] \in Int
    BY <1>3, <1>1, FieldTypes DEF Constructed
  <2>4. /\ i < j => r[i] < r[j]
        /\ j < i => r[j] < r[i]
    BY <1>2 DEF Rises
  <2> QED
    BY <2>2, <2>3, <2>4
<1>9. ItemsAre(t, s, n)
  BY <1>6 DEF ItemsAre, r
<1> QED
  BY <1>2, <1>6, <1>7, <1>8, <1>9 DEF IsRow, s, r, L

(* A table is good if it is whole with some entries and counts them.       *)
LEMMA IsGood ==
    ASSUME NEW t, NEW L, Whole(t, L)
    PROVE  Live(t) = L /\ (Sized(t) => Good(t))
<1>1. Live(t) = L
  BY ListIsMet DEF Whole
<1> QED
  BY <1>1 DEF Good

-----------------------------------------------------------------------------
(* A HASH THAT IS NEW *)

LEMMA LinkGood ==
    ASSUME NEW t, Good(t), NEW k \in Objects, NEW v \in Objects, NEW h, h = Hash(k), h \in Int, Find(t, h) = 0,
           NEW u, u = Link(t, h, k, v)
    PROVE  /\ Good(u) /\ Keeps(t, u)
           /\ Items(u) = Append(Items(t), [hash |-> h, key |-> k, value |-> v])
           /\ \A i \in DOMAIN Items(t) : Items(t)[i].hash # h
<1> DEFINE N == Len(t.entry)
           L == Live(t)
           new == N + 1
           x == [hash |-> h, key |-> k, value |-> v]
<1>1. t \in TableType /\ Pointing(t) /\ Lists(t, L) /\ Chains(t, L) /\ N \in Nat /\ Whole(t, L)
  BY FieldTypes DEF Good, Whole
<1>2. L \subseteq 1 .. N /\ t.back \in L \cup {0} /\ t.back \in 0 .. N
  <2>1. L \subseteq 1 .. N /\ t.back \in L \cup {0}
    BY <1>1 DEF Lists, Constructed
  <2>2. L \cup {0} \subseteq 0 .. N
    BY <1>1, <2>1
  <2> QED
    BY <2>1, <2>2
<1>3. LinkedTo(t, u, h, k, v)
  BY <1>1, <1>2, LinkLinks
<1>4. \A e \in L : t.entry[e].hash # h
  <2> TAKE e \in L
  <2>1. SUFFICES ASSUME t.entry[e].hash = h PROVE FALSE
    OBVIOUS
  <2>2. Find(t, h) = e
    BY <1>1, <2>1, FindFinds
  <2> QED
    BY <1>1, <1>2, <2>2
<1>5. Whole(u, L \cup {new})
  BY <1>1, <1>3, <1>4, LinkKeepsWhole
<1>6. Constructed(u) = 1 .. new /\ Len(u.entry) = new /\ u.kind = t.kind /\ u \in TableType /\ Pointing(u)
  BY <1>3, <1>5 DEF LinkedTo, Constructed, Whole
<1>7. Entries(u) = Append(Entries(t), new) /\ Live(u) = L \cup {new}
  <2> HIDE DEF N, L
  <2>1. N = Len(t.entry)
    BY DEF N
  <2>4. Whole(t, L) /\ Whole(u, L \cup {N + 1})
    BY <1>1, <1>5
  <2>5. Constructed(u) = 1 .. N + 1
    BY <1>6
  <2>2. Entries(u) = Append(Entries(t), N + 1)
    BY <2>1, <2>4, <2>5, LinkedList
  <2>3. Live(u) = Live(t) \cup {N + 1}
    BY <2>1, <2>4, <2>5, LinkedList
  <2> QED
    BY <2>2, <2>3 DEF L
<1>8. PICK n \in Nat : /\ IsRow(Entries(t), n, Constructed(t)) /\ Len(Entries(t)) = n
                       /\ Members(Entries(t), n) = L
                       /\ IsRow(Items(t), n, ItemType) /\ Len(Items(t)) = n /\ ItemsAre(t, Items(t), n)
  BY ItemsOf
<1>9. IsRow(Entries(u), n + 1, Constructed(u)) /\ Adds(Entries(u), Entries(t), n, new)
  <2>1. IsRow(Entries(t), n, Constructed(u)) /\ new \in Constructed(u)
    BY <1>1, <1>6, <1>8 DEF IsRow, Constructed
  <2> HIDE DEF new
  <2> QED
    BY <1>7, <2>1, Appended
<1>10. Sized(u)
  <2>1. Len(Entries(u)) = n + 1
    BY <1>9, MembersOf
  <2>2. t.kind = "set" => t.size = n /\ u.size = t.size + 1
    BY <1>3, <1>8 DEF Good, Sized, LinkedTo
  <2> QED
    BY <1>6, <2>1, <2>2 DEF Sized
<1>11. Good(u)
  BY <1>5, <1>10, IsGood
<1>12. Keeps(t, u)
  <2>1. Ups(NextOf(t), N) /\ Ups(NextOf(u), new) /\ new \in Nat
    BY <1>1, <1>6, PointersOf
  <2>2. /\ \A e \in 1 .. N : NextOf(t)[e] = t.entry[e].next
        /\ \A e \in 1 .. new : NextOf(u)[e] = u.entry[e].next
    BY <1>1, <1>6, PointersOf DEF Constructed
  <2>3. t.back # 0 => t.entry[t.back].next = 0
    <3> HAVE t.back # 0
    <3>1. t.back \in L /\ t.back \in 1 .. N
      BY <1>2
    <3>2. t.entry[t.back].next \in L \cup {0} /\ (t.entry[t.back].next # 0 => t.back < t.entry[t.back].next)
      BY <1>1, <3>1 DEF Lists, Pointing, Constructed
    <3>3. t.entry[t.back].next \in L => t.entry[t.back].next <= t.back
      BY <1>1 DEF Lists
    <3> QED
      BY <1>2, <3>1, <3>2, <3>3
  <2>4. Bypasses(NextOf(t), N, NextOf(u), new, Live(u))
    <3>1. \A e \in 1 .. N : u.entry[e].next = IF e = t.back THEN new ELSE t.entry[e].next
      BY <1>3 DEF LinkedTo, Constructed
    <3>2. \A e \in 1 .. N : NextOf(u)[e] = NextOf(t)[e] \/ NextOf(t)[e] = 0
      BY <1>1, <2>2, <2>3, <3>1
    <3> QED
      BY <1>1, <3>2 DEF Bypasses
  <2>5. \A y \in 0 .. N : Met(NextOf(t), y) \cap Live(u) \subseteq Met(NextOf(u), y)
    <3> HIDE DEF N, new
    <3> QED
      BY <1>1, <2>1, <2>4, MetKept
  <2>6. Live(u) \cap Constructed(t) \subseteq Live(t)
    BY <1>1, <1>7 DEF Constructed
  <2> QED
    BY <1>1, <1>6, <2>5, <2>6 DEF Keeps
<1>13. \A i \in 1 .. n : Items(t)[i] = ItemAt(t, Entries(t)[i]) /\ Entries(t)[i] \in L
  BY <1>8 DEF ItemsAre, Members
<1>14. Items(u) = Append(Items(t), x)
  <2>1. PICK m \in Nat : /\ Len(Entries(u)) = m /\ IsRow(Items(u), m, ItemType) /\ ItemsAre(u, Items(u), m)
    BY <1>11, ItemsOf
  <2>2. m = n + 1
    BY <1>9, <2>1, MembersOf
  <2>3. ASSUME NEW i \in 1 .. n PROVE Items(u)[i] = Items(t)[i]
    <3>1. Items(u)[i] = ItemAt(u, Entries(t)[i]) /\ Items(t)[i] = ItemAt(t, Entries(t)[i])
      BY <1>9, <1>13, <2>1, <2>2 DEF Adds, ItemsAre
    <3>2. Entries(t)[i] \in Constructed(t)
      BY <1>8 DEF IsRow
    <3>3. SameItem(u.entry[Entries(t)[i]], t.entry[Entries(t)[i]])
      BY <1>3, <3>2 DEF LinkedTo
    <3> QED
      BY <3>1, <3>3 DEF SameItem, ItemAt
  <2>4. Items(u)[n + 1] = x
    <3>1. Items(u)[n + 1] = ItemAt(u, new)
      BY <1>9, <2>1, <2>2 DEF Adds, ItemsAre
    <3>2. u.entry[new].hash = h /\ u.entry[new].key = k /\ u.entry[new].value = v
      BY <1>3 DEF LinkedTo
    <3> QED
      BY <3>1, <3>2 DEF ItemAt
  <2>5. x \in ItemType
    BY DEF ItemType
  <2>6. IsRow(Append(Items(t), x), n + 1, ItemType) /\ Adds(Append(Items(t), x), Items(t), n, x)
    <3> HIDE DEF x
    <3> QED
      BY <1>8, <2>5, Appended
  <2> DEFINE a == Append(Items(t), x)
             b == Items(u)
  <2>7. a \in [1 .. n + 1 -> ItemType] /\ b \in [1 .. n + 1 -> ItemType]
    BY <2>1, <2>2, <2>6 DEF IsRow
  <2>8. \A i \in 1 .. n + 1 : a[i] = b[i]
    <3>1. \A i \in 1 .. n : a[i] = b[i]
      BY <2>3, <2>6 DEF Adds
    <3>2. a[n + 1] = b[n + 1]
      BY <2>4, <2>6 DEF Adds
    <3> HIDE DEF a, b
    <3> QED
      BY <3>1, <3>2
  <2> HIDE DEF a, b
  <2>9. a = b
    BY <2>7, <2>8
  <2> QED
    BY <2>9 DEF a, b
<1>15. \A i \in DOMAIN Items(t) : Items(t)[i].hash # h
  <2>1. DOMAIN Items(t) = 1 .. n
    BY <1>8, MembersOf
  <2> QED
    BY <1>4, <1>13, <2>1 DEF ItemAt
<1> QED
  BY <1>11, <1>12, <1>14, <1>15

-----------------------------------------------------------------------------
(* A HASH THAT IS THERE *)

(* Tables that differ in keys and values only.                             *)
Reworded(t, u) ==
    /\ u \in TableType /\ u.kind = t.kind /\ Len(u.entry) = Len(t.entry)
    /\ u.bucket = t.bucket /\ u.front = t.front /\ u.back = t.back /\ u.size = t.size
    /\ \A i \in Constructed(t) : /\ u.entry[i].hash = t.entry[i].hash
                                 /\ u.entry[i].hash = Hash(u.entry[i].key)
                                 /\ u.entry[i].next = t.entry[i].next
                                 /\ u.entry[i].prev = t.entry[i].prev
                                 /\ u.entry[i].child = t.entry[i].child

LEMMA RewordedGood ==
    ASSUME NEW t, Good(t), NEW u, Reworded(t, u)
    PROVE  Good(u) /\ Keeps(t, u) /\ Entries(u) = Entries(t) /\ Live(u) = Live(t)
<1> DEFINE N == Len(t.entry)
           L == Live(t)
<1>1. t \in TableType /\ Pointing(t) /\ Lists(t, L) /\ Chains(t, L) /\ N \in Nat /\ Sized(t)
  BY FieldTypes DEF Good, Whole
<1>2. /\ Constructed(t) = 1 .. N /\ Constructed(u) = 1 .. N /\ L \subseteq 1 .. N
      /\ u \in TableType /\ u.kind = t.kind /\ Len(u.entry) = N
      /\ u.bucket = t.bucket /\ u.front = t.front /\ u.back = t.back /\ u.size = t.size
  BY <1>1 DEF Reworded, Constructed, Lists
<1> HIDE DEF N
<1>3. \A i \in 1 .. N : /\ u.entry[i].hash = t.entry[i].hash
                        /\ u.entry[i].hash = Hash(u.entry[i].key)
                        /\ u.entry[i].next = t.entry[i].next
                        /\ u.entry[i].prev = t.entry[i].prev
                        /\ u.entry[i].child = t.entry[i].child
                        /\ BucketOf(u, i) = BucketOf(t, i)
  BY <1>2 DEF Reworded, BucketOf
<1>4. NextOf(u) = NextOf(t)
  <2>1. DOMAIN u.entry = 1 .. N /\ DOMAIN t.entry = 1 .. N
    BY <1>1, <1>2, FieldTypes
  <2> QED
    BY <1>3, <2>1 DEF NextOf
<1>5. Entries(u) = Entries(t)
  BY <1>2, <1>4 DEF Entries, PathFrom
<1>6. Live(u) = L
  BY <1>5 DEF Live
<1> HIDE DEF L
<1>7. Pointing(u)
  <2>1. \A e \in 1 .. N : /\ t.entry[e].next \in 0 .. N
                          /\ t.entry[e].next # 0 => e < t.entry[e].next
                          /\ t.entry[e].child < e
    BY <1>1, <1>2 DEF Pointing, N
  <2> QED
    BY <1>2, <1>3, <2>1 DEF Pointing
<1>8. Lists(u, L)
  <2>1. \A e \in L : u.entry[e].next = t.entry[e].next /\ u.entry[e].prev = t.entry[e].prev
    BY <1>2, <1>3
  <2> QED
    BY <1>1, <1>2, <2>1 DEF Lists
<1>9. Chains(u, L)
  <2>1. \A e \in L : /\ u.entry[e].child = t.entry[e].child /\ BucketOf(u, e) = BucketOf(t, e)
                     /\ u.entry[e].hash = t.entry[e].hash /\ e # 0
    <3> TAKE e \in L
    <3>1. e \in 1 .. N /\ e # 0
      BY <1>1, <1>2
    <3> QED
      BY <1>3, <3>1
  <2>2. \A b \in 0 .. BucketSize - 1 : t.bucket[b] \in L \cup {0} /\ u.bucket[b] = t.bucket[b]
    BY <1>1, <1>2 DEF Chains
  <2>3. \A e \in L : t.entry[e].child \in L \cup {0}
    BY <1>1 DEF Chains
  <2>4. \A b \in 0 .. BucketSize - 1 : /\ u.bucket[b] \in L \cup {0}
                                       /\ u.bucket[b] # 0 => BucketOf(u, u.bucket[b]) = b
    BY <1>1, <2>1, <2>2 DEF Chains
  <2>5. \A e \in L : e <= u.bucket[BucketOf(u, e)]
    BY <1>1, <1>2, <2>1 DEF Chains
  <2>6. \A e \in L : /\ u.entry[e].child \in L \cup {0}
                     /\ u.entry[e].child # 0 => BucketOf(u, u.entry[e].child) = BucketOf(u, e)
    BY <1>1, <2>1, <2>3 DEF Chains
  <2>7. \A e, f \in L : e < f /\ BucketOf(u, e) = BucketOf(u, f) => e <= u.entry[f].child
    BY <1>1, <2>1 DEF Chains
  <2>8. \A e, f \in L : u.entry[e].hash = u.entry[f].hash => e = f
    BY <1>1, <2>1 DEF Chains
  <2> QED
    BY <2>4, <2>5, <2>6, <2>7, <2>8 DEF Chains
<1>10. Sized(u)
  BY <1>1, <1>2, <1>5 DEF Sized
<1>11. Good(u)
  BY <1>2, <1>6, <1>7, <1>8, <1>9, <1>10 DEF Good, Whole
<1>12. Keeps(t, u)
  BY <1>1, <1>2, <1>4, <1>6 DEF Keeps, L, N
<1> QED
  BY <1>5, <1>6, <1>11, <1>12 DEF L

(* The item at one place is replaced.                                      *)
Replaced(k, s, r, n, p, x) ==
    /\ IsRow(s, n, ItemType) /\ Len(s) = n /\ p \in 1 .. n /\ s[p].hash = x.hash /\ Distinct(s, n)
    /\ r = [s EXCEPT ![p] = IF k = "dictionary" THEN [@ EXCEPT !.value = x.value] ELSE x]

LEMMA InsertReplaces ==
    ASSUME NEW t, Good(t), NEW k \in Objects, NEW v \in Objects, NEW h, h = Hash(k), h \in Int, Find(t, h) # 0,
           NEW u, u = Insert(t, h, k, v)
    PROVE  /\ Good(u) /\ Keeps(t, u)
           /\ \E n \in Nat : \E p \in 1 .. n :
                 Replaced(t.kind, Items(t), Items(u), n, p, [hash |-> h, key |-> k, value |-> v])
<1> DEFINE N == Len(t.entry)
           L == Live(t)
           e == Find(t, h)
           x == [hash |-> h, key |-> k, value |-> v]
           key == IF t.kind = "dictionary" THEN t.entry[e].key ELSE k
           y == [t.entry[e] EXCEPT !.value = v, !.key = key]
           entry == [t.entry EXCEPT ![e] = y]
<1>1. t \in TableType /\ Pointing(t) /\ Lists(t, L) /\ Chains(t, L) /\ N \in Nat /\ Whole(t, L)
  BY FieldTypes DEF Good, Whole
<1>2. e \in L /\ t.entry[e].hash = h /\ L \subseteq 1 .. N
  <2>1. Find(t, h) \in L \cup {0} /\ t.entry[Find(t, h)].hash = h
    BY <1>1, FindFinds
  <2> QED
    BY <1>1, <2>1 DEF Lists, Constructed
<1> HIDE DEF L
<1>3. /\ t.kind \in Kinds /\ t.entry \in Seq(EntryType) /\ DOMAIN t.entry = 1 .. N
      /\ e \in 1 .. N /\ t.entry[e] \in EntryType
      /\ t.entry[e].key \in Objects /\ t.entry[e].hash = Hash(t.entry[e].key)
  <2>1. e \in 1 .. N
    BY <1>2
  <2> HIDE DEF e
  <2> QED
    BY <1>1, <2>1, FieldTypes, EntryTypes DEF Constructed, Pointing
<1>4. u = [t EXCEPT !.entry = entry]
  <2>1. u = [t EXCEPT !.entry[e].value = v, !.entry[e].key = IF t.kind = "dictionary" THEN @ ELSE k]
    BY DEF Insert, Null
  <2> DEFINE a == t.entry
             b == t.kind
  <2>2. a[e] \in EntryType /\ e \in DOMAIN a /\ t.entry = a /\ t.kind = b
    BY <1>3
  <2> HIDE DEF a, b, e
  <2> QED
    BY <1>1, <2>1, <2>2 DEF EntryType, TableType
<1>5. key \in Objects /\ h = Hash(key)
  BY <1>2, <1>3
<1>6. y \in EntryType /\ y.hash = h /\ y.key = key /\ y.value = v /\ y.next = t.entry[e].next
      /\ y.prev = t.entry[e].prev /\ y.child = t.entry[e].child
  <2> DEFINE z == t.entry[e]
  <2>1. z \in EntryType /\ z.hash = h /\ y = [z EXCEPT !.value = v, !.key = key]
    BY <1>2, <1>3
  <2> HIDE DEF z, y, key
  <2>2. y \in EntryType /\ y.hash = h /\ y.key = key /\ y.value = v /\ y.next = z.next
        /\ y.prev = z.prev /\ y.child = z.child
    BY <1>5, <2>1 DEF EntryType
  <2> QED
    BY <2>2 DEF z
<1> HIDE DEF y, key
<1>7. /\ entry \in Seq(EntryType) /\ Len(entry) = N
      /\ \A i \in 1 .. N : entry[i] = IF i = e THEN y ELSE t.entry[i]
  <2> HIDE DEF e
  <2> QED
    BY <1>1, <1>3, <1>6, ExceptSeq
<1> HIDE DEF entry, e
<1>8. u \in TableType /\ u.entry = entry /\ u.kind = t.kind /\ Len(u.entry) = N
      /\ u.bucket = t.bucket /\ u.front = t.front /\ u.back = t.back /\ u.size = t.size
  BY <1>1, <1>4, <1>7 DEF TableType
<1>9. \A i \in 1 .. N : t.entry[i].hash = Hash(t.entry[i].key)
  BY <1>1 DEF Pointing, Constructed
<1>10. Reworded(t, u)
  <2>1. \A i \in 1 .. N : /\ u.entry[i].hash = t.entry[i].hash
                          /\ u.entry[i].next = t.entry[i].next
                          /\ u.entry[i].prev = t.entry[i].prev
                          /\ u.entry[i].child = t.entry[i].child
    BY <1>2, <1>6, <1>7, <1>8
  <2>2. \A i \in 1 .. N : u.entry[i].hash = Hash(u.entry[i].key)
    BY <1>5, <1>6, <1>7, <1>8, <1>9
  <2> QED
    BY <1>8, <2>1, <2>2 DEF Reworded, Constructed
<1>11. Good(u) /\ Keeps(t, u) /\ Entries(u) = Entries(t)
  BY <1>10, RewordedGood
<1>12. PICK n \in Nat : /\ IsRow(Entries(t), n, Constructed(t)) /\ Len(Entries(t)) = n
                        /\ Members(Entries(t), n) = L /\ Rises(Entries(t), n)
                        /\ IsRow(Items(t), n, ItemType) /\ Len(Items(t)) = n
                        /\ ItemsAre(t, Items(t), n) /\ Distinct(Items(t), n)
  BY ItemsOf DEF L
<1>13. IsRow(Items(u), n, ItemType) /\ ItemsAre(u, Items(u), n)
  <2>1. PICK m \in Nat : /\ Len(Entries(u)) = m /\ IsRow(Items(u), m, ItemType) /\ ItemsAre(u, Items(u), m)
    BY <1>11, ItemsOf
  <2> QED
    BY <1>11, <1>12, <2>1
<1>14. PICK p \in 1 .. n : Entries(t)[p] = e
  BY <1>2, <1>12 DEF Members
<1> DEFINE s == Items(t)
           r == Items(u)
<1>15. \A i \in 1 .. n : /\ s[i] = ItemAt(t, Entries(t)[i]) /\ r[i] = ItemAt(u, Entries(t)[i])
                         /\ Entries(t)[i] \in 1 .. N /\ (i # p => Entries(t)[i] # e)
  <2> TAKE i \in 1 .. n
  <2>1. s[i] = ItemAt(t, Entries(t)[i]) /\ r[i] = ItemAt(u, Entries(t)[i])
    BY <1>11, <1>12, <1>13 DEF ItemsAre
  <2>2. Entries(t)[i] \in 1 .. N /\ Entries(t)[p] \in 1 .. N
    BY <1>12 DEF IsRow, Constructed
  <2>3. (i < p => Entries(t)[i] < Entries(t)[p]) /\ (p < i => Entries(t)[p] < Entries(t)[i])
    BY <1>12 DEF Rises
  <2>4. i # p => Entries(t)[i] # e
    BY <1>1, <1>14, <2>2, <2>3
  <2> QED
    BY <2>1, <2>2, <2>4
<1> HIDE DEF s, r
<1>16. \A i \in 1 .. n : i # p => r[i] = s[i]
  <2> TAKE i \in 1 .. n
  <2> HAVE i # p
  <2> DEFINE f == Entries(t)[i]
  <2>1. s[i] = ItemAt(t, f) /\ r[i] = ItemAt(u, f) /\ f \in 1 .. N /\ f # e
    BY <1>15
  <2> HIDE DEF f
  <2>2. u.entry[f] = t.entry[f]
    BY <1>7, <1>8, <2>1
  <2> QED
    BY <2>1, <2>2 DEF ItemAt
<1>17. /\ s[p] = [hash |-> h, key |-> t.entry[e].key, value |-> t.entry[e].value]
       /\ r[p] = [hash |-> h, key |-> key, value |-> v]
  BY <1>2, <1>3, <1>6, <1>7, <1>8, <1>14, <1>15 DEF ItemAt
<1> DEFINE w == IF t.kind = "dictionary" THEN [s[p] EXCEPT !.value = x.value] ELSE x
<1>18. r[p] = w
  BY <1>17 DEF key
<1>19. r = [s EXCEPT ![p] = w]
  <2> HIDE DEF w
  <2>1. r \in [1 .. n -> ItemType] /\ s \in [1 .. n -> ItemType]
    BY <1>12, <1>13 DEF IsRow, r, s
  <2> QED
    BY <1>16, <1>18, <2>1
<1>20. r = [s EXCEPT ![p] = IF t.kind = "dictionary" THEN [@ EXCEPT !.value = x.value] ELSE x]
  <2>1. s \in [1 .. n -> ItemType]
    BY <1>12 DEF IsRow, s
  <2> HIDE DEF x
  <2> QED
    BY <1>19, <2>1
<1>21. Replaced(t.kind, s, r, n, p, x)
  <2>1. s[p].hash = x.hash
    BY <1>17
  <2>2. IsRow(s, n, ItemType) /\ Len(s) = n /\ Distinct(s, n)
    BY <1>12 DEF s
  <2> QED
    BY <1>20, <2>1, <2>2 DEF Replaced
<1> QED
  BY <1>11, <1>21 DEF s, r

(* No item has the hash.                                                   *)
Unknown(s, h) == \A i \in DOMAIN s : s[i].hash # h

LEMMA NotFound ==
    ASSUME NEW t, Good(t), NEW h \in Int
    PROVE  Find(t, h) = 0 <=> Unknown(Items(t), h)
<1> DEFINE L == Live(t)
<1>1. Whole(t, L) /\ 0 \notin L
  BY DEF Good, Whole, Lists, Constructed
<1>2. PICK n \in Nat : /\ IsRow(Entries(t), n, Constructed(t)) /\ Members(Entries(t), n) = L
                       /\ IsRow(Items(t), n, ItemType) /\ ItemsAre(t, Items(t), n)
  BY ItemsOf
<1>3. DOMAIN Items(t) = 1 .. n
  BY <1>2, MembersOf
<1>4. \A i \in 1 .. n : Items(t)[i].hash = t.entry[Entries(t)[i]].hash /\ Entries(t)[i] \in L
  <2> TAKE i \in 1 .. n
  <2>1. Items(t)[i] = ItemAt(t, Entries(t)[i])
    BY <1>2 DEF ItemsAre
  <2>2. Entries(t)[i] \in Members(Entries(t), n)
    BY DEF Members
  <2> HIDE DEF L
  <2> QED
    BY <1>2, <2>1, <2>2 DEF ItemAt
<1>5. ASSUME Find(t, h) = 0, NEW i \in 1 .. n, Items(t)[i].hash = h PROVE FALSE
  <2>1. Entries(t)[i] \in L /\ t.entry[Entries(t)[i]].hash = h
    BY <1>4, <1>5
  <2>2. Find(t, h) = Entries(t)[i]
    BY <1>1, <2>1, FindFinds
  <2> QED
    BY <1>1, <1>5, <2>1, <2>2
<1>6. ASSUME Find(t, h) # 0 PROVE \E i \in 1 .. n : Items(t)[i].hash = h
  <2>1. Find(t, h) \in L \cup {0} /\ t.entry[Find(t, h)].hash = h
    BY <1>1, <1>6, FindFinds
  <2>2. PICK i \in 1 .. n : Entries(t)[i] = Find(t, h)
    BY <1>2, <1>6, <2>1 DEF Members
  <2> QED
    BY <1>4, <2>1, <2>2
<1> QED
  BY <1>3, <1>5, <1>6 DEF Unknown

-----------------------------------------------------------------------------
(* A HASH THAT IS ERASED *)

Dropped(s, r, n, p, h) ==
    /\ IsRow(s, n, ItemType) /\ Len(s) = n /\ p \in 1 .. n /\ s[p].hash = h /\ Distinct(s, n)
    /\ r = Shorter(s, n, p)

LEMMA EraseDrops ==
    ASSUME NEW t, Good(t), NEW h \in Int, Find(t, h) # 0, NEW u, u = Erase(t, h)
    PROVE  /\ Good(u) /\ Keeps(t, u)
           /\ \E n \in Nat : \E p \in 1 .. n : Dropped(Items(t), Items(u), n, p, h)
<1> DEFINE N == Len(t.entry)
           L == Live(t)
           e == Find(t, h)
           M == L \ {e}
<1>1. t \in TableType /\ Pointing(t) /\ Lists(t, L) /\ Chains(t, L) /\ N \in Nat /\ Whole(t, L) /\ Sized(t)
  BY FieldTypes DEF Good, Whole
<1>2. e \in L /\ Unlinked(t, u, L, e) /\ Resized(t, u)
  BY <1>1, EraseErases
<1>3. t.entry[e].hash = h
  BY <1>1, FindFinds
<1> HIDE DEF e, L, N
<1>4. Whole(u, M)
  BY <1>1, <1>2, EraseKeepsWhole
<1>5. Constructed(u) = Constructed(t) /\ Len(u.entry) = N /\ u.kind = t.kind /\ u \in TableType /\ Pointing(u)
  BY <1>2, <1>4 DEF Unlinked, Constructed, Whole, N
<1>6. PICK n \in Nat : \E p \in 1 .. n :
              /\ IsRow(Entries(t), n, Constructed(t)) /\ Len(Entries(t)) = n /\ Entries(t)[p] = e
              /\ Entries(u) = Shorter(Entries(t), n, p) /\ Len(Entries(u)) = n - 1
  BY <1>1, <1>2, <1>4, <1>5, ErasedList
<1>7. PICK p \in 1 .. n :
              /\ IsRow(Entries(t), n, Constructed(t)) /\ Len(Entries(t)) = n /\ Entries(t)[p] = e
              /\ Entries(u) = Shorter(Entries(t), n, p) /\ Len(Entries(u)) = n - 1
  BY <1>6
<1>8. Sized(u)
  <2>1. t.kind = "set" => t.size = n /\ u.size = t.size - 1
    BY <1>1, <1>2, <1>7 DEF Sized, Resized
  <2> QED
    BY <1>5, <1>7, <2>1 DEF Sized
<1>9. Good(u) /\ Live(u) = M
  BY <1>4, <1>8, IsGood
<1>10. Keeps(t, u)
  <2> DEFINE ptr == NextOf(t)
             v == NextOf(u)
             a == t.entry[e].next
             b == t.entry[e].prev
  <2>1. Ups(ptr, N) /\ Ups(v, N)
    BY <1>1, <1>5, PointersOf DEF N
  <2>2. \A i \in 1 .. N : ptr[i] = t.entry[i].next /\ v[i] = u.entry[i].next
    BY <1>1, <1>5, PointersOf DEF N, Constructed
  <2> HIDE DEF ptr, v
  <2>3. \A i \in 1 .. N : u.entry[i].next = IF i = b THEN a ELSE t.entry[i].next
    BY <1>2 DEF Unlinked, Constructed, N
  <2>4. L \subseteq 1 .. N /\ e \in 1 .. N
    BY <1>1, <1>2 DEF Lists, Constructed, N
  <2>5. b # 0 => t.entry[b].next = e
    <3> HAVE b # 0
    <3>1. b \in L /\ b < e
      BY <1>1, <1>2 DEF Lists
    <3> HIDE DEF b
    <3>2. t.entry[b].next # 0 /\ t.entry[b].next <= e /\ t.entry[b].next \in L \cup {0}
      BY <1>1, <1>2, <3>1 DEF Lists
    <3>3. t.entry[b].next < e => t.entry[b].next <= b
      BY <1>1, <1>2, <3>2 DEF Lists, b
    <3>4. b < t.entry[b].next
      BY <1>1, <2>4, <3>1, <3>2 DEF Pointing, Constructed, N
    <3>5. b \in 1 .. N /\ t.entry[b].next \in 1 .. N
      BY <2>4, <3>1, <3>2
    <3> QED
      BY <2>4, <3>2, <3>3, <3>4, <3>5
  <2>6. Bypasses(ptr, N, v, N, M)
    <3>1. \A i \in 1 .. N : v[i] = ptr[i] \/ (ptr[i] = e /\ v[i] = ptr[e])
      BY <2>2, <2>3, <2>4, <2>5
    <3>2. N <= N
      BY <1>1
    <3> QED
      BY <3>1, <3>2 DEF Bypasses
  <2>7. \A x \in 0 .. N : Met(ptr, x) \cap M \subseteq Met(v, x)
    <3> HIDE DEF M
    <3> QED
      BY <1>1, <2>1, <2>6, MetKept
  <2> QED
    BY <1>1, <1>5, <1>9, <2>7 DEF Keeps, N, L, ptr, v
<1>11. PICK m \in Nat : /\ Len(Entries(t)) = m /\ IsRow(Items(t), m, ItemType) /\ Len(Items(t)) = m
                        /\ ItemsAre(t, Items(t), m) /\ Distinct(Items(t), m)
  BY ItemsOf
<1>12. m = n
  BY <1>7, <1>11
<1>13. PICK l \in Nat : Len(Entries(u)) = l /\ IsRow(Items(u), l, ItemType) /\ ItemsAre(u, Items(u), l)
  BY <1>9, ItemsOf
<1>14. l = n - 1 /\ n - 1 \in Nat
  BY <1>7, <1>13
<1>15. \A i \in 1 .. n : Items(t)[i] = ItemAt(t, Entries(t)[i]) /\ Entries(t)[i] \in Constructed(t)
  BY <1>7, <1>11, <1>12 DEF ItemsAre, IsRow
<1>16. Items(t)[p].hash = h
  <2>1. Items(t)[p] = ItemAt(t, e)
    BY <1>7, <1>15
  <2> QED
    BY <1>3, <2>1 DEF ItemAt
<1> DEFINE r == Items(u)
           s == Items(t)
           q == Shorter(s, n, p)
<1>17. \A i \in 1 .. n - 1 : r[i] = IF i < p THEN s[i] ELSE s[i + 1]
  <2> TAKE i \in 1 .. n - 1
  <2> DEFINE f == Entries(u)[i]
             j == IF i < p THEN i ELSE i + 1
  <2>1. f = Entries(t)[j] /\ j \in 1 .. n
    BY <1>7 DEF Shorter
  <2>2. r[i] = ItemAt(u, f)
    BY <1>13, <1>14 DEF ItemsAre
  <2>3. s[j] = ItemAt(t, f) /\ f \in Constructed(t)
    BY <1>15, <2>1
  <2> HIDE DEF f, r
  <2>4. SameItem(u.entry[f], t.entry[f])
    BY <1>2, <2>3 DEF Unlinked
  <2>5. ItemAt(u, f) = ItemAt(t, f)
    BY <2>4 DEF SameItem, ItemAt
  <2>6. r[i] = s[j]
    BY <2>2, <2>3, <2>5
  <2> HIDE DEF s
  <2> QED
    BY <2>6
<1>18. r = q
  <2>1. r \in [1 .. n - 1 -> ItemType]
    BY <1>13, <1>14 DEF IsRow
  <2> HIDE DEF r, s
  <2> QED
    BY <1>17, <2>1 DEF Shorter
<1>19. Dropped(s, r, n, p, h)
  BY <1>11, <1>12, <1>16, <1>18 DEF Dropped
<1> HIDE DEF s, r
<1> QED
  BY <1>9, <1>10, <1>19 DEF s, r

-----------------------------------------------------------------------------
(* TABLES WITHOUT ENTRIES *)

(* A table whose buckets and list are empty.                               *)
LEMMA NoneIsGood ==
    ASSUME NEW t \in TableType, Pointing(t), t.bucket = Empty(t.kind).bucket,
           t.front = 0, t.back = 0, t.size = 0
    PROVE  Good(t) /\ Live(t) = {} /\ Items(t) = <<>>
<1>1. Lists(t, {}) /\ Chains(t, {})
  BY DEF Lists, Chains, Empty, Null
<1>2. Whole(t, {}) /\ Live(t) = {}
  BY <1>1, IsGood DEF Whole
<1>3. PICK n \in Nat : /\ IsRow(Entries(t), n, Constructed(t)) /\ Members(Entries(t), n) = {}
                       /\ Len(Entries(t)) = n
  BY <1>1, ListIsMet
<1>4. n = 0
  <2>1. SUFFICES ASSUME 1 \in 1 .. n PROVE FALSE
    OBVIOUS
  <2> QED
    BY <1>3, <2>1 DEF Members
<1>5. Sized(t)
  BY <1>3, <1>4 DEF Sized
<1>6. Good(t)
  BY <1>2, <1>5, IsGood
<1>7. PICK m \in Nat : Len(Entries(t)) = m /\ IsRow(Items(t), m, ItemType) /\ Len(Items(t)) = m
  BY <1>6, ItemsOf
<1>8. Items(t) = <<>>
  <2>1. m = 0
    BY <1>3, <1>4, <1>7
  <2>2. Items(t) \in Seq(ItemType) /\ Len(Items(t)) = 0
    BY <1>7, <2>1, SequenceLength DEF IsRow
  <2> QED
    BY <2>2
<1> QED
  BY <1>2, <1>6, <1>8

LEMMA ClearGood ==
    ASSUME NEW t, Good(t), NEW u, u = Clear(t)
    PROVE  Good(u) /\ Keeps(t, u) /\ Items(u) = <<>>
<1> DEFINE bucket == Empty(t.kind).bucket
<1>1. t \in TableType /\ Pointing(t) /\ Len(t.entry) \in Nat
  BY FieldTypes DEF Good, Whole
<1>2. u = [t EXCEPT !.bucket = bucket, !.front = 0, !.back = 0, !.size = 0]
  BY DEF Clear, Null
<1>3. bucket \in [0 .. BucketSize - 1 -> Nat]
  BY DEF Empty, Null
<1> HIDE DEF bucket
<1>4. /\ u \in TableType /\ u.kind = t.kind /\ u.entry = t.entry /\ u.bucket = bucket
      /\ u.front = 0 /\ u.back = 0 /\ u.size = 0
  <2> DEFINE b == bucket
             n == 0
  <2>1. u = [t EXCEPT !.bucket = b, !.front = n, !.back = n, !.size = n] /\ n \in Nat /\ n \in Int
    BY <1>2
  <2>2. b \in [0 .. BucketSize - 1 -> Nat]
    BY <1>3
  <2> HIDE DEF b, n
  <2>3. /\ u \in TableType /\ u.kind = t.kind /\ u.entry = t.entry /\ u.bucket = b
        /\ u.front = n /\ u.back = n /\ u.size = n
    BY <1>1, <2>1, <2>2 DEF TableType
  <2> QED
    BY <2>3 DEF b, n
<1>5. Pointing(u)
  BY <1>1, <1>4 DEF Pointing, Constructed
<1>6. Good(u) /\ Live(u) = {} /\ Items(u) = <<>>
  BY <1>4, <1>5, NoneIsGood DEF bucket
<1>7. Keeps(t, u)
  BY <1>1, <1>4, <1>6 DEF Keeps
<1> QED
  BY <1>6, <1>7

LEMMA EmptyGood ==
    ASSUME NEW k \in Kinds
    PROVE  Good(Empty(k)) /\ Items(Empty(k)) = <<>> /\ Empty(k).kind = k
<1> DEFINE t == Empty(k)
<1>1. /\ t.kind = k /\ t.entry = <<>> /\ t.bucket = Empty(t.kind).bucket
      /\ t.front = 0 /\ t.back = 0 /\ t.size = 0
  BY DEF Empty, Null
<1>2. t \in TableType
  BY DEF Empty, Null, TableType
<1> HIDE DEF t
<1>3. Pointing(t)
  BY <1>1 DEF Pointing, Constructed
<1> QED
  BY <1>1, <1>2, <1>3, NoneIsGood DEF t

-----------------------------------------------------------------------------
(* LOOPS *)

Grows(B, m) == \A n \in 1 .. m : n - 1 \in B => n \in B

(* What holds at the start and after one more step holds all the time.     *)
LEMMA ByInduction ==
    ASSUME NEW m \in Nat, NEW B, 0 \in B, Grows(B, m)
    PROVE  \A n \in 0 .. m : n \in B
<1> DEFINE bad == {n \in 0 .. m : n \notin B}
<1>1. SUFFICES ASSUME bad # {} PROVE FALSE
  OBVIOUS
<1>2. bad \in SUBSET Nat
  OBVIOUS
<1>3. PICK n \in bad : \A k \in bad : n <= k
  BY <1>1, <1>2, LeastExists
<1>4. n \in 1 .. m /\ n - 1 \in 0 .. m /\ n \notin B
  BY <1>3
<1>5. ~(n <= n - 1)
  BY <1>4
<1>6. n - 1 \notin bad
  <2> HIDE DEF bad
  <2> QED
    BY <1>3, <1>5
<1> QED
  BY <1>4, <1>6 DEF Grows

(* A row that is made as a loop goes.                                      *)
Repeats(f, m, X, c, g) ==
    /\ f = [n \in 0 .. m |-> f[n]] /\ f[0] = c
    /\ \A n \in 1 .. m : f[n - 1] \in X => f[n] = g[<<n, f[n - 1]>>]

LEMMA LoopRuns ==
    ASSUME NEW X, NEW c \in X, NEW m \in Nat, NEW g \in [(1 .. m) \X X -> X], NEW f, Repeats(f, m, X, c, g)
    PROVE  Runs(f, m, X, c, g)
<1> DEFINE B == {n \in 0 .. m : f[n] \in X}
<1>1. 0 \in B
  BY DEF Repeats
<1>2. Grows(B, m)
  <2> SUFFICES ASSUME NEW n \in 1 .. m, n - 1 \in B PROVE n \in B
    BY DEF Grows
  <2>1. f[n - 1] \in X /\ n \in 0 .. m
    OBVIOUS
  <2>2. f[n] = g[<<n, f[n - 1]>>]
    BY <2>1 DEF Repeats
  <2>3. g[<<n, f[n - 1]>>] \in X
    BY <2>1
  <2> QED
    BY <2>1, <2>2, <2>3
<1>3. \A n \in 0 .. m : n \in B
  <2> HIDE DEF B
  <2> QED
    BY <1>1, <1>2, ByInduction
<1>4. \A n \in 1 .. m : f[n - 1] \in X
  <2> TAKE n \in 1 .. m
  <2>1. n - 1 \in 0 .. m
    OBVIOUS
  <2> QED
    BY <1>3, <2>1
<1>5. f \in [0 .. m -> X]
  BY <1>3 DEF Repeats
<1> QED
  BY <1>4, <1>5 DEF Runs, Repeats

-----------------------------------------------------------------------------
(* TABLES AFTER A LOOP *)

Tabs(k) == {t \in TableType : Good(t) /\ t.kind = k}

Inserted(t, x) == Insert(t, x.hash, x.key, x.value)

LEMMA InsertGood ==
    ASSUME NEW t, Good(t), NEW x \in ItemType
    PROVE  Good(Inserted(t, x)) /\ Keeps(t, Inserted(t, x)) /\ Inserted(t, x) \in Tabs(t.kind)
<1> DEFINE h == x.hash
           u == Inserted(t, x)
<1>1. h \in Int /\ x.key \in Objects /\ x.value \in Objects /\ h = Hash(x.key)
  BY DEF ItemType
<1>2. u = Insert(t, h, x.key, x.value)
  BY DEF Inserted
<1> HIDE DEF h, u
<1>3. Good(u) /\ Keeps(t, u)
  <2>1. CASE Find(t, h) = 0
    <3>1. u = Link(t, h, x.key, x.value)
      BY <1>2, <2>1 DEF Insert, Null
    <3> QED
      BY <1>1, <2>1, <3>1, LinkGood
  <2>2. CASE Find(t, h) # 0
    BY <1>1, <1>2, <2>2, InsertReplaces
  <2> QED
    BY <2>1, <2>2
<1> QED
  BY <1>3 DEF Keeps, Good, Whole, Tabs, u

LEMMA EraseGood ==
    ASSUME NEW t, Good(t), NEW h \in Int
    PROVE  Good(Erase(t, h)) /\ Keeps(t, Erase(t, h)) /\ Erase(t, h) \in Tabs(t.kind)
<1> DEFINE u == Erase(t, h)
<1>1. Good(u) /\ Keeps(t, u)
  <2>1. CASE Find(t, h) = 0
    <3>1. u = t
      BY <2>1 DEF Erase, Null
    <3> QED
      BY <3>1, KeepsItself
  <2>2. CASE Find(t, h) # 0
    BY <2>2, EraseDrops
  <2> QED
    BY <2>1, <2>2
<1> QED
  BY <1>1 DEF Keeps, Good, Whole, Tabs

(* Tables one after another, n of them after the first.                    *)
TableRun(f, m, t) ==
    /\ f \in [0 .. m -> Tabs(t.kind)] /\ f[0] = t
    /\ \A n \in 0 .. m : Good(f[n]) /\ Keeps(t, f[n])

Preserves(g, m, X) == \A n \in 1 .. m, u \in X : Keeps(u, g[<<n, u>>])

LEMMA TablesRun ==
    ASSUME NEW t, Good(t), NEW m \in Nat, NEW X, X = Tabs(t.kind), NEW g \in [(1 .. m) \X X -> X],
           Preserves(g, m, X), NEW path, Repeats(path, m, X, t, g)
    PROVE  TableRun(path, m, t)
<1>1. t \in X
  BY DEF Tabs, Good, Whole
<1>2. Runs(path, m, X, t, g)
  BY <1>1, LoopRuns
<1>3. path \in [0 .. m -> X] /\ path[0] = t /\ \A n \in 1 .. m : path[n] = g[<<n, path[n - 1]>>]
  BY <1>2 DEF Runs
<1>4. \A u \in X : Good(u)
  BY DEF Tabs
<1> DEFINE B == {n \in 0 .. m : Keeps(t, path[n])}
<1>5. 0 \in B
  BY <1>3, KeepsItself
<1>6. Grows(B, m)
  <2> SUFFICES ASSUME NEW n \in 1 .. m, n - 1 \in B PROVE n \in B
    BY DEF Grows
  <2> DEFINE u == path[n - 1]
             v == path[n]
  <2>1. u \in X /\ v \in X /\ Keeps(t, u) /\ v = g[<<n, u>>] /\ n \in 0 .. m
    BY <1>3
  <2> HIDE DEF u, v
  <2>2. Good(u) /\ Good(v) /\ Keeps(u, v)
    BY <1>4, <2>1 DEF Preserves
  <2>3. Keeps(t, v)
    BY <2>1, <2>2, KeepsOn
  <2> QED
    BY <2>1, <2>3 DEF v
<1>7. \A n \in 0 .. m : n \in B
  <2> HIDE DEF B
  <2> QED
    BY <1>5, <1>6, ByInduction
<1> QED
  BY <1>3, <1>4, <1>7 DEF TableRun

LEMMA InsertionsRun ==
    ASSUME NEW t, Good(t), NEW m \in Nat, NEW s, IsRow(s, m, ItemType)
    PROVE  /\ TableRun(Insertions(t, s), m, t) /\ Len(s) = m
           /\ \A n \in 1 .. m : Insertions(t, s)[n] = Inserted(Insertions(t, s)[n - 1], s[n])
<1> DEFINE X == Tabs(t.kind)
           step(f) == [n \in 0 .. m |-> IF n = 0 THEN t
                                        ELSE Insert(f[n - 1], s[n].hash, s[n].key, s[n].value)]
           path == Insertions(t, s)
           g == [p \in (1 .. m) \X X |-> Inserted(p[2], s[p[1]])]
<1>1. Len(s) = m
  BY MembersOf
<1>2. path = CHOOSE f : f = step(f)
  BY <1>1 DEF Insertions
<1>3. t \in X
  BY DEF Tabs, Good, Whole
<1>4. \A n \in 1 .. m : s[n] \in ItemType
  BY DEF IsRow
<1>5. ASSUME NEW n \in 1 .. m, NEW u \in X
      PROVE  Inserted(u, s[n]) \in X /\ Keeps(u, Inserted(u, s[n]))
  <2>1. Good(u) /\ u.kind = t.kind
    BY DEF Tabs
  <2>2. Inserted(u, s[n]) \in Tabs(u.kind) /\ Keeps(u, Inserted(u, s[n]))
    BY <1>4, <2>1, InsertGood
  <2> QED
    BY <2>1, <2>2
<1>6. g \in [(1 .. m) \X X -> X] /\ \A n \in 1 .. m, u \in X : g[<<n, u>>] = Inserted(u, s[n])
  BY <1>5
<1>7. Preserves(g, m, X)
  BY <1>5, <1>6 DEF Preserves
<1> HIDE DEF g, X, path
<1>8. PICK f : Runs(f, m, X, t, g)
  BY <1>3, <1>6, LoopExists
<1>9. f = step(f)
  <2>1. f \in [0 .. m -> X] /\ f[0] = t /\ \A n \in 1 .. m : f[n] = g[<<n, f[n - 1]>>]
    BY <1>8 DEF Runs
  <2>2. \A n \in 0 .. m : n # 0 => n \in 1 .. m /\ n - 1 \in 0 .. m
    OBVIOUS
  <2>3. \A n \in 0 .. m : f[n] = IF n = 0 THEN t ELSE Insert(f[n - 1], s[n].hash, s[n].key, s[n].value)
    BY <1>6, <2>1, <2>2 DEF Inserted
  <2> QED
    BY <2>1, <2>3
<1>10. path = step(path)
  <2> HIDE DEF step
  <2> QED
    BY <1>2, <1>9
<1>11. path[0] = t /\ \A n \in 1 .. m : path[n] = Inserted(path[n - 1], s[n])
  <2>1. path[0] = t
    BY <1>10
  <2>2. ASSUME NEW n \in 1 .. m PROVE path[n] = Inserted(path[n - 1], s[n])
    <3>1. n \in 0 .. m /\ n # 0
      OBVIOUS
    <3> QED
      BY <1>10, <3>1 DEF Inserted
  <2> QED
    BY <2>1, <2>2
<1>12. path = [n \in 0 .. m |-> path[n]]
  <2> DEFINE D == 0 .. m
             body(n) == IF n = 0 THEN t ELSE Insert(path[n - 1], s[n].hash, s[n].key, s[n].value)
  <2>1. path = [n \in D |-> body(n)]
    BY <1>10
  <2> HIDE DEF D, body
  <2>2. path = [n \in D |-> path[n]]
    BY <2>1
  <2> QED
    BY <2>2 DEF D
<1>13. TableRun(path, m, t)
  <2>1. Repeats(path, m, X, t, g)
    BY <1>6, <1>11, <1>12 DEF Repeats
  <2>2. X = Tabs(t.kind)
    BY DEF X
  <2> QED
    BY <1>6, <1>7, <2>1, <2>2, TablesRun
<1> QED
  BY <1>1, <1>11, <1>13 DEF path

InsertedIf(t, x, w) == IF Find(w, x.hash) = Null THEN t ELSE Insert(t, x.hash, x.key, x.value)

LEMMA CommonInsertionsRun ==
    ASSUME NEW t, Good(t), NEW m \in Nat, NEW s, IsRow(s, m, ItemType), NEW w
    PROVE  /\ TableRun(CommonInsertions(t, s, w), m, t) /\ Len(s) = m
           /\ \A n \in 1 .. m : CommonInsertions(t, s, w)[n] = InsertedIf(CommonInsertions(t, s, w)[n - 1], s[n], w)
<1> DEFINE X == Tabs(t.kind)
           step(f) == [n \in 0 .. m |-> IF n = 0 THEN t
                                        ELSE (IF Find(w, s[n].hash) = Null THEN f[n - 1] ELSE Insert(f[n - 1], s[n].hash, s[n].key, s[n].value))]
           path == CommonInsertions(t, s, w)
           g == [p \in (1 .. m) \X X |-> InsertedIf(p[2], s[p[1]], w)]
<1>1. Len(s) = m
  BY MembersOf
<1>2. path = CHOOSE f : f = step(f)
  BY <1>1 DEF CommonInsertions
<1>3. t \in X
  BY DEF Tabs, Good, Whole
<1>4. \A n \in 1 .. m : s[n] \in ItemType
  BY DEF IsRow
<1>5. ASSUME NEW n \in 1 .. m, NEW u \in X
      PROVE  InsertedIf(u, s[n], w) \in X /\ Keeps(u, InsertedIf(u, s[n], w))
  <2>1. Good(u) /\ u.kind = t.kind
    BY DEF Tabs
  <2>2. Inserted(u, s[n]) \in Tabs(u.kind) /\ Keeps(u, Inserted(u, s[n])) /\ Keeps(u, u)
    BY <1>4, <2>1, InsertGood, KeepsItself
  <2> QED
    BY <2>1, <2>2 DEF Inserted, InsertedIf
<1>6. g \in [(1 .. m) \X X -> X] /\ \A n \in 1 .. m, u \in X : g[<<n, u>>] = InsertedIf(u, s[n], w)
  BY <1>5
<1>7. Preserves(g, m, X)
  BY <1>5, <1>6 DEF Preserves
<1> HIDE DEF g, X, path
<1>8. PICK f : Runs(f, m, X, t, g)
  BY <1>3, <1>6, LoopExists
<1>9. f = step(f)
  <2>1. f \in [0 .. m -> X] /\ f[0] = t /\ \A n \in 1 .. m : f[n] = g[<<n, f[n - 1]>>]
    BY <1>8 DEF Runs
  <2>2. \A n \in 0 .. m : n # 0 => n \in 1 .. m /\ n - 1 \in 0 .. m
    OBVIOUS
  <2>3. \A n \in 0 .. m : f[n] = IF n = 0 THEN t ELSE (IF Find(w, s[n].hash) = Null THEN f[n - 1] ELSE Insert(f[n - 1], s[n].hash, s[n].key, s[n].value))
    BY <1>6, <2>1, <2>2 DEF InsertedIf
  <2> QED
    BY <2>1, <2>3
<1>10. path = step(path)
  <2> HIDE DEF step
  <2> QED
    BY <1>2, <1>9
<1>11. path[0] = t /\ \A n \in 1 .. m : path[n] = InsertedIf(path[n - 1], s[n], w)
  <2>1. path[0] = t
    BY <1>10
  <2>2. ASSUME NEW n \in 1 .. m PROVE path[n] = InsertedIf(path[n - 1], s[n], w)
    <3>1. n \in 0 .. m /\ n # 0
      OBVIOUS
    <3> QED
      BY <1>10, <3>1 DEF InsertedIf
  <2> QED
    BY <2>1, <2>2
<1>12. path = [n \in 0 .. m |-> path[n]]
  <2> DEFINE D == 0 .. m
             body(n) == IF n = 0 THEN t ELSE (IF Find(w, s[n].hash) = Null THEN path[n - 1] ELSE Insert(path[n - 1], s[n].hash, s[n].key, s[n].value))
  <2>1. path = [n \in D |-> body(n)]
    BY <1>10
  <2> HIDE DEF D, body
  <2>2. path = [n \in D |-> path[n]]
    BY <2>1
  <2> QED
    BY <2>2 DEF D
<1>13. TableRun(path, m, t)
  <2>1. Repeats(path, m, X, t, g)
    BY <1>6, <1>11, <1>12 DEF Repeats
  <2>2. X = Tabs(t.kind)
    BY DEF X
  <2> QED
    BY <1>6, <1>7, <2>1, <2>2, TablesRun
<1> QED
  BY <1>1, <1>11, <1>13 DEF path

Erased(t, x) == Erase(t, x.hash)

LEMMA RemovalsRun ==
    ASSUME NEW t, Good(t), NEW m \in Nat, NEW s, IsRow(s, m, ItemType)
    PROVE  /\ TableRun(Removals(t, s), m, t) /\ Len(s) = m
           /\ \A n \in 1 .. m : Removals(t, s)[n] = Erased(Removals(t, s)[n - 1], s[n])
<1> DEFINE X == Tabs(t.kind)
           step(f) == [n \in 0 .. m |-> IF n = 0 THEN t
                                        ELSE Erase(f[n - 1], s[n].hash)]
           path == Removals(t, s)
           g == [p \in (1 .. m) \X X |-> Erased(p[2], s[p[1]])]
<1>1. Len(s) = m
  BY MembersOf
<1>2. path = CHOOSE f : f = step(f)
  BY <1>1 DEF Removals
<1>3. t \in X
  BY DEF Tabs, Good, Whole
<1>4. \A n \in 1 .. m : s[n] \in ItemType
  BY DEF IsRow
<1>5. ASSUME NEW n \in 1 .. m, NEW u \in X
      PROVE  Erased(u, s[n]) \in X /\ Keeps(u, Erased(u, s[n]))
  <2>1. Good(u) /\ u.kind = t.kind /\ s[n].hash \in Int
    BY <1>4 DEF Tabs, ItemType
  <2>2. Erase(u, s[n].hash) \in Tabs(u.kind) /\ Keeps(u, Erase(u, s[n].hash))
    BY <2>1, EraseGood
  <2> QED
    BY <2>1, <2>2 DEF Erased
<1>6. g \in [(1 .. m) \X X -> X] /\ \A n \in 1 .. m, u \in X : g[<<n, u>>] = Erased(u, s[n])
  BY <1>5
<1>7. Preserves(g, m, X)
  BY <1>5, <1>6 DEF Preserves
<1> HIDE DEF g, X, path
<1>8. PICK f : Runs(f, m, X, t, g)
  BY <1>3, <1>6, LoopExists
<1>9. f = step(f)
  <2>1. f \in [0 .. m -> X] /\ f[0] = t /\ \A n \in 1 .. m : f[n] = g[<<n, f[n - 1]>>]
    BY <1>8 DEF Runs
  <2>2. \A n \in 0 .. m : n # 0 => n \in 1 .. m /\ n - 1 \in 0 .. m
    OBVIOUS
  <2>3. \A n \in 0 .. m : f[n] = IF n = 0 THEN t ELSE Erase(f[n - 1], s[n].hash)
    BY <1>6, <2>1, <2>2 DEF Erased
  <2> QED
    BY <2>1, <2>3
<1>10. path = step(path)
  <2> HIDE DEF step
  <2> QED
    BY <1>2, <1>9
<1>11. path[0] = t /\ \A n \in 1 .. m : path[n] = Erased(path[n - 1], s[n])
  <2>1. path[0] = t
    BY <1>10
  <2>2. ASSUME NEW n \in 1 .. m PROVE path[n] = Erased(path[n - 1], s[n])
    <3>1. n \in 0 .. m /\ n # 0
      OBVIOUS
    <3> QED
      BY <1>10, <3>1 DEF Erased
  <2> QED
    BY <2>1, <2>2
<1>12. path = [n \in 0 .. m |-> path[n]]
  <2> DEFINE D == 0 .. m
             body(n) == IF n = 0 THEN t ELSE Erase(path[n - 1], s[n].hash)
  <2>1. path = [n \in D |-> body(n)]
    BY <1>10
  <2> HIDE DEF D, body
  <2>2. path = [n \in D |-> path[n]]
    BY <2>1
  <2> QED
    BY <2>2 DEF D
<1>13. TableRun(path, m, t)
  <2>1. Repeats(path, m, X, t, g)
    BY <1>6, <1>11, <1>12 DEF Repeats
  <2>2. X = Tabs(t.kind)
    BY DEF X
  <2> QED
    BY <1>6, <1>7, <2>1, <2>2, TablesRun
<1> QED
  BY <1>1, <1>11, <1>13 DEF path

-----------------------------------------------------------------------------
(* TABLES AND LOOPS *)

(* The tables of the setup, with what they contain.                        *)
TablesInv ==
    /\ setup \in Setups
    /\ table = [t \in Tables |-> table[t]]
    /\ \A t \in Tables : Good(table[t]) /\ table[t].kind = kind[t]
    /\ contents = [t \in Tables |-> Items(table[t])]

LoopType == [on : Tables, kind : {"iterator", "walk"}, at : Nat, owed : SUBSET Nat]

(* What the loop r on the table t is owed is before it; a walk has the     *)
(* entry it stands on behind it.                                           *)
Owes(t, r) ==
    /\ r.at \in 0 .. Len(t.entry)
    /\ r.kind = "walk" => r.at # 0 /\ r.at \notin r.owed
    /\ r.owed \subseteq Met(NextOf(t), r.at)

LoopInv ==
    /\ walker = [w \in Walkers |-> walker[w]]
    /\ \A w \in Walkers : walker[w] = Off \/ (walker[w] \in LoopType /\ Owes(table[walker[w].on], walker[w]))

MissInv == TablesInv /\ LoopInv

LEMMA SetupTypes ==
    ASSUME TablesInv
    PROVE  /\ setup.objects \subseteq Objects /\ Values \subseteq Objects
           /\ \A o \in Objects : Hash(o) \in Int
           /\ \A t \in Tables : kind[t] \in Kinds
  BY SetupsAssumption, ObjectsAssumption DEF TablesInv, Tables, kind

LEMMA OwedIsAhead ==
    ASSUME NEW t, Good(t), NEW r, Owes(t, r)
    PROVE  r.owed \subseteq ToSet(IF r.kind = "walk" THEN Tail(PathFrom(t, r.at)) ELSE PathFrom(t, r.at))
<1> DEFINE N == Len(t.entry)
           ptr == NextOf(t)
<1>1. N \in Nat /\ Ups(ptr, N)
  BY FieldTypes, PointersOf DEF Good, Whole
<1>2. PathFrom(t, r.at) = Follow(ptr, r.at) /\ Met(ptr, r.at) = ToSet(PathFrom(t, r.at))
  BY DEF PathFrom, Met
<1>3. CASE r.kind = "walk"
  <2>1. r.at \in 1 .. N
    BY <1>1, <1>3 DEF Owes
  <2> HIDE DEF N, ptr
  <2>2. /\ Met(ptr, r.at) = {r.at} \cup Met(ptr, ptr[r.at])
        /\ ToSet(Tail(Follow(ptr, r.at))) = Met(ptr, ptr[r.at])
    BY <1>1, <2>1, MetBehind
  <2> QED
    BY <1>2, <1>3, <2>2 DEF Owes, ptr
<1>4. CASE r.kind # "walk"
  BY <1>2, <1>4 DEF Owes
<1> QED
  BY <1>3, <1>4

LEMMA NothingMissed ==
    ASSUME MissInv
    PROVE  NothingIsMissed
<1>1. ASSUME NEW w \in Walkers, walker[w] # Off
      PROVE  LET r == walker[w]
                 ahead == PathFrom(table[r.on], r.at)
             IN  r.owed \subseteq ToSet(IF r.kind = "walk" THEN Tail(ahead) ELSE ahead)
  <2> DEFINE r == walker[w]
             t == table[r.on]
  <2>1. r.on \in Tables /\ Owes(t, r)
    BY <1>1 DEF MissInv, LoopInv, LoopType
  <2>2. Good(t)
    BY <2>1 DEF MissInv, TablesInv
  <2> HIDE DEF r, t
  <2>3. r.owed \subseteq ToSet(IF r.kind = "walk" THEN Tail(PathFrom(t, r.at)) ELSE PathFrom(t, r.at))
    BY <2>1, <2>2, OwedIsAhead
  <2> QED
    BY <2>3 DEF t, r
<1>2. ASSUME NEW t \in Tables, kind[t] = "set" PROVE table[t].size = Len(Entries(table[t]))
  BY <1>2 DEF MissInv, TablesInv, Good, Sized
<1> QED
  BY <1>1, <1>2 DEF NothingIsMissed

(* A loop goes on, on a table that keeps what it is owed.                  *)
LEMMA OwedIsKept ==
    ASSUME NEW t, Good(t), NEW u, Good(u), Keeps(t, u), NEW r \in LoopType, Owes(t, r),
           NEW q, q = [r EXCEPT !.owed = @ \cap Live(u)]
    PROVE  q \in LoopType /\ Owes(u, q) /\ q.on = r.on
<1>1. /\ q \in LoopType /\ q.on = r.on /\ q.kind = r.kind /\ q.at = r.at /\ q.owed = r.owed \cap Live(u)
  BY DEF LoopType
<1>2. Len(t.entry) \in Nat /\ Len(u.entry) \in Nat
  BY FieldTypes DEF Good, Whole
<1>3. q.at \in 0 .. Len(u.entry)
  BY <1>1, <1>2 DEF Owes, Keeps
<1>4. Met(NextOf(t), r.at) \cap Live(u) \subseteq Met(NextOf(u), r.at)
  BY DEF Owes, Keeps
<1> QED
  BY <1>1, <1>3, <1>4 DEF Owes

(* An operation on a table: it keeps the table good and, if there are loops*)
(* on it, what these are owed.                                             *)
LEMMA BecomesKeepsInv ==
    ASSUME MissInv, NEW t \in Tables, NEW new, Becomes(t, new), Good(new), new.kind = kind[t],
           ~Watched(t) \/ Keeps(table[t], new)
    PROVE  MissInv'
<1>1. Tables' = Tables /\ Walkers' = Walkers /\ kind' = kind /\ setup' = setup /\ LoopType' = LoopType
  BY DEF Becomes, Tables, Walkers, kind, LoopType
<1>2. /\ table' = [table EXCEPT ![t] = new] /\ contents' = [contents EXCEPT ![t] = Items(new)]
      /\ walker' = [w \in Walkers |->
                      IF walker[w].on = t THEN [walker[w] EXCEPT !.owed = @ \cap ToSet(Entries(new))]
                                          ELSE walker[w]]
  BY DEF Becomes
<1>3. TablesInv'
  BY <1>1, <1>2 DEF MissInv, TablesInv
<1>4. ASSUME NEW w \in Walkers
      PROVE  walker'[w] = Off \/ (walker'[w] \in LoopType /\ Owes(table'[walker'[w].on], walker'[w]))
  <2> DEFINE r == walker[w]
             q == walker'[w]
  <2>1. r = Off \/ (r \in LoopType /\ Owes(table[r.on], r))
    BY DEF MissInv, LoopInv
  <2>2. q = IF r.on = t THEN [r EXCEPT !.owed = @ \cap Live(new)] ELSE r
    BY <1>2 DEF Live
  <2> HIDE DEF r, q
  <2>3. CASE r = Off
    <3>1. q = Off
      BY <2>2, <2>3 DEF Off
    <3> QED
      BY <3>1 DEF q
  <2>4. CASE r # Off /\ r.on = t
    <3>1. Watched(t)
      BY <2>4 DEF Watched, r
    <3>2. Good(table[t]) /\ Keeps(table[t], new)
      BY <3>1 DEF MissInv, TablesInv
    <3>3. q \in LoopType /\ Owes(new, q) /\ q.on = t
      BY <2>1, <2>2, <2>4, <3>2, OwedIsKept
    <3>4. table'[t] = new
      BY <1>2 DEF MissInv, TablesInv
    <3> QED
      BY <3>3, <3>4 DEF q
  <2>5. CASE r # Off /\ r.on # t
    <3>1. q = r /\ r \in LoopType /\ Owes(table[r.on], r) /\ r.on \in Tables
      BY <2>1, <2>2, <2>5 DEF LoopType
    <3>2. table'[r.on] = table[r.on]
      BY <1>2, <2>5, <3>1 DEF MissInv, TablesInv
    <3> QED
      BY <3>1, <3>2 DEF q
  <2> QED
    BY <2>3, <2>4, <2>5
<1>5. LoopInv'
  <2>1. walker' = [w \in Walkers |-> walker'[w]]
    BY <1>2
  <2> QED
    BY <1>1, <1>4, <2>1 DEF LoopInv
<1> QED
  BY <1>3, <1>5 DEF MissInv

-----------------------------------------------------------------------------
(* WHAT THE OPERATIONS MAKE OF TABLES *)

(* A good table of the same kind that may be walked on.                    *)
Succeeds(t, u) == Good(u) /\ u.kind = t.kind /\ Keeps(t, u)

LEMMA RunSucceeds ==
    ASSUME NEW t, NEW m \in Nat, NEW f, TableRun(f, m, t)
    PROVE  Succeeds(t, f[m])
  BY DEF TableRun, Succeeds, Keeps

LEMMA LoopsSucceed ==
    ASSUME NEW t, Good(t), NEW m \in Nat, NEW s, IsRow(s, m, ItemType), NEW u
    PROVE  Succeeds(t, InsertAll(t, s)) /\ Succeeds(t, InsertCommon(t, s, u)) /\ Succeeds(t, RemoveAll(t, s))
<1>1. Len(s) = m
  BY MembersOf
<1>2. TableRun(Insertions(t, s), m, t)
  BY InsertionsRun
<1>3. TableRun(CommonInsertions(t, s, u), m, t)
  BY CommonInsertionsRun
<1>4. TableRun(Removals(t, s), m, t)
  BY RemovalsRun
<1>5. Succeeds(t, Insertions(t, s)[m]) /\ Succeeds(t, CommonInsertions(t, s, u)[m]) /\ Succeeds(t, Removals(t, s)[m])
  BY <1>2, <1>3, <1>4, RunSucceeds
<1> QED
  BY <1>1, <1>5 DEF InsertAll, InsertCommon, RemoveAll

Rows(s) == \E m \in Nat : IsRow(s, m, ItemType)

LEMMA ItemsRow ==
    ASSUME NEW t, Good(t)
    PROVE  Rows(Items(t))
  BY ItemsOf DEF Rows

LEMMA KeysRow ==
    ASSUME NEW s, Rows(s)
    PROVE  Rows(Keys(s))
<1>1. PICK m \in Nat : IsRow(s, m, ItemType)
  BY DEF Rows
<1>2. DOMAIN s = 1 .. m /\ \A i \in 1 .. m : s[i] \in ItemType
  BY <1>1, MembersOf DEF IsRow
<1>3. \A x \in ItemType : [x EXCEPT !.value = x.key] \in ItemType
  BY DEF ItemType
<1>4. Keys(s) \in [1 .. m -> ItemType]
  BY <1>2, <1>3 DEF Keys
<1> QED
  BY <1>4 DEF Rows, IsRow

LEMMA TurnedRow ==
    ASSUME NEW s, Rows(s)
    PROVE  Rows(Turned(s))
<1>1. PICK m \in Nat : IsRow(s, m, ItemType)
  BY DEF Rows
<1>2. DOMAIN s = 1 .. m /\ \A i \in 1 .. m : s[i] \in ItemType
  BY <1>1, MembersOf DEF IsRow
<1>3. \A x \in ItemType : [hash |-> Hash(x.value), key |-> x.value, value |-> x.key] \in ItemType
  BY ObjectsAssumption DEF ItemType
<1>4. Turned(s) = [i \in 1 .. m |-> [hash |-> Hash(s[i].value), key |-> s[i].value, value |-> s[i].key]]
  BY <1>2 DEF Turned
<1>5. Turned(s) \in [1 .. m -> ItemType]
  BY <1>2, <1>3, <1>4
<1> QED
  BY <1>5 DEF Rows, IsRow

LEMMA RowsSucceed ==
    ASSUME NEW t, Good(t), NEW s, Rows(s), NEW u
    PROVE  Succeeds(t, InsertAll(t, s)) /\ Succeeds(t, InsertCommon(t, s, u)) /\ Succeeds(t, RemoveAll(t, s))
<1>1. PICK m \in Nat : IsRow(s, m, ItemType)
  BY DEF Rows
<1> QED
  BY <1>1, LoopsSucceed

LEMMA ChangesSucceed ==
    ASSUME TablesInv, NEW t \in Tables
    PROVE  /\ \A k, v \in setup.objects : Succeeds(table[t], Insert(table[t], Hash(k), k, v))
           /\ \A k \in setup.objects : Succeeds(table[t], Erase(table[t], Hash(k)))
           /\ table[t].back # 0 => Succeeds(table[t], Erase(table[t], table[t].entry[table[t].back].hash))
           /\ Succeeds(table[t], Clear(table[t]))
<1> DEFINE T == table[t]
<1>1. Good(T) /\ setup.objects \subseteq Objects /\ \A o \in Objects : Hash(o) \in Int
  BY SetupTypes DEF TablesInv
<1> HIDE DEF T
<1>2. ASSUME NEW k \in setup.objects, NEW v \in setup.objects
      PROVE  Succeeds(T, Insert(T, Hash(k), k, v))
  <2> DEFINE x == [hash |-> Hash(k), key |-> k, value |-> v]
  <2>1. x \in ItemType
    BY <1>1 DEF ItemType
  <2>2. Inserted(T, x) = Insert(T, Hash(k), k, v)
    BY DEF Inserted
  <2> HIDE DEF x
  <2> QED
    BY <1>1, <2>1, <2>2, InsertGood DEF Succeeds, Tabs
<1>3. ASSUME NEW h \in Int PROVE Succeeds(T, Erase(T, h))
  BY <1>1, EraseGood DEF Succeeds, Tabs
<1>4. T.back # 0 => T.entry[T.back].hash \in Int
  <2> HAVE T.back # 0
  <2>1. T \in TableType /\ T.back \in Live(T) /\ Live(T) \subseteq Constructed(T)
    BY <1>1 DEF Good, Whole, Lists
  <2>2. T.back \in Constructed(T)
    BY <2>1
  <2> QED
    BY <2>1, <2>2, EntryTypes
<1>5. Succeeds(T, Clear(T))
  BY <1>1, ClearGood DEF Succeeds, Keeps
<1>6. \A k \in setup.objects : Hash(k) \in Int
  BY <1>1
<1> QED
  BY <1>2, <1>3, <1>4, <1>5, <1>6 DEF T

LEMMA FreshGood ==
    ASSUME TablesInv, NEW t \in Tables
    PROVE  Good(Fresh(t)) /\ Items(Fresh(t)) = <<>> /\ Fresh(t).kind = kind[t]
<1>1. kind[t] \in Kinds
  BY SetupTypes
<1> QED
  BY <1>1, EmptyGood DEF Fresh

-----------------------------------------------------------------------------
(* LOOPS *)

LEMMA LoopStarts ==
    ASSUME NEW t, Good(t)
    PROVE  /\ t.front \in 0 .. Len(t.entry) /\ Met(NextOf(t), t.front) = ToSet(Entries(t))
           /\ ToSet(Entries(t)) \subseteq Nat
<1> DEFINE N == Len(t.entry)
<1>1. N \in Nat /\ t.front \in Live(t) \cup {0} /\ Live(t) \subseteq 1 .. N
  BY FieldTypes DEF Good, Whole, Lists, Constructed
<1>2. Live(t) \cup {0} \subseteq 0 .. N /\ Live(t) \subseteq Nat
  BY <1>1
<1>3. t.front \in 0 .. N
  BY <1>1, <1>2
<1> QED
  BY <1>2, <1>3 DEF Met, Entries, PathFrom, Live

LEMMA LoopMoves ==
    ASSUME NEW t, Good(t), NEW r, Owes(t, r), r.at # 0
    PROVE  /\ t.entry[r.at].next \in 0 .. Len(t.entry) /\ t.entry[r.at].next \in Nat
           /\ r.owed \ {r.at} \subseteq Met(NextOf(t), t.entry[r.at].next)
           /\ t.entry[r.at].next # r.at
<1> DEFINE N == Len(t.entry)
           ptr == NextOf(t)
           e == r.at
<1>1. N \in Nat /\ Ups(ptr, N) /\ \A i \in Constructed(t) : ptr[i] = t.entry[i].next
  BY FieldTypes, PointersOf DEF Good, Whole
<1>2. e \in 1 .. N
  BY <1>1 DEF Owes
<1>3. ptr[e] = t.entry[e].next /\ (ptr[e] # 0 => e < ptr[e])
  <2>1. ptr[e] = t.entry[e].next
    BY <1>1, <1>2 DEF Constructed
  <2>2. \A i \in 1 .. N : ptr[i] # 0 => i < ptr[i]
    BY <1>1 DEF Ups
  <2> QED
    BY <1>2, <2>1, <2>2
<1> HIDE DEF N, ptr, e
<1>4. ptr[e] \in 0 .. N /\ Met(ptr, e) = {e} \cup Met(ptr, ptr[e])
  BY <1>1, <1>2, MetBehind
<1>5. r.owed \subseteq Met(ptr, e)
  BY DEF Owes, ptr, e
<1>6. r.owed \ {e} \subseteq Met(ptr, ptr[e])
  BY <1>4, <1>5
<1>7. ptr[e] \in Nat /\ ptr[e] # e
  BY <1>1, <1>2, <1>3, <1>4
<1> QED
  BY <1>3, <1>4, <1>6, <1>7 DEF N, ptr, e

(* A step of one loop that leaves the tables alone.                        *)
LEMMA LoopStep ==
    ASSUME MissInv, NEW w \in Walkers, NEW q, walker' = [walker EXCEPT ![w] = q],
           q = Off \/ (q \in LoopType /\ Owes(table[q.on], q)),
           table' = table, contents' = contents, setup' = setup
    PROVE  MissInv'
<1>1. Tables' = Tables /\ Walkers' = Walkers /\ kind' = kind /\ LoopType' = LoopType
  BY DEF Tables, Walkers, kind, LoopType
<1>2. TablesInv'
  BY <1>1 DEF MissInv, TablesInv
<1>3. walker = [v \in Walkers |-> walker[v]]
  BY DEF MissInv, LoopInv
<1>4. \A v \in Walkers : walker'[v] = IF v = w THEN q ELSE walker[v]
  BY <1>3
<1>5. walker' = [v \in Walkers |-> walker'[v]]
  BY <1>3
<1>6. \A v \in Walkers : walker'[v] = Off \/ (walker'[v] \in LoopType /\ Owes(table[walker'[v].on], walker'[v]))
  BY <1>4 DEF MissInv, LoopInv
<1>7. LoopInv'
  BY <1>1, <1>5, <1>6 DEF LoopInv
<1> QED
  BY <1>2, <1>7 DEF MissInv

LEMMA StartsStep ==
    ASSUME MissInv, NEW w \in Walkers, NEW t \in Tables, NEW k \in {"iterator", "walk"}, NEW owed,
           table[t].front # 0,
           owed = ToSet(Entries(table[t])) \/ owed = ToSet(Entries(table[t])) \ {table[t].front},
           k = "walk" => table[t].front \notin owed,
           Starts(w, t, k, table[t].front, owed), table' = table, contents' = contents, setup' = setup
    PROVE  MissInv'
<1> DEFINE q == [on |-> t, kind |-> k, at |-> table[t].front, owed |-> owed]
           T == table[t]
<1>1. Good(T)
  BY DEF MissInv, TablesInv
<1> HIDE DEF T
<1>2. /\ T.front \in 0 .. Len(T.entry) /\ Met(NextOf(T), T.front) = ToSet(Entries(T))
      /\ ToSet(Entries(T)) \subseteq Nat
  BY <1>1, LoopStarts
<1>3. T.front \in Nat
  BY <1>1, FieldTypes DEF Good, Whole
<1>4. owed \subseteq ToSet(Entries(T)) /\ (k = "walk" => T.front \notin owed) /\ T.front # 0
  BY DEF T
<1>5. q = [on |-> t, kind |-> k, at |-> T.front, owed |-> owed]
  BY DEF T
<1> HIDE DEF q
<1>6. q \in LoopType
  BY <1>2, <1>3, <1>4, <1>5 DEF LoopType
<1>7. Owes(T, q)
  BY <1>2, <1>4, <1>5 DEF Owes
<1>8. q.on = t /\ walker' = [walker EXCEPT ![w] = q]
  BY <1>5 DEF Starts, q
<1> QED
  BY <1>6, <1>7, <1>8, LoopStep DEF T

LEMMA LoopOnTable ==
    ASSUME MissInv, NEW w \in Walkers, walker[w].kind # "none"
    PROVE  /\ walker[w] \in LoopType /\ walker[w].on \in Tables
           /\ Owes(table[walker[w].on], walker[w]) /\ Good(table[walker[w].on])
<1>1. walker[w] # Off
  BY DEF Off
<1>2. walker[w] \in LoopType /\ Owes(table[walker[w].on], walker[w])
  BY <1>1 DEF MissInv, LoopInv
<1>3. walker[w].on \in Tables
  BY <1>2 DEF LoopType
<1> QED
  BY <1>2, <1>3 DEF MissInv, TablesInv

LEMMA MovesStep ==
    ASSUME MissInv, NEW w \in Walkers, walker[w].kind # "none", walker[w].at # 0, NEW n,
           n = table[walker[w].on].entry[walker[w].at].next,
           NEW q, \/ walker[w].kind = "iterator" /\ q = [walker[w] EXCEPT !.at = n, !.owed = @ \ {walker[w].at}]
                  \/ n # 0 /\ walker[w].kind = "walk" /\ q = [walker[w] EXCEPT !.at = n, !.owed = @ \ {n}],
           walker' = [walker EXCEPT ![w] = q], table' = table, contents' = contents, setup' = setup
    PROVE  MissInv'
<1> DEFINE r == walker[w]
           t == table[r.on]
<1>1. r \in LoopType /\ Owes(t, r) /\ Good(t) /\ r.on \in Tables
  BY LoopOnTable
<1>2. n = t.entry[r.at].next /\ r.at # 0
  OBVIOUS
<1>3. \/ r.kind = "iterator" /\ q = [r EXCEPT !.at = n, !.owed = @ \ {r.at}]
      \/ n # 0 /\ r.kind = "walk" /\ q = [r EXCEPT !.at = n, !.owed = @ \ {n}]
  OBVIOUS
<1> HIDE DEF r
<1> HIDE DEF t
<1>5. n \in 0 .. Len(t.entry) /\ n \in Nat /\ r.owed \ {r.at} \subseteq Met(NextOf(t), n) /\ n # r.at
  BY <1>1, <1>2, LoopMoves
<1>6. q \in LoopType /\ q.kind = r.kind /\ q.at = n /\ q.on = r.on
  <2> DEFINE owed == IF r.kind = "iterator" THEN r.owed \ {r.at} ELSE r.owed \ {n}
  <2>1. q = [r EXCEPT !.at = n, !.owed = owed] /\ owed \in SUBSET Nat
    BY <1>1, <1>3 DEF LoopType
  <2> HIDE DEF owed
  <2>2. n \in Nat /\ r \in [on : Tables, kind : {"iterator", "walk"}, at : Nat, owed : SUBSET Nat]
    BY <1>1, <1>5 DEF LoopType
  <2>3. q = [on |-> r.on, kind |-> r.kind, at |-> n, owed |-> owed]
    BY <2>1, <2>2
  <2> QED
    BY <2>1, <2>2, <2>3 DEF LoopType
<1>7. Owes(t, q)
  <2>1. CASE r.kind = "iterator"
    <3>1. q.owed = r.owed \ {r.at}
      BY <1>1, <1>3, <2>1 DEF LoopType
    <3> QED
      BY <1>5, <1>6, <2>1, <3>1 DEF Owes
  <2>2. CASE r.kind = "walk"
    <3>1. q.owed = r.owed \ {n} /\ n # 0
      BY <1>1, <1>3, <2>2 DEF LoopType
    <3>2. r.at \notin r.owed
      BY <1>1, <2>2 DEF Owes
    <3> QED
      BY <1>5, <1>6, <2>2, <3>1, <3>2 DEF Owes
  <2> QED
    BY <1>3, <2>1, <2>2
<1>8. Owes(table[q.on], q)
  BY <1>6, <1>7 DEF t
<1> QED
  BY <1>6, <1>8, LoopStep

-----------------------------------------------------------------------------
(* STEPS *)

LEMMA SuccessorStep ==
    ASSUME MissInv, NEW t \in Tables, NEW u, Succeeds(table[t], u), Becomes(t, u)
    PROVE  MissInv'
<1>1. table[t].kind = kind[t]
  BY DEF MissInv, TablesInv
<1> QED
  BY <1>1, BecomesKeepsInv DEF Succeeds

LEMMA ChangeStep ==
    ASSUME MissInv, NEW t \in Tables, SetItem(t) \/ PopItem(t) \/ set_pop(t) \/ ClearAll(t)
    PROVE  MissInv'
<1>1. PICK u : Succeeds(table[t], u) /\ Becomes(t, u)
  <2>0. TablesInv
    BY DEF MissInv
  <2>1. CASE SetItem(t)
    BY <2>0, <2>1, ChangesSucceed DEF SetItem
  <2>2. CASE PopItem(t)
    BY <2>0, <2>2, ChangesSucceed DEF PopItem
  <2>3. CASE set_pop(t)
    BY <2>0, <2>3, ChangesSucceed DEF set_pop, Null
  <2>4. CASE ClearAll(t)
    BY <2>0, <2>4, ChangesSucceed DEF ClearAll
  <2> QED
    BY <2>1, <2>2, <2>3, <2>4
<1> QED
  BY <1>1, SuccessorStep

LEMMA UpdateStep ==
    ASSUME MissInv, NEW t \in Tables, map_update(t)
    PROVE  MissInv'
<1>1. PICK u \in Tables : Becomes(t, InsertAll(table[t], Items(table[u])))
  BY DEF map_update
<1>2. Good(table[t]) /\ Good(table[u])
  BY DEF MissInv, TablesInv
<1>3. Rows(Items(table[u]))
  BY <1>2, ItemsRow
<1>4. Succeeds(table[t], InsertAll(table[t], Items(table[u])))
  BY <1>2, <1>3, RowsSucceed
<1> QED
  BY <1>1, <1>4, SuccessorStep

MakesOne(t) == Sum(t) \/ Copy(t) \/ set_sub(t) \/ set_and(t) \/ map_keys(t) \/ map_reverse(t)

LEMMA MadeStep ==
    ASSUME MissInv, NEW t \in Tables, MakesOne(t)
    PROVE  MissInv'
<1>0. TablesInv /\ \A u \in Tables : Good(table[u]) /\ Rows(Items(table[u]))
  BY ItemsRow DEF MissInv, TablesInv
<1>1. Good(Fresh(t)) /\ Fresh(t).kind = kind[t]
  BY <1>0, FreshGood
<1>2. ASSUME NEW s, Rows(s) PROVE Good(InsertAll(Fresh(t), s)) /\ InsertAll(Fresh(t), s).kind = kind[t]
  BY <1>1, <1>2, RowsSucceed DEF Succeeds
<1>3. PICK new : Made(t, new) /\ Good(new) /\ new.kind = kind[t]
  <2>1. CASE Sum(t)
    <3>1. PICK u \in Tables, w \in Tables : Made(t, InsertAll(InsertAll(Fresh(t), Items(table[u])), Items(table[w])))
      BY <2>1 DEF Sum
    <3> DEFINE x == InsertAll(Fresh(t), Items(table[u]))
    <3>2. Good(x) /\ x.kind = kind[t]
      BY <1>0, <1>2
    <3> HIDE DEF x
    <3>3. Succeeds(x, InsertAll(x, Items(table[w])))
      BY <1>0, <3>2, RowsSucceed
    <3> QED
      BY <3>1, <3>2, <3>3 DEF Succeeds, x
  <2>2. CASE Copy(t)
    <3>1. PICK u \in Tables : Made(t, InsertAll(Fresh(t), Items(table[u])))
      BY <2>2 DEF Copy
    <3> QED
      BY <1>0, <1>2, <3>1
  <2>3. CASE set_sub(t)
    <3>1. PICK u \in Tables, w \in Tables : Made(t, RemoveAll(InsertAll(Fresh(t), Items(table[u])), Items(table[w])))
      BY <2>3 DEF set_sub
    <3> DEFINE x == InsertAll(Fresh(t), Items(table[u]))
    <3>2. Good(x) /\ x.kind = kind[t]
      BY <1>0, <1>2
    <3> HIDE DEF x
    <3>3. Succeeds(x, RemoveAll(x, Items(table[w])))
      BY <1>0, <3>2, RowsSucceed
    <3> QED
      BY <3>1, <3>2, <3>3 DEF Succeeds, x
  <2>4. CASE set_and(t)
    <3>1. PICK u \in Tables, w \in Tables : Made(t, InsertCommon(Fresh(t), Items(table[w]), table[u]))
      BY <2>4 DEF set_and
    <3>2. Succeeds(Fresh(t), InsertCommon(Fresh(t), Items(table[w]), table[u]))
      BY <1>0, <1>1, RowsSucceed
    <3> QED
      BY <1>1, <3>1, <3>2 DEF Succeeds
  <2>5. CASE map_keys(t)
    <3>1. PICK u \in Tables : Made(t, InsertAll(Fresh(t), Keys(Items(table[u]))))
      BY <2>5 DEF map_keys
    <3>2. Rows(Keys(Items(table[u])))
      BY <1>0, KeysRow
    <3> QED
      BY <1>2, <3>1, <3>2
  <2>6. CASE map_reverse(t)
    <3>1. PICK u \in Tables : Made(t, InsertAll(Fresh(t), Turned(Items(table[u]))))
      BY <2>6 DEF map_reverse
    <3>2. Rows(Turned(Items(table[u])))
      BY <1>0, TurnedRow
    <3> QED
      BY <1>2, <3>1, <3>2
  <2> QED
    BY <2>1, <2>2, <2>3, <2>4, <2>5, <2>6 DEF MakesOne
<1> QED
  BY <1>3, BecomesKeepsInv DEF Made

LEMMA IterKeepsInv ==
    ASSUME MissInv, NEW w \in Walkers, NEW t \in Tables, Iter(w, t) \/ Join(w, t)
    PROVE  MissInv'
<1>1. CASE Iter(w, t)
  BY <1>1, StartsStep DEF Iter, Null
<1>2. CASE Join(w, t)
  BY <1>2, StartsStep DEF Join, Null
<1> QED
  BY <1>1, <1>2

LEMMA OffStep ==
    ASSUME MissInv, NEW w \in Walkers, walker' = [walker EXCEPT ![w] = Off],
           table' = table, contents' = contents, setup' = setup
    PROVE  MissInv'
  BY LoopStep

LEMMA GenerateKeepsInv ==
    ASSUME MissInv, NEW w \in Walkers, Generate(w)
    PROVE  MissInv'
<1>1. walker[w].kind = "iterator" /\ table' = table /\ contents' = contents /\ setup' = setup
  BY DEF Generate
<1>2. CASE walker[w].at = 0
  <2>1. walker' = [walker EXCEPT ![w] = Off]
    BY <1>2 DEF Generate, Null
  <2> QED
    BY <1>1, <2>1, OffStep
<1>3. CASE walker[w].at # 0
  <2> DEFINE n == table[walker[w].on].entry[walker[w].at].next
             q == [walker[w] EXCEPT !.at = n, !.owed = @ \ {walker[w].at}]
  <2>0. DOMAIN walker = Walkers /\ walker[w] \in LoopType
    BY <1>1, LoopOnTable DEF MissInv, LoopInv
  <2>1. walker' = [walker EXCEPT ![w].at = n, ![w].owed = @ \ {walker[w].at}]
    BY <1>3 DEF Generate, Null
  <2>2. walker' = [walker EXCEPT ![w] = q]
    <3> HIDE DEF n
    <3> QED
      BY <2>0, <2>1 DEF LoopType
  <2>3. q = [walker[w] EXCEPT !.at = n, !.owed = @ \ {walker[w].at}]
    OBVIOUS
  <2>4. n = table[walker[w].on].entry[walker[w].at].next
    OBVIOUS
  <2> HIDE DEF n, q
  <2> QED
    BY <1>1, <1>3, <2>2, <2>3, <2>4, MovesStep
<1> QED
  BY <1>2, <1>3

LEMMA WalkKeepsInv ==
    ASSUME MissInv, NEW w \in Walkers, Converted(w) \/ Failed(w)
    PROVE  MissInv'
<1>1. walker[w].kind = "walk" /\ table' = table /\ contents' = contents /\ setup' = setup
  BY DEF Converted, Failed
<1>2. CASE Ends(w)
  <2>1. walker' = [walker EXCEPT ![w] = Off]
    BY <1>2 DEF Ends
  <2> QED
    BY <1>1, <2>1, OffStep
<1>3. CASE ~Ends(w)
  <2> DEFINE n == table[walker[w].on].entry[walker[w].at].next
             q == [walker[w] EXCEPT !.at = n, !.owed = @ \ {n}]
  <2>0. DOMAIN walker = Walkers /\ walker[w] \in LoopType /\ walker[w].at # 0
    <3>1. walker[w] \in LoopType /\ Owes(table[walker[w].on], walker[w])
      BY <1>1, LoopOnTable
    <3> QED
      BY <1>1, <3>1 DEF MissInv, LoopInv, Owes
  <2>1. n # 0 /\ walker' = [walker EXCEPT ![w].at = n, ![w].owed = @ \ {n}]
    BY <1>3 DEF Converted, Failed, Null
  <2>3. q = [walker[w] EXCEPT !.at = n, !.owed = @ \ {n}]
    OBVIOUS
  <2>4. n = table[walker[w].on].entry[walker[w].at].next
    OBVIOUS
  <2>2. walker' = [walker EXCEPT ![w] = q]
    <3> HIDE DEF n
    <3> QED
      BY <2>0, <2>1 DEF LoopType
  <2>5. n # 0 /\ walker[w].at # 0 /\ walker[w].kind # "none"
    BY <1>1, <2>0, <2>1
  <2>6. \/ walker[w].kind = "iterator" /\ q = [walker[w] EXCEPT !.at = n, !.owed = @ \ {walker[w].at}]
        \/ n # 0 /\ walker[w].kind = "walk" /\ q = [walker[w] EXCEPT !.at = n, !.owed = @ \ {n}]
    BY <1>1, <2>3, <2>5
  <2>7. table' = table /\ contents' = contents /\ setup' = setup
    BY <1>1
  <2>8. walker[w].kind # "none" /\ walker[w].at # 0
    BY <2>5
  <2> HIDE DEF n, q
  <2> QED
    BY <2>2, <2>4, <2>6, <2>7, <2>8, MovesStep
<1> QED
  BY <1>2, <1>3

LEMMA NextKeepsInv ==
    ASSUME MissInv, [Next]_vars
    PROVE  MissInv'
<1>1. ASSUME NEW t \in Tables,
             \/ SetItem(t) \/ PopItem(t) \/ set_pop(t) \/ ClearAll(t) \/ map_update(t)
             \/ Sum(t) \/ Copy(t) \/ set_sub(t) \/ set_and(t) \/ map_keys(t) \/ map_reverse(t)
      PROVE  MissInv'
  BY <1>1, ChangeStep, UpdateStep, MadeStep DEF MakesOne
<1>2. ASSUME NEW w \in Walkers,
             Generate(w) \/ Converted(w) \/ Failed(w) \/ \E t \in Tables : Iter(w, t) \/ Join(w, t)
      PROVE  MissInv'
  BY <1>2, GenerateKeepsInv, WalkKeepsInv, IterKeepsInv
<1>3. CASE UNCHANGED vars
  BY <1>3 DEF vars, MissInv, TablesInv, LoopInv, LoopType, Tables, Walkers, kind
<1> QED
  BY <1>1, <1>2, <1>3 DEF Next

LEMMA InitHasInv ==
    ASSUME Init
    PROVE  MissInv
<1>1. \A t \in Tables : kind[t] \in Kinds
  BY SetupsAssumption DEF Init, Tables, kind
<1>2. \A t \in Tables : Good(table[t]) /\ table[t].kind = kind[t] /\ Items(table[t]) = <<>>
  BY <1>1, EmptyGood DEF Init
<1>3. TablesInv
  <2>1. contents = [t \in Tables |-> Items(table[t])]
    BY <1>2 DEF Init
  <2>2. table = [t \in Tables |-> table[t]]
    BY DEF Init
  <2> QED
    BY <1>2, <2>1, <2>2 DEF TablesInv, Init
<1>4. LoopInv
  BY DEF LoopInv, Init
<1> QED
  BY <1>3, <1>4 DEF MissInv

(* A loop over a map or a set meets every entry that was in the table when *)
(* it began and is still there, whatever scripts insert and erase between  *)
(* its steps, the entry it stands on included; and a set has the size that *)
(* a new loop counts.                                                      *)
THEOREM LoopsMissNothing == Spec => []NothingIsMissed
<1>1. Init => MissInv
  BY InitHasInv
<1>2. MissInv /\ [Next]_vars => MissInv'
  BY NextKeepsInv
<1>3. MissInv => NothingIsMissed
  BY NothingMissed
<1> QED
  BY <1>1, <1>2, <1>3, PTL DEF Spec

-----------------------------------------------------------------------------
(* SELECTIONS: the operators of OrderedMap *)

(* What is selected of s, place by place.                                  *)
Picks(f, m, s, C) ==
    /\ f \in [0 .. m -> Seq(ItemType)] /\ f[0] = <<>>
    /\ \A n \in 1 .. m : f[n] = IF s[n].hash \in C THEN Append(f[n - 1], s[n]) ELSE f[n - 1]

LEMMA PicksAgree ==
    ASSUME NEW m \in Nat, NEW s, NEW C, NEW f, Picks(f, m, s, C), NEW g, Picks(g, m, s, C)
    PROVE  \A n \in 0 .. m : f[n] = g[n]
<1> DEFINE B == {n \in 0 .. m : f[n] = g[n]}
<1>1. 0 \in B
  BY DEF Picks
<1>2. Grows(B, m)
  <2> SUFFICES ASSUME NEW n \in 1 .. m, n - 1 \in B PROVE n \in B
    BY DEF Grows
  <2>1. f[n - 1] = g[n - 1] /\ n \in 0 .. m
    OBVIOUS
  <2> QED
    BY <2>1 DEF Picks
<1> HIDE DEF B
<1>3. \A n \in 0 .. m : n \in B
  BY <1>1, <1>2, ByInduction
<1> QED
  BY <1>3 DEF B

LEMMA SelectedPicks ==
    ASSUME NEW m \in Nat, NEW s, IsRow(s, m, ItemType), NEW C
    PROVE  Picks(Ordered!Selected(s, C), m, s, C) /\ Ordered!Within(s, C) = Ordered!Selected(s, C)[m]
<1> DEFINE X == Seq(ItemType)
           step(f) == [n \in 0 .. m |-> IF n = 0 THEN <<>>
                                        ELSE IF s[n].hash \in C THEN Append(f[n - 1], s[n]) ELSE f[n - 1]]
           path == Ordered!Selected(s, C)
           g == [p \in (1 .. m) \X X |-> IF s[p[1]].hash \in C THEN Append(p[2], s[p[1]]) ELSE p[2]]
<1>1. Len(s) = m
  BY MembersOf
<1>2. path = CHOOSE f : f = step(f)
  BY <1>1 DEF Ordered!Selected
<1>3. <<>> \in X
  OBVIOUS
<1>4. \A n \in 1 .. m : s[n] \in ItemType
  BY DEF IsRow
<1>5. ASSUME NEW n \in 1 .. m, NEW r \in X
      PROVE  Append(r, s[n]) \in X
  BY <1>4
<1>6. g \in [(1 .. m) \X X -> X] /\ \A n \in 1 .. m, r \in X : g[<<n, r>>] = IF s[n].hash \in C THEN Append(r, s[n]) ELSE r
  BY <1>5
<1> HIDE DEF g, X, path
<1>7. PICK f : Runs(f, m, X, <<>>, g)
  BY <1>3, <1>6, LoopExists
<1>8. f \in [0 .. m -> X] /\ f[0] = <<>> /\ \A n \in 1 .. m : f[n] = g[<<n, f[n - 1]>>]
  BY <1>7 DEF Runs
<1>9. \A n \in 0 .. m : n # 0 => n \in 1 .. m /\ n - 1 \in 0 .. m
  OBVIOUS
<1>10. f = step(f)
  <2>1. \A n \in 0 .. m : f[n] = IF n = 0 THEN <<>> ELSE IF s[n].hash \in C THEN Append(f[n - 1], s[n]) ELSE f[n - 1]
    BY <1>6, <1>8, <1>9
  <2> QED
    BY <1>8, <2>1
<1>11. path = step(path)
  <2> HIDE DEF step
  <2> QED
    BY <1>2, <1>10
<1> DEFINE B == {n \in 0 .. m : path[n] \in X}
<1>12. path[0] = <<>> /\ \A n \in 1 .. m : path[n] = IF s[n].hash \in C THEN Append(path[n - 1], s[n]) ELSE path[n - 1]
  <2>1. path[0] = <<>>
    BY <1>11
  <2>2. ASSUME NEW n \in 1 .. m
        PROVE  path[n] = IF s[n].hash \in C THEN Append(path[n - 1], s[n]) ELSE path[n - 1]
    <3>1. n \in 0 .. m /\ n # 0
      OBVIOUS
    <3> QED
      BY <1>11, <3>1
  <2> QED
    BY <2>1, <2>2
<1>13. Grows(B, m)
  <2> SUFFICES ASSUME NEW n \in 1 .. m, n - 1 \in B PROVE n \in B
    BY DEF Grows
  <2>1. path[n - 1] \in X /\ n \in 0 .. m
    OBVIOUS
  <2> QED
    BY <1>5, <1>12, <2>1
<1>14. \A n \in 0 .. m : n \in B
  <2>1. 0 \in B
    BY <1>3, <1>12
  <2> HIDE DEF B
  <2> QED
    BY <1>13, <2>1, ByInduction
<1>15. path \in [0 .. m -> X]
  <2> DEFINE body(n) == IF n = 0 THEN <<>> ELSE IF s[n].hash \in C THEN Append(path[n - 1], s[n]) ELSE path[n - 1]
  <2>1. path = [n \in 0 .. m |-> body(n)]
    BY <1>11
  <2> HIDE DEF body
  <2>2. \A n \in 0 .. m : path[n] \in X
    BY <1>14
  <2> QED
    BY <2>1, <2>2
<1>16. Ordered!Within(s, C) = path[m]
  BY <1>1 DEF Ordered!Within, path
<1> QED
  BY <1>12, <1>15, <1>16 DEF Picks, X, path

LEMMA WithinNone ==
    ASSUME NEW C
    PROVE  Ordered!Within(<<>>, C) = <<>>
<1>1. IsRow(<<>>, 0, ItemType)
  BY DEF IsRow
<1>2. /\ Picks(Ordered!Selected(<<>>, C), 0, <<>>, C)
      /\ Ordered!Within(<<>>, C) = Ordered!Selected(<<>>, C)[0]
  BY <1>1, SelectedPicks
<1> QED
  BY <1>2 DEF Picks

(* A selection grows with the sequence.                                    *)
LEMMA WithinAppend ==
    ASSUME NEW s \in Seq(ItemType), NEW x \in ItemType, NEW C
    PROVE  Ordered!Within(Append(s, x), C)
               = IF x.hash \in C THEN Append(Ordered!Within(s, C), x) ELSE Ordered!Within(s, C)
<1> DEFINE m == Len(s)
           r == Append(s, x)
           f == Ordered!Selected(s, C)
           g == Ordered!Selected(r, C)
           h == [n \in 0 .. m |-> g[n]]
<1>1. m \in Nat /\ IsRow(s, m, ItemType)
  BY DEF IsRow
<1>2. IsRow(r, m + 1, ItemType) /\ (\A i \in 1 .. m : r[i] = s[i]) /\ r[m + 1] = x
  <2> HIDE DEF m
  <2>1. IsRow(r, m + 1, ItemType) /\ Adds(r, s, m, x)
    BY <1>1, Appended
  <2> HIDE DEF r
  <2> QED
    BY <2>1 DEF Adds
<1> HIDE DEF m, r
<1>3. Picks(f, m, s, C) /\ Ordered!Within(s, C) = f[m]
  BY <1>1, SelectedPicks
<1>4. Picks(g, m + 1, r, C) /\ Ordered!Within(r, C) = g[m + 1]
  <2>1. m + 1 \in Nat
    BY <1>1
  <2> DEFINE k == m + 1
  <2> HIDE DEF k
  <2>2. k \in Nat /\ IsRow(r, k, ItemType)
    BY <1>2, <2>1 DEF k
  <2>3. Picks(Ordered!Selected(r, C), k, r, C) /\ Ordered!Within(r, C) = Ordered!Selected(r, C)[k]
    BY <2>2, SelectedPicks
  <2> QED
    BY <2>3 DEF k
<1> HIDE DEF f, g
<1>5. Picks(h, m, s, C)
  <2>1. g \in [0 .. m + 1 -> Seq(ItemType)] /\ g[0] = <<>>
    BY <1>4 DEF Picks
  <2>2. h \in [0 .. m -> Seq(ItemType)] /\ h[0] = <<>>
    BY <1>1, <2>1
  <2>3. ASSUME NEW n \in 1 .. m
        PROVE  h[n] = IF s[n].hash \in C THEN Append(h[n - 1], s[n]) ELSE h[n - 1]
    <3>1. n \in 1 .. m + 1 /\ n \in 0 .. m /\ n - 1 \in 0 .. m
      BY <1>1
    <3>2. g[n] = IF r[n].hash \in C THEN Append(g[n - 1], r[n]) ELSE g[n - 1]
      BY <1>4, <3>1 DEF Picks
    <3> QED
      BY <1>2, <3>1, <3>2
  <2> HIDE DEF h
  <2> QED
    BY <2>2, <2>3 DEF Picks
<1>6. g[m] = f[m]
  <2>1. h[m] = f[m]
    <3> HIDE DEF h
    <3>1. \A n \in 0 .. m : h[n] = f[n]
      BY <1>1, <1>3, <1>5, PicksAgree
    <3> QED
      BY <1>1, <3>1
  <2> QED
    BY <1>1, <2>1
<1>7. g[m + 1] = IF r[m + 1].hash \in C THEN Append(g[m], r[m + 1]) ELSE g[m]
  <2>1. m + 1 \in 1 .. m + 1 /\ (m + 1) - 1 = m
    BY <1>1
  <2> QED
    BY <1>4, <2>1 DEF Picks
<1> QED
  BY <1>2, <1>3, <1>4, <1>6, <1>7 DEF r

-----------------------------------------------------------------------------
(* LAWS OF SELECTIONS *)

LEMMA WithinWithin ==
    ASSUME NEW m \in Nat, NEW s, IsRow(s, m, ItemType), NEW A, NEW C
    PROVE  /\ Ordered!Within(s, A) \in Seq(ItemType)
           /\ Ordered!Within(Ordered!Within(s, A), C) = Ordered!Within(s, A \cap C)
<1> DEFINE f == Ordered!Selected(s, A)
           D == A \cap C
           g == Ordered!Selected(s, D)
<1>1. Picks(f, m, s, A) /\ Ordered!Within(s, A) = f[m]
  BY SelectedPicks
<1>2. Picks(g, m, s, D) /\ Ordered!Within(s, D) = g[m]
  <2> HIDE DEF D
  <2> QED
    BY SelectedPicks
<1>3. \A h : h \in D <=> h \in A /\ h \in C
  OBVIOUS
<1> HIDE DEF f, g, D
<1> DEFINE B == {n \in 0 .. m : Ordered!Within(f[n], C) = g[n]}
<1>4. 0 \in B
  <2>1. f[0] = <<>> /\ g[0] = <<>>
    BY <1>1, <1>2 DEF Picks
  <2> QED
    BY <2>1, WithinNone
<1>5. Grows(B, m)
  <2> SUFFICES ASSUME NEW n \in 1 .. m, n - 1 \in B PROVE n \in B
    BY DEF Grows
  <2> DEFINE r == f[n - 1]
             x == s[n]
  <2>1. Ordered!Within(r, C) = g[n - 1] /\ n \in 0 .. m /\ n - 1 \in 0 .. m
    OBVIOUS
  <2>2. r \in Seq(ItemType) /\ f[n] = IF x.hash \in A THEN Append(r, x) ELSE r
    BY <1>1, <2>1 DEF Picks
  <2>3. g[n] = IF x.hash \in D THEN Append(g[n - 1], x) ELSE g[n - 1]
    BY <1>2 DEF Picks
  <2>4. x \in ItemType
    BY DEF IsRow
  <2> HIDE DEF r, x
  <2>5. Ordered!Within(Append(r, x), C) = IF x.hash \in C THEN Append(Ordered!Within(r, C), x) ELSE Ordered!Within(r, C)
    BY <2>2, <2>4, WithinAppend
  <2>6. Ordered!Within(f[n], C) = g[n]
    BY <1>3, <2>1, <2>2, <2>3, <2>5
  <2> QED
    BY <2>1, <2>6
<1>6. m \in B
  <2> HIDE DEF B
  <2>1. \A n \in 0 .. m : n \in B
    BY <1>4, <1>5, ByInduction
  <2> QED
    BY <2>1
<1>7. f[m] \in Seq(ItemType)
  BY <1>1 DEF Picks
<1> QED
  BY <1>1, <1>2, <1>6, <1>7 DEF D

HashesUpTo(s, n) == {s[i].hash : i \in 1 .. n}

LEMMA HashesAre ==
    ASSUME NEW S, NEW n \in Nat, NEW s, IsRow(s, n, S)
    PROVE  Ordered!HashesOf(s) = HashesUpTo(s, n)
<1>1. ToSet(s) = Members(s, n)
  BY MembersOf
<1>2. Ordered!HashesOf(s) = {e.hash : e \in ToSet(s)}
  BY DEF Ordered!HashesOf, Ordered!ToSet, ToSet
<1> QED
  BY <1>1, <1>2 DEF Members, HashesUpTo

LEMMA HashesAppend ==
    ASSUME NEW s \in Seq(ItemType), NEW x \in ItemType
    PROVE  Ordered!HashesOf(Append(s, x)) = Ordered!HashesOf(s) \cup {x.hash}
<1> DEFINE m == Len(s)
           k == m + 1
           r == Append(s, x)
<1>1. m \in Nat /\ IsRow(s, m, ItemType)
  BY DEF IsRow
<1>2. IsRow(r, k, ItemType) /\ Adds(r, s, m, x)
  <2> HIDE DEF m
  <2> QED
    BY <1>1, Appended
<1>3. k \in Nat
  BY <1>1
<1> HIDE DEF m, r, k
<1>4. Ordered!HashesOf(s) = HashesUpTo(s, m) /\ Ordered!HashesOf(r) = HashesUpTo(r, k)
  BY <1>1, <1>2, <1>3, HashesAre
<1>5. HashesUpTo(r, k) = HashesUpTo(s, m) \cup {x.hash}
  <2>1. 1 .. k = (1 .. m) \cup {k}
    BY <1>1 DEF k
  <2>2. (\A i \in 1 .. m : r[i] = s[i]) /\ r[k] = x
    BY <1>2 DEF Adds, k
  <2> QED
    BY <2>1, <2>2 DEF HashesUpTo
<1> QED
  BY <1>4, <1>5 DEF r

LEMMA HashesOfNone == Ordered!HashesOf(<<>>) = {}
  BY DEF Ordered!HashesOf, Ordered!ToSet

LEMMA PicksHashes ==
    ASSUME NEW m \in Nat, NEW s, IsRow(s, m, ItemType), NEW C, NEW f, Picks(f, m, s, C)
    PROVE  \A n \in 0 .. m : Ordered!HashesOf(f[n]) = HashesUpTo(s, n) \cap C
<1> DEFINE B == {n \in 0 .. m : Ordered!HashesOf(f[n]) = HashesUpTo(s, n) \cap C}
<1>1. 0 \in B
  <2>1. f[0] = <<>> /\ HashesUpTo(s, 0) = {}
    BY DEF Picks, HashesUpTo
  <2> QED
    BY <2>1, HashesOfNone
<1>2. Grows(B, m)
  <2> SUFFICES ASSUME NEW n \in 1 .. m, n - 1 \in B PROVE n \in B
    BY DEF Grows
  <2> DEFINE r == f[n - 1]
             x == s[n]
  <2>1. Ordered!HashesOf(r) = HashesUpTo(s, n - 1) \cap C /\ n \in 0 .. m /\ n - 1 \in 0 .. m
    OBVIOUS
  <2>2. r \in Seq(ItemType) /\ f[n] = IF x.hash \in C THEN Append(r, x) ELSE r
    BY <2>1 DEF Picks
  <2>3. x \in ItemType
    BY DEF IsRow
  <2>4. HashesUpTo(s, n) = HashesUpTo(s, n - 1) \cup {x.hash}
    <3>1. 1 .. n = (1 .. n - 1) \cup {n}
      OBVIOUS
    <3> QED
      BY <3>1 DEF HashesUpTo
  <2> HIDE DEF r, x
  <2>5. Ordered!HashesOf(Append(r, x)) = Ordered!HashesOf(r) \cup {x.hash}
    BY <2>2, <2>3, HashesAppend
  <2>6. Ordered!HashesOf(f[n]) = HashesUpTo(s, n) \cap C
    BY <2>1, <2>2, <2>4, <2>5
  <2> QED
    BY <2>1, <2>6
<1>3. \A n \in 0 .. m : n \in B
  <2> HIDE DEF B
  <2> QED
    BY <1>1, <1>2, ByInduction
<1> QED
  BY <1>3

LEMMA WithinHashes ==
    ASSUME NEW m \in Nat, NEW s, IsRow(s, m, ItemType), NEW C
    PROVE  Ordered!HashesOf(Ordered!Within(s, C)) = Ordered!HashesOf(s) \cap C
<1> DEFINE f == Ordered!Selected(s, C)
<1>1. Picks(f, m, s, C) /\ Ordered!Within(s, C) = f[m]
  BY SelectedPicks
<1> HIDE DEF f
<1>2. \A n \in 0 .. m : Ordered!HashesOf(f[n]) = HashesUpTo(s, n) \cap C
  BY <1>1, PicksHashes
<1>3. Ordered!HashesOf(s) = HashesUpTo(s, m)
  BY HashesAre
<1> QED
  BY <1>1, <1>2, <1>3

(* The first n of a row.                                                   *)
FirstOf(r, n) == [i \in 1 .. n |-> r[i]]

LEMMA FirstGrows ==
    ASSUME NEW S, NEW n \in Nat, NEW r, \A i \in 1 .. n + 1 : r[i] \in S
    PROVE  /\ FirstOf(r, n) \in Seq(S) /\ FirstOf(r, n + 1) \in Seq(S)
           /\ Append(FirstOf(r, n), r[n + 1]) = FirstOf(r, n + 1)
<1> DEFINE s == FirstOf(r, n)
           k == n + 1
           x == r[k]
           t == Append(s, x)
<1>1. IsRow(s, n, S) /\ x \in S /\ k \in Nat
  BY DEF IsRow, FirstOf
<1>2. IsRow(FirstOf(r, k), k, S)
  BY <1>1 DEF IsRow, FirstOf
<1>3. s \in Seq(S) /\ FirstOf(r, k) \in Seq(S)
  <2>1. s \in [1 .. n -> S] /\ FirstOf(r, k) \in [1 .. k -> S]
    BY <1>1, <1>2 DEF IsRow
  <2> HIDE DEF s, k
  <2> QED
    BY <1>1, <2>1, SequenceLength
<1>4. IsRow(t, n + 1, S) /\ Adds(t, s, n, x)
  <2> HIDE DEF s, x
  <2> QED
    BY <1>1, Appended
<1>5. t = FirstOf(r, k)
  <2>1. t \in [1 .. k -> S] /\ t[k] = x /\ \A i \in 1 .. n : t[i] = s[i]
    BY <1>4 DEF IsRow, Adds
  <2> HIDE DEF t
  <2>2. \A i \in 1 .. k : i = k \/ i \in 1 .. n
    OBVIOUS
  <2>3. \A i \in 1 .. k : t[i] = r[i]
    BY <2>1, <2>2 DEF FirstOf
  <2>4. t = [i \in 1 .. k |-> r[i]]
    BY <2>1, <2>3
  <2> QED
    BY <2>4 DEF FirstOf
<1> QED
  BY <1>3, <1>5

LEMMA FirstIsAll ==
    ASSUME NEW S, NEW n \in Nat, NEW s, IsRow(s, n, S)
    PROVE  FirstOf(s, n) = s /\ FirstOf(s, 0) = <<>>
  BY DEF IsRow, FirstOf

LEMMA WithinAll ==
    ASSUME NEW m \in Nat, NEW s, IsRow(s, m, ItemType), NEW C, Ordered!HashesOf(s) \subseteq C
    PROVE  Ordered!Within(s, C) = s
<1> DEFINE f == [n \in 0 .. m |-> FirstOf(s, n)]
<1>1. \A i \in 1 .. m : s[i] \in ItemType /\ s[i].hash \in C
  <2>1. Ordered!HashesOf(s) = HashesUpTo(s, m)
    BY HashesAre
  <2> QED
    BY <2>1 DEF HashesUpTo, IsRow
<1>2. ASSUME NEW n \in 1 .. m
      PROVE  FirstOf(s, n) \in Seq(ItemType) /\ FirstOf(s, n) = Append(FirstOf(s, n - 1), s[n])
  <2> DEFINE k == n - 1
  <2>1. k \in Nat /\ n = k + 1 /\ \A i \in 1 .. k + 1 : s[i] \in ItemType
    BY <1>1
  <2> HIDE DEF k
  <2>2. FirstOf(s, k + 1) \in Seq(ItemType) /\ Append(FirstOf(s, k), s[k + 1]) = FirstOf(s, k + 1)
    BY <2>1, FirstGrows
  <2> QED
    BY <2>1, <2>2 DEF k
<1>3. FirstOf(s, 0) = <<>> /\ FirstOf(s, m) = s
  BY FirstIsAll
<1>4. Picks(f, m, s, C)
  <2>1. \A n \in 0 .. m : FirstOf(s, n) \in Seq(ItemType)
    <3>1. \A n \in 0 .. m : n = 0 \/ n \in 1 .. m
      OBVIOUS
    <3>2. <<>> \in Seq(ItemType)
      OBVIOUS
    <3> QED
      BY <1>2, <1>3, <3>1, <3>2
  <2>2. f \in [0 .. m -> Seq(ItemType)] /\ f[0] = <<>>
    BY <1>3, <2>1
  <2>3. ASSUME NEW n \in 1 .. m PROVE f[n] = Append(f[n - 1], s[n])
    <3>1. n \in 0 .. m /\ n - 1 \in 0 .. m
      OBVIOUS
    <3> QED
      BY <1>2, <3>1
  <2> HIDE DEF f
  <2> QED
    BY <1>1, <2>2, <2>3 DEF Picks
<1>5. Picks(Ordered!Selected(s, C), m, s, C) /\ Ordered!Within(s, C) = Ordered!Selected(s, C)[m]
  BY SelectedPicks
<1>6. f[m] = Ordered!Selected(s, C)[m]
  <2> HIDE DEF f
  <2>1. \A n \in 0 .. m : f[n] = Ordered!Selected(s, C)[n]
    BY <1>4, <1>5, PicksAgree
  <2> QED
    BY <2>1
<1> QED
  BY <1>3, <1>5, <1>6

LEMMA WithoutWithout ==
    ASSUME NEW m \in Nat, NEW s, IsRow(s, m, ItemType), NEW A, NEW B, NEW D, D = A \cup B
    PROVE  Ordered!Without(Ordered!Without(s, A), B) = Ordered!Without(s, D)
<1> DEFINE H == Ordered!HashesOf(s)
           r == Ordered!Within(s, H \ A)
<1>1. Ordered!HashesOf(r) = H \cap (H \ A)
  BY WithinHashes
<1>2. Ordered!Without(r, B) = Ordered!Within(r, Ordered!HashesOf(r) \ B)
  BY DEF Ordered!Without
<1>3. Ordered!Within(r, Ordered!HashesOf(r) \ B) = Ordered!Within(s, (H \ A) \cap (Ordered!HashesOf(r) \ B))
  BY WithinWithin
<1>4. (H \ A) \cap (Ordered!HashesOf(r) \ B) = H \ (A \cup B)
  BY <1>1
<1>5. Ordered!Without(s, A \cup B) = Ordered!Within(s, H \ (A \cup B))
  BY DEF Ordered!Without
<1>6. Ordered!Without(s, A) = r
  BY DEF Ordered!Without
<1> QED
  BY <1>2, <1>3, <1>4, <1>5, <1>6

-----------------------------------------------------------------------------
(* ONE OPERATION ON A TABLE IS ONE ON ITS ITEMS *)

LEMMA PlaceIs ==
    ASSUME NEW n \in Nat, NEW s, IsRow(s, n, ItemType), Distinct(s, n), NEW h
    PROVE  /\ Unknown(s, h) => Ordered!Place(s, h) = 0
           /\ \A p \in 1 .. n : s[p].hash = h => Ordered!Place(s, h) = p
<1>1. DOMAIN s = 1 .. n
  BY MembersOf
<1> DEFINE at == {i \in DOMAIN s : s[i].hash = h}
<1>2. Ordered!Place(s, h) = IF at = {} THEN 0 ELSE Ordered!Min(at)
  BY DEF Ordered!Place
<1>3. ASSUME Unknown(s, h) PROVE at = {}
  BY <1>3 DEF Unknown
<1>4. ASSUME NEW p \in 1 .. n, s[p].hash = h PROVE at # {} /\ Ordered!Min(at) = p
  <2>1. at = {p}
    BY <1>1, <1>4 DEF Distinct
  <2>2. p <= p
    OBVIOUS
  <2> HIDE DEF at
  <2> QED
    BY <2>1, <2>2 DEF Ordered!Min
<1> QED
  BY <1>2, <1>3, <1>4

LEMMA InsertPuts ==
    ASSUME NEW t, Good(t), NEW x \in ItemType
    PROVE  Items(Inserted(t, x)) = Ordered!Put(t.kind, Items(t), x)
<1> DEFINE h == x.hash
           u == Inserted(t, x)
           s == Items(t)
           y == [hash |-> h, key |-> x.key, value |-> x.value]
<1>1. h \in Int /\ x.key \in Objects /\ x.value \in Objects /\ h = Hash(x.key) /\ x = y
  BY DEF ItemType
<1>2. u = Insert(t, h, x.key, x.value)
  BY DEF Inserted
<1>3. PICK n \in Nat : IsRow(s, n, ItemType) /\ Distinct(s, n)
  BY ItemsOf
<1>4. Ordered!Put(t.kind, s, x)
          = LET p == Ordered!Place(s, h)
            IN  IF p = 0 THEN Append(s, x)
                ELSE [s EXCEPT ![p] = IF t.kind = "dictionary" THEN [@ EXCEPT !.value = x.value] ELSE x]
  BY DEF Ordered!Put
<1> HIDE DEF h, u, s, y
<1>5. CASE Find(t, h) = 0
  <2>1. u = Link(t, h, x.key, x.value)
    BY <1>2, <1>5 DEF Insert, Null
  <2>2. Items(u) = Append(Items(t), [hash |-> h, key |-> x.key, value |-> x.value])
    BY <1>1, <1>5, <2>1, LinkGood
  <2>3. Unknown(s, h)
    BY <1>1, <1>5, NotFound DEF s
  <2>4. Ordered!Place(s, h) = 0
    BY <1>3, <2>3, PlaceIs
  <2> QED
    BY <1>1, <1>4, <2>2, <2>4 DEF y, s, u
<1>6. CASE Find(t, h) # 0
  <2>1. PICK m \in Nat : \E p \in 1 .. m :
            Replaced(t.kind, Items(t), Items(u), m, p, [hash |-> h, key |-> x.key, value |-> x.value])
    BY <1>1, <1>2, <1>6, InsertReplaces
  <2>2. PICK p \in 1 .. m : Replaced(t.kind, s, Items(u), m, p, x)
    BY <1>1, <2>1 DEF y, s
  <2>3. /\ IsRow(s, m, ItemType) /\ s[p].hash = h /\ Distinct(s, m)
        /\ Items(u) = [s EXCEPT ![p] = IF t.kind = "dictionary" THEN [@ EXCEPT !.value = x.value] ELSE x]
    BY <2>2 DEF Replaced, h
  <2>4. Ordered!Place(s, h) = p
    BY <2>3, PlaceIs
  <2>5. p # 0
    OBVIOUS
  <2> QED
    BY <1>4, <2>3, <2>4, <2>5 DEF u, s
<1> QED
  BY <1>5, <1>6

(* A row without its item at p is what is selected if that one is not.     *)
LEMMA ShorterPicks ==
    ASSUME NEW n \in Nat, NEW s, IsRow(s, n, ItemType), NEW p \in 1 .. n,
           NEW C, \A i \in 1 .. n : s[i].hash \in C <=> i # p
    PROVE  Ordered!Within(s, C) = Shorter(s, n, p)
<1> DEFINE r == Shorter(s, n, p)
           f == [j \in 0 .. n |-> IF j < p THEN FirstOf(r, j) ELSE FirstOf(r, j - 1)]
<1>1. r = [i \in 1 .. n - 1 |-> IF i < p THEN s[i] ELSE s[i + 1]]
  BY DEF Shorter
<1>2. \A i \in 1 .. n : s[i] \in ItemType
  BY DEF IsRow
<1>3. /\ \A i \in 1 .. n - 1 : r[i] \in ItemType
      /\ \A i \in 1 .. n : i < p => i \in 1 .. n - 1 /\ r[i] = s[i]
      /\ \A i \in 1 .. n : p < i => i - 1 \in 1 .. n - 1 /\ r[i - 1] = s[i]
  <2>1. ASSUME NEW i \in 1 .. n - 1 PROVE r[i] = IF i < p THEN s[i] ELSE s[i + 1]
    BY <1>1
  <2>2. \A i \in 1 .. n - 1 : i \in 1 .. n /\ i + 1 \in 1 .. n
    OBVIOUS
  <2> HIDE DEF r
  <2>3. \A i \in 1 .. n : i < p => i \in 1 .. n - 1 /\ r[i] = s[i]
    BY <2>1
  <2>4. ASSUME NEW i \in 1 .. n, p < i PROVE i - 1 \in 1 .. n - 1 /\ r[i - 1] = s[i]
    <3>1. i - 1 \in 1 .. n - 1 /\ ~(i - 1 < p) /\ (i - 1) + 1 = i
      BY <2>4
    <3> QED
      BY <2>1, <3>1
  <2> QED
    BY <1>2, <2>1, <2>2, <2>3, <2>4
<1> HIDE DEF r
<1>4. ASSUME NEW j \in 1 .. n - 1
      PROVE  FirstOf(r, j) \in Seq(ItemType) /\ FirstOf(r, j) = Append(FirstOf(r, j - 1), r[j])
  <2> DEFINE k == j - 1
  <2>1. k \in Nat /\ j = k + 1 /\ \A i \in 1 .. k + 1 : r[i] \in ItemType
    BY <1>3
  <2> HIDE DEF k
  <2>2. FirstOf(r, k + 1) \in Seq(ItemType) /\ Append(FirstOf(r, k), r[k + 1]) = FirstOf(r, k + 1)
    BY <2>1, FirstGrows
  <2> QED
    BY <2>1, <2>2 DEF k
<1>5. FirstOf(r, 0) = <<>> /\ FirstOf(r, n - 1) = r
  BY <1>1 DEF FirstOf, r
<1>6. Picks(f, n, s, C)
  <2>1. \A j \in 0 .. n - 1 : FirstOf(r, j) \in Seq(ItemType)
    <3>1. \A j \in 0 .. n - 1 : j = 0 \/ j \in 1 .. n - 1
      OBVIOUS
    <3>2. <<>> \in Seq(ItemType)
      OBVIOUS
    <3> QED
      BY <1>4, <1>5, <3>1, <3>2
  <2>2. \A j \in 0 .. n : (j < p => j \in 0 .. n - 1) /\ (~(j < p) => j - 1 \in 0 .. n - 1)
    OBVIOUS
  <2>3. f \in [0 .. n -> Seq(ItemType)] /\ f[0] = <<>>
    BY <1>5, <2>1, <2>2
  <2>4. ASSUME NEW j \in 1 .. n
        PROVE  f[j] = IF s[j].hash \in C THEN Append(f[j - 1], s[j]) ELSE f[j - 1]
    <3>1. j \in 0 .. n /\ j - 1 \in 0 .. n
      OBVIOUS
    <3>2. /\ f[j] = IF j < p THEN FirstOf(r, j) ELSE FirstOf(r, j - 1)
          /\ f[j - 1] = IF j - 1 < p THEN FirstOf(r, j - 1) ELSE FirstOf(r, (j - 1) - 1)
      BY <3>1
    <3> HIDE DEF f
    <3>3. CASE j < p
      <4>1. j \in 1 .. n - 1 /\ r[j] = s[j] /\ j - 1 < p /\ s[j].hash \in C
        BY <1>3, <3>3
      <4> QED
        BY <1>4, <3>2, <3>3, <4>1
    <3>4. CASE j = p
      <4>1. j - 1 < p /\ s[j].hash \notin C /\ ~(j < p)
        BY <3>4
      <4> QED
        BY <3>2, <4>1
    <3>5. CASE p < j
      <4>1. j - 1 \in 1 .. n - 1 /\ r[j - 1] = s[j] /\ ~(j - 1 < p) /\ ~(j < p) /\ s[j].hash \in C
        BY <1>3, <3>5
      <4>2. FirstOf(r, j - 1) = Append(FirstOf(r, (j - 1) - 1), r[j - 1])
        BY <1>4, <4>1
      <4> QED
        BY <3>2, <4>1, <4>2
    <3> QED
      BY <3>3, <3>4, <3>5
  <2> HIDE DEF f
  <2> QED
    BY <2>3, <2>4 DEF Picks
<1>7. f[n] = r
  BY <1>5
<1>8. Picks(Ordered!Selected(s, C), n, s, C) /\ Ordered!Within(s, C) = Ordered!Selected(s, C)[n]
  BY SelectedPicks
<1>9. f[n] = Ordered!Selected(s, C)[n]
  <2> HIDE DEF f
  <2>1. \A j \in 0 .. n : f[j] = Ordered!Selected(s, C)[j]
    BY <1>6, <1>8, PicksAgree
  <2> QED
    BY <2>1
<1> QED
  BY <1>7, <1>8, <1>9 DEF r

LEMMA EraseIsWithout ==
    ASSUME NEW t, Good(t), NEW h \in Int
    PROVE  Items(Erase(t, h)) = Ordered!Without(Items(t), {h})
<1> DEFINE s == Items(t)
           H == Ordered!HashesOf(s)
<1>1. Ordered!Without(s, {h}) = Ordered!Within(s, H \ {h})
  BY DEF Ordered!Without
<1>2. PICK m \in Nat : IsRow(s, m, ItemType)
  BY ItemsOf
<1>3. H = HashesUpTo(s, m) /\ DOMAIN s = 1 .. m
  BY <1>2, HashesAre, MembersOf
<1>4. CASE Find(t, h) = 0
  <2>1. Unknown(s, h)
    BY <1>4, NotFound
  <2>2. h \notin H
    BY <1>3, <2>1 DEF Unknown, HashesUpTo
  <2>3. H \subseteq H \ {h}
    BY <2>2
  <2>4. Ordered!Within(s, H \ {h}) = s
    <3> DEFINE C == H \ {h}
    <3>1. H \subseteq C
      BY <2>3
    <3> HIDE DEF C, s
    <3>2. Ordered!Within(s, C) = s
      BY <1>2, <3>1, WithinAll
    <3> QED
      BY <3>2 DEF C
  <2>5. Erase(t, h) = t
    BY <1>4 DEF Erase, Null
  <2> QED
    BY <1>1, <2>4, <2>5
<1>5. CASE Find(t, h) # 0
  <2> DEFINE u == Erase(t, h)
  <2>1. PICK n \in Nat : \E p \in 1 .. n : Dropped(s, Items(u), n, p, h)
    BY <1>5, EraseDrops
  <2>2. PICK p \in 1 .. n : Dropped(s, Items(u), n, p, h)
    BY <2>1
  <2> HIDE DEF s, u, H
  <2>3. IsRow(s, n, ItemType) /\ s[p].hash = h /\ Distinct(s, n) /\ Items(u) = Shorter(s, n, p)
    BY <2>2 DEF Dropped
  <2>4. H = HashesUpTo(s, n)
    BY <2>3, HashesAre DEF H
  <2> DEFINE C == H \ {h}
  <2>5. \A i \in 1 .. n : s[i].hash \in C <=> i # p
    BY <2>3, <2>4 DEF HashesUpTo, Distinct
  <2> HIDE DEF C
  <2>6. Ordered!Within(s, C) = Shorter(s, n, p)
    BY <2>3, <2>5, ShorterPicks
  <2> QED
    BY <1>1, <2>3, <2>6 DEF C, u, s, H
<1> QED
  BY <1>4, <1>5

-----------------------------------------------------------------------------
(* LOOPS OVER ITEMS *)

PutsRow(f, m, k, s, u) ==
    /\ f = [n \in 0 .. m |-> f[n]] /\ f[0] = s
    /\ \A n \in 1 .. m : f[n] = Ordered!Put(k, f[n - 1], u[n])

LEMMA PutsAre ==
    ASSUME NEW m \in Nat, NEW u, Len(u) = m, NEW k, NEW s, NEW f, PutsRow(f, m, k, s, u)
    PROVE  Ordered!PutAll(k, s, u) = f[m]
<1> DEFINE step(g) == [n \in 0 .. m |-> IF n = 0 THEN s ELSE Ordered!Put(k, g[n - 1], u[n])]
           puts == Ordered!Puts(k, s, u)
<1>1. puts = CHOOSE g : g = step(g)
  BY DEF Ordered!Puts
<1>2. f = step(f)
  <2>1. \A n \in 0 .. m : n # 0 => n \in 1 .. m
    OBVIOUS
  <2>2. \A n \in 0 .. m : f[n] = IF n = 0 THEN s ELSE Ordered!Put(k, f[n - 1], u[n])
    BY <2>1 DEF PutsRow
  <2>3. f = [n \in 0 .. m |-> f[n]]
    BY DEF PutsRow
  <2> QED
    BY <2>2, <2>3
<1> HIDE DEF puts
<1>3. puts = step(puts)
  <2> HIDE DEF step
  <2> QED
    BY <1>1, <1>2
<1> DEFINE B == {n \in 0 .. m : puts[n] = f[n]}
<1>4. 0 \in B
  BY <1>3 DEF PutsRow
<1>5. Grows(B, m)
  <2> SUFFICES ASSUME NEW n \in 1 .. m, n - 1 \in B PROVE n \in B
    BY DEF Grows
  <2>1. puts[n - 1] = f[n - 1] /\ n \in 0 .. m /\ n # 0
    OBVIOUS
  <2>2. puts[n] = Ordered!Put(k, puts[n - 1], u[n])
    BY <1>3, <2>1
  <2> QED
    BY <2>1, <2>2 DEF PutsRow
<1>6. m \in B
  <2> HIDE DEF B
  <2>1. \A n \in 0 .. m : n \in B
    BY <1>4, <1>5, ByInduction
  <2> QED
    BY <2>1
<1>7. Ordered!PutAll(k, s, u) = puts[m]
  BY DEF Ordered!PutAll, puts
<1> QED
  BY <1>6, <1>7

LEMMA InsertAllPuts ==
    ASSUME NEW t, Good(t), NEW s, Rows(s)
    PROVE  Items(InsertAll(t, s)) = Ordered!PutAll(t.kind, Items(t), s)
<1>1. PICK m \in Nat : IsRow(s, m, ItemType)
  BY DEF Rows
<1> DEFINE path == Insertions(t, s)
           f == [n \in 0 .. m |-> Items(path[n])]
<1>2. /\ TableRun(path, m, t) /\ Len(s) = m
      /\ \A n \in 1 .. m : path[n] = Inserted(path[n - 1], s[n])
  BY <1>1, InsertionsRun
<1>3. InsertAll(t, s) = path[m]
  BY <1>2 DEF InsertAll
<1> HIDE DEF path
<1>4. \A n \in 0 .. m : Good(path[n]) /\ path[n].kind = t.kind
  BY <1>2 DEF TableRun, Tabs
<1>5. ASSUME NEW n \in 1 .. m PROVE f[n] = Ordered!Put(t.kind, f[n - 1], s[n])
  <2> DEFINE u == path[n - 1]
             x == s[n]
  <2>1. n \in 0 .. m /\ n - 1 \in 0 .. m
    OBVIOUS
  <2>2. Good(u) /\ u.kind = t.kind /\ x \in ItemType /\ path[n] = Inserted(u, x)
    BY <1>1, <1>2, <1>4, <2>1 DEF IsRow
  <2> HIDE DEF u, x
  <2>3. Items(Inserted(u, x)) = Ordered!Put(t.kind, Items(u), x)
    BY <2>2, InsertPuts
  <2> QED
    BY <2>1, <2>2, <2>3 DEF u, x
<1>6. PutsRow(f, m, t.kind, Items(t), s)
  <2>1. f[0] = Items(t)
    BY <1>2 DEF TableRun
  <2>2. f = [n \in 0 .. m |-> f[n]]
    OBVIOUS
  <2> HIDE DEF f
  <2> QED
    BY <1>5, <2>1, <2>2 DEF PutsRow
<1>7. f[m] = Items(path[m])
  OBVIOUS
<1> HIDE DEF f
<1>8. Ordered!PutAll(t.kind, Items(t), s) = f[m]
  BY <1>2, <1>6, PutsAre
<1> QED
  BY <1>3, <1>7, <1>8

(* Different items that are put into nothing are there afterwards.         *)
LEMMA PutsCopy ==
    ASSUME NEW m \in Nat, NEW s, IsRow(s, m, ItemType), Distinct(s, m), NEW k
    PROVE  Ordered!PutAll(k, <<>>, s) = s
<1> DEFINE f == [n \in 0 .. m |-> FirstOf(s, n)]
<1>1. Len(s) = m
  BY MembersOf
<1>2. ASSUME NEW n \in 1 .. m PROVE FirstOf(s, n) = Ordered!Put(k, FirstOf(s, n - 1), s[n])
  <2> DEFINE j == n - 1
             r == FirstOf(s, j)
             h == s[n].hash
  <2>1. j \in Nat /\ n = j + 1 /\ \A i \in 1 .. j + 1 : s[i] \in ItemType
    BY DEF IsRow
  <2> HIDE DEF j
  <2>2. Append(r, s[j + 1]) = FirstOf(s, j + 1)
    BY <2>1, FirstGrows
  <2>3. IsRow(r, j, ItemType) /\ Distinct(r, j) /\ Unknown(r, h)
    <3>1. \A i \in 1 .. j : i \in 1 .. m /\ i # n
      BY <2>1
    <3> QED
      BY <2>1, <3>1 DEF IsRow, Distinct, Unknown, FirstOf
  <2> HIDE DEF r
  <2>4. Ordered!Place(r, h) = 0
    BY <2>1, <2>3, PlaceIs
  <2>5. Ordered!Put(k, r, s[n]) = Append(r, s[n])
    BY <2>4 DEF Ordered!Put
  <2> QED
    BY <2>1, <2>2, <2>5 DEF r, j
<1>3. FirstOf(s, m) = s /\ FirstOf(s, 0) = <<>>
  BY FirstIsAll
<1>4. PutsRow(f, m, k, <<>>, s)
  <2>1. f[0] = <<>> /\ f = [n \in 0 .. m |-> f[n]]
    BY <1>3
  <2>2. \A n \in 1 .. m : f[n] = FirstOf(s, n) /\ f[n - 1] = FirstOf(s, n - 1)
    OBVIOUS
  <2> HIDE DEF f
  <2> QED
    BY <1>2, <2>1, <2>2 DEF PutsRow
<1>5. f[m] = s
  BY <1>3
<1> HIDE DEF f
<1> QED
  BY <1>1, <1>4, <1>5, PutsAre

LEMMA RemoveAllIsWithout ==
    ASSUME NEW t, Good(t), NEW s, Rows(s)
    PROVE  Items(RemoveAll(t, s)) = Ordered!Without(Items(t), Ordered!HashesOf(s))
<1>1. PICK m \in Nat : IsRow(s, m, ItemType)
  BY DEF Rows
<1>2. PICK k \in Nat : IsRow(Items(t), k, ItemType)
  BY ItemsOf
<1> DEFINE path == Removals(t, s)
           c == Items(t)
           H == Ordered!HashesOf(c)
           B == {n \in 0 .. m : Items(path[n]) = Ordered!Within(c, H \ HashesUpTo(s, n))}
<1>3. /\ TableRun(path, m, t) /\ Len(s) = m
      /\ \A n \in 1 .. m : path[n] = Erased(path[n - 1], s[n])
  BY <1>1, RemovalsRun
<1>4. RemoveAll(t, s) = path[m]
  BY <1>3 DEF RemoveAll
<1> HIDE DEF path, c
<1>5. \A n \in 0 .. m : Good(path[n])
  BY <1>3 DEF TableRun
<1>6. 0 \in B
  <2>1. path[0] = t
    BY <1>3 DEF TableRun
  <2> DEFINE C == H \ HashesUpTo(s, 0)
  <2>2. H \subseteq C
    BY DEF HashesUpTo
  <2> HIDE DEF C
  <2>3. Ordered!Within(c, C) = c
    BY <1>2, <2>2, WithinAll DEF c
  <2> QED
    BY <2>1, <2>3 DEF C, c
<1>7. Grows(B, m)
  <2> SUFFICES ASSUME NEW n \in 1 .. m, n - 1 \in B PROVE n \in B
    BY DEF Grows
  <2> DEFINE u == path[n - 1]
             h == s[n].hash
             A == HashesUpTo(s, n - 1)
  <2>1. Items(u) = Ordered!Within(c, H \ A) /\ n \in 0 .. m /\ n - 1 \in 0 .. m
    OBVIOUS
  <2>2. Good(u) /\ h \in Int /\ path[n] = Erase(u, h)
    BY <1>1, <1>3, <1>5, <2>1 DEF IsRow, ItemType, Erased
  <2>3. HashesUpTo(s, n) = A \cup {h}
    <3>1. 1 .. n = (1 .. n - 1) \cup {n}
      OBVIOUS
    <3> QED
      BY <3>1 DEF HashesUpTo
  <2> HIDE DEF u, h, A
  <2>4. Items(path[n]) = Ordered!Without(Items(u), {h})
    BY <2>2, EraseIsWithout
  <2>5. Ordered!Without(Ordered!Without(c, A), {h}) = Ordered!Without(c, A \cup {h})
    <3> DEFINE b == {h}
               D == A \cup b
    <3>1. D = A \cup b
      OBVIOUS
    <3>2. IsRow(c, k, ItemType)
      BY <1>2 DEF c
    <3> HIDE DEF b, D, B
    <3>3. Ordered!Without(Ordered!Without(c, A), b) = Ordered!Without(c, D)
      BY <3>1, <3>2, WithoutWithout
    <3> QED
      BY <3>3 DEF b, D
  <2>6. /\ Ordered!Without(c, A \cup {h}) = Ordered!Within(c, H \ (A \cup {h}))
        /\ Ordered!Without(c, A) = Ordered!Within(c, H \ A)
    BY DEF Ordered!Without
  <2> QED
    BY <2>1, <2>3, <2>4, <2>5, <2>6
<1>8. m \in B
  <2> HIDE DEF B
  <2>1. \A n \in 0 .. m : n \in B
    BY <1>6, <1>7, ByInduction
  <2> QED
    BY <2>1
<1>9. Ordered!HashesOf(s) = HashesUpTo(s, m)
  BY <1>1, HashesAre
<1>10. Ordered!Without(c, Ordered!HashesOf(s)) = Ordered!Within(c, H \ Ordered!HashesOf(s))
  BY DEF Ordered!Without
<1> QED
  BY <1>4, <1>8, <1>9, <1>10 DEF c

LEMMA InsertCommonIsWithin ==
    ASSUME NEW t, Good(t), Items(t) = <<>>, NEW w, Good(w),
           NEW m \in Nat, NEW s, IsRow(s, m, ItemType), Distinct(s, m)
    PROVE  Items(InsertCommon(t, s, w)) = Ordered!Within(s, Ordered!HashesOf(Items(w)))
<1>1. PICK k \in Nat : IsRow(Items(w), k, ItemType)
  BY ItemsOf
<1> DEFINE path == CommonInsertions(t, s, w)
           C == Ordered!HashesOf(Items(w))
           f == Ordered!Selected(s, C)
           B == {n \in 0 .. m : Items(path[n]) = f[n]}
<1>2. /\ TableRun(path, m, t) /\ Len(s) = m
      /\ \A n \in 1 .. m : path[n] = InsertedIf(path[n - 1], s[n], w)
  BY CommonInsertionsRun
<1>3. InsertCommon(t, s, w) = path[m]
  BY <1>2 DEF InsertCommon
<1>4. ASSUME NEW h \in Int PROVE Find(w, h) = 0 <=> h \notin C
  <2> DEFINE r == Items(w)
  <2>1. Find(w, h) = 0 <=> Unknown(r, h)
    BY NotFound
  <2> HIDE DEF r
  <2>2. C = HashesUpTo(r, k)
    BY <1>1, HashesAre DEF r
  <2>3. DOMAIN r = 1 .. k
    BY <1>1, MembersOf DEF r
  <2> HIDE DEF C
  <2> QED
    BY <2>1, <2>2, <2>3 DEF Unknown, HashesUpTo
<1> HIDE DEF path, C
<1>5. Picks(f, m, s, C) /\ Ordered!Within(s, C) = f[m]
  BY SelectedPicks
<1> HIDE DEF f
<1>6. \A n \in 0 .. m : Good(path[n])
  BY <1>2 DEF TableRun
<1>7. \A n \in 0 .. m : Ordered!HashesOf(f[n]) = HashesUpTo(s, n) \cap C
  BY <1>5, PicksHashes
<1>8. 0 \in B
  BY <1>2, <1>5 DEF TableRun, Picks
<1>9. Grows(B, m)
  <2> SUFFICES ASSUME NEW n \in 1 .. m, n - 1 \in B PROVE n \in B
    BY DEF Grows
  <2> DEFINE u == path[n - 1]
             x == s[n]
             h == x.hash
             r == f[n - 1]
  <2>1. Items(u) = r /\ n \in 0 .. m /\ n - 1 \in 0 .. m
    OBVIOUS
  <2>2. Good(u) /\ h \in Int /\ x \in ItemType /\ path[n] = InsertedIf(u, x, w)
    BY <1>2, <1>6, <2>1 DEF IsRow, ItemType
  <2>3. f[n] = IF h \in C THEN Append(r, x) ELSE r
    BY <1>5 DEF Picks
  <2>4. h \notin Ordered!HashesOf(r)
    <3>1. h \notin HashesUpTo(s, n - 1)
      <4>1. \A i \in 1 .. n - 1 : i \in 1 .. m /\ i # n
        OBVIOUS
      <4> QED
        BY <4>1 DEF HashesUpTo, Distinct
    <3> QED
      BY <1>7, <2>1, <3>1
  <2>5. PICK l \in Nat : IsRow(r, l, ItemType) /\ Distinct(r, l)
    <3>1. PICK l \in Nat : IsRow(Items(u), l, ItemType) /\ Distinct(Items(u), l)
      BY <2>2, ItemsOf
    <3> QED
      BY <2>1, <3>1
  <2> HIDE DEF u, r, x, h
  <2>6. Unknown(r, h)
    <3>1. Ordered!HashesOf(r) = HashesUpTo(r, l) /\ DOMAIN r = 1 .. l
      BY <2>5, HashesAre, MembersOf
    <3> QED
      BY <2>4, <3>1 DEF Unknown, HashesUpTo
  <2>7. Ordered!Place(r, h) = 0
    BY <2>5, <2>6, PlaceIs
  <2>8. Ordered!Put(u.kind, r, x) = Append(r, x)
    BY <2>7 DEF Ordered!Put, h
  <2>9. Items(Inserted(u, x)) = Ordered!Put(u.kind, Items(u), x)
    BY <2>2, InsertPuts
  <2>10. path[n] = IF h \notin C THEN u ELSE Inserted(u, x)
    BY <1>4, <2>2 DEF InsertedIf, Inserted, h, Null
  <2>11. Items(path[n]) = f[n]
    BY <2>1, <2>3, <2>8, <2>9, <2>10
  <2> QED
    BY <2>1, <2>11
<1>10. m \in B
  <2> HIDE DEF B
  <2>1. \A n \in 0 .. m : n \in B
    BY <1>8, <1>9, ByInduction
  <2> QED
    BY <2>1
<1> QED
  BY <1>3, <1>5, <1>10 DEF C

-----------------------------------------------------------------------------
(* THE TABLES IMPLEMENT ORDERED MAPS *)

(* What tables contain, and the kinds of tables.                           *)
LEMMA ContentsAre ==
    ASSUME TablesInv
    PROVE  /\ \A t \in Tables : /\ Good(table[t]) /\ table[t].kind = kind[t] /\ kind[t] \in Kinds
                                /\ contents[t] = Items(table[t]) /\ Rows(contents[t])
                                /\ \E n \in Nat : IsRow(contents[t], n, ItemType) /\ Distinct(contents[t], n)
           /\ DOMAIN contents = Tables /\ Ordered!Tables = Tables
<1>1. DOMAIN contents = Tables /\ \A t \in Tables : contents[t] = Items(table[t])
  BY DEF TablesInv
<1>2. \A t \in Tables : Good(table[t]) /\ table[t].kind = kind[t] /\ kind[t] \in Kinds
  BY SetupTypes DEF TablesInv
<1>3. ASSUME NEW t \in Tables
      PROVE  Rows(contents[t]) /\ \E n \in Nat : IsRow(contents[t], n, ItemType) /\ Distinct(contents[t], n)
  <2> DEFINE T == table[t]
  <2>1. Good(T) /\ contents[t] = Items(T)
    BY <1>1, <1>2
  <2> HIDE DEF T
  <2>2. Rows(Items(T))
    BY <2>1, ItemsRow
  <2>3. \E n \in Nat : IsRow(Items(T), n, ItemType) /\ Distinct(Items(T), n)
    BY <2>1, ItemsOf
  <2> QED
    BY <2>1, <2>2, <2>3
<1>4. Ordered!Tables = Tables
  BY DEF Ordered!Tables, Tables
<1> QED
  BY <1>1, <1>2, <1>3, <1>4

LEMMA BecomesIsNext ==
    ASSUME TablesInv, NEW t \in Tables, NEW new, Becomes(t, new),
           Ordered!Operation(contents, t, Items(new))
    PROVE  Ordered!Next
<1>1. contents' = [contents EXCEPT ![t] = Items(new)] /\ kind' = kind
  BY DEF Becomes, kind
<1>2. DOMAIN contents = Tables /\ Ordered!Tables = Tables
  BY ContentsAre
<1>3. contents'[t] = Items(new) /\ \A u \in Tables \ {t} : contents'[u] = contents[u]
  BY <1>1, <1>2
<1>4. Ordered!Operation(contents, t, contents'[t])
  BY <1>3
<1> QED
  BY <1>1, <1>2, <1>3, <1>4 DEF Ordered!Next

LEMMA PutOperation ==
    ASSUME NEW t, NEW x \in ItemType, NEW new, new = Ordered!Put(kind[t], contents[t], x)
    PROVE  Ordered!Operation(contents, t, new)
<1>1. x.key \in Objects /\ x.value \in Objects /\ x = [hash |-> Hash(x.key), key |-> x.key, value |-> x.value]
  BY DEF ItemType
<1>2. x = Ordered!Entry(Hash(x.key), x.key, x.value)
  BY <1>1 DEF Ordered!Entry
<1>3. \E o, v \in Objects : new = Ordered!Put(kind[t], contents[t], Ordered!Entry(Hash(o), o, v))
  BY <1>1, <1>2
<1> QED
  BY <1>3 DEF Ordered!Operation

LEMMA WithoutOperation ==
    ASSUME NEW t, NEW o \in Objects, NEW new, new = Ordered!Without(contents[t], {Hash(o)})
    PROVE  Ordered!Operation(contents, t, new)
  BY DEF Ordered!Operation

LEMMA OneTableOperation ==
    ASSUME NEW t, NEW u \in Ordered!Tables, NEW new,
           \/ new = <<>>
           \/ new = Ordered!PutAll(kind[t], contents[t], contents[u])
           \/ new = contents[u]
           \/ new = Ordered!PutAll(kind[t], <<>>, Ordered!Turned(contents[u]))
           \/ new = Ordered!KeysOf(contents[u])
    PROVE  Ordered!Operation(contents, t, new)
  BY DEF Ordered!Operation

LEMMA TwoTableOperation ==
    ASSUME NEW t, NEW u \in Ordered!Tables, NEW w \in Ordered!Tables, NEW new,
           \/ new = Ordered!PutAll(kind[t], contents[u], contents[w])
           \/ new = Ordered!Without(contents[u], Ordered!HashesOf(contents[w]))
           \/ new = Ordered!Within(contents[w], Ordered!HashesOf(contents[u]))
    PROVE  Ordered!Operation(contents, t, new)
  BY DEF Ordered!Operation

LEMMA ChangeIsNext ==
    ASSUME TablesInv, NEW t \in Tables,
           SetItem(t) \/ PopItem(t) \/ set_pop(t) \/ ClearAll(t) \/ map_update(t)
    PROVE  Ordered!Next
<1> DEFINE T == table[t]
           c == contents[t]
<1>1. Good(T) /\ T.kind = kind[t] /\ c = Items(T)
  BY ContentsAre
<1>2. setup.objects \subseteq Objects /\ \A o \in Objects : Hash(o) \in Int
  BY SetupTypes
<1>3. ASSUME NEW o \in Objects PROVE Ordered!Operation(contents, t, Items(Erase(T, Hash(o))))
  <2> HIDE DEF T
  <2>1. Items(Erase(T, Hash(o))) = Ordered!Without(Items(T), {Hash(o)})
    BY <1>1, <1>2, EraseIsWithout
  <2> QED
    BY <1>1, <2>1, WithoutOperation
<1>4. CASE SetItem(t)
  <2>1. PICK k \in setup.objects, v \in setup.objects : Becomes(t, Insert(T, Hash(k), k, v))
    BY <1>4 DEF SetItem
  <2> DEFINE x == [hash |-> Hash(k), key |-> k, value |-> v]
  <2>2. x \in ItemType /\ Inserted(T, x) = Insert(T, Hash(k), k, v)
    BY <1>2 DEF ItemType, Inserted
  <2> HIDE DEF x, T
  <2>3. Items(Inserted(T, x)) = Ordered!Put(T.kind, Items(T), x)
    BY <1>1, <2>2, InsertPuts
  <2>4. Ordered!Operation(contents, t, Items(Inserted(T, x)))
    BY <1>1, <2>2, <2>3, PutOperation
  <2> QED
    BY <2>1, <2>2, <2>4, BecomesIsNext
<1>5. CASE PopItem(t)
  <2>1. PICK k \in setup.objects : Becomes(t, Erase(T, Hash(k)))
    BY <1>5 DEF PopItem
  <2>2. k \in Objects
    BY <1>2
  <2> HIDE DEF T
  <2> QED
    BY <1>3, <2>1, <2>2, BecomesIsNext
<1>6. CASE set_pop(t)
  <2>1. T.back # 0 /\ Becomes(t, Erase(T, T.entry[T.back].hash))
    BY <1>6 DEF set_pop, Null
  <2> HIDE DEF T
  <2>2. T \in TableType /\ Pointing(T) /\ T.back \in Live(T) /\ Live(T) \subseteq Constructed(T)
    BY <1>1, <2>1 DEF Good, Whole, Lists
  <2>3. T.back \in Constructed(T)
    BY <2>2
  <2>4. T.entry[T.back].key \in Objects
    BY <2>2, <2>3, EntryTypes
  <2>5. T.entry[T.back].hash = Hash(T.entry[T.back].key)
    BY <2>2, <2>3 DEF Pointing
  <2> QED
    BY <1>3, <2>1, <2>4, <2>5, BecomesIsNext
<1>7. CASE ClearAll(t)
  <2>1. Becomes(t, Clear(T))
    BY <1>7 DEF ClearAll
  <2> HIDE DEF T
  <2>2. Items(Clear(T)) = <<>>
    BY <1>1, ClearGood
  <2>3. t \in Ordered!Tables
    BY ContentsAre
  <2>4. Ordered!Operation(contents, t, Items(Clear(T)))
    BY <2>2, <2>3, OneTableOperation
  <2> QED
    BY <2>1, <2>4, BecomesIsNext
<1>8. CASE map_update(t)
  <2>1. PICK u \in Tables : Becomes(t, InsertAll(T, Items(table[u])))
    BY <1>8 DEF map_update
  <2> DEFINE s == Items(table[u])
  <2>2. s = contents[u] /\ Rows(s) /\ u \in Ordered!Tables
    BY ContentsAre
  <2> HIDE DEF s, T
  <2>3. Items(InsertAll(T, s)) = Ordered!PutAll(T.kind, Items(T), s)
    BY <1>1, <2>2, InsertAllPuts
  <2>4. Ordered!Operation(contents, t, Items(InsertAll(T, s)))
    BY <1>1, <2>2, <2>3, OneTableOperation
  <2> QED
    BY <2>1, <2>4, BecomesIsNext DEF s
<1> QED
  BY <1>4, <1>5, <1>6, <1>7, <1>8

(* A new table contains what was put into it.                              *)
LEMMA FreshPuts ==
    ASSUME TablesInv, NEW t \in Tables, NEW s, Rows(s), NEW u, u = InsertAll(Fresh(t), s)
    PROVE  Good(u) /\ u.kind = kind[t] /\ Items(u) = Ordered!PutAll(kind[t], <<>>, s)
<1> DEFINE f == Fresh(t)
<1>1. Good(f) /\ Items(f) = <<>> /\ f.kind = kind[t]
  BY FreshGood
<1> HIDE DEF f
<1>2. Succeeds(f, InsertAll(f, s))
  BY <1>1, RowsSucceed
<1>3. Items(InsertAll(f, s)) = Ordered!PutAll(f.kind, Items(f), s)
  BY <1>1, InsertAllPuts
<1> QED
  BY <1>1, <1>2, <1>3 DEF f, Succeeds

(* The copy of a table contains the same.                                  *)
LEMMA CopyContains ==
    ASSUME TablesInv, NEW t \in Tables, NEW s, NEW n \in Nat, IsRow(s, n, ItemType), Distinct(s, n),
           NEW u, u = InsertAll(Fresh(t), s)
    PROVE  Good(u) /\ u.kind = kind[t] /\ Items(u) = s
<1>1. Rows(s)
  BY DEF Rows
<1>2. Good(u) /\ u.kind = kind[t] /\ Items(u) = Ordered!PutAll(kind[t], <<>>, s)
  BY <1>1, FreshPuts
<1> DEFINE k == kind[t]
<1> HIDE DEF k
<1>3. Ordered!PutAll(k, <<>>, s) = s
  BY PutsCopy
<1> QED
  BY <1>2, <1>3 DEF k

LEMMA MadeIsNext ==
    ASSUME TablesInv, NEW t \in Tables, NEW new, Made(t, new),
           Ordered!Operation(contents, t, Items(new))
    PROVE  Ordered!Next
  BY BecomesIsNext DEF Made

LEMMA KeysAre ==
    ASSUME NEW s, NEW n \in Nat, IsRow(s, n, ItemType), Distinct(s, n)
    PROVE  Keys(s) = Ordered!KeysOf(s) /\ IsRow(Keys(s), n, ItemType) /\ Distinct(Keys(s), n)
<1>1. DOMAIN s = 1 .. n
  BY MembersOf
<1>2. \A i \in 1 .. n : s[i] \in ItemType
  BY DEF IsRow
<1>3. ASSUME NEW x \in ItemType
      PROVE  /\ [x EXCEPT !.value = x.key] \in ItemType /\ [x EXCEPT !.value = x.key].hash = x.hash
             /\ [x EXCEPT !.value = x.key] = Ordered!Entry(x.hash, x.key, x.key)
  BY DEF ItemType, Ordered!Entry
<1>4. Keys(s) = [i \in 1 .. n |-> [s[i] EXCEPT !.value = s[i].key]]
  BY <1>1 DEF Keys
<1>5. Ordered!KeysOf(s) = [i \in 1 .. n |-> Ordered!Entry(s[i].hash, s[i].key, s[i].key)]
  BY <1>1 DEF Ordered!KeysOf
<1>6. Keys(s) = Ordered!KeysOf(s)
  BY <1>2, <1>3, <1>4, <1>5
<1>7. Keys(s) \in [1 .. n -> ItemType] /\ \A i \in 1 .. n : Keys(s)[i].hash = s[i].hash
  BY <1>2, <1>3, <1>4
<1> QED
  BY <1>6, <1>7 DEF IsRow, Distinct

LEMMA TurnedAre ==
    ASSUME NEW s, NEW n \in Nat, IsRow(s, n, ItemType)
    PROVE  Turned(s) = Ordered!Turned(s)
<1>1. Turned(s) = [i \in DOMAIN s |-> [hash |-> Hash(s[i].value), key |-> s[i].value, value |-> s[i].key]]
  BY DEF Turned
<1>2. Ordered!Turned(s) = [i \in DOMAIN s |-> [hash |-> Hash(s[i].value), key |-> s[i].value, value |-> s[i].key]]
  BY DEF Ordered!Turned, Ordered!Entry
<1> QED
  BY <1>1, <1>2

LEMMA SumIsNext ==
    ASSUME TablesInv, NEW t \in Tables, Sum(t)
    PROVE  Ordered!Next
<1>1. PICK u \in Tables, w \in Tables : Made(t, InsertAll(InsertAll(Fresh(t), Items(table[u])), Items(table[w])))
  BY DEF Sum
<1> DEFINE a == Items(table[u])
           b == Items(table[w])
           x == InsertAll(Fresh(t), a)
           y == InsertAll(x, b)
<1>2. PICK n \in Nat : IsRow(a, n, ItemType) /\ Distinct(a, n)
  BY ContentsAre
<1>3. a = contents[u] /\ b = contents[w] /\ Rows(b) /\ u \in Ordered!Tables /\ w \in Ordered!Tables
  BY ContentsAre
<1>4. Made(t, y)
  BY <1>1
<1>5. x = InsertAll(Fresh(t), a) /\ y = InsertAll(x, b)
  OBVIOUS
<1> HIDE DEF a, b, x, y
<1>6. Good(x) /\ x.kind = kind[t] /\ Items(x) = a
  BY <1>2, <1>5, CopyContains
<1>7. Items(y) = Ordered!PutAll(x.kind, Items(x), b)
  BY <1>3, <1>5, <1>6, InsertAllPuts
<1>8. Items(y) = Ordered!PutAll(kind[t], contents[u], contents[w])
  BY <1>3, <1>6, <1>7
<1>9. Ordered!Operation(contents, t, Items(y))
  BY <1>3, <1>8, TwoTableOperation
<1> QED
  BY <1>4, <1>9, MadeIsNext

LEMMA SubIsNext ==
    ASSUME TablesInv, NEW t \in Tables, set_sub(t)
    PROVE  Ordered!Next
<1>1. PICK u \in Tables, w \in Tables : Made(t, RemoveAll(InsertAll(Fresh(t), Items(table[u])), Items(table[w])))
  BY DEF set_sub
<1> DEFINE a == Items(table[u])
           b == Items(table[w])
           x == InsertAll(Fresh(t), a)
           y == RemoveAll(x, b)
<1>2. PICK n \in Nat : IsRow(a, n, ItemType) /\ Distinct(a, n)
  BY ContentsAre
<1>3. a = contents[u] /\ b = contents[w] /\ Rows(b) /\ u \in Ordered!Tables /\ w \in Ordered!Tables
  BY ContentsAre
<1>4. Made(t, y)
  BY <1>1
<1>5. x = InsertAll(Fresh(t), a) /\ y = RemoveAll(x, b)
  OBVIOUS
<1> HIDE DEF a, b, x, y
<1>6. Good(x) /\ Items(x) = a
  BY <1>2, <1>5, CopyContains
<1>7. Items(y) = Ordered!Without(Items(x), Ordered!HashesOf(b))
  BY <1>3, <1>5, <1>6, RemoveAllIsWithout
<1>8. Items(y) = Ordered!Without(contents[u], Ordered!HashesOf(contents[w]))
  BY <1>3, <1>6, <1>7
<1>9. Ordered!Operation(contents, t, Items(y))
  BY <1>3, <1>8, TwoTableOperation
<1> QED
  BY <1>4, <1>9, MadeIsNext

LEMMA AndIsNext ==
    ASSUME TablesInv, NEW t \in Tables, set_and(t)
    PROVE  Ordered!Next
<1>1. PICK u \in Tables, w \in Tables : Made(t, InsertCommon(Fresh(t), Items(table[w]), table[u]))
  BY DEF set_and
<1> DEFINE b == Items(table[w])
           v == table[u]
           f == Fresh(t)
           y == InsertCommon(f, b, v)
<1>2. PICK n \in Nat : IsRow(b, n, ItemType) /\ Distinct(b, n)
  BY ContentsAre
<1>3. Items(v) = contents[u] /\ b = contents[w] /\ Good(v) /\ u \in Ordered!Tables /\ w \in Ordered!Tables
  BY ContentsAre
<1>4. Made(t, y)
  BY <1>1
<1>5. Good(f) /\ Items(f) = <<>>
  BY FreshGood
<1>6. y = InsertCommon(f, b, v)
  OBVIOUS
<1> HIDE DEF b, v, f, y
<1>7. Items(y) = Ordered!Within(b, Ordered!HashesOf(Items(v)))
  BY <1>2, <1>3, <1>5, <1>6, InsertCommonIsWithin
<1>8. Items(y) = Ordered!Within(contents[w], Ordered!HashesOf(contents[u]))
  BY <1>3, <1>7
<1>9. Ordered!Operation(contents, t, Items(y))
  BY <1>3, <1>8, TwoTableOperation
<1> QED
  BY <1>4, <1>9, MadeIsNext

LEMMA CopyIsNext ==
    ASSUME TablesInv, NEW t \in Tables, Copy(t) \/ map_keys(t) \/ map_reverse(t)
    PROVE  Ordered!Next
<1>1. CASE Copy(t)
  <2>1. PICK u \in Tables : Made(t, InsertAll(Fresh(t), Items(table[u])))
    BY <1>1 DEF Copy
  <2> DEFINE a == Items(table[u])
             y == InsertAll(Fresh(t), a)
  <2>2. PICK n \in Nat : IsRow(a, n, ItemType) /\ Distinct(a, n)
    BY ContentsAre
  <2>3. a = contents[u] /\ u \in Ordered!Tables /\ Made(t, y) /\ y = InsertAll(Fresh(t), a)
    BY <2>1, ContentsAre
  <2> HIDE DEF a, y
  <2>4. Items(y) = a
    BY <2>2, <2>3, CopyContains
  <2>5. Items(y) = contents[u]
    BY <2>3, <2>4
  <2>6. Ordered!Operation(contents, t, Items(y))
    BY <2>3, <2>5, OneTableOperation
  <2> QED
    BY <2>3, <2>6, MadeIsNext
<1>2. CASE map_keys(t)
  <2>1. PICK u \in Tables : Made(t, InsertAll(Fresh(t), Keys(Items(table[u]))))
    BY <1>2 DEF map_keys
  <2> DEFINE a == Items(table[u])
             b == Keys(a)
             y == InsertAll(Fresh(t), b)
  <2>2. PICK n \in Nat : IsRow(a, n, ItemType) /\ Distinct(a, n)
    BY ContentsAre
  <2>3. a = contents[u] /\ u \in Ordered!Tables /\ Made(t, y) /\ y = InsertAll(Fresh(t), b)
    BY <2>1, ContentsAre
  <2>4. b = Ordered!KeysOf(a) /\ IsRow(b, n, ItemType) /\ Distinct(b, n)
    <3> HIDE DEF a
    <3> QED
      BY <2>2, KeysAre
  <2> HIDE DEF a, b, y
  <2>5. Items(y) = b
    BY <2>3, <2>4, CopyContains
  <2>6. Items(y) = Ordered!KeysOf(contents[u])
    BY <2>3, <2>4, <2>5
  <2>7. Ordered!Operation(contents, t, Items(y))
    BY <2>3, <2>6, OneTableOperation
  <2> QED
    BY <2>3, <2>7, MadeIsNext
<1>3. CASE map_reverse(t)
  <2>1. PICK u \in Tables : Made(t, InsertAll(Fresh(t), Turned(Items(table[u]))))
    BY <1>3 DEF map_reverse
  <2> DEFINE a == Items(table[u])
             b == Turned(a)
             y == InsertAll(Fresh(t), b)
  <2>2. PICK n \in Nat : IsRow(a, n, ItemType)
    BY ContentsAre
  <2>3. a = contents[u] /\ u \in Ordered!Tables /\ Made(t, y) /\ y = InsertAll(Fresh(t), b) /\ Rows(a)
    BY <2>1, ContentsAre
  <2>4. b = Ordered!Turned(a) /\ Rows(b)
    <3> HIDE DEF a
    <3> QED
      BY <2>2, <2>3, TurnedAre, TurnedRow
  <2> HIDE DEF a, b, y
  <2>5. Items(y) = Ordered!PutAll(kind[t], <<>>, b)
    BY <2>3, <2>4, FreshPuts
  <2>6. Items(y) = Ordered!PutAll(kind[t], <<>>, Ordered!Turned(contents[u]))
    BY <2>3, <2>4, <2>5
  <2>7. Ordered!Operation(contents, t, Items(y))
    BY <2>3, <2>6, OneTableOperation
  <2> QED
    BY <2>3, <2>7, MadeIsNext
<1> QED
  BY <1>1, <1>2, <1>3

(* Steps of loops change no table.                                         *)
LEMMA LoopStutters ==
    ASSUME NEW w, Generate(w) \/ Converted(w) \/ Failed(w) \/ \E t \in Tables : Iter(w, t) \/ Join(w, t)
    PROVE  UNCHANGED <<contents, kind>>
  BY DEF Generate, Converted, Failed, Iter, Join, kind

LEMMA StepIsOrdered ==
    ASSUME TablesInv, [Next]_vars
    PROVE  [Ordered!Next]_<<contents, kind>>
<1>1. ASSUME NEW t \in Tables,
             \/ SetItem(t) \/ PopItem(t) \/ set_pop(t) \/ ClearAll(t) \/ map_update(t)
             \/ Sum(t) \/ Copy(t) \/ set_sub(t) \/ set_and(t) \/ map_keys(t) \/ map_reverse(t)
      PROVE  Ordered!Next
  BY <1>1, ChangeIsNext, SumIsNext, SubIsNext, AndIsNext, CopyIsNext
<1>2. ASSUME NEW w \in Walkers,
             Generate(w) \/ Converted(w) \/ Failed(w) \/ \E t \in Tables : Iter(w, t) \/ Join(w, t)
      PROVE  UNCHANGED <<contents, kind>>
  BY <1>2, LoopStutters
<1>3. CASE UNCHANGED vars
  BY <1>3 DEF vars, kind
<1> QED
  BY <1>1, <1>2, <1>3 DEF Next

(* Dictionaries, maps and sets are ordered maps: whatever is inserted,     *)
(* erased and combined, through buckets and pointers, a hash keeps the     *)
(* place where it came in, others keep their order when one is erased, and *)
(* sums, differences and intersections contain what they should in order.  *)
THEOREM TablesAreOrderedMaps == Spec => ImplementsOrderedMap
<1>1. Init => MissInv /\ Ordered!Init
  <2> SUFFICES ASSUME Init PROVE MissInv /\ Ordered!Init
    OBVIOUS
  <2>1. Ordered!Init
    BY DEF Init, Ordered!Init, Ordered!Tables, Tables
  <2> QED
    BY <2>1, InitHasInv
<1>2. MissInv /\ [Next]_vars => MissInv'
  BY NextKeepsInv
<1>3. MissInv /\ [Next]_vars => [Ordered!Next]_<<contents, kind>>
  BY StepIsOrdered DEF MissInv
<1> QED
  BY <1>1, <1>2, <1>3, PTL DEF Spec, ImplementsOrderedMap, Ordered!Spec

-----------------------------------------------------------------------------
(* THE INDUCTIVE INVARIANT *)

Walks(w, t) == walker[w].kind = "walk" /\ walker[w].on = t

(* Every loop has its fields, and a walk is on a table.                    *)
LoopsOK ==
    /\ DOMAIN walker = Walkers
    /\ \A w \in Walkers : /\ DOMAIN walker[w] = {"on", "kind", "at", "owed"}
                          /\ walker[w].kind = "walk" => walker[w].on \in Tables

(* A table has the flag if and only if a walk is on it, and no two are.    *)
FlagInv ==
    /\ LoopsOK
    /\ \A t \in Tables : t \in inspecting <=> \E w \in Walkers : Walks(w, t)
    /\ \A t \in Tables : \A v, w \in Walkers : Walks(v, t) /\ Walks(w, t) => v = w

-----------------------------------------------------------------------------
(* WHAT A STEP DOES TO THE WALKS *)

(* A step that leaves the walks where they are, whatever it does to the    *)
(* entries they stand on and to iterators.                                 *)
LEMMA WalksGoOn ==
    ASSUME FlagInv, setup' = setup, inspecting' = inspecting, DOMAIN walker' = Walkers,
           \A w \in Walkers :
               /\ DOMAIN walker'[w] = {"on", "kind", "at", "owed"}
               /\ walker'[w].kind = "walk" <=> walker[w].kind = "walk"
               /\ walker[w].kind = "walk" => walker'[w].on = walker[w].on
    PROVE  FlagInv'
<1>1. Tables' = Tables /\ Walkers' = Walkers
  BY DEF Tables, Walkers, kind
<1>2. \A w \in Walkers, t \in Tables : Walks(w, t)' <=> Walks(w, t)
  BY DEF Walks
<1>3. LoopsOK'
  BY <1>1 DEF FlagInv, LoopsOK
<1> QED
  BY <1>1, <1>2, <1>3 DEF FlagInv

(* An operation on a table changes what a loop is owed, nothing else.      *)
LEMMA BecomesKeepsWalks ==
    ASSUME FlagInv, NEW t, NEW new, Becomes(t, new)
    PROVE  FlagInv'
<1>1. \A w \in Walkers : /\ DOMAIN walker'[w] = {"on", "kind", "at", "owed"}
                         /\ walker'[w].kind = walker[w].kind /\ walker'[w].on = walker[w].on
  BY DEF Becomes, FlagInv, LoopsOK
<1>2. DOMAIN walker' = Walkers /\ setup' = setup /\ inspecting' = inspecting
  BY DEF Becomes
<1> QED
  BY <1>1, <1>2, WalksGoOn

(* The end of a walk takes the flag from its table.                        *)
LEMMA EndsStep ==
    ASSUME FlagInv, NEW w \in Walkers, walker[w].kind = "walk", Ends(w), setup' = setup
    PROVE  FlagInv'
<1>1. Tables' = Tables /\ Walkers' = Walkers
  BY DEF Tables, Walkers, kind
<1>2. DOMAIN walker' = Walkers /\ walker'[w] = Off /\ \A v \in Walkers \ {w} : walker'[v] = walker[v]
  BY DEF Ends, FlagInv, LoopsOK
<1>3. PICK t \in Tables : t = walker[w].on
  BY DEF FlagInv, LoopsOK
<1>4. \A u \in Tables : ~Walks(w, u)' /\ (Walks(w, u) <=> u = t)
  BY <1>2, <1>3 DEF Walks, Off
<1>5. \A v \in Walkers \ {w}, u \in Tables : Walks(v, u)' <=> Walks(v, u)
  BY <1>2 DEF Walks
<1>6. inspecting' = inspecting \ {t}
  BY <1>3 DEF Ends
<1>7. LoopsOK'
  BY <1>1, <1>2 DEF FlagInv, LoopsOK, Off
<1>8. \A u \in Tables : u \in inspecting' <=> \E v \in Walkers : Walks(v, u)'
  BY <1>4, <1>5, <1>6 DEF FlagInv
<1>9. \A u \in Tables : \A v, x \in Walkers : Walks(v, u)' /\ Walks(x, u)' => v = x
  BY <1>4, <1>5 DEF FlagInv
<1> QED
  BY <1>1, <1>7, <1>8, <1>9 DEF FlagInv

-----------------------------------------------------------------------------
(* THE LOOPS *)

LEMMA IterStep ==
    ASSUME FlagInv, NEW w \in Walkers, NEW t \in Tables, Iter(w, t)
    PROVE  FlagInv'
<1>1. /\ DOMAIN walker' = Walkers /\ walker[w].kind # "walk"
      /\ walker'[w].kind = "iterator" /\ DOMAIN walker'[w] = {"on", "kind", "at", "owed"}
      /\ \A v \in Walkers \ {w} : walker'[v] = walker[v]
  BY DEF Iter, Starts, FlagInv, LoopsOK, Off
<1>2. setup' = setup /\ inspecting' = inspecting
  BY DEF Iter
<1> QED
  BY <1>1, <1>2, WalksGoOn DEF FlagInv, LoopsOK

LEMMA GenerateStep ==
    ASSUME FlagInv, NEW w \in Walkers, Generate(w)
    PROVE  FlagInv'
<1>1. setup' = setup /\ inspecting' = inspecting /\ walker[w].kind = "iterator"
  BY DEF Generate
<1>2. /\ DOMAIN walker' = Walkers
      /\ walker'[w].kind # "walk" /\ DOMAIN walker'[w] = {"on", "kind", "at", "owed"}
      /\ \A v \in Walkers \ {w} : walker'[v] = walker[v]
  BY <1>1 DEF Generate, FlagInv, LoopsOK, Off
<1> QED
  BY <1>1, <1>2, WalksGoOn DEF FlagInv, LoopsOK

(* Only a map without the flag is entered.                                 *)
LEMMA JoinStep ==
    ASSUME FlagInv, NEW w \in Walkers, NEW t \in Tables, Join(w, t)
    PROVE  FlagInv'
<1>1. Tables' = Tables /\ Walkers' = Walkers /\ inspecting' = inspecting \cup {t}
  BY DEF Join, Tables, Walkers, kind
<1>2. /\ DOMAIN walker' = Walkers /\ walker'[w].on = t /\ walker'[w].kind = "walk"
      /\ DOMAIN walker'[w] = {"on", "kind", "at", "owed"}
      /\ \A v \in Walkers \ {w} : walker'[v] = walker[v]
  BY DEF Join, Starts, FlagInv, LoopsOK
<1>3. \A u \in Tables : ~Walks(w, u) /\ (Walks(w, u)' <=> u = t)
  BY <1>2 DEF Walks, Join, Off
<1>4. \A v \in Walkers \ {w}, u \in Tables : Walks(v, u)' <=> Walks(v, u)
  BY <1>2 DEF Walks
<1>5. \A v \in Walkers : ~Walks(v, t)
  BY DEF Join, FlagInv
<1>6. LoopsOK'
  BY <1>1, <1>2 DEF FlagInv, LoopsOK
<1>7. \A u \in Tables : u \in inspecting' <=> \E v \in Walkers : Walks(v, u)'
  BY <1>1, <1>3, <1>4 DEF FlagInv
<1>8. \A u \in Tables : \A v, x \in Walkers : Walks(v, u)' /\ Walks(x, u)' => v = x
  BY <1>3, <1>4, <1>5 DEF FlagInv
<1> QED
  BY <1>1, <1>6, <1>7, <1>8 DEF FlagInv

LEMMA ConvertedStep ==
    ASSUME FlagInv, NEW w \in Walkers, Converted(w)
    PROVE  FlagInv'
<1>1. setup' = setup /\ walker[w].kind = "walk"
  BY DEF Converted
<1>2. CASE Ends(w)
  BY <1>1, <1>2, EndsStep
<1>3. CASE ~Ends(w)
  <2> DEFINE next == table[walker[w].on].entry[walker[w].at].next
  <2>1. /\ walker' = [walker EXCEPT ![w].at = next, ![w].owed = @ \ {next}]
        /\ inspecting' = inspecting
    BY <1>3 DEF Converted
  <2> HIDE DEF next
  <2>2. /\ DOMAIN walker' = Walkers
        /\ walker'[w].kind = walker[w].kind /\ walker'[w].on = walker[w].on
        /\ DOMAIN walker'[w] = {"on", "kind", "at", "owed"}
        /\ \A v \in Walkers \ {w} : walker'[v] = walker[v]
    BY <2>1 DEF FlagInv, LoopsOK
  <2> QED
    BY <1>1, <2>1, <2>2, WalksGoOn DEF FlagInv, LoopsOK
<1> QED
  BY <1>2, <1>3

-----------------------------------------------------------------------------
(* EVERY STEP *)

LEMMA NextKeepsFlags ==
    ASSUME FlagInv, [Next]_vars
    PROVE  FlagInv'
<1>1. ASSUME NEW t \in Tables, NEW new, Made(t, new)  PROVE FlagInv'
  BY <1>1, BecomesKeepsWalks DEF Made
<1>2. ASSUME NEW t \in Tables,
             SetItem(t) \/ PopItem(t) \/ set_pop(t) \/ ClearAll(t) \/ map_update(t)
      PROVE  FlagInv'
  BY <1>2, BecomesKeepsWalks DEF SetItem, PopItem, set_pop, ClearAll, map_update
<1>3. ASSUME NEW t \in Tables,
             \/ Sum(t) \/ Copy(t) \/ set_sub(t) \/ set_and(t) \/ map_keys(t) \/ map_reverse(t)
      PROVE  FlagInv'
  <2>1. \E new : Made(t, new)
    BY <1>3 DEF Sum, Copy, set_sub, set_and, map_keys, map_reverse
  <2> QED
    BY <1>1, <2>1
<1>4. ASSUME NEW w \in Walkers, Failed(w)  PROVE FlagInv'
  BY <1>4, EndsStep DEF Failed
<1>5. ASSUME NEW w \in Walkers, \E t \in Tables : Iter(w, t) \/ Join(w, t)  PROVE FlagInv'
  BY <1>5, IterStep, JoinStep
<1>6. CASE UNCHANGED vars
  BY <1>6 DEF vars, FlagInv, LoopsOK, Walks, Tables, Walkers, kind
<1> QED
  BY <1>2, <1>3, <1>4, <1>5, <1>6, GenerateStep, ConvertedStep DEF Next

(* The walks on a table with the flag are one, and on any other none.      *)
LEMMA FlagsAreCounted ==
    ASSUME FlagInv
    PROVE  FlagIsReleased
<1> SUFFICES ASSUME NEW t \in Tables
             PROVE  Cardinality({w \in Walkers : walker[w].on = t /\ walker[w].kind = "walk"})
                        = IF t \in inspecting THEN 1 ELSE 0
  BY DEF FlagIsReleased
<1> DEFINE W == {w \in Walkers : walker[w].on = t /\ walker[w].kind = "walk"}
<1>1. CASE t \in inspecting
  <2>1. PICK w \in Walkers : Walks(w, t)
    BY <1>1 DEF FlagInv
  <2>2. W = {w}
    BY <2>1 DEF FlagInv, Walks
  <2> QED
    BY <1>1, <2>2, FS_Singleton
<1>2. CASE t \notin inspecting
  <2>1. W = {}
    BY <1>2 DEF FlagInv, Walks
  <2> QED
    BY <1>2, <2>1, FS_EmptySet
<1> QED
  BY <1>1, <1>2

(* join() and as_json() mark a map while one of them is inside, and no     *)
(* longer, also when a conversion fails, and no two are inside one map:    *)
(* whatever scripts do to the map between the steps of the loop.           *)
THEOREM FlagsFollowTheWalks == Spec => []FlagIsReleased
<1>1. Init => FlagInv
  BY DEF Init, FlagInv, LoopsOK, Walks, Off
<1>2. FlagInv /\ [Next]_vars => FlagInv'
  BY NextKeepsFlags
<1>3. FlagInv => FlagIsReleased
  BY FlagsAreCounted
<1> QED
  BY <1>1, <1>2, <1>3, PTL DEF Spec

-----------------------------------------------------------------------------
(* TABLES WHILE METHODS OF ITERABLES RUN *)

(* A loop is given up.                                                     *)
Drops(w) == walker' = [walker EXCEPT ![w] = Off] /\ UNCHANGED <<table, inspecting, contents, setup>>

(* What happens to tables and loops while methods run: no walk begins.     *)
QuietStep ==
    \/ UNCHANGED vars
    \/ \E t \in Tables : SetItem(t) \/ PopItem(t) \/ ClearAll(t)
    \/ \E w \in Walkers : Generate(w) \/ Drops(w) \/ \E t \in Tables : Iter(w, t)

LEMMA ElsewhereIsNothing ==
    ASSUME walker = [v \in Walkers |-> walker[v]], NEW w, Generate(w) \/ Drops(w)
    PROVE  QuietStep
<1>1. CASE w \in Walkers
  BY <1>1 DEF QuietStep
<1>2. CASE w \notin Walkers
  <2>1. table' = table /\ inspecting' = inspecting /\ contents' = contents /\ setup' = setup
    BY DEF Generate, Drops
  <2>2. walker' = walker
    <3>1. CASE Drops(w)
      BY <1>2, <3>1 DEF Drops
    <3>2. CASE Generate(w)
      <4> DEFINE next == table[walker[w].on].entry[walker[w].at].next
      <4>1. \/ walker' = [walker EXCEPT ![w] = Off]
            \/ walker' = [walker EXCEPT ![w].at = next, ![w].owed = @ \ {walker[w].at}]
        BY <3>2 DEF Generate
      <4> HIDE DEF next
      <4> QED
        BY <1>2, <4>1
    <3> QED
      BY <3>1, <3>2
  <2> QED
    BY <2>1, <2>2 DEF QuietStep, vars
<1> QED
  BY <1>1, <1>2

LEMMA MethodsAreQuiet ==
    ASSUME walker = [v \in Walkers |-> walker[v]], IterableNext
    PROVE  \/ setup.methods = {} /\ Next
           \/ setup.methods # {} /\ QuietStep
<1>1. ASSUME NEW w \in Walkers, NEW t \in Tables, CallOnTable(w, t) PROVE QuietStep
  BY <1>1 DEF CallOnTable, QuietStep, vars
<1>2. ASSUME CallOnOther PROVE QuietStep
  BY <1>2 DEF CallOnOther, QuietStep
<1>3. ASSUME GetNext PROVE QuietStep
  BY <1>3 DEF GetNext, QuietStep
<1>4. ASSUME GetNextOfTable PROVE QuietStep
  <2> DEFINE w == method.source.loop
  <2>1. Generate(w) \/ Drops(w)
    BY <1>4 DEF GetNextOfTable, Drops
  <2> HIDE DEF w
  <2> QED
    BY <2>1, ElsewhereIsNothing
<1>5. ASSUME Answer PROVE QuietStep
  <2> DEFINE w == method'.source.loop
  <2>1. Abandons(method') /\ UNCHANGED <<table, inspecting, contents, setup>>
    BY <1>5 DEF Answer
  <2>2. Drops(w) \/ UNCHANGED vars
    BY <2>1 DEF Abandons, Drops, vars
  <2> HIDE DEF w
  <2> QED
    BY <2>2, ElsewhereIsNothing DEF QuietStep
<1>6. ASSUME Meanwhile PROVE QuietStep
  BY <1>6 DEF Meanwhile, QuietStep
<1> QED
  BY <1>1, <1>2, <1>3, <1>4, <1>5, <1>6 DEF IterableNext

(* Neither tables nor loops lose anything, and while methods run no loop   *)
(* is a walk.                                                              *)
TablesAndLoops ==
    /\ MissInv
    /\ FlagInv
    /\ setup.methods # {} => \A w \in Walkers : walker[w].kind # "walk"

LEMMA DropKeepsAll ==
    ASSUME TablesAndLoops, NEW w \in Walkers, walker[w].kind # "walk", Drops(w)
    PROVE  TablesAndLoops'
<1>1. table' = table /\ contents' = contents /\ setup' = setup /\ inspecting' = inspecting
      /\ walker' = [walker EXCEPT ![w] = Off]
  BY DEF Drops
<1>2. MissInv'
  BY <1>1, OffStep DEF TablesAndLoops
<1>3. DOMAIN walker = Walkers /\ Walkers' = Walkers
  BY <1>1 DEF TablesAndLoops, FlagInv, LoopsOK, Walkers
<1>4. /\ DOMAIN walker' = Walkers /\ walker'[w] = Off
      /\ \A v \in Walkers \ {w} : walker'[v] = walker[v]
  BY <1>1, <1>3
<1>5. Off.kind = "none" /\ DOMAIN Off = {"on", "kind", "at", "owed"}
  BY DEF Off
<1>6. FlagInv'
  BY <1>1, <1>4, <1>5, WalksGoOn DEF TablesAndLoops, FlagInv, LoopsOK
<1> QED
  BY <1>1, <1>2, <1>3, <1>4, <1>5, <1>6 DEF TablesAndLoops

LEMMA QuietKeepsAll ==
    ASSUME TablesAndLoops, setup.methods # {}, QuietStep
    PROVE  TablesAndLoops'
<1>1. DOMAIN walker = Walkers /\ \A w \in Walkers : walker[w].kind # "walk"
  BY DEF TablesAndLoops, FlagInv, LoopsOK
<1>2. ASSUME [Next]_vars, Walkers' = Walkers, setup' = setup, \A w \in Walkers : walker'[w].kind # "walk"
      PROVE  TablesAndLoops'
  BY <1>2, NextKeepsInv, NextKeepsFlags DEF TablesAndLoops
<1>3. CASE UNCHANGED vars
  BY <1>1, <1>2, <1>3 DEF vars, Walkers
<1>4. ASSUME NEW t \in Tables, SetItem(t) \/ PopItem(t) \/ ClearAll(t) PROVE TablesAndLoops'
  <2>1. Next
    BY <1>4 DEF Next
  <2>2. PICK new : Becomes(t, new)
    BY <1>4 DEF SetItem, PopItem, ClearAll
  <2>3. setup' = setup /\ Walkers' = Walkers /\ \A w \in Walkers : walker'[w].kind = walker[w].kind
    BY <2>2 DEF Becomes, Walkers, TablesAndLoops, FlagInv, LoopsOK
  <2> QED
    BY <1>1, <1>2, <2>1, <2>3
<1>5. ASSUME NEW w \in Walkers, Generate(w) PROVE TablesAndLoops'
  <2>1. Next
    BY <1>5 DEF Next
  <2>2. setup' = setup /\ Walkers' = Walkers
    BY <1>5 DEF Generate, Walkers
  <2>3. \A v \in Walkers : walker'[v].kind # "walk"
    <3> DEFINE next == table[walker[w].on].entry[walker[w].at].next
    <3>1. \/ walker' = [walker EXCEPT ![w] = Off]
          \/ walker' = [walker EXCEPT ![w].at = next, ![w].owed = @ \ {walker[w].at}]
      BY <1>5 DEF Generate
    <3>2. DOMAIN walker[w] = {"on", "kind", "at", "owed"}
      BY DEF TablesAndLoops, FlagInv, LoopsOK
    <3> HIDE DEF next
    <3> QED
      BY <1>1, <3>1, <3>2 DEF Off
  <2> QED
    BY <1>2, <2>1, <2>2, <2>3
<1>6. ASSUME NEW w \in Walkers, Drops(w) PROVE TablesAndLoops'
  BY <1>1, <1>6, DropKeepsAll
<1>7. ASSUME NEW w \in Walkers, NEW t \in Tables, Iter(w, t) PROVE TablesAndLoops'
  <2>1. Next
    BY <1>7 DEF Next
  <2>2. setup' = setup /\ Walkers' = Walkers
    BY <1>7 DEF Iter, Walkers
  <2>3. \A v \in Walkers : walker'[v].kind # "walk"
    BY <1>1, <1>7 DEF Iter, Starts
  <2> QED
    BY <1>2, <2>1, <2>2, <2>3
<1> QED
  BY <1>3, <1>4, <1>5, <1>6, <1>7 DEF QuietStep

LEMMA QuietIsOrdered ==
    ASSUME TablesAndLoops, QuietStep
    PROVE  [Ordered!Next]_<<contents, kind>>
<1>1. TablesInv
  BY DEF TablesAndLoops, MissInv
<1>2. CASE \E w \in Walkers : Drops(w)
  BY <1>2 DEF Drops, kind
<1>3. CASE ~\E w \in Walkers : Drops(w)
  <2>1. [Next]_vars
    BY <1>3 DEF QuietStep, Next
  <2> QED
    BY <1>1, <2>1, StepIsOrdered
<1> QED
  BY <1>2, <1>3

LEMMA IterableKeepsAll ==
    ASSUME TablesAndLoops, [IterableNext]_iterableVars
    PROVE  TablesAndLoops' /\ [Ordered!Next]_<<contents, kind>>
<1>1. walker = [v \in Walkers |-> walker[v]]
  BY DEF TablesAndLoops, MissInv, LoopInv
<1>2. TablesInv
  BY DEF TablesAndLoops, MissInv
<1>3. CASE setup.methods # {} /\ QuietStep
  BY <1>3, QuietKeepsAll, QuietIsOrdered
<1>4. CASE setup.methods = {} /\ [Next]_vars
  <2>1. MissInv' /\ FlagInv'
    BY <1>4, NextKeepsInv, NextKeepsFlags DEF TablesAndLoops
  <2>2. [Ordered!Next]_<<contents, kind>>
    BY <1>2, <1>4, StepIsOrdered
  <2>3. setup' = setup
    BY <1>4 DEF vars, Next, SetItem, PopItem, set_pop, ClearAll, map_update, Sum, Copy, set_sub, set_and,
                map_keys, map_reverse, Made, Becomes, Generate, Converted, Failed, Iter, Join
  <2> QED
    BY <1>4, <2>1, <2>2, <2>3 DEF TablesAndLoops
<1>5. CASE UNCHANGED iterableVars
  <2>1. UNCHANGED vars
    BY <1>5 DEF iterableVars
  <2>2. QuietStep /\ [Next]_vars
    BY <2>1 DEF QuietStep
  <2> QED
    BY <1>3, <1>4, <2>2
<1> QED
  BY <1>1, <1>3, <1>4, <1>5, MethodsAreQuiet

LEMMA InitHasAll ==
    ASSUME Init
    PROVE  TablesAndLoops /\ Ordered!Init
<1>1. MissInv
  BY InitHasInv
<1>2. FlagInv
  BY DEF Init, FlagInv, LoopsOK, Walks, Off
<1>3. \A w \in Walkers : walker[w].kind # "walk"
  BY DEF Init, Off
<1>4. Ordered!Init
  BY DEF Init, Ordered!Init, Ordered!Tables, Tables
<1> QED
  BY <1>1, <1>2, <1>3, <1>4 DEF TablesAndLoops

(* All of this is so, too, while the methods of iterables run through the  *)
(* tables: the functions they call change the table, and a method that     *)
(* returns early leaves its loop where it is.                              *)
THEOREM MethodsMissNothing == IterableSpec => []NothingIsMissed
<1>1. IterableInit => TablesAndLoops
  BY InitHasAll DEF IterableInit
<1>2. TablesAndLoops /\ [IterableNext]_iterableVars => TablesAndLoops'
  BY IterableKeepsAll
<1>3. TablesAndLoops => NothingIsMissed
  BY NothingMissed DEF TablesAndLoops
<1> QED
  BY <1>1, <1>2, <1>3, PTL DEF IterableSpec

(* Methods of iterables leave the flags of maps to join() and as_json().   *)
THEOREM MethodsLeaveFlags == IterableSpec => []FlagIsReleased
<1>1. IterableInit => TablesAndLoops
  BY InitHasAll DEF IterableInit
<1>2. TablesAndLoops /\ [IterableNext]_iterableVars => TablesAndLoops'
  BY IterableKeepsAll
<1>3. TablesAndLoops => FlagIsReleased
  BY FlagsAreCounted DEF TablesAndLoops
<1> QED
  BY <1>1, <1>2, <1>3, PTL DEF IterableSpec

(* The tables are ordered maps while methods of iterables run.             *)
THEOREM MethodsSeeOrderedMaps == IterableSpec => ImplementsOrderedMap
<1>1. IterableInit => TablesAndLoops /\ Ordered!Init
  BY InitHasAll DEF IterableInit
<1>2. TablesAndLoops /\ [IterableNext]_iterableVars => TablesAndLoops' /\ [Ordered!Next]_<<contents, kind>>
  BY IterableKeepsAll
<1> QED
  BY <1>1, <1>2, PTL DEF IterableSpec, ImplementsOrderedMap, Ordered!Spec

-----------------------------------------------------------------------------
(* METHODS OF ITERABLES *)

Fields == {"at", "name", "given", "source", "from", "kept", "rest", "value", "exception",
           "seen", "answers", "by"}

(* What a handler leaves alone.                                            *)
Same(m, n) == /\ DOMAIN n = Fields
              /\ n.name = m.name /\ n.from = m.from /\ n.source = m.source /\ n.seen = m.seen
              /\ n.given = m.given /\ n.answers = m.answers

LEMMA FormsKeep ==
    ASSUME NEW m, DOMAIN m = Fields
    PROVE  /\ \A v : Same(m, Return(m, v)) /\ Return(m, v).at = "done" /\ Return(m, v).exception = m.exception
           /\ Same(m, Raise(m)) /\ Raise(m).at = "done" /\ Raise(m).exception
           /\ Same(m, Ask(m)) /\ Ask(m).at = "callback" /\ Ask(m).exception = m.exception
           /\ Same(m, GoOn(m)) /\ GoOn(m).at = "next" /\ GoOn(m).exception = m.exception
           /\ Same(m, Keep(m)) /\ Keep(m).at = "next" /\ Keep(m).exception = m.exception
           /\ Same(m, Replace(m)) /\ Replace(m).at = "next" /\ Replace(m).exception = m.exception
<1>1. /\ \A v : Same(m, Return(m, v)) /\ Return(m, v).at = "done" /\ Return(m, v).exception = m.exception
      /\ Same(m, Raise(m)) /\ Raise(m).at = "done" /\ Raise(m).exception
  BY DEF Same, Return, Raise, Fields
<1>2. /\ Same(m, Ask(m)) /\ Ask(m).at = "callback" /\ Ask(m).exception = m.exception
      /\ Same(m, GoOn(m)) /\ GoOn(m).at = "next" /\ GoOn(m).exception = m.exception
  BY DEF Same, Ask, GoOn, Fields
<1>3. /\ Same(m, Keep(m)) /\ Keep(m).at = "next" /\ Keep(m).exception = m.exception
      /\ Same(m, Replace(m)) /\ Replace(m).at = "next" /\ Replace(m).exception = m.exception
  BY DEF Same, GoOn, Keep, Replace, Fields
<1> QED
  BY <1>1, <1>2, <1>3

Events == {"element", "yes", "no", "end"}

LEMMA HandlerKeeps ==
    ASSUME NEW m, DOMAIN m = Fields, m.name \in Methods, NEW e \in Events, NEW lt
    PROVE  Same(m, Handler(m, e, lt))
<1> DEFINE n == Handler(m, e, lt)
<1>0. Same(m, m)
  BY DEF Same
<1>1. CASE m.name \in {"first", "last", "single"}
  <2>1. \/ n = iterable_first(m, e) \/ n = iterable_last(m, e) \/ n = iterable_single(m, e)
    BY <1>1 DEF Handler
  <2> QED
    BY <2>1, FormsKeep DEF iterable_first, iterable_last, iterable_single, Otherwise, Events
<1>2. CASE m.name \in {"max", "min", "sum", "avg"}
  <2>1. \/ n = iterable_max(m, e) \/ n = iterable_sum(m, e) \/ n = iterable_avg(m, e)
    BY <1>2 DEF Handler, iterable_min
  <2> QED
    BY <2>1, FormsKeep DEF iterable_max, iterable_sum, iterable_avg, KeepOrAsk, Events
<1>3. CASE m.name \in {"all", "any", "each", "has", "map", "join", "as_json"}
  <2>1. \/ n = iterable_all(m, e) \/ n = iterable_any(m, e) \/ n = iterable_each(m, e) \/ n = iterable_map(m, e)
    BY <1>3 DEF Handler, iterable_has, iterable_join, iterable_as_json
  <2> QED
    BY <2>1, FormsKeep DEF iterable_all, iterable_any, iterable_each, iterable_map, Events
<1>4. CASE m.name \in {"filter", "grep"}
  <2>1. n = iterable_filter(m, e) \/ n = iterable_grep(m, e)
    BY <1>4 DEF Handler
  <2> QED
    BY <2>1, FormsKeep DEF iterable_filter, iterable_grep, Events
<1>5. CASE m.name = "split"
  <2>1. n = iterable_split(m, e)
    BY <1>5 DEF Handler
  <2>2. Same(m, [GoOn(m) EXCEPT !.rest = Append(@, Element(m))])
    BY DEF Same, GoOn, Fields
  <2> QED
    BY <2>1, <2>2, FormsKeep DEF iterable_split, Events
<1>6. CASE m.name = "take"
  <2>1. n = iterable_take(m, e)
    BY <1>6 DEF Handler
  <2> QED
    BY <1>0, <2>1, FormsKeep DEF iterable_take
<1>7. CASE m.name = "sort"
  <2>1. n = iterable_sort(m, e, lt)
    BY <1>7 DEF Handler
  <2> DEFINE s == Quicksort(m.kept, lt, m.given)
  <2>2. n = Keep(m) \/ n = [Return(m, s) EXCEPT !.by = lt]
    BY <2>1 DEF iterable_sort
  <2> HIDE DEF s
  <2>3. Same(m, [Return(m, s) EXCEPT !.by = lt])
    BY DEF Same, Return, Fields
  <2> QED
    BY <2>2, <2>3, FormsKeep
<1> QED
  BY <1>1, <1>2, <1>3, <1>4, <1>5, <1>6, <1>7 DEF Methods

LEMMA EachGoesOn ==
    ASSUME NEW m, DOMAIN m = Fields, m.name = "each", NEW e \in Events, e # "end", NEW lt
    PROVE  Handler(m, e, lt).at # "done"
<1>1. Handler(m, e, lt) = iterable_each(m, e)
  BY DEF Handler
<1> QED
  BY <1>1, FormsKeep DEF iterable_each, Events

LEMMA EachEnds ==
    ASSUME NEW m, DOMAIN m = Fields, m.name = "each", NEW lt
    PROVE  Handler(m, "end", lt).at = "done"
<1>1. Handler(m, "end", lt) = iterable_each(m, "end")
  BY DEF Handler
<1> QED
  BY <1>1, FormsKeep DEF iterable_each

(* What a step makes of a method m that has begun: nothing, an answer or a *)
(* failure, the end of its loop, or one element more.                      *)
Passes(m, n) == Same(m, n) /\ (m.name = "each" => ~(n.at = "done" /\ ~n.exception))
LoopIsOver(m, n) == /\ m.source.kind = "table" \/ Ended \in Offers(m)
                    /\ \E lt \in Comparisons : n = Handler(m, "end", lt)
Delivers(m, n, e, q) ==
    /\ \/ m.source.kind = "table" /\ q = m.source
       \/ m.source.kind # "table" /\ Got(e, q) \in Offers(m)
    /\ n = WithElement(m, e, q)

SourceKinds == {"script", "integers", "range", "empty", "table"}

(* A method that has begun.                                                *)
Running(m) == DOMAIN m = Fields /\ m.name \in Methods /\ m.source.kind \in SourceKinds

LEMMA EndForms ==
    ASSUME Running(method), NEW failed \in BOOLEAN, LoopEnds(method, failed),
           failed \/ method.source.kind = "table" \/ Ended \in Offers(method)
    PROVE  Passes(method, method') \/ LoopIsOver(method, method')
<1> DEFINE m == method
           n == method'
<1>1. CASE ~failed /\ m.name # "grep" /\ \E lt \in Comparisons : n = Handler(m, "end", lt)
  BY <1>1 DEF LoopIsOver
<1>2. CASE n = Raise(m)
  BY <1>2, FormsKeep DEF Passes, Running
<1>3. ASSUME m.name = "grep", NEW at, n = [m EXCEPT !.at = at, !.exception = @ \/ failed]
      PROVE  Passes(m, n)
  BY <1>3 DEF Passes, Same, Running, Fields
<1> QED
  BY <1>1, <1>2, <1>3 DEF LoopEnds

LEMMA OfferForms ==
    ASSUME NEW m, Running(m), m.source.kind # "table", NEW o \in Offers(m)
    PROVE  o = Ended \/ o = Broken \/ \E e, q : o = Got(e, q)
<1> DEFINE r == m.source
<1>1. CASE r.kind = "script"
  BY <1>1 DEF Offers
<1>2. CASE r.kind = "integers"
  BY <1>2 DEF Offers
<1>3. CASE r.kind = "empty"
  BY <1>3 DEF Offers
<1>4. CASE r.kind = "range" /\ r.current = Gone
  BY <1>4 DEF Offers
<1>5. CASE r.kind = "range" /\ r.current # Gone
  <2>1. Offers(m) = IF r.current < r.last
                    THEN {Broken} \cup {Got(r.current, [r EXCEPT !.current = e]) : e \in Objects}
                    ELSE {Broken, IF r.exclusive THEN Ended ELSE Got(r.last, [r EXCEPT !.current = Gone])}
    BY <1>5 DEF Offers
  <2> QED
    BY <2>1
<1> QED
  BY <1>1, <1>2, <1>3, <1>4, <1>5 DEF Running, SourceKinds

LEMMA GetNextForms ==
    ASSUME Running(method), GetNext \/ GetNextOfTable
    PROVE  \/ Passes(method, method') \/ LoopIsOver(method, method')
           \/ \E e, q : Delivers(method, method', e, q)
<1>1. ASSUME GetNext PROVE \/ Passes(method, method') \/ LoopIsOver(method, method')
                           \/ \E e, q : Delivers(method, method', e, q)
  <2>1. method.source.kind # "table"
    BY <1>1 DEF GetNext
  <2>2. PICK o \in Offers(method) : \/ o.ok /\ method' = WithElement(method, o.element, o.source)
                                    \/ ~o.ok /\ LoopEnds(method, o.failed)
    BY <1>1 DEF GetNext
  <2>3. CASE o = Ended
    <3>1. ~o.ok /\ o.failed = FALSE
      BY <2>3 DEF Ended
    <3> QED
      BY <2>2, <2>3, <3>1, EndForms
  <2>4. CASE o = Broken
    <3>1. ~o.ok /\ o.failed = TRUE
      BY <2>4 DEF Broken
    <3> QED
      BY <2>2, <3>1, EndForms
  <2>5. ASSUME NEW e, NEW q, o = Got(e, q) PROVE Delivers(method, method', e, q)
    <3>1. o.ok /\ o.element = e /\ o.source = q
      BY <2>5 DEF Got
    <3> QED
      BY <2>1, <2>2, <2>5, <3>1 DEF Delivers
  <2> QED
    BY <2>1, <2>2, <2>3, <2>4, <2>5, OfferForms
<1>2. ASSUME GetNextOfTable PROVE \/ Passes(method, method') \/ LoopIsOver(method, method')
                                  \/ \E e, q : Delivers(method, method', e, q)
  <2> DEFINE e == table[walker[method.source.loop].on].entry[walker[method.source.loop].at].key
  <2>1. /\ method.source.kind = "table"
        /\ LoopEnds(method, FALSE) \/ method' = WithElement(method, e, method.source)
    BY <1>2 DEF GetNextOfTable
  <2> HIDE DEF e
  <2>2. CASE LoopEnds(method, FALSE)
    BY <2>1, <2>2, EndForms
  <2>3. CASE method' = WithElement(method, e, method.source)
    BY <2>1, <2>3 DEF Delivers
  <2> QED
    BY <2>1, <2>2, <2>3
<1> QED
  BY <1>1, <1>2

LEMMA AnswerForms ==
    ASSUME Running(method), Answer
    PROVE  Passes([method EXCEPT !.answers = method'.answers], method') /\ method'.seen = method.seen
           /\ method'.from = method.from /\ method'.source = method.source /\ method'.name = method.name
<1> DEFINE n == method'
<1>1. ASSUME NEW a, NEW e \in {"yes", "no"}, n = Handler([method EXCEPT !.answers = Append(@, a)], e, Less)
      PROVE  Passes([method EXCEPT !.answers = n.answers], n)
  <2> DEFINE m == [method EXCEPT !.answers = Append(@, a)]
  <2>1. DOMAIN m = Fields /\ m.name = method.name /\ m.name \in Methods /\ m.from = method.from
        /\ m.source = method.source /\ m.seen = method.seen /\ m.given = method.given
        /\ m.answers = Append(method.answers, a)
    BY DEF Running, Fields
  <2>2. n = Handler(m, e, Less) /\ e \in Events /\ e # "end"
    BY <1>1 DEF Events
  <2> HIDE DEF m
  <2>3. Same(m, n)
    BY <2>1, <2>2, HandlerKeeps
  <2>4. m.name = "each" => n.at # "done"
    BY <2>1, <2>2, EachGoesOn
  <2>5. n.answers = m.answers
    BY <2>3 DEF Same
  <2>6. [method EXCEPT !.answers = n.answers] = m
    BY <2>1, <2>5 DEF m
  <2> QED
    BY <2>3, <2>4, <2>6 DEF Passes
<1>2. ASSUME n = Raise(method)
      PROVE  Passes([method EXCEPT !.answers = n.answers], n)
  <2>1. Same(method, n) /\ n.exception
    BY <1>2, FormsKeep DEF Running
  <2> QED
    BY <2>1 DEF Passes, Same, Running, Fields
<1>3. Passes([method EXCEPT !.answers = n.answers], n)
  BY <1>1, <1>2 DEF Answer
<1> QED
  BY <1>3 DEF Passes, Same, Running, Fields

-----------------------------------------------------------------------------
(* RANGES *)

(* What is true of an iterator q of a range r, and once it has delivered d. *)
Iterates(r, q) == /\ DOMAIN q = {"kind", "current", "last", "exclusive"}
                  /\ q.kind = r.kind /\ q.last = r.last /\ q.exclusive = r.exclusive

(* One of integers has counted, and is past what it delivered.             *)
Counted(r, q, d) ==
    /\ q.current = r.current + Len(d)
    /\ \A i \in 1 .. Len(d) : d[i] = r.current + i - 1
    /\ q.current <= (IF r.exclusive THEN r.last ELSE r.last + 1)

(* Any other one begins with the first and keeps below the last, until it  *)
(* has delivered that and is done.                                         *)
KeptBelow(r, q, d) ==
    /\ IF Len(d) = 0 THEN q.current = r.current ELSE d[1] = r.current
    /\ \/ q.current # Gone /\ \A i \in 1 .. Len(d) : d[i] < r.last
       \/ /\ q.current = Gone /\ ~r.exclusive /\ Len(d) > 0 /\ d[Len(d)] = r.last
          /\ \A i \in 1 .. Len(d) - 1 : d[i] < r.last

Delivered(r, q, d) ==
    /\ Iterates(r, q) /\ q.current \in Objects \cup {Gone} /\ d \in Seq(Objects)
    /\ r.kind = "integers" => Counted(r, q, d)
    /\ r.kind = "range"    => KeptBelow(r, q, d)

(* A range from its first to its last; one of integers does not end with   *)
(* the largest.                                                            *)
Proper(r) == /\ r.kind \in {"integers", "range"} /\ r.current <= r.last
             /\ ~(r.kind = "integers" /\ ~r.exclusive /\ r.last = MaxInt)

Complete(r, d) == /\ ~r.exclusive => Len(d) > 0 /\ d[Len(d)] = r.last
                  /\ (r.exclusive /\ r.kind = "integers") => Len(d) = r.last - r.current

RanThrough(m) == m.name = "each" /\ m.at = "done" /\ ~m.exception

GoesThrough(m) ==
    /\ Running(m) /\ m.source.kind = m.from.kind
    /\ m.from.kind \in {"integers", "range"} => m.from \in Ranges /\ Iterates(m.from, m.source)
    /\ Proper(m.from) => /\ Delivered(m.from, m.source, m.seen)
                         /\ RanThrough(m) => Complete(m.from, m.seen)

LEMMA SmallRemains ==
    ASSUME NEW n \in Nat, NEW x \in Nat, x < n
    PROVE  x % n = x
  BY Z3

LEMMA CountsOn ==
    ASSUME NEW r \in Ranges, NEW q, NEW d, Proper(r), Delivered(r, q, d), r.kind = "integers", Within(q)
    PROVE  /\ Counted(r, Incremented(q), Append(d, q.current))
           /\ Incremented(q).current \in Objects /\ q.current \in Objects
<1> DEFINE c == q.current
           f == Append(d, c)
<1>1. /\ MaxInt \in Nat /\ r.current \in 0 .. MaxInt /\ r.last \in 0 .. MaxInt /\ r.exclusive \in BOOLEAN
      /\ Objects = 0 .. MaxInt
  BY IterablesAssumption DEF Ranges
<1>2. /\ Iterates(r, q) /\ Counted(r, q, d) /\ d \in Seq(Objects) /\ Len(d) \in Nat /\ c \in Int
  BY <1>1 DEF Delivered, Gone
<1>3. /\ c \in Int /\ c = r.current + Len(d)
      /\ c < r.last \/ (~r.exclusive /\ c = r.last)
  BY <1>2 DEF Iterates, Counted, Within
<1>4. r.exclusive \/ r.last < MaxInt
  BY <1>1 DEF Proper
<1>5. c \in 0 .. MaxInt /\ c + 1 \in 0 .. MaxInt /\ c + 1 <= (IF r.exclusive THEN r.last ELSE r.last + 1)
  BY <1>1, <1>2, <1>3, <1>4
<1>6. (c + 1) % (MaxInt + 1) = c + 1
  <2>1. MaxInt + 1 \in Nat /\ c + 1 \in Nat /\ c + 1 < MaxInt + 1
    BY <1>1, <1>5
  <2> HIDE DEF c
  <2> QED
    BY <2>1, SmallRemains
<1>7. Incremented(q) = [q EXCEPT !.current = c + 1]
  BY <1>6 DEF Incremented
<1>8. Incremented(q).current = c + 1
  BY <1>2, <1>5, <1>7 DEF Iterates
<1>9. /\ Len(f) = Len(d) + 1 /\ f[Len(d) + 1] = c /\ \A i \in 1 .. Len(d) : f[i] = d[i]
  BY <1>1, <1>2, <1>5
<1>10. \A i \in 1 .. Len(f) : f[i] = r.current + i - 1
  <2> SUFFICES ASSUME NEW i \in 1 .. Len(f) PROVE f[i] = r.current + i - 1
    OBVIOUS
  <2> HIDE DEF f
  <2>1. i \in 1 .. Len(d) \/ i = Len(d) + 1
    BY <1>2, <1>9
  <2>2. CASE i \in 1 .. Len(d)
    BY <1>2, <1>9, <2>2 DEF Counted
  <2>3. CASE i = Len(d) + 1
    BY <1>1, <1>2, <1>3, <1>9, <2>3
  <2> QED
    BY <2>1, <2>2, <2>3
<1> HIDE DEF f
<1>11. Incremented(q).current = r.current + Len(f)
  BY <1>1, <1>2, <1>3, <1>8, <1>9 DEF f
<1>12. Counted(r, Incremented(q), f)
  BY <1>5, <1>8, <1>10, <1>11 DEF Counted
<1> QED
  BY <1>1, <1>5, <1>8, <1>12 DEF f

LEMMA KeepsBelow ==
    ASSUME NEW r \in Ranges, NEW q, NEW d, Delivered(r, q, d), r.kind = "range",
           r.current <= r.last, q.current # Gone, NEW e \in Objects, NEW c \in Int,
           \/ e = q.current /\ e < r.last /\ c # Gone
           \/ e = r.last /\ ~(q.current < r.last) /\ ~r.exclusive /\ c = Gone
    PROVE  KeptBelow(r, [q EXCEPT !.current = c], Append(d, e))
<1> DEFINE f == Append(d, e)
           p == [q EXCEPT !.current = c]
<1>1. /\ MaxInt \in Nat /\ r.last \in 0 .. MaxInt /\ r.exclusive \in BOOLEAN /\ e \in Int
      /\ r.current \in 0 .. MaxInt /\ Objects = 0 .. MaxInt
  BY IterablesAssumption DEF Ranges
<1>2. Iterates(r, q) /\ KeptBelow(r, q, d) /\ d \in Seq(Objects) /\ Len(d) \in Nat
  BY DEF Delivered
<1>3. p.current = c
  BY <1>2 DEF Iterates
<1>4. /\ \A i \in 1 .. Len(d) : d[i] < r.last
      /\ IF Len(d) = 0 THEN q.current = r.current ELSE d[1] = r.current
  BY <1>2 DEF KeptBelow
<1>5. Len(d) = 0 => e = r.current
  BY <1>1, <1>4
<1>6. Len(f) = Len(d) + 1 /\ f[Len(d) + 1] = e /\ \A i \in 1 .. Len(d) : f[i] = d[i]
  BY <1>1, <1>2
<1> HIDE DEF f, p
<1>7. \A i \in 1 .. Len(f) : i \in 1 .. Len(d) \/ i = Len(d) + 1
  BY <1>2, <1>6
<1>8. Len(f) # 0 /\ f[1] = r.current
  <2>1. CASE Len(d) = 0
    BY <1>5, <1>6, <2>1
  <2>2. CASE Len(d) # 0
    <3>1. 1 \in 1 .. Len(d)
      BY <1>2, <2>2
    <3> QED
      BY <1>2, <1>4, <1>6, <2>2, <3>1
  <2> QED
    BY <2>1, <2>2
<1>9. CASE e = q.current /\ e < r.last /\ c # Gone
  <2>1. \A i \in 1 .. Len(f) : f[i] < r.last
    BY <1>4, <1>6, <1>7, <1>9
  <2> QED
    BY <1>3, <1>8, <1>9, <2>1 DEF KeptBelow, f, p
<1>10. CASE e = r.last /\ ~(q.current < r.last) /\ ~r.exclusive /\ c = Gone
  <2>1. Len(f) > 0 /\ f[Len(f)] = r.last
    BY <1>2, <1>6, <1>10
  <2>2. \A i \in 1 .. Len(f) - 1 : f[i] < r.last
    BY <1>2, <1>4, <1>6
  <2> QED
    BY <1>3, <1>8, <1>10, <2>1, <2>2 DEF KeptBelow, f, p
<1> QED
  BY <1>9, <1>10

(* What an iterator may deliver, and when it ends.                         *)
LEMMA OffersOfIntegers ==
    ASSUME NEW m, m.source.kind = "integers"
    PROVE  /\ Ended \in Offers(m) => ~Within(m.source)
           /\ \A e, q : Got(e, q) \in Offers(m) =>
                 Within(m.source) /\ e = m.source.current /\ q = Incremented(m.source)
<1>1. Offers(m) = {IF Within(m.source) THEN Got(m.source.current, Incremented(m.source)) ELSE Ended}
  BY DEF Offers
<1>2. \A e, q : Got(e, q) # Ended /\ Got(e, q).element = e /\ Got(e, q).source = q
  <2> SUFFICES ASSUME NEW e, NEW q PROVE Got(e, q) # Ended /\ Got(e, q).element = e /\ Got(e, q).source = q
    OBVIOUS
  <2>1. Got(e, q).ok = TRUE /\ Ended.ok = FALSE
    BY DEF Got, Ended
  <2> QED
    BY <2>1 DEF Got
<1>3. CASE Within(m.source)
  <2> SUFFICES ASSUME NEW e, NEW q, Got(e, q) \in Offers(m)
               PROVE  e = m.source.current /\ q = Incremented(m.source)
    BY <1>1, <1>2, <1>3
  <2>1. Got(e, q) = Got(m.source.current, Incremented(m.source))
    BY <1>1, <1>3
  <2>2. Got(e, q).element = e /\ Got(e, q).source = q
    BY <1>2
  <2>3. /\ Got(m.source.current, Incremented(m.source)).element = m.source.current
        /\ Got(m.source.current, Incremented(m.source)).source = Incremented(m.source)
    BY <1>2
  <2> QED
    BY <2>1, <2>2, <2>3
<1>4. CASE ~Within(m.source)
  BY <1>1, <1>2, <1>4
<1> QED
  BY <1>3, <1>4

Climbs(q, e, p) ==
    \/ \E c \in Objects :
          q.current < q.last /\ e = q.current /\ p = [q EXCEPT !.current = c]
    \/ ~(q.current < q.last) /\ ~q.exclusive /\ e = q.last /\ p = [q EXCEPT !.current = Gone]

LEMMA OffersOfRanges ==
    ASSUME NEW m, m.source.kind = "range", m.source.exclusive \in BOOLEAN
    PROVE  /\ Ended \in Offers(m) => m.source.current = Gone \/ m.source.exclusive
           /\ \A e, q : Got(e, q) \in Offers(m) => m.source.current # Gone /\ Climbs(m.source, e, q)
<1> DEFINE r == m.source
<1>1. /\ \A e, q : Got(e, q).ok = TRUE /\ Got(e, q).element = e /\ Got(e, q).source = q
      /\ Ended.ok = FALSE /\ Ended.failed = FALSE /\ Broken.ok = FALSE /\ Broken.failed = TRUE
  BY DEF Got, Ended, Broken
<1>2. CASE r.current = Gone
  <2>1. Offers(m) = {Ended}
    BY <1>2 DEF Offers
  <2> QED
    BY <1>1, <1>2, <2>1
<1>3. CASE r.current # Gone /\ r.current < r.last
  <2>1. Offers(m) = {Broken} \cup {Got(r.current, [r EXCEPT !.current = e]) : e \in Objects}
    BY <1>3 DEF Offers
  <2>2. Ended \notin Offers(m)
    <3>1. Ended # Broken /\ \A e \in Objects : Ended # Got(r.current, [r EXCEPT !.current = e])
      <4> DEFINE G(e) == Got(r.current, [r EXCEPT !.current = e])
      <4>1. \A e : G(e).ok = TRUE
        BY DEF Got
      <4> HIDE DEF G
      <4>2. Ended # Broken /\ \A e : Ended # G(e)
        BY <1>1, <4>1
      <4> QED
        BY <4>2 DEF G
    <3> QED
      BY <2>1, <3>1
  <2>3. ASSUME NEW e, NEW q, Got(e, q) \in Offers(m) PROVE Climbs(r, e, q)
    <3>0. Got(e, q) # Broken
      BY <1>1
    <3>1. PICK c \in Objects : Got(e, q) = Got(r.current, [r EXCEPT !.current = c])
      BY <3>0, <2>1, <2>3
    <3> DEFINE p == [r EXCEPT !.current = c]
               k == r.current
    <3>2. Got(e, q).element = e /\ Got(e, q).source = q /\ Got(k, p).element = k /\ Got(k, p).source = p
      BY <1>1
    <3>3. e = k /\ q = p
      <4>1. Got(e, q) = Got(k, p)
        BY <3>1
      <4> HIDE DEF k, p
      <4> QED
        BY <3>2, <4>1
    <3> QED
      BY <1>3, <3>3 DEF Climbs
  <2> QED
    BY <1>3, <2>2, <2>3
<1>4. CASE r.current # Gone /\ ~(r.current < r.last)
  <2>1. Offers(m) = {Broken, IF r.exclusive THEN Ended ELSE Got(r.last, [r EXCEPT !.current = Gone])}
    BY <1>4 DEF Offers
  <2>2. CASE r.exclusive
    <3>1. Offers(m) = {Broken, Ended}
      BY <2>1, <2>2
    <3> QED
      BY <1>1, <2>2, <3>1
  <2>3. CASE ~r.exclusive
    <3> DEFINE p == [r EXCEPT !.current = Gone]
               k == r.last
    <3>1. Offers(m) = {Broken, Got(k, p)}
      BY <2>1, <2>3
    <3> HIDE DEF k, p
    <3>2. Ended \notin Offers(m)
      BY <1>1, <3>1
    <3>3. \A e, q : Got(e, q) \in Offers(m) => e = k /\ q = p
      <4> SUFFICES ASSUME NEW e, NEW q, Got(e, q) \in Offers(m) PROVE e = k /\ q = p
        OBVIOUS
      <4>1. Got(e, q).element = e /\ Got(e, q).source = q /\ Got(k, p).element = k /\ Got(k, p).source = p
            /\ Got(e, q).ok = TRUE /\ Broken.ok = FALSE
        BY <1>1
      <4> QED
        BY <3>1, <4>1
    <3> QED
      BY <1>4, <2>3, <3>2, <3>3 DEF Climbs, k, p
  <2> QED
    BY <2>2, <2>3
<1> QED
  BY <1>2, <1>3, <1>4

LEMMA OffersOfOthers ==
    ASSUME NEW m, m.source.kind = "script" \/ m.source.kind = "empty"
    PROVE  \A e, q : Got(e, q) \in Offers(m) => q = m.source
<1> DEFINE r == m.source
<1>1. \A e, q : Got(e, q).ok = TRUE /\ Got(e, q).source = q
  BY DEF Got
<1>2. Ended.ok = FALSE /\ Broken.ok = FALSE
  BY DEF Ended, Broken
<1>3. Offers(m) \subseteq {Ended, Broken} \cup {Got(e, r) : e \in setup.objects}
  BY DEF Offers
<1> SUFFICES ASSUME NEW e, NEW q, Got(e, q) \in Offers(m) PROVE q = r
  OBVIOUS
<1>4. Got(e, q) # Ended /\ Got(e, q) # Broken
  BY <1>1, <1>2
<1>5. PICK x \in setup.objects : Got(e, q) = Got(x, r)
  BY <1>3, <1>4
<1>6. Got(e, q).source = q /\ Got(x, r).source = r
  BY <1>1
<1> QED
  BY <1>5, <1>6

LEMMA PassingGoesThrough ==
    ASSUME NEW m, NEW n, GoesThrough(m), Passes(m, n)
    PROVE  GoesThrough(n)
<1>1. DOMAIN n = Fields /\ n.name = m.name /\ n.from = m.from /\ n.source = m.source /\ n.seen = m.seen
  BY DEF Passes, Same
<1>2. ~RanThrough(n)
  BY <1>1 DEF Passes, RanThrough
<1> QED
  BY <1>1, <1>2 DEF GoesThrough, Running

LEMMA EndGoesThrough ==
    ASSUME NEW m, NEW n, GoesThrough(m), LoopIsOver(m, n)
    PROVE  GoesThrough(n)
<1> DEFINE r == m.from
           q == m.source
           d == m.seen
<1>1. PICK lt \in Comparisons : n = Handler(m, "end", lt)
  BY DEF LoopIsOver
<1>2. Same(m, n)
  BY <1>1, HandlerKeeps DEF GoesThrough, Running, Events
<1>3. DOMAIN n = Fields /\ n.name = m.name /\ n.from = m.from /\ n.source = m.source /\ n.seen = m.seen
  BY <1>2 DEF Same
<1>4. ASSUME Proper(r) PROVE Complete(r, d)
  <2>1. /\ MaxInt \in Nat /\ r.current \in 0 .. MaxInt /\ r.last \in 0 .. MaxInt /\ r.exclusive \in BOOLEAN
        /\ r.kind \in {"integers", "range"}
    BY <1>4, IterablesAssumption DEF GoesThrough, Ranges, Proper
  <2>2. Delivered(r, q, d) /\ q.kind = r.kind /\ r.current <= r.last
    BY <1>4 DEF GoesThrough, Proper
  <2>3. q.exclusive = r.exclusive /\ q.last = r.last /\ q.current \in Int /\ Len(d) \in Nat
    BY <2>2, IterablesAssumption DEF Delivered, Iterates, Gone
  <2>4. Ended \in Offers(m)
    BY <2>1, <2>2 DEF LoopIsOver
  <2>5. CASE r.kind = "integers"
    <3>1. ~Within(q)
      BY <2>2, <2>4, <2>5, OffersOfIntegers
    <3>2. Counted(r, q, d)
      BY <2>2, <2>5 DEF Delivered
    <3>3. ASSUME ~r.exclusive PROVE Len(d) > 0 /\ d[Len(d)] = r.last
      <4>1. q.current > r.last
        BY <2>1, <2>3, <3>1, <3>3 DEF Within
      <4>2. q.current = r.last + 1 /\ q.current = r.current + Len(d)
        BY <2>1, <2>3, <3>2, <3>3, <4>1 DEF Counted
      <4>3. Len(d) > 0 /\ Len(d) \in 1 .. Len(d)
        BY <2>1, <2>2, <2>3, <4>2
      <4>4. d[Len(d)] = r.current + Len(d) - 1
        BY <3>2, <4>3 DEF Counted
      <4> QED
        BY <2>1, <2>3, <4>2, <4>3, <4>4
    <3>4. ASSUME r.exclusive PROVE Len(d) = r.last - r.current
      <4>1. q.current >= r.last
        BY <2>1, <2>3, <3>1, <3>4 DEF Within
      <4>2. q.current <= r.last /\ q.current = r.current + Len(d)
        BY <3>2, <3>4 DEF Counted
      <4> QED
        BY <2>1, <2>3, <4>1, <4>2
    <3> QED
      BY <2>1, <3>3, <3>4 DEF Complete
  <2>6. CASE r.kind = "range"
    <3>1. q.current = Gone \/ q.exclusive
      BY <2>1, <2>2, <2>3, <2>4, <2>6, OffersOfRanges
    <3>2. KeptBelow(r, q, d)
      BY <2>2, <2>6 DEF Delivered
    <3> QED
      BY <2>3, <2>6, <3>1, <3>2 DEF KeptBelow, Complete
  <2> QED
    BY <2>1, <2>5, <2>6
<1> QED
  BY <1>3, <1>4 DEF GoesThrough, Running

LEMMA DeliveryGoesThrough ==
    ASSUME NEW m, NEW n, GoesThrough(m), NEW e, NEW q, Delivers(m, n, e, q)
    PROVE  GoesThrough(n)
<1> DEFINE r == m.from
           p == m.source
           d == m.seen
           f == Append(d, e)
           h == [m EXCEPT !.seen = f, !.source = q]
<1>1. n = Handler(h, "element", Less)
  BY DEF Delivers, WithElement
<1>2. DOMAIN m = Fields /\ m.name \in Methods /\ p.kind = r.kind /\ p.kind \in SourceKinds
  BY DEF GoesThrough, Running
<1>3. DOMAIN h = Fields /\ h.name = m.name /\ h.from = r /\ h.source = q /\ h.seen = f
  BY <1>2 DEF Fields
<1> HIDE DEF h
<1>4. Same(h, n)
  BY <1>1, <1>2, <1>3, HandlerKeeps DEF Events
<1>5. DOMAIN n = Fields /\ n.name = m.name /\ n.from = r /\ n.source = q /\ n.seen = f
  BY <1>3, <1>4 DEF Same
<1>6. ~RanThrough(n)
  <2>1. CASE m.name = "each"
    <3>1. n.at # "done"
      BY <1>1, <1>3, <2>1, EachGoesOn DEF Events
    <3> QED
      BY <3>1 DEF RanThrough
  <2>2. CASE m.name # "each"
    BY <1>5, <2>2 DEF RanThrough
  <2> QED
    BY <2>1, <2>2
<1>7. p.kind # "table" => Got(e, q) \in Offers(m)
  BY DEF Delivers
<1>8. r.kind \in {"integers", "range"} => r \in Ranges /\ Iterates(r, p) /\ p.exclusive \in BOOLEAN
  BY DEF GoesThrough, Iterates, Ranges
<1>9. /\ p.kind = "integers" => Within(p) /\ e = p.current /\ q = Incremented(p)
      /\ p.kind = "range"    => p.current # Gone /\ Climbs(p, e, q)
  BY <1>2, <1>7, <1>8, OffersOfIntegers, OffersOfRanges
<1>10. r.kind \in {"integers", "range"} => Iterates(r, q)
  BY <1>2, <1>8, <1>9 DEF Iterates, Incremented, Climbs
<1>11. q.kind = p.kind
  <2>1. CASE p.kind = "table"
    BY <2>1 DEF Delivers
  <2>2. CASE p.kind = "script" \/ p.kind = "empty"
    BY <1>7, <2>2, OffersOfOthers
  <2>3. CASE p.kind \in {"integers", "range"}
    BY <1>2, <1>10, <2>3 DEF Iterates
  <2> QED
    BY <1>2, <2>1, <2>2, <2>3 DEF SourceKinds
<1>12. ASSUME Proper(r) PROVE Delivered(r, q, f)
  <2>1. /\ MaxInt \in Nat /\ r.current \in 0 .. MaxInt /\ r.last \in 0 .. MaxInt /\ r.exclusive \in BOOLEAN
        /\ r.kind \in {"integers", "range"} /\ Objects = 0 .. MaxInt /\ r \in Ranges
    BY <1>8, <1>12, IterablesAssumption DEF Ranges, Proper
  <2>2. Delivered(r, p, d) /\ Iterates(r, p) /\ Iterates(r, q)
    BY <1>8, <1>10, <1>12, <2>1 DEF GoesThrough
  <2>3. /\ p.exclusive = r.exclusive /\ p.last = r.last /\ p.current \in Objects \cup {Gone} /\ d \in Seq(Objects)
        /\ DOMAIN p = {"kind", "current", "last", "exclusive"}
    BY <2>2 DEF Delivered, Iterates
  <2>4. CASE r.kind = "integers"
    <3>1. Within(p) /\ e = p.current /\ q = Incremented(p)
      BY <1>2, <1>9, <2>4
    <3>2. Counted(r, q, f) /\ q.current \in Objects /\ e \in Objects
      BY <1>12, <2>1, <2>2, <2>4, <3>1, CountsOn
    <3> QED
      BY <2>2, <2>3, <2>4, <3>2 DEF Delivered
  <2>5. CASE r.kind = "range"
    <3>1. p.current \in 0 .. MaxInt /\ Climbs(p, e, q)
      BY <1>2, <1>9, <2>1, <2>3, <2>5
    <3>2. PICK c \in Objects \cup {Gone} :
                  /\ q = [p EXCEPT !.current = c]
                  /\ \/ e = p.current /\ e < r.last /\ c # Gone
                     \/ e = r.last /\ ~(p.current < r.last) /\ ~r.exclusive /\ c = Gone
      <4>1. CASE \E c \in Objects :
                    p.current < p.last /\ e = p.current /\ q = [p EXCEPT !.current = c]
        <5>1. PICK c \in Objects :
                      p.current < p.last /\ e = p.current /\ q = [p EXCEPT !.current = c]
          BY <4>1
        <5>2. c \in Objects /\ c # Gone
          BY <2>1, <3>1, <5>1 DEF Gone
        <5> QED
          BY <2>3, <5>1, <5>2
      <4>2. CASE ~(p.current < p.last) /\ ~p.exclusive /\ e = p.last /\ q = [p EXCEPT !.current = Gone]
        BY <2>3, <4>2
      <4> QED
        BY <3>1, <4>1, <4>2 DEF Climbs
    <3>3. e \in Objects /\ c \in Int /\ q.current = c
      BY <2>1, <2>3, <3>1, <3>2 DEF Gone
    <3>4. KeptBelow(r, q, f)
      <4>1. r.current <= r.last /\ p.current # Gone
        BY <1>2, <1>9, <1>12, <2>5 DEF Proper
      <4> QED
        BY <2>1, <2>2, <2>5, <3>2, <3>3, <4>1, KeepsBelow
    <3> QED
      BY <2>2, <2>3, <2>5, <3>2, <3>3, <3>4 DEF Delivered
  <2> QED
    BY <2>1, <2>4, <2>5
<1> QED
  BY <1>2, <1>5, <1>6, <1>8, <1>10, <1>11, <1>12 DEF GoesThrough, Running

LEMMA SetupStays == IterableNext => setup' = setup
<1>1. Next => setup' = setup
  BY DEF Next, SetItem, PopItem, set_pop, ClearAll, map_update, Sum, Copy, set_sub, set_and,
         map_keys, map_reverse, Made, Becomes, Generate, Converted, Failed, Iter, Join
<1>2. \A w \in Walkers, t \in Tables : CallOnTable(w, t) => setup' = setup
  BY DEF CallOnTable, Iter
<1>3. CallOnOther \/ GetNext => setup' = setup
  BY DEF CallOnOther, GetNext, vars
<1>4. GetNextOfTable \/ Answer => setup' = setup
  BY DEF GetNextOfTable, Answer, Generate
<1>5. Meanwhile => setup' = setup
  BY DEF Meanwhile, SetItem, PopItem, ClearAll, Becomes
<1> QED
  BY <1>1, <1>2, <1>3, <1>4, <1>5 DEF IterableNext

LEMMA RangesAreSources ==
    ASSUME NEW r \in Ranges
    PROVE  /\ r.kind \in {"integers", "range"} /\ r.current \in Objects
           /\ Iterates(r, r)
  BY DEF Ranges, Iterates

LEMMA BegunGoesThrough ==
    ASSUME NEW name \in Methods, NEW given, NEW source,
           source \in Ranges \/ source.kind \in {"script", "empty", "table"}
    PROVE  GoesThrough(Begun(name, given, source)) /\ Begun(name, given, source) # NoMethod
<1> DEFINE m == Begun(name, given, source)
<1>1. /\ DOMAIN m = Fields /\ m.name = name /\ m.source = source /\ m.from = source /\ m.seen = <<>>
      /\ m.at = "next"
  BY DEF Begun, Fields
<1>2. m # NoMethod /\ ~RanThrough(m)
  BY <1>1 DEF NoMethod, RanThrough
<1> HIDE DEF m
<1>3. CASE source.kind \in {"script", "empty", "table"}
  BY <1>1, <1>2, <1>3 DEF GoesThrough, Running, SourceKinds, Proper, m
<1>4. CASE source \in Ranges
  <2>1. source.kind \in {"integers", "range"} /\ source.current \in Objects /\ Iterates(source, source)
    BY <1>4, RangesAreSources
  <2>2. ASSUME Proper(source) PROVE Delivered(source, source, <<>>)
    <3>1. source.current \in Nat /\ source.last \in Nat /\ source.current <= source.last
      BY <1>4, <2>2, IterablesAssumption DEF Ranges, Proper
    <3> QED
      BY <2>1, <3>1 DEF Delivered, Counted, KeptBelow, Gone
  <2> QED
    BY <1>1, <1>2, <1>4, <2>1, <2>2 DEF GoesThrough, Running, SourceKinds, m
<1> QED
  BY <1>3, <1>4

CallsGoThrough == method' # NoMethod /\ GoesThrough(method')

LEMMA CallGoesThrough ==
    ASSUME setup \in Setups,
           CallOnOther \/ \E w \in Walkers, t \in Tables : CallOnTable(w, t)
    PROVE  CallsGoThrough
<1>1. setup.methods \subseteq Methods
  BY MethodsAssumption
<1>2. CASE CallOnOther
  <2>1. PICK name \in setup.methods, source \in Ranges \cup {[kind |-> "script"]} : Calls(name, source)
    BY <1>2 DEF CallOnOther
  <2>2. PICK given : method' = Begun(name, given, source)
    BY <2>1 DEF Calls
  <2>3. source \in Ranges \/ source.kind \in {"script", "empty", "table"}
    BY <2>1
  <2> QED
    BY <1>1, <2>1, <2>2, <2>3, BegunGoesThrough DEF CallsGoThrough
<1>3. ASSUME NEW w \in Walkers, NEW t \in Tables, CallOnTable(w, t) PROVE CallsGoThrough
  <2>1. PICK name \in setup.methods : \/ Calls(name, [kind |-> "empty"])
                                      \/ Calls(name, [kind |-> "table", loop |-> w])
    BY <1>3 DEF CallOnTable
  <2>2. PICK given, source : method' = Begun(name, given, source) /\ source.kind \in {"empty", "table"}
    BY <2>1 DEF Calls
  <2> QED
    BY <1>1, <2>2, BegunGoesThrough DEF CallsGoThrough
<1> QED
  BY <1>2, <1>3

LEMMA AnswerGoesThrough ==
    ASSUME GoesThrough(method), Answer
    PROVE  GoesThrough(method')
<1> DEFINE m == [method EXCEPT !.answers = method'.answers]
<1>1. Passes(m, method')
  BY AnswerForms DEF GoesThrough
<1>2. /\ DOMAIN m = Fields /\ m.name = method.name /\ m.from = method.from /\ m.source = method.source
      /\ m.seen = method.seen /\ m.at = method.at /\ m.exception = method.exception
  BY DEF GoesThrough, Running, Fields
<1> HIDE DEF m
<1>3. GoesThrough(m)
  BY <1>2 DEF GoesThrough, Running, RanThrough
<1> QED
  BY <1>1, <1>3, PassingGoesThrough

RangeInv == setup \in Setups /\ (method = NoMethod \/ GoesThrough(method))

LEMMA StepGoesThrough ==
    ASSUME RangeInv, IterableNext
    PROVE  RangeInv'
<1>1. setup' \in Setups
  BY SetupStays DEF RangeInv
<1>2. ASSUME UNCHANGED method PROVE RangeInv'
  BY <1>1, <1>2 DEF RangeInv, GoesThrough, Running, Proper, Iterates, Delivered, Counted, KeptBelow,
                    Complete, RanThrough
<1>3. CASE CallOnOther \/ \E w \in Walkers, t \in Tables : CallOnTable(w, t)
  BY <1>1, <1>3, CallGoesThrough DEF RangeInv, CallsGoThrough
<1>4. CASE GetNext \/ GetNextOfTable
  <2>1. method # NoMethod
    <3>1. method.at = "next"
      BY <1>4 DEF GetNext, GetNextOfTable
    <3> QED
      BY <3>1 DEF NoMethod
  <2>2. GoesThrough(method)
    BY <2>1 DEF RangeInv
  <2>3. GoesThrough(method')
    BY <1>4, <2>2, GetNextForms, PassingGoesThrough, EndGoesThrough, DeliveryGoesThrough DEF GoesThrough
  <2> QED
    BY <1>1, <2>3 DEF RangeInv
<1>5. CASE Answer
  <2>1. method # NoMethod
    BY <1>5 DEF Answer, NoMethod
  <2> QED
    BY <1>1, <1>5, <2>1, AnswerGoesThrough DEF RangeInv
<1> QED
  BY <1>2, <1>3, <1>4, <1>5 DEF IterableNext, Meanwhile

LEMMA ThroughIsInBounds ==
    ASSUME RangeInv
    PROVE  RangesKeepTheirBounds
<1> DEFINE r == method.from
           d == method.seen
           q == method.source
<1> SUFFICES ASSUME method.at # "none", r.kind \in {"integers", "range"}, r.current <= r.last,
                    ~(r.kind = "integers" /\ ~r.exclusive /\ r.last = MaxInt)
             PROVE  /\ d # <<>> => d[1] = r.current
                    /\ \A i \in DOMAIN d : \/ d[i] < r.last
                                           \/ i = Len(d) /\ ~r.exclusive /\ d[i] = r.last
                    /\ r.kind = "integers" => \A i \in DOMAIN d : d[i] = r.current + i - 1
                    /\ (method.name = "each" /\ Returned) =>
                          /\ ~r.exclusive => d # <<>> /\ Last(d) = r.last
                          /\ (r.exclusive /\ r.kind = "integers") => Len(d) = r.last - r.current
  BY DEF RangesKeepTheirBounds
<1>1. GoesThrough(method)
  BY DEF RangeInv, NoMethod
<1>2. Proper(r)
  BY DEF Proper
<1>3. /\ MaxInt \in Nat /\ r.current \in 0 .. MaxInt /\ r.last \in 0 .. MaxInt /\ r.exclusive \in BOOLEAN
      /\ Objects = 0 .. MaxInt
  BY <1>1, IterablesAssumption DEF GoesThrough, Ranges
<1>4. /\ Delivered(r, q, d) /\ d \in Seq(Objects) /\ DOMAIN d = 1 .. Len(d) /\ Len(d) \in Nat
      /\ \A i \in 1 .. Len(d) : d[i] \in 0 .. MaxInt
  BY <1>1, <1>2, <1>3 DEF GoesThrough, Delivered
<1>5. (method.name = "each" /\ Returned) =>
         /\ ~r.exclusive => d # <<>> /\ Last(d) = r.last
         /\ (r.exclusive /\ r.kind = "integers") => Len(d) = r.last - r.current
  BY <1>1, <1>2, <1>4 DEF GoesThrough, RanThrough, Returned, Complete, Last
<1>6. d # <<>> => Len(d) > 0 /\ 1 \in 1 .. Len(d)
  BY <1>4
<1>7. CASE r.kind = "integers"
  <2>1. Counted(r, q, d)
    BY <1>4, <1>7 DEF Delivered
  <2>2. \A i \in 1 .. Len(d) : d[i] = r.current + i - 1
    BY <2>1 DEF Counted
  <2>3. r.current + Len(d) <= (IF r.exclusive THEN r.last ELSE r.last + 1)
    BY <2>1 DEF Counted
  <2>4. d # <<>> => d[1] = r.current
    BY <1>3, <1>6, <2>2
  <2>5. \A i \in 1 .. Len(d) : \/ d[i] < r.last
                               \/ i = Len(d) /\ ~r.exclusive /\ d[i] = r.last
    <3> SUFFICES ASSUME NEW i \in 1 .. Len(d)
                 PROVE  d[i] < r.last \/ (i = Len(d) /\ ~r.exclusive /\ d[i] = r.last)
      OBVIOUS
    <3>1. d[i] = r.current + i - 1
      BY <2>2
    <3> DEFINE x == d[i]
               a == r.current
               l == r.last
               n == Len(d)
    <3>2. x = a + i - 1 /\ a \in Int /\ l \in Int /\ n \in Int /\ i \in Int /\ i <= n
          /\ a + n <= (IF r.exclusive THEN l ELSE l + 1)
      BY <1>3, <1>4, <2>3, <3>1
    <3> HIDE DEF x, a, l, n
    <3>3. x < l \/ (i = n /\ ~r.exclusive /\ x = l)
      BY <1>3, <3>2
    <3> QED
      BY <3>3 DEF x, l, n
  <2> QED
    BY <1>4, <1>5, <2>2, <2>4, <2>5
<1>8. CASE r.kind = "range"
  <2>1. KeptBelow(r, q, d)
    BY <1>4, <1>8 DEF Delivered
  <2>2. d # <<>> => d[1] = r.current
    BY <1>4, <1>6, <2>1 DEF KeptBelow
  <2>3. \A i \in 1 .. Len(d) : i \in 1 .. Len(d) - 1 \/ i = Len(d)
    BY <1>4
  <2>4. \A i \in 1 .. Len(d) : \/ d[i] < r.last
                               \/ i = Len(d) /\ ~r.exclusive /\ d[i] = r.last
    BY <2>1, <2>3 DEF KeptBelow
  <2> QED
    BY <1>4, <1>5, <1>8, <2>2, <2>4
<1> QED
  BY <1>7, <1>8

(* Whichever method runs through a range, however its steps and the calls  *)
(* of the script interleave and whatever __inc__() answers, it meets the   *)
(* first element first, then elements below the last and the last at most  *)
(* once, at the end, which each() has met when it returns.                 *)
THEOREM RangesStayInBounds == IterableSpec => []RangesKeepTheirBounds
<1>1. IterableInit => RangeInv
  BY DEF IterableInit, Init, RangeInv
<1>2. RangeInv /\ [IterableNext]_iterableVars => RangeInv'
  <2>1. ASSUME RangeInv, UNCHANGED iterableVars PROVE RangeInv'
    BY <2>1 DEF iterableVars, vars, RangeInv, GoesThrough, Running, Proper, Iterates, Delivered, Counted,
                KeptBelow, Complete, RanThrough
  <2> QED
    BY <2>1, StepGoesThrough
<1>3. RangeInv => RangesKeepTheirBounds
  BY ThroughIsInBounds
<1> QED
  BY <1>1, <1>2, <1>3, PTL DEF IterableSpec
================================================================================
