------------------------- MODULE BlockAllocatorProofs -------------------------
(***************************************************************************)
(* Proofs about BlockAllocator, for any number of records and blocks and   *)
(* any sizes: the lists of used and of free records stay what they are     *)
(* taken for until a stale prev pointer is followed, and no memory is      *)
(* carved while a free record would do.                                    *)
(***************************************************************************)
EXTENDS BlockAllocator, FiniteSetTheorems, NaturalsInduction, WellFoundedInduction, TLAPS

-----------------------------------------------------------------------------
(* THE INDUCTIVE INVARIANT *)

(* The records of S are s[1] .. s[n], linked by nxt and prv.  The prev     *)
(* pointer of the first one may be anything.                               *)
IsList(nxt, prv, head, tail, S, n, s) ==
    /\ \A i, j \in 1 .. n : s[i] = s[j] => i = j
    /\ \A r \in S : \E i \in 1 .. n : s[i] = r
    /\ \A i \in 1 .. n : s[i] \in S
    /\ head = IF n = 0 THEN null ELSE s[1]
    /\ tail = IF n = 0 THEN null ELSE s[n]
    /\ \A i \in 1 .. n : nxt[s[i]] = IF i = n THEN null ELSE s[i + 1]
    /\ \A i \in 2 .. n : prv[s[i]] = s[i - 1]

List(nxt, prv, head, tail, S) ==
    \E n \in Nat : \E s \in [1 .. n -> Record] : IsList(nxt, prv, head, tail, S, n, s)

(* A record is carved from a block, or there is nothing of it yet.         *)
Carved ==
    \A r \in Record : /\ r <= carved => block[r] \in Block /\ block[r] <= blocks
                      /\ r > carved => block[r] = null /\ r \notin used

UsedRecords(b) == Records(b) \cap used
FreeRecords(b) == Records(b) \ used

Lists ==
    \A b \in Block :
        /\ List(next, prev, used_head[b], used_tail[b], UsedRecords(b))
        /\ List(next, prev, free_head[b], free_tail[b], FreeRecords(b))
        /\ used_head[b] # null => prev[used_head[b]] = null

IInv == TypeOK /\ Carved /\ (~stale => Lists)

-----------------------------------------------------------------------------
(* LISTS *)

LEMMA RecordIsNotNull == \A r \in Record : r # null
  BY DEF Record, null

(* A set of natural numbers that is not empty has a least element.         *)
LEMMA LeastExists ==
    ASSUME NEW T \in SUBSET Nat, T # {}
    PROVE  \E x \in T : \A y \in T : x <= y
<1>1. PICK x \in T : \A y \in T : ~(<<y, x>> \in OpToRel(<, Nat))
  BY NatLessThanWellFounded, WFMin
<1>2. \A y \in T : y < x => <<y, x>> \in OpToRel(<, Nat)
  BY DEF OpToRel
<1>3. \A y \in T : ~(y < x)
  BY <1>1, <1>2
<1> QED
  BY <1>3

(* A list is one whatever happens to other records.                        *)
LEMMA ListElsewhere ==
    ASSUME NEW nxt, NEW prv, NEW head, NEW tail, NEW S \in SUBSET Record, List(nxt, prv, head, tail, S),
           NEW nxt2, NEW prv2, \A r \in S : nxt2[r] = nxt[r] /\ prv2[r] = prv[r]
    PROVE  List(nxt2, prv2, head, tail, S)
<1>0. PICK n \in Nat : \E s \in [1 .. n -> Record] : IsList(nxt, prv, head, tail, S, n, s)
  BY DEF List
<1>1. PICK s \in [1 .. n -> Record] : IsList(nxt, prv, head, tail, S, n, s)
  BY <1>0
<1>2. \A i \in 1 .. n : nxt2[s[i]] = nxt[s[i]] /\ prv2[s[i]] = prv[s[i]]
  BY <1>1 DEF IsList
<1>3. \A i \in 2 .. n : i \in 1 .. n
  OBVIOUS
<1>4. IsList(nxt2, prv2, head, tail, S, n, s)
  BY <1>1, <1>2, <1>3 DEF IsList
<1> QED
  BY <1>4 DEF List

(* A record is pushed in front of the first one.                           *)
LEMMA ListPushed ==
    ASSUME NEW nxt, NEW prv, NEW head, NEW tail, NEW S \in SUBSET Record, List(nxt, prv, head, tail, S),
           NEW r \in Record \ S, NEW nxt2, NEW prv2, NEW tail2,
           nxt2[r] = head,
           \A x \in S : nxt2[x] = nxt[x] /\ prv2[x] = IF x = head THEN r ELSE prv[x],
           tail2 = IF head = null THEN r ELSE tail
    PROVE  List(nxt2, prv2, r, tail2, S \cup {r})
<1>0. PICK n \in Nat : \E s \in [1 .. n -> Record] : IsList(nxt, prv, head, tail, S, n, s)
  BY DEF List
<1>1. PICK s \in [1 .. n -> Record] : IsList(nxt, prv, head, tail, S, n, s)
  BY <1>0
<1> DEFINE m == n + 1
           t == [i \in 1 .. m |-> IF i = 1 THEN r ELSE s[i - 1]]
<1>2. m \in Nat /\ m # 0 /\ t \in [1 .. m -> Record]
  BY <1>1
<1>3. t[1] = r /\ \A i \in 1 .. n : t[i + 1] = s[i]
  BY <1>1
<1>4. \A i \in 1 .. n : s[i] \in S /\ s[i] # r /\ s[i] # null
  BY <1>1 DEF IsList, null, Record
<1>5. \A i \in 2 .. m : i - 1 \in 1 .. n /\ t[i] = s[i - 1]
  BY <1>1
<1>6. head = IF n = 0 THEN null ELSE t[2]
  BY <1>1, <1>3 DEF IsList
<1>7. \A i, j \in 1 .. m : t[i] = t[j] => i = j
  <2> SUFFICES ASSUME NEW i \in 1 .. m, NEW j \in 1 .. m, t[i] = t[j]
               PROVE  i = j
    OBVIOUS
  <2>1. CASE i = 1 \/ j = 1
    <3> HIDE DEF t
    <3> QED
      BY <1>1, <1>3, <1>4, <1>5, <2>1
  <2>2. CASE i # 1 /\ j # 1
    <3>1. i - 1 \in 1 .. n /\ j - 1 \in 1 .. n /\ s[i - 1] = s[j - 1]
      BY <1>5, <2>2
    <3>2. i - 1 = j - 1
      BY <1>1, <3>1 DEF IsList
    <3> QED
      BY <3>2
  <2> QED
    BY <2>1, <2>2
<1>8. \A x \in S \cup {r} : \E i \in 1 .. m : t[i] = x
  <2>1. \A x \in S : \E i \in 1 .. n : s[i] = x
    BY <1>1 DEF IsList
  <2>2. \A i \in 1 .. n : i + 1 \in 1 .. m
    BY <1>1
  <2> HIDE DEF t, m
  <2> QED
    BY <1>2, <1>3, <2>1, <2>2
<1>9. \A i \in 1 .. m : t[i] \in S \cup {r}
  BY <1>3, <1>4, <1>5
<1>10. tail2 = t[m]
  <2>1. CASE n = 0
    BY <1>1, <1>3, <2>1 DEF IsList
  <2>2. CASE n # 0
    <3>1. head # null /\ tail = s[n] /\ m - 1 = n /\ m \in 2 .. m
      BY <1>1, <1>4, <2>2 DEF IsList
    <3> QED
      BY <1>5, <3>1
  <2> QED
    BY <2>1, <2>2
<1>11. \A i \in 1 .. m : nxt2[t[i]] = IF i = m THEN null ELSE t[i + 1]
  <2> SUFFICES ASSUME NEW i \in 1 .. m
               PROVE  nxt2[t[i]] = IF i = m THEN null ELSE t[i + 1]
    OBVIOUS
  <2>1. CASE i = 1
    <3>1. nxt2[t[i]] = head
      BY <1>3, <2>1
    <3> QED
      BY <1>1, <1>6, <2>1, <3>1
  <2>2. CASE i # 1
    <3>1. i - 1 \in 1 .. n /\ t[i] = s[i - 1] /\ s[i - 1] \in S
      BY <1>4, <1>5, <2>2
    <3>2. nxt2[t[i]] = IF i - 1 = n THEN null ELSE s[(i - 1) + 1]
      BY <1>1, <3>1 DEF IsList
    <3>3. i # m => s[i] = t[i + 1]
      BY <1>1, <1>3
    <3> QED
      BY <1>1, <3>2, <3>3
  <2> QED
    BY <2>1, <2>2
<1>12. \A i \in 2 .. m : prv2[t[i]] = t[i - 1]
  <2> SUFFICES ASSUME NEW i \in 2 .. m
               PROVE  prv2[t[i]] = t[i - 1]
    OBVIOUS
  <2>1. i - 1 \in 1 .. n /\ t[i] = s[i - 1] /\ s[i - 1] \in S
    BY <1>4, <1>5
  <2>2. CASE i = 2
    <3>1. t[i] = head /\ t[i - 1] = r
      BY <1>1, <1>3, <1>6, <2>1, <2>2
    <3> QED
      BY <2>1, <3>1
  <2>3. CASE i # 2
    <3>1. i - 1 \in 2 .. n /\ i - 2 \in 1 .. n /\ 1 \in 1 .. n /\ i - 1 # 1
      BY <2>1, <2>3
    <3>2. prv[s[i - 1]] = s[(i - 1) - 1]
      BY <1>1, <3>1 DEF IsList
    <3>3. s[i - 1] # head
      <4>1. head = s[1]
        BY <1>1, <3>1 DEF IsList
      <4> QED
        BY <1>1, <3>1, <4>1 DEF IsList
    <3>4. t[i - 1] = s[i - 2]
      BY <1>1, <1>5, <2>3
    <3> QED
      BY <2>1, <3>2, <3>3, <3>4
  <2> QED
    BY <2>2, <2>3
<1>13. IsList(nxt2, prv2, r, tail2, S \cup {r}, m, t)
  <2> HIDE DEF t, m
  <2> QED
    BY <1>2, <1>3, <1>7, <1>8, <1>9, <1>10, <1>11, <1>12 DEF IsList
<1> QED
  BY <1>2, <1>13 DEF List

(* A position is taken out of a sequence.                                  *)
Without(s, m, k) == [i \in 1 .. m |-> IF i < k THEN s[i] ELSE s[i + 1]]

Differ(s, n) == \A i, j \in 1 .. n : s[i] = s[j] => i = j

IsWithout(t, s, n, m, k) ==
    /\ t \in [1 .. m -> Record]
    /\ \A i \in 1 .. m : i < k => i \in 1 .. n /\ t[i] = s[i]
    /\ \A i \in 1 .. m : i >= k => i + 1 \in 1 .. n /\ t[i] = s[i + 1]
    /\ Differ(t, m)
    /\ \A i \in 1 .. m : t[i] # s[k]
    /\ \A i \in 1 .. n \ {k} : \E j \in 1 .. m : t[j] = s[i]

LEMMA SequenceWithout ==
    ASSUME NEW n \in Nat, NEW m \in Nat, n = m + 1, NEW s \in [1 .. n -> Record], NEW k \in 1 .. n,
           Differ(s, n)
    PROVE  IsWithout(Without(s, m, k), s, n, m, k)
<1> DEFINE t == Without(s, m, k)
<1>1. t \in [1 .. m -> Record]
  BY DEF Without
<1>2. \A i \in 1 .. m : i < k => i \in 1 .. n /\ t[i] = s[i]
  BY DEF Without
<1>3. \A i \in 1 .. m : i >= k => i + 1 \in 1 .. n /\ t[i] = s[i + 1]
  BY DEF Without
<1> HIDE DEF t
<1>4. \A i, j \in 1 .. m : t[i] = t[j] => i = j
  <2> SUFFICES ASSUME NEW i \in 1 .. m, NEW j \in 1 .. m, t[i] = t[j]
               PROVE  i = j
    OBVIOUS
  <2> DEFINE p == IF i < k THEN i ELSE i + 1
             q == IF j < k THEN j ELSE j + 1
  <2>1. p \in 1 .. n /\ q \in 1 .. n /\ t[i] = s[p] /\ t[j] = s[q]
    BY <1>2, <1>3
  <2>2. p = q
    BY <2>1 DEF Differ
  <2> QED
    BY <2>2
<1>5. \A i \in 1 .. m : t[i] # s[k]
  <2> SUFFICES ASSUME NEW i \in 1 .. m
               PROVE  t[i] # s[k]
    OBVIOUS
  <2> DEFINE p == IF i < k THEN i ELSE i + 1
  <2>1. p \in 1 .. n /\ p # k /\ t[i] = s[p]
    BY <1>2, <1>3
  <2> QED
    BY <2>1 DEF Differ
<1>6. \A i \in 1 .. n \ {k} : \E j \in 1 .. m : t[j] = s[i]
  <2> SUFFICES ASSUME NEW i \in 1 .. n \ {k}
               PROVE  \E j \in 1 .. m : t[j] = s[i]
    OBVIOUS
  <2> DEFINE q == IF i < k THEN i ELSE i - 1
  <2>1. q \in 1 .. m /\ (i < k => q < k /\ q = i) /\ (~(i < k) => q >= k /\ q + 1 = i)
    OBVIOUS
  <2> HIDE DEF q
  <2>2. t[q] = s[i]
    BY <1>2, <1>3, <2>1
  <2> QED
    BY <2>1, <2>2
<1> QED
  BY <1>1, <1>2, <1>3, <1>4, <1>5, <1>6 DEF t, IsWithout, Differ

(* The neighbours of a record are in the list, too.                        *)
LEMMA ListNeighbours ==
    ASSUME NEW nxt, NEW prv, NEW head, NEW tail, NEW S \in SUBSET Record, List(nxt, prv, head, tail, S),
           NEW r \in S, r = head => prv[r] = null
    PROVE  /\ prv[r] \in (S \ {r}) \cup {null} /\ nxt[r] \in (S \ {r}) \cup {null}
           /\ head \in S /\ nxt[r] # head
<1>0. PICK n \in Nat : \E s \in [1 .. n -> Record] : IsList(nxt, prv, head, tail, S, n, s)
  BY DEF List
<1>1. PICK s \in [1 .. n -> Record] : IsList(nxt, prv, head, tail, S, n, s)
  BY <1>0
<1>2. PICK k \in 1 .. n : s[k] = r
  BY <1>1 DEF IsList
<1>3. n # 0 /\ n \in Nat /\ k \in Nat
  BY <1>2
<1>4. \A i \in 1 .. n : s[i] \in S /\ s[i] # null
  BY <1>1, RecordIsNotNull DEF IsList
<1>5. \A i, j \in 1 .. n : s[i] = s[j] => i = j
  BY <1>1 DEF IsList
<1>6. nxt[r] = IF k = n THEN null ELSE s[k + 1]
  BY <1>1, <1>2 DEF IsList
<1>7. prv[r] = IF k = 1 THEN null ELSE s[k - 1]
  <2>1. CASE k = 1
    BY <1>1, <1>2, <2>1 DEF IsList
  <2>2. CASE k # 1
    <3>1. k \in 2 .. n
      BY <1>2, <2>2
    <3>2. prv[s[k]] = s[k - 1]
      BY <1>1, <3>1 DEF IsList
    <3> QED
      BY <1>2, <2>2, <3>2
  <2> QED
    BY <2>1, <2>2
<1>8. prv[r] \in (S \ {r}) \cup {null} /\ nxt[r] \in (S \ {r}) \cup {null}
  <2>1. k # 1 => k - 1 \in 1 .. n /\ k - 1 # k
    BY <1>2
  <2>2. k # n => k + 1 \in 1 .. n /\ k + 1 # k
    BY <1>2, <1>3
  <2> QED
    BY <1>2, <1>4, <1>5, <1>6, <1>7, <2>1, <2>2
<1>9. head \in S /\ nxt[r] # head
  <2>1. 1 \in 1 .. n /\ (k # n => k + 1 \in 1 .. n /\ k + 1 # 1)
    BY <1>2, <1>3
  <2>2. head = s[1]
    BY <1>1, <1>3 DEF IsList
  <2> QED
    BY <1>4, <1>5, <1>6, <2>1, <2>2
<1> QED
  BY <1>8, <1>9

(* A record is unlinked, with regard to its own two pointers only.         *)
Unlinking(nxt, prv, nxt2, prv2, S, r) ==
    \A x \in S \ {r} : /\ nxt2[x] = IF x = prv[r] THEN nxt[r] ELSE nxt[x]
                       /\ prv2[x] = IF x = nxt[r] THEN prv[r] ELSE prv[x]

LEMMA ListUnlinked ==
    ASSUME NEW nxt, NEW prv, NEW head, NEW tail, NEW S \in SUBSET Record, List(nxt, prv, head, tail, S),
           NEW r \in S, r = head => prv[r] = null,
           NEW nxt2, NEW prv2, NEW head2, NEW tail2, Unlinking(nxt, prv, nxt2, prv2, S, r),
           head2 = IF prv[r] = null THEN nxt[r] ELSE head,
           tail2 = IF nxt[r] = null THEN prv[r] ELSE tail
    PROVE  List(nxt2, prv2, head2, tail2, S \ {r})
<1>0. PICK n \in Nat : \E s \in [1 .. n -> Record] : IsList(nxt, prv, head, tail, S, n, s)
  BY DEF List
<1>1. PICK s \in [1 .. n -> Record] : IsList(nxt, prv, head, tail, S, n, s)
  BY <1>0
<1>2. PICK k \in 1 .. n : s[k] = r
  BY <1>1 DEF IsList
<1> DEFINE m == n - 1
           t == Without(s, m, k)
<1>3. m \in Nat /\ n = m + 1 /\ n # 0 /\ n \in Nat /\ k \in Nat
  BY <1>2
<1>4. \A i \in 1 .. n : s[i] \in S /\ s[i] # null
  BY <1>1, RecordIsNotNull DEF IsList
<1>5. \A i, j \in 1 .. n : s[i] = s[j] => i = j
  BY <1>1 DEF IsList
<1>6. nxt[r] = IF k = n THEN null ELSE s[k + 1]
  BY <1>1, <1>2 DEF IsList
<1>7. prv[r] = IF k = 1 THEN null ELSE s[k - 1]
  <2>1. CASE k = 1
    BY <1>1, <1>2, <2>1 DEF IsList
  <2>2. CASE k # 1
    <3>1. k \in 2 .. n
      BY <1>2, <2>2
    <3>2. prv[s[k]] = s[k - 1]
      BY <1>1, <3>1 DEF IsList
    <3> QED
      BY <1>2, <2>2, <3>2
  <2> QED
    BY <2>1, <2>2
<1> HIDE DEF m, t
<1>8. IsWithout(t, s, n, m, k)
  <2>1. Differ(s, n)
    BY <1>5 DEF Differ
  <2> QED
    BY <1>3, <2>1, SequenceWithout DEF t
<1>9. /\ t \in [1 .. m -> Record]
      /\ \A i \in 1 .. m : i < k => i \in 1 .. n /\ t[i] = s[i]
      /\ \A i \in 1 .. m : i >= k => i + 1 \in 1 .. n /\ t[i] = s[i + 1]
  BY <1>8 DEF IsWithout, Differ
<1>10. \A i, j \in 1 .. m : t[i] = t[j] => i = j
  BY <1>8 DEF IsWithout, Differ
<1>11. /\ \A x \in S \ {r} : \E i \in 1 .. m : t[i] = x
       /\ \A i \in 1 .. m : t[i] \in S \ {r}
  <2>1. /\ \A i \in 1 .. m : t[i] # s[k]
        /\ \A i \in 1 .. n \ {k} : \E j \in 1 .. m : t[j] = s[i]
    BY <1>8 DEF IsWithout, Differ
  <2>2. \A x \in S \ {r} : \E i \in 1 .. n \ {k} : s[i] = x
    BY <1>1, <1>2 DEF IsList
  <2>3. \A i \in 1 .. m : t[i] \in S
    <3> SUFFICES ASSUME NEW i \in 1 .. m
                 PROVE  t[i] \in S
      OBVIOUS
    <3> DEFINE p == IF i < k THEN i ELSE i + 1
    <3>1. p \in 1 .. n /\ t[i] = s[p]
      BY <1>3, <1>9
    <3> QED
      BY <1>4, <3>1
  <2> QED
    BY <1>2, <2>1, <2>2, <2>3
<1>12. head2 = IF m = 0 THEN null ELSE t[1]
  <2>1. CASE k = 1
    <3>1. head2 = nxt[r]
      BY <1>7, <2>1
    <3>2. m # 0 => t[1] = s[2]
      BY <1>3, <1>9, <1>11, <2>1
    <3> QED
      BY <1>3, <1>6, <2>1, <3>1, <3>2
  <2>2. CASE k # 1
    <3>1. k - 1 \in 1 .. n /\ 1 \in 1 .. m /\ 1 < k /\ m # 0
      BY <1>2, <1>3, <2>2
    <3>2. head2 = head /\ head = s[1]
      BY <1>1, <1>3, <1>4, <1>7, <2>2, <3>1 DEF IsList
    <3> QED
      BY <1>3, <1>9, <1>11, <3>1, <3>2
  <2> QED
    BY <2>1, <2>2
<1>13. tail2 = IF m = 0 THEN null ELSE t[m]
  <2>1. CASE k = n
    <3>1. tail2 = prv[r]
      BY <1>6, <2>1
    <3>2. m # 0 => m \in 1 .. m /\ m < k /\ t[m] = s[m] /\ k - 1 = m
      BY <1>3, <1>9, <1>11, <2>1
    <3> QED
      BY <1>3, <1>7, <2>1, <3>1, <3>2
  <2>2. CASE k # n
    <3>1. k + 1 \in 1 .. n /\ m \in 1 .. m /\ m >= k /\ m # 0 /\ n = m + 1
      BY <1>2, <1>3, <2>2
    <3>2. tail2 = tail /\ tail = s[n]
      BY <1>1, <1>3, <1>4, <1>6, <2>2, <3>1 DEF IsList
    <3> QED
      BY <1>3, <1>9, <1>11, <3>1, <3>2
  <2> QED
    BY <2>1, <2>2
<1>14. \A i \in 1 .. m : nxt2[t[i]] = IF i = m THEN null ELSE t[i + 1]
  <2> SUFFICES ASSUME NEW i \in 1 .. m
               PROVE  nxt2[t[i]] = IF i = m THEN null ELSE t[i + 1]
    OBVIOUS
  <2>0. nxt2[t[i]] = IF t[i] = prv[r] THEN nxt[r] ELSE nxt[t[i]]
    BY <1>3, <1>9, <1>11 DEF Unlinking
  <2>1. CASE i = k - 1
    <3>1. t[i] = s[k - 1] /\ prv[r] = s[k - 1] /\ i < k
      BY <1>2, <1>3, <1>7, <1>3, <1>9, <1>11, <2>1
    <3>2. nxt2[t[i]] = IF k = n THEN null ELSE s[k + 1]
      BY <1>6, <2>0, <3>1
    <3>3. k # n => k \in 1 .. m /\ t[k] = s[k + 1]
      BY <1>2, <1>3, <1>9, <1>11
    <3> QED
      BY <1>2, <1>3, <2>1, <3>2, <3>3
  <2>2. CASE i < k - 1
    <3>1. i \in 1 .. n /\ i + 1 \in 1 .. m /\ i < k /\ i + 1 < k /\ i # n /\ i # m /\ k # 1 /\ k - 1 \in 1 .. n
      BY <1>2, <1>3, <2>2
    <3>2. t[i] = s[i] /\ t[i + 1] = s[i + 1]
      BY <1>3, <1>9, <1>11, <3>1
    <3>3. prv[r] # s[i]
      BY <1>2, <1>5, <1>7, <2>2, <3>1
    <3>4. nxt[s[i]] = s[i + 1]
      BY <1>1, <3>1 DEF IsList
    <3> QED
      BY <2>0, <3>1, <3>2, <3>3, <3>4
  <2>3. CASE i >= k
    <3>1. i + 1 \in 1 .. n /\ t[i] = s[i + 1] /\ (i # m => i + 1 \in 1 .. m /\ i + 1 >= k)
      BY <1>2, <1>3, <1>9, <1>11, <2>3
    <3>2. prv[r] # s[i + 1]
      <4>1. k # 1 => k - 1 \in 1 .. n /\ k - 1 # i + 1
        BY <1>2, <1>3, <2>3
      <4> QED
        BY <1>4, <1>5, <1>7, <3>1, <4>1
    <3>3. nxt[s[i + 1]] = IF i + 1 = n THEN null ELSE s[(i + 1) + 1]
      BY <1>1, <3>1 DEF IsList
    <3>4. i # m => t[i + 1] = s[(i + 1) + 1]
      BY <1>3, <1>9, <1>11, <3>1
    <3>5. i + 1 = n <=> i = m
      BY <1>3
    <3> QED
      BY <2>0, <3>1, <3>2, <3>3, <3>4, <3>5
  <2> QED
    BY <1>2, <1>3, <2>1, <2>2, <2>3
<1>15. \A i \in 2 .. m : prv2[t[i]] = t[i - 1]
  <2> SUFFICES ASSUME NEW i \in 2 .. m
               PROVE  prv2[t[i]] = t[i - 1]
    OBVIOUS
  <2>0. i \in 1 .. m /\ i - 1 \in 1 .. m /\ prv2[t[i]] = IF t[i] = nxt[r] THEN prv[r] ELSE prv[t[i]]
    <3>1. i \in 1 .. m /\ i - 1 \in 1 .. m
      BY <1>3
    <3> QED
      BY <1>3, <1>9, <1>11, <3>1 DEF Unlinking
  <2>1. CASE i = k
    <3>1. t[i] = s[k + 1] /\ t[i - 1] = s[k - 1] /\ k # n /\ k # 1
      <4>1. i >= k /\ i - 1 < k /\ k # n /\ k # 1
        BY <1>3, <2>1
      <4> QED
        BY <1>3, <1>9, <1>11, <2>0, <2>1, <4>1
    <3> QED
      BY <1>6, <1>7, <2>0, <3>1
  <2>2. CASE i < k
    <3>1. t[i] = s[i] /\ i \in 2 .. n /\ i \in 1 .. n /\ i - 1 < k
      BY <1>3, <1>9, <1>11, <2>0, <2>2
    <3>2. t[i - 1] = s[i - 1]
      BY <1>3, <1>9, <1>11, <2>0, <3>1
    <3>3. s[i] # nxt[r]
      <4>1. k # n => k + 1 \in 1 .. n /\ k + 1 # i
        BY <1>2, <1>3, <2>2
      <4> QED
        BY <1>4, <1>5, <1>6, <3>1, <4>1
    <3>4. prv[s[i]] = s[i - 1]
      BY <1>1, <3>1 DEF IsList
    <3> QED
      BY <2>0, <3>1, <3>2, <3>3, <3>4
  <2>3. CASE i > k
    <3>1. t[i] = s[i + 1] /\ i + 1 \in 2 .. n /\ i + 1 \in 1 .. n /\ i - 1 >= k /\ (i - 1) + 1 = i
      BY <1>2, <1>3, <1>9, <1>11, <2>0, <2>3
    <3>2. t[i - 1] = s[(i - 1) + 1]
      BY <1>3, <1>9, <1>11, <2>0, <3>1
    <3>3. s[i + 1] # nxt[r]
      <4>1. k # n => k + 1 \in 1 .. n /\ k + 1 # i + 1
        BY <1>2, <1>3, <2>3
      <4> QED
        BY <1>4, <1>5, <1>6, <3>1, <4>1
    <3>4. prv[s[i + 1]] = s[(i + 1) - 1]
      BY <1>1, <3>1 DEF IsList
    <3>5. (i + 1) - 1 = i
      BY <1>3
    <3> QED
      BY <2>0, <3>1, <3>2, <3>3, <3>4, <3>5
  <2> QED
    BY <1>2, <1>3, <2>1, <2>2, <2>3
<1>16. IsList(nxt2, prv2, head2, tail2, S \ {r}, m, t)
  BY <1>3, <1>9, <1>10, <1>11, <1>12, <1>13, <1>14, <1>15 DEF IsList
<1> QED
  BY <1>3, <1>9, <1>16 DEF List

-----------------------------------------------------------------------------
(* FOLLOWING A LIST *)

(* A list has no more records than there are.                              *)
LEMMA ListIsShort ==
    ASSUME NEW n \in Nat, NEW s \in [1 .. n -> Record], Differ(s, n)
    PROVE  n <= MaxRecords
<1>1. MaxRecords \in Nat
  BY BoundAssumption
<1>2. IsFiniteSet(Record) /\ Cardinality(Record) = MaxRecords
  BY <1>1, FS_Interval DEF Record
<1>3. s \in Injection(1 .. n, Record)
  BY DEF Injection, Differ, IsInjective
<1>4. Cardinality(1 .. n) <= Cardinality(Record)
  BY <1>2, <1>3, FS_Injection
<1>5. Cardinality(1 .. n) = n
  BY FS_Interval
<1> QED
  BY <1>2, <1>4, <1>5

(* What Follow() meets on the way from the head of a list.                 *)
LEMMA ListIsFollowed ==
    ASSUME NEW prv, NEW head, NEW tail, NEW S \in SUBSET Record, NEW n \in Nat, NEW s \in [1 .. n -> Record],
           IsList(next, prv, head, tail, S, n, s)
    PROVE  /\ n <= MaxRecords
           /\ \A k \in 0 .. MaxRecords : Follow(head)[k] = IF k < n THEN s[k + 1] ELSE null
<1> DEFINE step(f) == [k \in 0 .. MaxRecords |->
                         IF k = 0 THEN head
                         ELSE IF f[k - 1] = null THEN null ELSE next[f[k - 1]]]
           path == CHOOSE f : f = step(f)
           met  == [k \in 0 .. MaxRecords |-> IF k < n THEN s[k + 1] ELSE null]
<1>1. MaxRecords \in Nat /\ MaxRecords # 0
  BY BoundAssumption
<1>2. n <= MaxRecords
  BY ListIsShort DEF IsList, Differ
<1>3. /\ head = IF n = 0 THEN null ELSE s[1]
      /\ \A i \in 1 .. n : next[s[i]] = IF i = n THEN null ELSE s[i + 1]
      /\ \A i \in 1 .. n : s[i] # null
  BY RecordIsNotNull DEF IsList
<1>4. \A k \in 0 .. MaxRecords :
         met[k] = IF k = 0 THEN head ELSE IF met[k - 1] = null THEN null ELSE next[met[k - 1]]
  <2> SUFFICES ASSUME NEW k \in 0 .. MaxRecords
               PROVE  met[k] = IF k = 0 THEN head
                               ELSE IF met[k - 1] = null THEN null ELSE next[met[k - 1]]
    OBVIOUS
  <2>1. CASE k = 0
    BY <1>3, <2>1
  <2>2. CASE k # 0
    <3>1. k - 1 \in 0 .. MaxRecords /\ (k - 1) + 1 = k
      BY <1>1, <2>2
    <3>2. met[k - 1] = IF k - 1 < n THEN s[k] ELSE null
      BY <3>1
    <3>3. CASE k <= n
      <4>1. k \in 1 .. n /\ k - 1 < n
        BY <2>2, <3>3
      <4>2. met[k - 1] = s[k] /\ s[k] # null /\ next[s[k]] = IF k = n THEN null ELSE s[k + 1]
        BY <1>3, <3>2, <4>1
      <4>3. met[k] = IF k = n THEN null ELSE s[k + 1]
        BY <4>1
      <4> QED
        BY <2>2, <4>2, <4>3
    <3>4. CASE k > n
      <4>1. ~(k - 1 < n) /\ ~(k < n)
        BY <3>4
      <4>2. met[k - 1] = null /\ met[k] = null
        BY <3>2, <4>1
      <4> QED
        BY <2>2, <4>2
    <3> QED
      BY <3>3, <3>4
  <2> QED
    BY <2>1, <2>2
<1>5. met = step(met)
  BY <1>4
<1>6. path = step(path)
  <2> HIDE DEF met, step
  <2> QED
    BY <1>5
<1>7. Follow(head) = path
  BY DEF Follow
<1> HIDE DEF path
<1>8. \A k \in 0 .. MaxRecords :
         path[k] = IF k = 0 THEN head ELSE IF path[k - 1] = null THEN null ELSE next[path[k - 1]]
  BY <1>6
<1> HIDE DEF met
<1> DEFINE wrong == {k \in 0 .. MaxRecords : path[k] # met[k]}
<1>9. wrong = {}
  <2> SUFFICES ASSUME wrong # {}  PROVE FALSE
    OBVIOUS
  <2>1. PICK k \in wrong : \A j \in wrong : k <= j
    <3>1. wrong \in SUBSET Nat
      BY <1>1
    <3> QED
      BY <3>1, LeastExists
  <2>2. k # 0
    BY <1>4, <1>8
  <2>3. k - 1 \in 0 .. MaxRecords /\ k - 1 \notin wrong
    BY <1>1, <2>1, <2>2
  <2>4. path[k - 1] = met[k - 1]
    BY <2>3
  <2> QED
    BY <1>4, <1>8, <2>1, <2>2, <2>4
<1>10. \A k \in 0 .. MaxRecords : path[k] = met[k]
  BY <1>9
<1> QED
  BY <1>2, <1>7, <1>10 DEF met

(* A list is what WellFormed expects of one.                               *)
LEMMA ListIsLinked ==
    ASSUME NEW head, NEW tail, NEW S \in SUBSET Record, List(next, prev, head, tail, S)
    PROVE  Linked(head, tail, S)
<1>0. PICK n \in Nat : \E s \in [1 .. n -> Record] : IsList(next, prev, head, tail, S, n, s)
  BY DEF List
<1>1. PICK s \in [1 .. n -> Record] : IsList(next, prev, head, tail, S, n, s)
  BY <1>0
<1>2. /\ n <= MaxRecords /\ MaxRecords \in Nat
      /\ \A k \in 0 .. MaxRecords : Follow(head)[k] = IF k < n THEN s[k + 1] ELSE null
  BY <1>1, ListIsFollowed, BoundAssumption
<1>3. /\ \A i \in 1 .. n : s[i] \in S /\ s[i] # null
      /\ \A r \in S : r # null /\ \E i \in 1 .. n : s[i] = r
  BY <1>1, RecordIsNotNull DEF IsList
<1>4. OnList(head) = S
  <2>1. ASSUME NEW r \in S  PROVE r \in OnList(head)
    <3>1. PICK i \in 1 .. n : s[i] = r
      BY <1>3
    <3>2. i - 1 \in 0 .. MaxRecords /\ i - 1 < n /\ (i - 1) + 1 = i
      BY <1>2
    <3>3. Follow(head)[i - 1] = r
      BY <1>2, <3>1, <3>2
    <3> QED
      BY <1>3, <3>2, <3>3 DEF OnList
  <2>2. ASSUME NEW r \in OnList(head)  PROVE r \in S
    <3>1. PICK k \in 0 .. MaxRecords : r = Follow(head)[k] /\ r # null
      BY DEF OnList
    <3>2. k < n /\ r = s[k + 1] /\ k + 1 \in 1 .. n
      BY <1>2, <3>1
    <3> QED
      BY <1>3, <3>2
  <2> QED
    BY <2>1, <2>2
<1>5. Follow(head)[MaxRecords] = null
  BY <1>2
<1>6. S # {} => tail \in S /\ next[tail] = null
  <2> SUFFICES ASSUME S # {}  PROVE tail \in S /\ next[tail] = null
    OBVIOUS
  <2>1. n # 0 /\ n \in 1 .. n
    BY <1>3
  <2> QED
    BY <1>1, <1>3, <2>1 DEF IsList
<1>7. S = {} => tail = null
  <2> SUFFICES ASSUME S = {}  PROVE tail = null
    OBVIOUS
  <2>1. n = 0
    <3>1. n # 0 => 1 \in 1 .. n
      OBVIOUS
    <3> QED
      BY <1>3, <3>1
  <2> QED
    BY <1>1, <2>1 DEF IsList
<1>8. \A r \in S : next[r] # null => prev[next[r]] = r
  <2> SUFFICES ASSUME NEW r \in S, next[r] # null
               PROVE  prev[next[r]] = r
    OBVIOUS
  <2>1. PICK i \in 1 .. n : s[i] = r
    BY <1>3
  <2>2. i # n /\ next[r] = s[i + 1]
    BY <1>1, <2>1 DEF IsList
  <2>3. i + 1 \in 2 .. n /\ (i + 1) - 1 = i
    BY <2>2
  <2>4. prev[s[i + 1]] = s[(i + 1) - 1]
    BY <1>1, <2>3 DEF IsList
  <2> QED
    BY <2>1, <2>2, <2>3, <2>4
<1> QED
  BY <1>4, <1>5, <1>6, <1>7, <1>8 DEF Linked

-----------------------------------------------------------------------------
(* WHAT THE STEPS DO TO THE LISTS *)

Pointer == Record \cup {null}

IsSet(g, f, i, x) == /\ g \in [Record -> Pointer]
                     /\ \A r \in Record : g[r] = IF r = i THEN x ELSE f[r]

LEMMA SetAt ==
    ASSUME NEW f \in [Record -> Pointer], NEW i \in Pointer, NEW x \in Pointer
    PROVE  IsSet(Set(f, i, x), f, i, x)
<1>1. CASE i = null
  BY <1>1, RecordIsNotNull DEF Set, IsSet
<1>2. CASE i # null
  BY <1>2 DEF Set, Pointer, IsSet
<1> QED
  BY <1>1, <1>2

LEMMA HeadIsListed ==
    ASSUME NEW nxt, NEW prv, NEW head, NEW tail, NEW S \in SUBSET Record, List(nxt, prv, head, tail, S)
    PROVE  head \in S \cup {null} /\ tail \in S \cup {null}
<1>0. PICK n \in Nat : \E s \in [1 .. n -> Record] : IsList(nxt, prv, head, tail, S, n, s)
  BY DEF List
<1>1. PICK s \in [1 .. n -> Record] : IsList(nxt, prv, head, tail, S, n, s)
  BY <1>0
<1>2. n # 0 => 1 \in 1 .. n /\ n \in 1 .. n
  OBVIOUS
<1> QED
  BY <1>1, <1>2 DEF IsList

(* The pointers after record r went to the front of a list that begins     *)
(* with h; and pointers of records outside W that are as they were.        *)
Rewired(nxt, prv, r, h) ==
    /\ \A x \in Record : nxt[x] = IF x = r THEN h ELSE IF x = prev[r] THEN next[r] ELSE next[x]
    /\ \A x \in Record \ {r} : prv[x] = IF x = h THEN r ELSE IF x = next[r] THEN prev[r] ELSE prev[x]

Untouched(nxt, prv, W) == \A x \in Record \ W : nxt[x] = next[x] /\ prv[x] = prev[x]

FirstAfter(head, r)   == IF prev[r] = null THEN next[r] ELSE head
LastAfter(tail, r)    == IF next[r] = null THEN prev[r] ELSE tail
LastWith(head, tail, r) == IF head = null THEN r ELSE tail
IsFirst(prv, head)    == head # null => prv[head] = null

Pushing(nxt, prv, S, r, h) ==
    /\ nxt[r] = h
    /\ \A x \in S : nxt[x] = next[x] /\ prv[x] = IF x = h THEN r ELSE prev[x]

(* A record that is on no list is pushed in front of one.                  *)
LEMMA RecordComes ==
    ASSUME NEW head, NEW tail, NEW S \in SUBSET Record, List(next, prev, head, tail, S),
           NEW r \in Record \ S, NEW nxt, NEW prv, Pushing(nxt, prv, S, r, head)
    PROVE  List(nxt, prv, r, LastWith(head, tail, r), S \cup {r})
<1> DEFINE tail2 == LastWith(head, tail, r)
<1>1. tail2 = IF head = null THEN r ELSE tail
  BY DEF LastWith
<1>2. nxt[r] = head /\ \A x \in S : nxt[x] = next[x] /\ prv[x] = IF x = head THEN r ELSE prev[x]
  BY DEF Pushing
<1> HIDE DEF tail2
<1>3. List(nxt, prv, r, tail2, S \cup {r})
  BY <1>1, <1>2, ListPushed
<1> QED
  BY <1>3 DEF tail2

(* A record that goes from one list to the front of another is gone from   *)
(* the first and disturbs no third one.                                    *)
LEMMA RecordMoves ==
    ASSUME NEW headS, NEW tailS, NEW S \in SUBSET Record, List(next, prev, headS, tailS, S),
           NEW headT, NEW tailT, NEW T \in SUBSET Record, List(next, prev, headT, tailT, T),
           S \cap T = {}, NEW r \in S, r = headS => prev[r] = null,
           NEW nxt, NEW prv, Rewired(nxt, prv, r, headT)
    PROVE  /\ List(nxt, prv, FirstAfter(headS, r), LastAfter(tailS, r), S \ {r})
           /\ List(nxt, prv, r, LastWith(headT, tailT, r), T \cup {r})
           /\ Untouched(nxt, prv, S \cup T)
           /\ IsFirst(prev, headS) => IsFirst(prv, FirstAfter(headS, r))
<1> DEFINE headS2 == FirstAfter(headS, r)
           tailS2 == LastAfter(tailS, r)
           tailT2 == LastWith(headT, tailT, r)
<1>0. /\ headS2 = IF prev[r] = null THEN next[r] ELSE headS
      /\ tailS2 = IF next[r] = null THEN prev[r] ELSE tailS
      /\ tailT2 = IF headT = null THEN r ELSE tailT
  BY DEF FirstAfter, LastAfter, LastWith
<1> HIDE DEF headS2, tailS2, tailT2
<1>1. headT \in T \cup {null} /\ r \in Record \ T /\ \A x \in Record : x # null
  BY HeadIsListed, RecordIsNotNull
<1>2. \A x \in S \ {r} : /\ nxt[x] = IF x = prev[r] THEN next[r] ELSE next[x]
                         /\ prv[x] = IF x = next[r] THEN prev[r] ELSE prev[x]
  BY <1>1 DEF Rewired
<1>3. /\ prev[r] \in (S \ {r}) \cup {null} /\ next[r] \in (S \ {r}) \cup {null}
      /\ headS \in S /\ next[r] # headS
  BY ListNeighbours
<1>4. List(nxt, prv, headS2, tailS2, S \ {r})
  <2>1. Unlinking(next, prev, nxt, prv, S, r)
    BY <1>2 DEF Unlinking
  <2> QED
    BY <1>0, <2>1, ListUnlinked
<1>5. \A x \in T : nxt[x] = next[x] /\ prv[x] = IF x = headT THEN r ELSE prev[x]
  BY <1>1, <1>3 DEF Rewired
<1>6. List(nxt, prv, r, tailT2, T \cup {r})
  <2>1. nxt[r] = headT
    BY <1>1 DEF Rewired
  <2> QED
    BY <1>0, <1>1, <1>5, <2>1, ListPushed
<1>7. Untouched(nxt, prv, S \cup T)
  BY <1>1, <1>3 DEF Rewired, Untouched
<1>8. ASSUME IsFirst(prev, headS), headS2 # null  PROVE prv[headS2] = null
  <2>1. CASE prev[r] = null
    BY <1>0, <1>1, <1>2, <1>3, <1>8, <2>1 DEF IsFirst
  <2>2. CASE prev[r] # null
    BY <1>0, <1>1, <1>2, <1>3, <1>8, <2>2 DEF IsFirst
  <2> QED
    BY <2>1, <2>2
<1> QED
  BY <1>4, <1>6, <1>7, <1>8 DEF headS2, tailS2, tailT2, IsFirst

(* The types, one by one.                                                  *)
LEMMA Types ==
    TypeOK <=> /\ blocks \in 0 .. MaxBlocks /\ remaining \in [Block -> 0 .. Capacity]
               /\ used_head \in [Block -> Pointer] /\ used_tail \in [Block -> Pointer]
               /\ free_head \in [Block -> Pointer] /\ free_tail \in [Block -> Pointer]
               /\ carved \in 0 .. MaxRecords /\ size \in [Record -> Size \cup {0}]
               /\ block \in [Record -> Block \cup {null}]
               /\ next \in [Record -> Pointer] /\ prev \in [Record -> Pointer]
               /\ used \subseteq Record /\ stale \in BOOLEAN
  BY DEF TypeOK, Pointer

(* The lists are those of every block, and no record is on two of them.    *)
LEMMA ListsOf ==
    ASSUME Lists, NEW b \in Block
    PROVE  /\ UsedRecords(b) \in SUBSET Record /\ FreeRecords(b) \in SUBSET Record
           /\ UsedRecords(b) \cap FreeRecords(b) = {}
           /\ List(next, prev, used_head[b], used_tail[b], UsedRecords(b))
           /\ List(next, prev, free_head[b], free_tail[b], FreeRecords(b))
           /\ used_head[b] # null => prev[used_head[b]] = null
           /\ used_head[b] \in UsedRecords(b) \cup {null} /\ free_head[b] \in FreeRecords(b) \cup {null}
<1>1. /\ UsedRecords(b) \in SUBSET Record /\ FreeRecords(b) \in SUBSET Record
      /\ UsedRecords(b) \cap FreeRecords(b) = {}
  BY DEF UsedRecords, FreeRecords, Records
<1>2. /\ List(next, prev, used_head[b], used_tail[b], UsedRecords(b))
      /\ List(next, prev, free_head[b], free_tail[b], FreeRecords(b))
      /\ used_head[b] # null => prev[used_head[b]] = null
  BY DEF Lists
<1> QED
  BY <1>1, <1>2, HeadIsListed

(* The assignments with which a record changes the list it is on.          *)
LEMMA UnlinkedAndPushed ==
    ASSUME TypeOK, NEW r \in Record, NEW h \in Pointer, NEW p \in Pointer,
           next' = [NextWithout(r) EXCEPT ![r] = h],
           prev' = Set([PrevWithout(r) EXCEPT ![r] = p], h, r)
    PROVE  /\ next' \in [Record -> Pointer] /\ prev' \in [Record -> Pointer]
           /\ Rewired(next', prev', r, h)
           /\ r # h => prev'[r] = p
<1>1. next \in [Record -> Pointer] /\ prev \in [Record -> Pointer] /\ r \in Pointer
  BY Types DEF Pointer
<1>2. next[r] \in Pointer /\ prev[r] \in Pointer
  BY <1>1
<1>3. IsSet(NextWithout(r), next, prev[r], next[r])
  BY <1>1, <1>2, SetAt DEF NextWithout
<1>4. IsSet(PrevWithout(r), prev, next[r], prev[r])
  BY <1>1, <1>2, SetAt DEF PrevWithout
<1> DEFINE mid == [PrevWithout(r) EXCEPT ![r] = p]
<1>5. /\ mid \in [Record -> Pointer] /\ mid[r] = p
      /\ \A x \in Record \ {r} : mid[x] = IF x = next[r] THEN prev[r] ELSE prev[x]
  BY <1>4 DEF IsSet
<1>6. prev' = Set(mid, h, r)
  OBVIOUS
<1> HIDE DEF mid
<1>7. IsSet(prev', mid, h, r)
  BY <1>1, <1>5, <1>6, SetAt
<1>8. /\ next' \in [Record -> Pointer]
      /\ \A x \in Record : next'[x] = IF x = r THEN h ELSE IF x = prev[r] THEN next[r] ELSE next[x]
  BY <1>3 DEF IsSet
<1>9. /\ prev' \in [Record -> Pointer]
      /\ \A x \in Record \ {r} : prev'[x] = IF x = h THEN r ELSE IF x = next[r] THEN prev[r] ELSE prev[x]
      /\ r # h => prev'[r] = p
  BY <1>5, <1>7 DEF IsSet
<1> QED
  BY <1>8, <1>9 DEF Rewired

(* The lists of another block, when only records of W are touched.         *)
LEMMA OtherBlocks ==
    ASSUME Lists, NEW W \in SUBSET Record, NEW c \in Block,
           Untouched(next', prev', W),
           UsedRecords(c)' = UsedRecords(c), FreeRecords(c)' = FreeRecords(c),
           UsedRecords(c) \cap W = {}, FreeRecords(c) \cap W = {},
           used_head'[c] = used_head[c], used_tail'[c] = used_tail[c],
           free_head'[c] = free_head[c], free_tail'[c] = free_tail[c]
    PROVE  /\ List(next', prev', used_head'[c], used_tail'[c], UsedRecords(c)')
           /\ List(next', prev', free_head'[c], free_tail'[c], FreeRecords(c)')
           /\ used_head'[c] # null => prev'[used_head'[c]] = null
<1>1. /\ UsedRecords(c) \in SUBSET Record /\ FreeRecords(c) \in SUBSET Record
      /\ List(next, prev, used_head[c], used_tail[c], UsedRecords(c))
      /\ List(next, prev, free_head[c], free_tail[c], FreeRecords(c))
      /\ used_head[c] # null => prev[used_head[c]] = null
      /\ used_head[c] \in UsedRecords(c) \cup {null}
  BY ListsOf
<1>2. /\ \A x \in UsedRecords(c) : next'[x] = next[x] /\ prev'[x] = prev[x]
      /\ \A x \in FreeRecords(c) : next'[x] = next[x] /\ prev'[x] = prev[x]
  BY <1>1 DEF Untouched
<1>3. List(next', prev', used_head[c], used_tail[c], UsedRecords(c))
  BY <1>1, <1>2, ListElsewhere
<1>4. List(next', prev', free_head[c], free_tail[c], FreeRecords(c))
  BY <1>1, <1>2, ListElsewhere
<1> QED
  BY <1>1, <1>2, <1>3, <1>4

(* MarkAsFree() takes a record from the used list to the free one.         *)
LEMMA MarkAsFreeStep ==
    ASSUME IInv, NEW r \in Record, MarkAsFree(r)
    PROVE  IInv'
<1>1. /\ ~stale /\ TypeOK /\ Carved /\ Lists /\ r \in used
  BY DEF MarkAsFree, Defined, IInv
<1>2. r <= carved /\ block[r] \in Block
  BY <1>1, Types DEF Carved, Record
<1>3. PICK b \in Block : b = block[r]
  BY <1>2
<1> DEFINE S == UsedRecords(b)
           T == FreeRecords(b)
           h == free_head[b]
           p == IF next[r] = null THEN null ELSE prev[r]
<1>4. /\ S \in SUBSET Record /\ T \in SUBSET Record /\ S \cap T = {}
      /\ List(next, prev, used_head[b], used_tail[b], S)
      /\ List(next, prev, h, free_tail[b], T)
      /\ used_head[b] # null => prev[used_head[b]] = null
      /\ r \in S
  BY <1>1, <1>3, ListsOf DEF UsedRecords, Records
<1>5. next[r] # r
  BY <1>4, RecordIsNotNull, ListNeighbours
<1>6. /\ h \in Pointer /\ p \in Pointer /\ next[r] \in Pointer /\ prev[r] \in Pointer
      /\ used_head[b] \in Pointer
  BY <1>1, Types DEF Pointer
<1>7. PrevWithout(r)[r] = prev[r]
  <2>1. prev \in [Record -> Pointer]
    BY <1>1, Types
  <2>2. IsSet(PrevWithout(r), prev, next[r], prev[r])
    BY <1>6, <2>1, SetAt DEF PrevWithout
  <2> QED
    BY <1>5, <2>2 DEF IsSet
<1>8. /\ next' = [NextWithout(r) EXCEPT ![r] = h]
      /\ prev' = Set([PrevWithout(r) EXCEPT ![r] = p], h, r)
  BY <1>3, <1>7 DEF MarkAsFree
<1>9. /\ used_head' = HeadWithout(used_head, b, r) /\ used_tail' = TailWithout(used_tail, b, r)
      /\ free_tail' = TailWith(free_tail, b, r, h) /\ free_head' = [free_head EXCEPT ![b] = r]
      /\ used' = used \ {r}
      /\ UNCHANGED <<blocks, remaining, carved, size, block, stale>>
  BY <1>3 DEF MarkAsFree
<1> HIDE DEF p
<1>10. /\ next' \in [Record -> Pointer] /\ prev' \in [Record -> Pointer]
       /\ Rewired(next', prev', r, h)
  <2> HIDE DEF h
  <2> QED
    BY <1>1, <1>6, <1>8, UnlinkedAndPushed
<1>11. /\ used_head' \in [Block -> Pointer] /\ used_tail' \in [Block -> Pointer]
       /\ free_head' \in [Block -> Pointer] /\ free_tail' \in [Block -> Pointer]
       /\ used_head'[b] = (IF prev[r] = null THEN next[r] ELSE used_head[b])
       /\ used_tail'[b] = (IF next[r] = null THEN prev[r] ELSE used_tail[b])
       /\ free_head'[b] = r /\ free_tail'[b] = (IF h = null THEN r ELSE free_tail[b])
       /\ \A c \in Block \ {b} : /\ used_head'[c] = used_head[c] /\ used_tail'[c] = used_tail[c]
                                 /\ free_head'[c] = free_head[c] /\ free_tail'[c] = free_tail[c]
  BY <1>1, <1>6, <1>9, Types DEF HeadWithout, TailWithout, TailWith, Pointer
<1>12. TypeOK'
  <2>1. used' \subseteq Record /\ UNCHANGED <<blocks, remaining, carved, size, block, stale>>
    BY <1>1, <1>9, Types
  <2> QED
    BY <1>1, <1>10, <1>11, <2>1 DEF TypeOK, Pointer
<1>13. Carved'
  BY <1>1, <1>9 DEF Carved
<1>14. /\ UsedRecords(b)' = S \ {r} /\ FreeRecords(b)' = T \cup {r}
       /\ \A c \in Block \ {b} : /\ UsedRecords(c)' = UsedRecords(c) /\ FreeRecords(c)' = FreeRecords(c)
                                 /\ UsedRecords(c) \cap (S \cup T) = {} /\ FreeRecords(c) \cap (S \cup T) = {}
  BY <1>3, <1>9 DEF UsedRecords, FreeRecords, Records
<1> HIDE DEF S, T, h
<1>15. /\ List(next', prev', used_head'[b], used_tail'[b], S \ {r})
       /\ List(next', prev', r, free_tail'[b], T \cup {r})
       /\ Untouched(next', prev', S \cup T)
       /\ IsFirst(prev, used_head[b]) => IsFirst(prev', used_head'[b])
  <2>1. r = used_head[b] => prev[r] = null
    BY <1>4, RecordIsNotNull
  <2>2. /\ used_head'[b] = FirstAfter(used_head[b], r)
        /\ used_tail'[b] = LastAfter(used_tail[b], r)
        /\ free_tail'[b] = LastWith(h, free_tail[b], r)
    BY <1>11 DEF FirstAfter, LastAfter, LastWith
  <2>3. Rewired(next', prev', r, h)
    BY <1>10
  <2> QED
    <3> DEFINE hu == used_head[b]
               tu == used_tail[b]
               tf == free_tail[b]
    <3>0. /\ S \in SUBSET Record /\ List(next, prev, hu, tu, S)
          /\ T \in SUBSET Record /\ List(next, prev, h, tf, T)
          /\ S \cap T = {} /\ r \in S /\ (r = hu => prev[r] = null)
      BY <1>4, <2>1
    <3> HIDE DEF hu, tu, tf
    <3>1. Untouched(next', prev', S \cup T)
      BY <3>0, <2>3, RecordMoves
    <3>2. List(next', prev', r, LastWith(h, tf, r), T \cup {r})
      BY <3>0, <2>3, RecordMoves
    <3>3. List(next', prev', FirstAfter(hu, r), LastAfter(tu, r), S \ {r})
      BY <3>0, <2>3, RecordMoves
    <3>4. IsFirst(prev, hu) => IsFirst(prev', FirstAfter(hu, r))
      BY <3>0, <2>3, RecordMoves
    <3> QED
      BY <2>2, <3>1, <3>2, <3>3, <3>4 DEF hu, tu, tf
<1>16. ASSUME NEW c \in Block \ {b}
       PROVE  /\ List(next', prev', used_head'[c], used_tail'[c], UsedRecords(c)')
              /\ List(next', prev', free_head'[c], free_tail'[c], FreeRecords(c)')
              /\ used_head'[c] # null => prev'[used_head'[c]] = null
  <2>1. S \cup T \in SUBSET Record
    BY <1>4
  <2> QED
    BY <1>1, <1>11, <1>14, <1>15, <2>1, OtherBlocks
<1>17. /\ List(next', prev', used_head'[b], used_tail'[b], UsedRecords(b)')
       /\ List(next', prev', free_head'[b], free_tail'[b], FreeRecords(b)')
       /\ used_head'[b] # null => prev'[used_head'[b]] = null
  BY <1>4, <1>11, <1>14, <1>15 DEF IsFirst
<1> QED
  BY <1>12, <1>13, <1>16, <1>17 DEF IInv, Lists

(* What Allocate() finds on the free list is a free record of the block.   *)
LEMMA FoundIsFree ==
    ASSUME Lists, NEW b \in Block, NEW n, Fits(b, n) # {}
    PROVE  Follow(free_head[b])[Min(Fits(b, n))] \in FreeRecords(b)
<1>1. /\ FreeRecords(b) \in SUBSET Record
      /\ List(next, prev, free_head[b], free_tail[b], FreeRecords(b))
  BY ListsOf
<1>2. OnList(free_head[b]) = FreeRecords(b)
  BY <1>1, ListIsLinked DEF Linked
<1>3. Fits(b, n) \in SUBSET Nat
  BY BoundAssumption DEF Fits
<1>4. Min(Fits(b, n)) \in Fits(b, n)
  BY <1>3, LeastExists DEF Min
<1> QED
  BY <1>2, <1>4 DEF Fits, OnList

(* Allocate() takes a record from the free list to the used one.           *)
LEMMA ReuseStep ==
    ASSUME IInv, NEW b \in Block, NEW n \in Size, Reuse(b, n)
    PROVE  IInv'
<1> DEFINE r0 == Follow(free_head[b])[Min(Fits(b, n))]
<1>1. /\ ~stale /\ TypeOK /\ Carved /\ Lists
  BY DEF Reuse, Defined, IInv
<1>2. r0 \in FreeRecords(b)
  BY <1>1, FoundIsFree DEF Reuse
<1>3. PICK r \in FreeRecords(b) : r = r0
  BY <1>2
<1> HIDE DEF r0
<1> DEFINE S == FreeRecords(b)
           T == UsedRecords(b)
           h == used_head[b]
<1>4. /\ S \in SUBSET Record /\ T \in SUBSET Record /\ S \cap T = {} /\ r \in S /\ r \in Record
      /\ List(next, prev, free_head[b], free_tail[b], S)
      /\ List(next, prev, h, used_tail[b], T)
      /\ h # null => prev[h] = null
      /\ h \in T \cup {null}
      /\ block[r] = b
  <2>1. block[r] = b
    BY DEF FreeRecords, Records
  <2> QED
    BY <1>1, <2>1, ListsOf
<1>5. /\ h \in Pointer /\ null \in Pointer /\ next[r] \in Pointer /\ prev[r] \in Pointer /\ r # h
  BY <1>1, <1>4, RecordIsNotNull, Types DEF Pointer
<1>6. /\ next' = [NextWithout(r) EXCEPT ![r] = h]
      /\ prev' = Set([PrevWithout(r) EXCEPT ![r] = null], h, r)
      /\ free_head' = HeadWithout(free_head, b, r) /\ free_tail' = TailWithout(free_tail, b, r)
      /\ used_tail' = TailWith(used_tail, b, r, h) /\ used_head' = [used_head EXCEPT ![b] = r]
      /\ used' = used \cup {r} /\ stale' = (prev[r] # null /\ r = free_head[b])
      /\ UNCHANGED <<blocks, remaining, carved, size, block>>
  BY <1>3 DEF Reuse, r0
<1>7. /\ next' \in [Record -> Pointer] /\ prev' \in [Record -> Pointer]
      /\ Rewired(next', prev', r, h) /\ prev'[r] = null
  <2> HIDE DEF h
  <2> QED
    BY <1>1, <1>4, <1>5, <1>6, UnlinkedAndPushed
<1>8. /\ used_head' \in [Block -> Pointer] /\ used_tail' \in [Block -> Pointer]
      /\ free_head' \in [Block -> Pointer] /\ free_tail' \in [Block -> Pointer]
      /\ free_head'[b] = FirstAfter(free_head[b], r)
      /\ free_tail'[b] = LastAfter(free_tail[b], r)
      /\ used_head'[b] = r /\ used_tail'[b] = LastWith(h, used_tail[b], r)
      /\ \A c \in Block \ {b} : /\ used_head'[c] = used_head[c] /\ used_tail'[c] = used_tail[c]
                                /\ free_head'[c] = free_head[c] /\ free_tail'[c] = free_tail[c]
  <2>1. /\ used_head \in [Block -> Pointer] /\ used_tail \in [Block -> Pointer]
        /\ free_head \in [Block -> Pointer] /\ free_tail \in [Block -> Pointer] /\ r \in Pointer
    BY <1>1, <1>4, Types DEF Pointer
  <2> QED
    BY <1>5, <1>6, <2>1 DEF HeadWithout, TailWithout, TailWith, FirstAfter, LastAfter, LastWith
<1>9. TypeOK'
  <2>1. /\ used' \subseteq Record /\ stale' \in BOOLEAN /\ UNCHANGED <<blocks, remaining, carved, size, block>>
    BY <1>1, <1>4, <1>6, Types
  <2> QED
    BY <1>1, <1>7, <1>8, <2>1 DEF TypeOK, Pointer
<1>10. Carved'
  <2>1. ~(r > carved)
    BY <1>1, <1>4 DEF Carved, Block, null
  <2> QED
    BY <1>1, <1>6, <2>1 DEF Carved
<1>11. ASSUME ~stale'  PROVE Lists'
  <2>1. r = free_head[b] => prev[r] = null
    BY <1>6, <1>11
  <2>2. /\ FreeRecords(b)' = S \ {r} /\ UsedRecords(b)' = T \cup {r}
        /\ \A c \in Block \ {b} :
               /\ UsedRecords(c)' = UsedRecords(c) /\ FreeRecords(c)' = FreeRecords(c)
               /\ UsedRecords(c) \cap (S \cup T) = {} /\ FreeRecords(c) \cap (S \cup T) = {}
    BY <1>4, <1>6 DEF UsedRecords, FreeRecords, Records
  <2> HIDE DEF S, T, h
  <2> DEFINE hf == free_head[b]
             tf == free_tail[b]
             tu == used_tail[b]
  <2>3. /\ S \in SUBSET Record /\ List(next, prev, hf, tf, S)
        /\ T \in SUBSET Record /\ List(next, prev, h, tu, T)
        /\ S \cap T = {} /\ r \in S /\ (r = hf => prev[r] = null)
    BY <1>4, <2>1
  <2>4. Rewired(next', prev', r, h)
    BY <1>7
  <2> HIDE DEF hf, tf, tu
  <2>5. Untouched(next', prev', S \cup T)
    BY <2>3, <2>4, RecordMoves
  <2>6. List(next', prev', r, LastWith(h, tu, r), T \cup {r})
    BY <2>3, <2>4, RecordMoves
  <2>7. List(next', prev', FirstAfter(hf, r), LastAfter(tf, r), S \ {r})
    BY <2>3, <2>4, RecordMoves
  <2>8. /\ List(next', prev', used_head'[b], used_tail'[b], UsedRecords(b)')
        /\ List(next', prev', free_head'[b], free_tail'[b], FreeRecords(b)')
        /\ prev'[used_head'[b]] = null
    BY <1>7, <1>8, <2>2, <2>6, <2>7 DEF hf, tf, tu
  <2>9. ASSUME NEW c \in Block \ {b}
        PROVE  /\ List(next', prev', used_head'[c], used_tail'[c], UsedRecords(c)')
               /\ List(next', prev', free_head'[c], free_tail'[c], FreeRecords(c)')
               /\ used_head'[c] # null => prev'[used_head'[c]] = null
    <3>1. S \cup T \in SUBSET Record
      BY <2>3
    <3> QED
      BY <1>1, <1>8, <2>2, <2>5, <3>1, OtherBlocks
  <2> QED
    BY <2>8, <2>9 DEF Lists
<1> QED
  BY <1>9, <1>10, <1>11 DEF IInv

(* A record is carved and becomes the first of the used ones.              *)
LEMMA CarveStep ==
    ASSUME IInv, ~stale, NEW b \in Block, NEW n \in Size, Carvable(b, n), CarveFrom(b, n),
           blocks <= blocks', b <= blocks', blocks' \in 0 .. MaxBlocks,
           UNCHANGED <<free_head, free_tail, stale>>
    PROVE  IInv'
<1> DEFINE r == carved + 1
           h == used_head[b]
           T == UsedRecords(b)
<1>1. TypeOK /\ Carved /\ Lists
  BY DEF IInv
<1>2. r \in Record /\ r \notin used /\ block[r] = null /\ carved \in Nat
  <2>1. carved \in Nat /\ MaxRecords \in Nat /\ carved < MaxRecords
    BY <1>1, Types, BoundAssumption DEF CarveFrom
  <2>2. r \in Record /\ r > carved
    BY <2>1 DEF Record
  <2> QED
    BY <1>1, <2>1, <2>2 DEF Carved
<1>3. /\ T \in SUBSET Record /\ r \in Record \ T
      /\ List(next, prev, h, used_tail[b], T)
      /\ h \in T \cup {null} /\ h \in Pointer /\ r # h
  BY <1>1, <1>2, ListsOf, RecordIsNotNull DEF UsedRecords, Pointer
<1>4. /\ carved' = r /\ remaining' = [remaining EXCEPT ![b] = @ - (Header + n)]
      /\ size' = [size EXCEPT ![r] = n] /\ block' = [block EXCEPT ![r] = b]
      /\ next' = [next EXCEPT ![r] = h] /\ prev' = Set([prev EXCEPT ![r] = null], h, r)
      /\ used_head' = [used_head EXCEPT ![b] = r] /\ used_tail' = TailWith(used_tail, b, r, h)
      /\ used' = used \cup {r}
  BY DEF CarveFrom
<1> HIDE DEF r
<1>5. /\ next' \in [Record -> Pointer] /\ next'[r] = h
      /\ \A x \in Record \ {r} : next'[x] = next[x]
  BY <1>1, <1>2, <1>3, <1>4, Types DEF Pointer
<1>6. /\ prev' \in [Record -> Pointer] /\ prev'[r] = null
      /\ \A x \in Record \ {r} : prev'[x] = IF x = h THEN r ELSE prev[x]
  <2> DEFINE mid == [prev EXCEPT ![r] = null]
  <2>1. /\ mid \in [Record -> Pointer] /\ mid[r] = null
        /\ \A x \in Record \ {r} : mid[x] = prev[x]
    BY <1>1, <1>2, Types DEF Pointer
  <2>2. prev' = Set(mid, h, r)
    BY <1>4
  <2> HIDE DEF mid, h
  <2>3. IsSet(prev', mid, h, r)
    <3>1. r \in Pointer
      BY <1>2 DEF Pointer
    <3> QED
      BY <1>3, <2>1, <2>2, <3>1, SetAt
  <2> QED
    BY <1>2, <1>3, <2>1, <2>3 DEF IsSet
<1>7. /\ used_head' \in [Block -> Pointer] /\ used_tail' \in [Block -> Pointer]
      /\ used_head'[b] = r /\ used_tail'[b] = IF h = null THEN r ELSE used_tail[b]
      /\ \A c \in Block \ {b} : used_head'[c] = used_head[c] /\ used_tail'[c] = used_tail[c]
  BY <1>1, <1>2, <1>3, <1>4, Types DEF TailWith, Pointer
<1>8. /\ block' \in [Record -> Block \cup {null}] /\ block'[r] = b
      /\ \A x \in Record \ {r} : block'[x] = block[x]
  BY <1>1, <1>2, <1>4, Types
<1>9. TypeOK'
  <2>1. remaining' \in [Block -> 0 .. Capacity]
    <3>1. /\ remaining \in [Block -> 0 .. Capacity] /\ Capacity \in Nat /\ n \in Nat /\ Header \in Nat
          /\ remaining[b] >= Header + n
      BY <1>1, Types, SizeAssumption DEF Carvable
    <3>2. remaining[b] - (Header + n) \in 0 .. Capacity
      BY <3>1
    <3> QED
      BY <1>4, <3>1, <3>2
  <2>2. size' \in [Record -> Size \cup {0}]
    BY <1>1, <1>2, <1>4, Types
  <2>3. carved' \in 0 .. MaxRecords
    BY <1>2, <1>4 DEF Record
  <2>4. /\ used' \subseteq Record /\ stale' \in BOOLEAN
        /\ free_head' \in [Block -> Pointer] /\ free_tail' \in [Block -> Pointer]
    BY <1>1, <1>2, <1>4, Types
  <2> QED
    BY <1>5, <1>6, <1>7, <1>8, <2>1, <2>2, <2>3, <2>4 DEF TypeOK, Pointer
<1>10. Carved'
  <2> SUFFICES ASSUME NEW x \in Record
               PROVE  /\ x <= carved' => block'[x] \in Block /\ block'[x] <= blocks'
                      /\ x > carved' => block'[x] = null /\ x \notin used'
    BY DEF Carved
  <2>1. carved' = carved + 1 /\ x \in Nat /\ blocks \in Nat /\ blocks' \in Nat
    BY <1>1, <1>4, Types DEF r, Record
  <2>2. CASE x = r
    <3>1. block'[x] = b
      BY <1>8, <2>2
    <3>2. carved' = x
      BY <1>4, <2>2
    <3>3. ~(x > carved')
      BY <2>1, <3>2
    <3> QED
      BY <3>1, <3>3
  <2>3. CASE x # r
    <3>1. block'[x] = block[x] /\ (x \in used' <=> x \in used)
      BY <1>4, <1>8, <2>3
    <3>2. (x <= carved' => x <= carved) /\ (x > carved' => x > carved)
      BY <1>2, <2>1, <2>3 DEF r
    <3>3. block[x] \in Block => block[x] \in Nat
      BY DEF Block
    <3> QED
      BY <1>1, <2>1, <3>1, <3>2, <3>3 DEF Carved
  <2> QED
    BY <2>2, <2>3
<1>11. /\ UsedRecords(b)' = T \cup {r} /\ FreeRecords(b)' = FreeRecords(b)
       /\ r \notin FreeRecords(b)
       /\ \A c \in Block \ {b} : /\ UsedRecords(c)' = UsedRecords(c) /\ FreeRecords(c)' = FreeRecords(c)
                                 /\ UsedRecords(c) \cap (T \cup {r}) = {}
                                 /\ FreeRecords(c) \cap (T \cup {r}) = {}
  <2>1. null \notin Block
    BY DEF Block, null
  <2> QED
    BY <1>2, <1>4, <1>8, <2>1 DEF UsedRecords, FreeRecords, Records
<1> HIDE DEF h, T
<1>12. List(next', prev', used_head'[b], used_tail'[b], UsedRecords(b)')
  <2> DEFINE tu == used_tail[b]
  <2>1. Pushing(next', prev', T, r, h)
    BY <1>3, <1>5, <1>6 DEF Pushing
  <2>2. List(next, prev, h, tu, T)
    BY <1>3
  <2> HIDE DEF tu
  <2>3. List(next', prev', r, LastWith(h, tu, r), T \cup {r})
    BY <1>3, <2>1, <2>2, RecordComes
  <2> QED
    BY <1>7, <1>11, <2>3 DEF tu, LastWith
<1>13. List(next', prev', free_head'[b], free_tail'[b], FreeRecords(b)')
  <2>1. /\ FreeRecords(b) \in SUBSET Record /\ UsedRecords(b) \cap FreeRecords(b) = {}
        /\ List(next, prev, free_head[b], free_tail[b], FreeRecords(b))
    BY <1>1, ListsOf
  <2>2. \A x \in FreeRecords(b) : next'[x] = next[x] /\ prev'[x] = prev[x]
    BY <1>3, <1>5, <1>6, <1>11, <2>1, RecordIsNotNull DEF T
  <2>3. List(next', prev', free_head[b], free_tail[b], FreeRecords(b))
    BY <2>1, <2>2, ListElsewhere
  <2> QED
    BY <1>11, <2>3
<1>14. ASSUME NEW c \in Block \ {b}
       PROVE  /\ List(next', prev', used_head'[c], used_tail'[c], UsedRecords(c)')
              /\ List(next', prev', free_head'[c], free_tail'[c], FreeRecords(c)')
              /\ used_head'[c] # null => prev'[used_head'[c]] = null
  <2>1. T \cup {r} \in SUBSET Record
    BY <1>3
  <2>2. Untouched(next', prev', T \cup {r})
    BY <1>3, <1>5, <1>6, RecordIsNotNull DEF Untouched
  <2> QED
    BY <1>1, <1>7, <1>11, <2>1, <2>2, OtherBlocks
<1> QED
  BY <1>6, <1>7, <1>9, <1>10, <1>12, <1>13, <1>14 DEF IInv, Lists

-----------------------------------------------------------------------------
(* THE THEOREMS *)

LEMMA InitHasIt == Init => IInv
<1> SUFFICES ASSUME Init  PROVE IInv
  OBVIOUS
<1>1. /\ MaxRecords \in Nat /\ MaxBlocks \in Nat /\ Capacity \in Nat
      /\ 0 \in 0 .. MaxRecords /\ 0 \in 0 .. MaxBlocks /\ Capacity \in 0 .. Capacity
  BY BoundAssumption, SizeAssumption
<1>2. TypeOK
  <2>1. /\ blocks \in 0 .. MaxBlocks /\ carved \in 0 .. MaxRecords /\ stale \in BOOLEAN
        /\ remaining \in [Block -> 0 .. Capacity]
    BY <1>1 DEF Init
  <2>2. /\ used_head \in [Block -> Pointer] /\ used_tail \in [Block -> Pointer]
        /\ free_head \in [Block -> Pointer] /\ free_tail \in [Block -> Pointer]
        /\ next \in [Record -> Pointer] /\ prev \in [Record -> Pointer]
    BY DEF Init, Pointer
  <2>3. /\ size \in [Record -> Size \cup {0}] /\ block \in [Record -> Block \cup {null}]
        /\ used \subseteq Record
    BY DEF Init, null
  <2> QED
    BY <2>1, <2>2, <2>3, Types
<1>3. Carved
  <2>1. carved = 0 /\ used = {} /\ \A r \in Record : block[r] = null /\ r \in Nat /\ ~(r <= 0)
    BY DEF Init, Record
  <2> QED
    BY <2>1 DEF Carved
<1>4. Lists
  <2> SUFFICES ASSUME NEW b \in Block
               PROVE  /\ List(next, prev, used_head[b], used_tail[b], UsedRecords(b))
                      /\ List(next, prev, free_head[b], free_tail[b], FreeRecords(b))
                      /\ used_head[b] # null => prev[used_head[b]] = null
    BY DEF Lists
  <2>1. UsedRecords(b) = {} /\ FreeRecords(b) = {}
    BY DEF Init, UsedRecords, FreeRecords, Records, Block, null
  <2>2. /\ used_head[b] = null /\ used_tail[b] = null
        /\ free_head[b] = null /\ free_tail[b] = null
    BY DEF Init
  <2>3. List(next, prev, null, null, {})
    <3> DEFINE s == [i \in 1 .. 0 |-> i]
    <3>1. s \in [1 .. 0 -> Record] /\ 0 \in Nat /\ \A i \in 1 .. 0 : FALSE
      OBVIOUS
    <3>2. \A i \in 2 .. 0 : FALSE
      OBVIOUS
    <3> HIDE DEF s
    <3>3. IsList(next, prev, null, null, {}, 0, s)
      BY <3>1, <3>2 DEF IsList
    <3> QED
      BY <3>1, <3>3 DEF List
  <2> QED
    BY <2>1, <2>2, <2>3
<1> QED
  BY <1>2, <1>3, <1>4 DEF IInv

(* The block that is carved is the one that serves the request.            *)
LEMMA CarveHasIt ==
    ASSUME IInv, NEW b \in Block, NEW n \in Size, Carve(b, n)
    PROVE  IInv'
<1>1. /\ ~stale /\ CarveFrom(b, n) /\ UNCHANGED <<blocks, free_head, free_tail, stale>>
      /\ Carvable(b, n) /\ b <= blocks
  BY DEF Carve, Defined, Serving, Serves
<1>2. blocks \in 0 .. MaxBlocks /\ blocks <= blocks
  BY Types, BoundAssumption DEF IInv
<1> QED
  BY <1>1, <1>2, CarveStep

LEMMA ListsUnchanged ==
    ASSUME Lists, UNCHANGED <<used_head, used_tail, free_head, free_tail, block, next, prev, used>>
    PROVE  Lists'
<1>1. \A b \in Block : UsedRecords(b)' = UsedRecords(b) /\ FreeRecords(b)' = FreeRecords(b)
  BY DEF UsedRecords, FreeRecords, Records
<1> QED
  BY <1>1 DEF Lists

LEMMA NewBlockHasIt ==
    ASSUME IInv, NEW n \in Size, NewBlock(n)
    PROVE  IInv'
<1>1. /\ ~stale /\ blocks < MaxBlocks /\ blocks' = blocks + 1
      /\ UNCHANGED <<free_head, free_tail, stale>>
  BY DEF NewBlock, Defined
<1>2. TypeOK /\ Carved /\ Lists /\ blocks \in Nat /\ MaxBlocks \in Nat
  BY <1>1, Types, BoundAssumption DEF IInv
<1>3. /\ blocks + 1 \in Block /\ blocks <= blocks' /\ blocks + 1 <= blocks'
      /\ blocks' \in 0 .. MaxBlocks
  BY <1>1, <1>2 DEF Block
<1>4. CASE Carvable(blocks + 1, n)
  <2>1. PICK b \in Block : b = blocks + 1
    BY <1>3
  <2>2. CarveFrom(b, n) /\ Carvable(b, n) /\ b <= blocks'
    BY <1>3, <1>4, <2>1 DEF NewBlock
  <2> QED
    BY <1>1, <1>3, <2>2, CarveStep
<1>5. CASE ~Carvable(blocks + 1, n)
  <2>1. UNCHANGED <<remaining, used_head, used_tail, carved, size, block, next, prev, used>>
    BY <1>5 DEF NewBlock, links
  <2>2. TypeOK'
    BY <1>1, <1>2, <1>3, <2>1 DEF TypeOK
  <2>3. Carved'
    <3> SUFFICES ASSUME NEW r \in Record
                 PROVE  /\ r <= carved => block[r] \in Block /\ block[r] <= blocks'
                        /\ r > carved => block[r] = null /\ r \notin used
      BY <2>1 DEF Carved
    <3>1. block[r] \in Block => block[r] \in Nat
      BY DEF Block
    <3> QED
      BY <1>1, <1>2, <3>1 DEF Carved
  <2>4. Lists'
    BY <1>1, <1>2, <2>1, ListsUnchanged
  <2> QED
    BY <2>2, <2>3, <2>4 DEF IInv
<1> QED
  BY <1>4, <1>5

LEMMA StepKeepsIt == IInv /\ [Next]_vars => IInv'
<1> SUFFICES ASSUME IInv, [Next]_vars  PROVE IInv'
  OBVIOUS
<1>1. CASE \E n \in Size : Allocate(n)
  <2>1. PICK n \in Size : Allocate(n)
    BY <1>1
  <2>2. CASE NewBlock(n)
    BY <2>2, NewBlockHasIt
  <2>3. ASSUME NEW b \in Block, Reuse(b, n)  PROVE IInv'
    BY <2>3, ReuseStep
  <2>4. ASSUME NEW b \in Block, Carve(b, n)  PROVE IInv'
    BY <2>4, CarveHasIt
  <2> QED
    BY <2>1, <2>2, <2>3, <2>4 DEF Allocate
<1>2. CASE \E r \in Record : MarkAsFree(r)
  BY <1>2, MarkAsFreeStep
<1>3. CASE UNCHANGED vars
  <2>1. TypeOK' /\ Carved' /\ stale' = stale
    BY <1>3 DEF vars, lists, links, IInv, TypeOK, Carved
  <2>2. ~stale => Lists'
    BY <1>3, ListsUnchanged DEF IInv, vars, lists, links
  <2> QED
    BY <2>1, <2>2 DEF IInv
<1> QED
  BY <1>1, <1>2, <1>3 DEF Next

(* The inductive invariant holds in every reachable state: the lists of    *)
(* every block are sequences of its records, linked both ways.             *)
THEOREM Invariant == Spec => []IInv
<1>1. Init => IInv
  BY InitHasIt
<1>2. IInv /\ [Next]_vars => IInv'
  BY StepKeepsIt
<1> QED
  BY <1>1, <1>2, PTL DEF Spec

(* Following next from the head of a list meets the records that belong to *)
(* it and ends; no record is lost or on two lists, as long as Allocate()   *)
(* has not taken a record whose prev pointer was stale.                    *)
THEOREM ListsStayWellFormed == Spec => []WellFormed
<1>1. IInv => WellFormed
  <2> SUFFICES ASSUME IInv, ~stale, NEW b \in Block
               PROVE  /\ Linked(used_head[b], used_tail[b], Records(b) \cap used)
                      /\ Linked(free_head[b], free_tail[b], Records(b) \ used)
                      /\ used_head[b] # null => prev[used_head[b]] = null
    BY DEF IInv, WellFormed, ListsPartitionRecords
  <2>1. Lists
    BY DEF IInv
  <2> QED
    BY <2>1, ListsOf, ListIsLinked DEF UsedRecords, FreeRecords
<1> QED
  BY <1>1, Invariant, PTL

(* A block without a record that fits has only smaller ones.               *)
LEMMA NothingFits ==
    ASSUME IInv, ~stale, NEW n \in Size, NEW f \in Record \ used, block[f] \in Block,
           Fits(block[f], n) = {}
    PROVE  size[f] < n
<1>1. PICK c \in Block : c = block[f]
  OBVIOUS
<1>2. Lists /\ TypeOK
  BY DEF IInv
<1>3. f \in FreeRecords(c)
  BY <1>1 DEF FreeRecords, Records
<1>4. OnList(free_head[c]) = FreeRecords(c)
  BY <1>2, ListsOf, ListIsLinked DEF Linked
<1>5. PICK k \in 0 .. MaxRecords : Follow(free_head[c])[k] = f
  BY <1>3, <1>4 DEF OnList
<1>6. ~(size[f] >= n)
  BY <1>1, <1>5, RecordIsNotNull DEF Fits
<1>7. size[f] \in Nat /\ n \in Nat
  <2>1. size \in [Record -> Size \cup {0}]
    BY <1>2, Types
  <2>2. size[f] \in Size \cup {0} /\ Size \cup {0} \subseteq Nat
    BY <2>1, SizeAssumption
  <2> QED
    BY <2>2
<1> QED
  BY <1>6, <1>7

(* Memory is carved from a block only when every free record of that block *)
(* and of the newer ones is too small.                                     *)
THEOREM FreeRecordsComeFirst == Spec => ReuseBeforeCarve
<1> DEFINE Small == \A r \in Record :
                       r = carved + 1 /\ r = carved' =>
                           \A f \in Record \ used : block[f] >= block'[r] => size[f] < size'[r]
<1>1. IInv /\ [Next]_vars => Small
  <2> SUFFICES ASSUME IInv, [Next]_vars, NEW r \in Record, r = carved + 1, r = carved',
                      NEW f \in Record \ used, block[f] >= block'[r]
               PROVE  size[f] < size'[r]
    OBVIOUS
  <2>1. /\ carved \in Nat /\ blocks \in Nat /\ size \in [Record -> Size \cup {0}]
        /\ block \in [Record -> Block \cup {null}] /\ carved' # carved
    BY Types, BoundAssumption DEF IInv
  <2>2. /\ block[f] \in Nat
        /\ block[f] # null => block[f] \in Block /\ block[f] <= blocks
    <3>1. f <= carved \/ f > carved
      BY <2>1 DEF Record
    <3>2. block[f] \in Nat
      BY <2>1 DEF Block, null
    <3> QED
      BY <3>1, <3>2 DEF IInv, Carved
  <2>3. ASSUME NEW b \in Block, NEW n \in Size, CarveFrom(b, n)
        PROVE  block'[r] = b /\ size'[r] = n /\ b \in Nat /\ b # 0
    BY <2>1, <2>3 DEF CarveFrom, Block
  <2>4. ASSUME NEW b \in Block, NEW n \in Size, Carve(b, n)
        PROVE  size[f] < size'[r]
    <3>1. /\ CarveFrom(b, n) /\ Fits(b, n) = {} /\ ~stale
          /\ \A c \in Block : c > b /\ c <= blocks => Fits(c, n) = {}
      BY <2>4 DEF Carve, Defined, Serving, Refuses
    <3>2. block'[r] = b /\ size'[r] = n /\ b \in Nat /\ b # 0
      BY <2>3, <3>1
    <3>3. block[f] \in Block /\ block[f] <= blocks /\ (block[f] = b \/ block[f] > b)
      BY <2>2, <3>2 DEF null
    <3> QED
      BY <3>1, <3>2, <3>3, NothingFits
  <2>5. ASSUME NEW n \in Size, NewBlock(n)
        PROVE  FALSE
    <3>1. CarveFrom(blocks + 1, n) /\ blocks < MaxBlocks
      BY <2>1, <2>5 DEF NewBlock
    <3>2. blocks + 1 \in Block
      BY <2>1, <3>1, BoundAssumption DEF Block
    <3>3. block'[r] = blocks + 1
      BY <2>3, <3>1, <3>2
    <3> QED
      BY <2>1, <2>2, <3>3 DEF null
  <2>6. carved' = carved => FALSE
    BY <2>1
  <2>7. ASSUME NEW b \in Block, NEW n \in Size, Reuse(b, n)  PROVE FALSE
    BY <2>6, <2>7 DEF Reuse
  <2>8. ASSUME NEW x \in Record, MarkAsFree(x)  PROVE FALSE
    BY <2>6, <2>8 DEF MarkAsFree
  <2>9. ~UNCHANGED vars
    BY <2>6 DEF vars
  <2> QED
    BY <2>4, <2>5, <2>7, <2>8, <2>9 DEF Next, Allocate
<1>2. IInv /\ IInv' /\ [Next]_vars => [Small]_vars
  BY <1>1
<1> QED
  BY <1>2, Invariant, PTL DEF Spec, ReuseBeforeCarve
=============================================================================
