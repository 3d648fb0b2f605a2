--------------------------- MODULE BlockAllocator ---------------------------
(***************************************************************************)
(* The memory blocks objects are placed in: class Block of src/memory.cc.  *)
(*                                                                         *)
(* A block carves records from its memory one after the other and keeps    *)
(* them on two doubly linked lists, of used and of free records.           *)
(* Allocate() takes the first free record that is large enough, or carves  *)
(* a new one; MarkAsFree(), called by the sweep, moves a record from the   *)
(* used to the free list.  Records are numbered in the order in which they *)
(* are carved, blocks in the order in which they are created; 0 is the     *)
(* null pointer.                                                           *)
(***************************************************************************)
EXTENDS Integers, FiniteSets, FiniteSetsExt

CONSTANTS MaxRecords,  \* bound of the model: records carved
          MaxBlocks,   \* bound of the model: blocks obtained from malloc
          Size,        \* the sizes of objects, rounded up by operator new
          Header,      \* sizeof(Record)
          Capacity     \* kBlockSize

ASSUME BoundAssumption == MaxRecords \in Nat \ {0} /\ MaxBlocks \in Nat \ {0}
ASSUME SizeAssumption  == /\ Size \subseteq Nat \ {0}
                          /\ Header \in Nat
                          /\ Capacity \in Nat

Record == 1 .. MaxRecords
Block  == 1 .. MaxBlocks
null   == 0

VARIABLES blocks,      \* gc_block_head; GetNext() of block b is b - 1
          remaining,   \* m_remaining of every block
          used_head, used_tail, free_head, free_tail,   \* the lists of every block
          carved,      \* number of records carved so far
          size, block, next, prev,    \* the fields of every record
          used,        \* the records that hold an object
          stale        \* whether Allocate has taken a record off the free list
                       \* whose prev pointer did not belong to that list

lists == <<used_head, used_tail, free_head, free_tail>>
links == <<next, prev>>
vars == <<blocks, remaining, lists, carved, size, block, links, used, stale>>

TypeOK ==
    /\ blocks \in 0 .. MaxBlocks
    /\ remaining \in [Block -> 0 .. Capacity]
    /\ {used_head, used_tail, free_head, free_tail} \subseteq [Block -> Record \cup {null}]
    /\ carved \in 0 .. MaxRecords
    /\ size \in [Record -> Size \cup {0}]
    /\ block \in [Record -> Block \cup {null}]
    /\ {next, prev} \subseteq [Record -> Record \cup {null}]
    /\ used \subseteq Record
    /\ stale \in BOOLEAN

Init ==
    /\ blocks = 0 /\ carved = 0 /\ stale = FALSE
    /\ remaining = [b \in Block |-> Capacity]
    /\ used_head = [b \in Block |-> null] /\ used_tail = [b \in Block |-> null]
    /\ free_head = [b \in Block |-> null] /\ free_tail = [b \in Block |-> null]
    /\ size = [r \in Record |-> 0] /\ block = [r \in Record |-> null]
    /\ next = [r \in Record |-> null] /\ prev = [r \in Record |-> null]
    /\ used = {}

-----------------------------------------------------------------------------
(* f[i] := x, when i is not the null pointer *)
Set(f, i, x) == IF i = null THEN f ELSE [f EXCEPT ![i] = x]

(* Mutant: the next record keeps its pointer to the record that is unlinked. *)
PrevKept(r) == prev

(* Unlinking record r of block b from the list that head and tail delimit: *)
(* the four cases of the code, by which of its neighbours exist.           *)
NextWithout(r) == Set(next, prev[r], next[r])
PrevWithout(r) == Set(prev, next[r], prev[r])
HeadWithout(head, b, r) == IF prev[r] = null THEN [head EXCEPT ![b] = next[r]] ELSE head
TailWithout(tail, b, r) == IF next[r] = null THEN [tail EXCEPT ![b] = prev[r]] ELSE tail

(* Pushing record r in front of the list that starts with h.               *)
TailWith(tail, b, r, h) == IF h = null THEN [tail EXCEPT ![b] = r] ELSE tail

(* The k-th record reached from r along next, for k up to MaxRecords. *)
Follow(r) ==
    LET path[k \in 0 .. MaxRecords] ==
            IF k = 0 THEN r
            ELSE IF path[k - 1] = null THEN null ELSE next[path[k - 1]]
    IN  path

(* Mutant: only the first free record is looked at. *)
FitsFirst(b, n) == {k \in {0} : /\ free_head[b] # null
                               /\ size[free_head[b]] >= n}

(* The positions on the free list of b whose record can hold n bytes. *)
Fits(b, n) == {k \in 0 .. MaxRecords : /\ Follow(free_head[b])[k] # null
                                       /\ size[Follow(free_head[b])[k]] >= n}

(* The loop over the free list ends, though it finds nothing. *)
FreeListEnds(b) == Follow(free_head[b])[MaxRecords] = null

(* The block operator new takes the record from: the newest that can serve *)
(* the request.                                                            *)
Carvable(b, n) == remaining[b] >= Header + n
Serves(b, n)   == Fits(b, n) # {} \/ (FreeListEnds(b) /\ Carvable(b, n))
Refuses(b, n)  == Fits(b, n) = {} /\ FreeListEnds(b) /\ ~Carvable(b, n)
Serving(b, n)  == /\ b <= blocks
                  /\ Serves(b, n)
                  /\ \A c \in Block : c > b /\ c <= blocks => Refuses(c, n)

(* Once a stale pointer has been followed the two lists run into each other *)
(* and records in use are handed out again, whose objects are overwritten: *)
(* the model stops there.                                                  *)
Defined == ~stale

(* Block::Allocate, a record from the free list: it is unlinked as a member *)
(* of a doubly linked list and becomes the head of the used list.          *)
Reuse(b, n) ==
    /\ Defined
    /\ Serving(b, n) /\ Fits(b, n) # {}
    /\ LET r == Follow(free_head[b])[Min(Fits(b, n))]
           h == used_head[b]
       IN  /\ free_head' = HeadWithout(free_head, b, r)
           /\ free_tail' = TailWithout(free_tail, b, r)
           /\ next' = [NextWithout(r) EXCEPT ![r] = h]
           /\ prev' = Set([PrevWithout(r) EXCEPT ![r] = null], h, r)
           /\ used_head' = [used_head EXCEPT ![b] = r]
           /\ used_tail' = TailWith(used_tail, b, r, h)
           /\ used' = used \cup {r}
           /\ stale' = (prev[r] # null /\ r = free_head[b])
    /\ UNCHANGED <<blocks, remaining, carved, size, block>>

(* Block::Allocate, a new record at the head of the used list. *)
CarveFrom(b, n) ==
    LET r == carved + 1
        h == used_head[b]
    IN  /\ carved < MaxRecords
        /\ carved' = r
        /\ remaining' = [remaining EXCEPT ![b] = @ - (Header + n)]
        /\ size' = [size EXCEPT ![r] = n]
        /\ block' = [block EXCEPT ![r] = b]
        /\ next' = [next EXCEPT ![r] = h]
        /\ prev' = Set([prev EXCEPT ![r] = null], h, r)
        /\ used_head' = [used_head EXCEPT ![b] = r]
        /\ used_tail' = TailWith(used_tail, b, r, h)
        /\ used' = used \cup {r}

Carve(b, n) ==
    /\ Defined
    /\ Serving(b, n) /\ Fits(b, n) = {}
    /\ CarveFrom(b, n)
    /\ UNCHANGED <<blocks, free_head, free_tail, stale>>

(* No block can serve the request: operator new obtains another one, which *)
(* throws std::bad_alloc when the object is larger than a block.           *)
NewBlock(n) ==
    /\ Defined
    /\ \A b \in Block : b <= blocks => Refuses(b, n)
    /\ blocks < MaxBlocks
    /\ blocks' = blocks + 1
    /\ IF Carvable(blocks + 1, n)
       THEN CarveFrom(blocks + 1, n)
       ELSE UNCHANGED <<remaining, used_head, used_tail, carved, size, block, links, used>>
    /\ UNCHANGED <<free_head, free_tail, stale>>

(* Block::MarkAsFree: the record is unlinked from the used list, where the *)
(* last one has its prev cleared, and pushed on the free list.             *)
MarkAsFree(r) ==
    /\ Defined
    /\ r \in used
    /\ LET b == block[r]
           h == free_head[b]
       IN  /\ used_head' = HeadWithout(used_head, b, r)
           /\ used_tail' = TailWithout(used_tail, b, r)
           /\ next' = [NextWithout(r) EXCEPT ![r] = h]
           /\ prev' = Set([PrevWithout(r) EXCEPT ![r] = IF next[r] = null THEN null ELSE @],
                          h, r)
           /\ free_tail' = TailWith(free_tail, b, r, h)
           /\ free_head' = [free_head EXCEPT ![b] = r]
    /\ used' = used \ {r}
    /\ UNCHANGED <<blocks, remaining, carved, size, block, stale>>

Allocate(n) == NewBlock(n) \/ \E b \in Block : Reuse(b, n) \/ Carve(b, n)

Next == \/ \E n \in Size : Allocate(n)
        \/ \E r \in Record : MarkAsFree(r)

Spec == Init /\ [][Next]_vars

-----------------------------------------------------------------------------
(* PROPERTIES                                                              *)

OnList(r) == {Follow(r)[k] : k \in 0 .. MaxRecords} \ {null}
Records(b) == {r \in Record : block[r] = b}

(* A list from head to tail over the records of S, linked both ways; the   *)
(* prev pointer of the first record is not looked at.                      *)
Linked(head, tail, S) ==
    /\ OnList(head) = S
    /\ Follow(head)[MaxRecords] = null
    /\ S # {} => tail \in S /\ next[tail] = null
    /\ S = {} => tail = null
    /\ \A r \in S : next[r] # null => prev[next[r]] = r

(* As long as no allocation took a free record by a stale prev pointer,    *)
(* both lists of every block are well formed in both directions, and each  *)
(* record is on the list it belongs to: none is lost and none is on both.  *)
(* (Only the prev pointer of the head of the free list may be stale.)      *)
ListsPartitionRecords ==
    ~stale => \A b \in Block :
                 /\ Linked(used_head[b], used_tail[b], Records(b) \cap used)
                 /\ Linked(free_head[b], free_tail[b], Records(b) \ used)
                 /\ used_head[b] # null => prev[used_head[b]] = null

(* The state has its type and the lists are well formed. *)
WellFormed == TypeOK /\ ListsPartitionRecords

(* Memory is carved only when no free record will do: neither in the block *)
(* that is carved nor in a newer one (an older one may have such a record, *)
(* since blocks are searched from the newest).                             *)
ReuseBeforeCarve ==
    [][\A r \in Record :
           r = carved + 1 /\ r = carved' =>
               \A f \in Record \ used :
                   block[f] >= block'[r] => size[f] < size'[r]]_vars
=============================================================================
