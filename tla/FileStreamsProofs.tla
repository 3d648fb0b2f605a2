--------------------------- MODULE FileStreamsProofs ---------------------------
(***************************************************************************)
(* Proofs about FileStreams, for files of any length, buffers of any size, *)
(* any number of streams and descriptors: who closes a descriptor, that no *)
(* byte is skipped or read twice, and what a client gets of a file.        *)
(***************************************************************************)
EXTENDS FileStreams, FiniteSetTheorems, SequenceTheorems, WellFoundedInduction, TLAPS

-----------------------------------------------------------------------------
(* THE INDUCTIVE INVARIANT *)

Byte == [at : Nat \ {0}, byte : Bytes]

OpenFile == [what : {"file"}, at : Nat, append : BOOLEAN]

StreamObject ==
    [kind : {"file", "socket"}, mode : {"r", "w", "rw"}, handle : Descriptors \cup {-1},
     held : BOOLEAN, object : BOOLEAN, binary : BOOLEAN, buffer : Seq(Byte),
     next : Nat, whole : BOOLEAN, sent : Seq(Byte)]

NewCall == [op : {"new"}, kind : {"file", "socket"}, handle : Descriptors,
            mode : {"r", "w", "rw"}, for : {"text", "binary", "server"} \cup Streams]

ReadCall ==
    [op : {"read"}, kind : {"read", "line", "lines"}, on : Streams, start : Nat,
     left : Int, all : BOOLEAN, read : Nat, rune : Seq(Byte), got : Seq(Byte),
     line : Seq(Byte), lines : Seq(Seq(Byte)), torn : BOOLEAN]

HeadCall == [op : {"head"}, from : Streams, to : Streams]
PipeCall == [op : {"pipe"}, from : Streams, to : Streams, chunk : Seq(Byte), cut : BOOLEAN]

TypeOK ==
    /\ contents \in Seq(Bytes)
    /\ descriptor \in [Descriptors -> {Free, Other} \cup OpenFile]
    /\ stream \in [Streams -> {None} \cup StreamObject]
    /\ call \in {Idle, [op |-> "crashed"]} \cup NewCall \cup ReadCall \cup HeadCall \cup PipeCall
    /\ setup \in DOMAIN Setups

(* The descriptor of a new stream is on its way into its object. *)
OnItsWay(d) == call.op = "new" /\ call.handle = d

(* Descriptors above 0 have one owner, which is not a closed stream. *)
OneOwner ==
    /\ \A s, t \in Streams : Live(s) /\ Live(t) /\ stream[s].handle = stream[t].handle
                                /\ stream[s].handle > 0 => s = t
    /\ \A s \in Streams : Live(s) /\ stream[s].handle > 0 =>
          descriptor[stream[s].handle] # Free /\ ~OnItsWay(stream[s].handle)
    /\ \A d \in Descriptors \ {0} : OnItsWay(d) => descriptor[d] # Free
    /\ \A d \in Descriptors \ {0} : descriptor[d] # Free =>
          OnItsWay(d) \/ \E s \in Streams : Live(s) /\ stream[s].handle = d

(* What is open has its descriptor, and only files are objects of a script.*)
Roles ==
    \A s \in Streams : /\ Held(s) => stream[s].handle \in Descriptors
                       /\ Live(s) /\ stream[s].object => stream[s].kind = "file"

(* A file goes to the socket of a client.                                  *)
Serves(from, to) == /\ Held(from) /\ stream[from].kind = "file" /\ ~stream[from].object
                    /\ Held(to) /\ stream[to].kind = "socket"

(* A call has what it works on. *)
CallOK ==
    /\ call.op = "new" =>
          /\ call.kind = "socket" => call.for = "server"
          /\ call.kind = "file" => call.for # "server"
          /\ call.kind = "file" /\ call.handle # 0 => descriptor[call.handle].what = "file"
          /\ call.kind = "file" /\ descriptor[call.handle].what = "file" => descriptor[call.handle].at = 0
          /\ call.for \in Streams => Held(call.for) /\ stream[call.for].kind = "socket"
    /\ call.op = "read" => Script(call.on)
    /\ call.op = "head" => Serves(call.from, call.to) /\ (OnFile(call.from) => At(call.from) = 0)
    /\ call.op = "pipe" => Serves(call.from, call.to)

(* Nothing was sent to a client that is not served yet.                    *)
Unsent == \A s \in Streams : Held(s) /\ ~(call.op = "pipe" /\ call.to = s) => stream[s].sent = <<>>

(* Of the file everything before the offset at was read, the last of it    *)
(* into the chunk, and what was sent is from before that, all of it unless *)
(* a write was cut short.                                                  *)
Progress(sent, chunk, at, cut, file) ==
    LET p == at - Len(chunk) IN
    /\ p \in Nat /\ at <= Len(file)
    /\ \A i \in 1 .. Len(chunk) : chunk[i].at = p + i /\ chunk[i].byte = file[p + i]
    /\ \A i \in 1 .. Len(sent) : sent[i].at <= p
    /\ ~cut => /\ Len(sent) = p
               /\ \A i \in 1 .. Len(sent) : sent[i].byte = file[i]

Piped ==
    call.op = "pipe" =>
        /\ call.chunk # <<>> => OnFile(call.from)
        /\ OnFile(call.from) => Progress(stream[call.to].sent, call.chunk, At(call.from), call.cut, contents)

SentInOrder == \A s \in Streams : Live(s) => InOrder(stream[s].sent)

IInv == TypeOK /\ OneOwner /\ Roles /\ CallOK /\ Unsent /\ Piped /\ SentInOrder /\ NothingIsSkipped

-----------------------------------------------------------------------------
(* SEQUENCES, DESCRIPTORS AND BYTES *)

(* A set of natural numbers that is not empty has a least element.         *)
LEMMA LeastExists ==
    ASSUME NEW T \in SUBSET Nat, T # {}
    PROVE  \E x \in T : \A y \in T : x <= y
<1>1. \E x \in T : \A y \in T : ~(<<y, x>> \in OpToRel(<, Nat))
  BY NatLessThanWellFounded, WFMin
<1>2. \A x, y \in T : y < x => <<y, x>> \in OpToRel(<, Nat)
  BY DEF OpToRel
<1>3. PICK x \in T : \A y \in T : ~(<<y, x>> \in OpToRel(<, Nat))
  BY <1>1
<1>4. \A y \in T : ~(y < x)
  BY <1>2, <1>3
<1> QED
  BY <1>4

(* The kernel gives out a descriptor that was free.                        *)
LEMMA LowestIsFree ==
    ASSUME FreeDescriptors # {}
    PROVE  /\ Lowest(FreeDescriptors) \in Descriptors
           /\ descriptor[Lowest(FreeDescriptors)] = Free
<1>1. FreeDescriptors \in SUBSET Nat
  BY DEF FreeDescriptors, Descriptors
<1>2. Lowest(FreeDescriptors) \in FreeDescriptors
  BY <1>1, LeastExists DEF Lowest
<1> QED
  BY <1>2 DEF FreeDescriptors

(* A live stream is an object with all its fields. *)
LEMMA LiveIsObject ==
    ASSUME TypeOK, NEW s \in Streams
    PROVE  /\ Live(s) <=> stream[s] \in StreamObject
           /\ ~Live(s) <=> stream[s] = None
  BY DEF TypeOK, Live, None, StreamObject

(* A call is what its name says. *)
LEMMA CallKinds ==
    ASSUME TypeOK
    PROVE  /\ call.op = "idle" <=> call = Idle
           /\ call.op = "new"  <=> call \in NewCall
           /\ call.op = "read" <=> call \in ReadCall
           /\ call.op = "head" <=> call \in HeadCall
           /\ call.op = "pipe" <=> call \in PipeCall
  BY DEF TypeOK, Idle, NewCall, ReadCall, HeadCall, PipeCall

(* A descriptor is free, another connection or an open file.               *)
LEMMA DescriptorKinds ==
    ASSUME TypeOK, NEW d \in Descriptors
    PROVE  /\ descriptor[d].what = "file" <=> descriptor[d] \in OpenFile
           /\ descriptor[d].what = "file" => descriptor[d] # Free
           /\ descriptor[d] \in OpenFile => descriptor[d].at \in Nat
  BY DEF TypeOK, Free, Other, OpenFile

(* The bytes between the offset and the end of the file.                   *)
LEMMA AheadIsTheRest ==
    ASSUME TypeOK, NEW s \in Streams, stream[s].handle \in Descriptors, OnFile(s)
    PROVE  /\ At(s) \in Nat
           /\ Ahead(s) \in Seq(Byte)
           /\ Len(Ahead(s)) = IF At(s) < Len(contents) THEN Len(contents) - At(s) ELSE 0
           /\ \A i \in 1 .. Len(Ahead(s)) :
                 Ahead(s)[i].at = At(s) + i /\ Ahead(s)[i].byte = contents[At(s) + i]
<1> DEFINE n == Len(contents) - At(s)
           k == IF At(s) < Len(contents) THEN n ELSE 0
           e(i) == [at |-> At(s) + i, byte |-> contents[At(s) + i]]
<1>1. At(s) \in Nat /\ Len(contents) \in Nat
  BY DescriptorKinds DEF OnFile, At, TypeOK
<1>2. k \in Nat /\ 1 .. n = 1 .. k
  BY <1>1
<1>3. \A i \in 1 .. k : contents[At(s) + i] \in Bytes
  BY <1>1 DEF TypeOK
<1>4. \A i \in 1 .. k : e(i) \in Byte
  BY <1>1, <1>3 DEF Byte
<1>5. Ahead(s) = [i \in 1 .. k |-> e(i)]
  BY <1>2 DEF Ahead
<1> HIDE DEF k
<1>6. [i \in 1 .. k |-> e(i)] \in Seq(Byte)
  BY <1>2, <1>4, IsASeq
<1>7. Len([i \in 1 .. k |-> e(i)]) = k
  BY <1>2
<1> QED
  BY <1>1, <1>5, <1>6, <1>7 DEF k

(* What a read gives: the next bytes of the file, none only at its end.    *)
LEMMA ReadGivesTheNext ==
    ASSUME TypeOK, NEW s \in Streams, stream[s].handle \in Descriptors,
           NEW bytes \in DirectRead(s)
    PROVE  /\ OnFile(s) /\ At(s) \in Nat
           /\ bytes \in Seq(Byte)
           /\ \A i \in 1 .. Len(bytes) :
                 bytes[i].at = At(s) + i /\ bytes[i].byte = contents[At(s) + i]
           /\ bytes # <<>> => At(s) + Len(bytes) <= Len(contents)
           /\ bytes = <<>> => At(s) >= Len(contents)
<1> DEFINE a == Ahead(s)
           n == IF Len(a) < kBufferSize THEN Len(a) ELSE kBufferSize
<1>1. OnFile(s)
  BY DEF DirectRead
<1>2. /\ At(s) \in Nat
      /\ a \in Seq(Byte)
      /\ Len(a) = IF At(s) < Len(contents) THEN Len(contents) - At(s) ELSE 0
      /\ \A i \in 1 .. Len(a) : a[i].at = At(s) + i /\ a[i].byte = contents[At(s) + i]
  BY <1>1, AheadIsTheRest
<1>3. Len(contents) \in Nat
  BY DEF TypeOK
<1>4. DirectRead(s) = IF n = 0 THEN {<<>>} ELSE SomeOf(SubSeq(a, 1, n))
  BY <1>1 DEF DirectRead
<1> HIDE DEF a
<1>5. CASE n = 0
  <2>1. bytes = <<>> /\ Len(a) = 0
    BY <1>2, <1>4, <1>5, StreamsAssumption
  <2> QED
    BY <1>1, <1>2, <1>3, <2>1
<1>6. CASE n # 0
  <2>1. n \in 1 .. Len(a)
    BY <1>2, <1>6, StreamsAssumption
  <2> DEFINE b == SubSeq(a, 1, n)
  <2>2. b \in Seq(Byte) /\ Len(b) = n /\ \A i \in 1 .. n : b[i] = a[i]
    <3>1. n \in Int /\ \A i \in 1 .. n : a[i] \in Byte
      BY <1>2, <2>1, ElementOfSeq
    <3> QED
      BY <1>2, <2>1, <3>1, SubSeqProperties
  <2> HIDE DEF b
  <2>3. PICK m \in 1 .. Len(b) : bytes = SubSeq(b, 1, m)
    BY <1>4, <1>6 DEF SomeOf, b
  <2>4. bytes \in Seq(Byte) /\ Len(bytes) = m /\ \A i \in 1 .. m : bytes[i] = b[i]
    BY <2>2, <2>3, SubSeqProperties
  <2>5. m \in 1 .. Len(a) /\ Len(bytes) = m
    BY <1>2, <2>1, <2>2, <2>4
  <2>6. Len(a) = Len(contents) - At(s)
    BY <1>2, <1>3, <2>5
  <2>7. \A i \in 1 .. m : bytes[i] = a[i]
    BY <2>1, <2>2, <2>4
  <2> HIDE DEF n
  <2>8. bytes # <<>>
    BY <2>4, <2>5, EmptySeq
  <2>9. \A i \in 1 .. m : i \in 1 .. Len(a)
    BY <2>5
  <2>10. At(s) + Len(bytes) <= Len(contents)
    BY <1>2, <1>3, <2>5, <2>6
  <2> QED
    BY <1>1, <1>2, <2>4, <2>5, <2>7, <2>8, <2>9, <2>10
<1> QED
  BY <1>5, <1>6

-----------------------------------------------------------------------------
(* THE CALL THAT READS *)

(* What becomes of a read on a stream: it goes on with that stream, or ends*)
GoesOn(c) == {Idle} \cup {r \in ReadCall : r.on = c.on}

LEMMA ReturnedGoesOn ==
    ASSUME NEW c \in ReadCall
    PROVE  Returned(c) \in GoesOn(c)
<1> DEFINE lines == IF c.got = <<>> /\ c.line = <<>> THEN c.lines
                    ELSE Append(c.lines, Chomp(c.line))
           more == [c EXCEPT !.line = @ \o c.got]
           next == [c EXCEPT !.line = <<>>, !.lines = lines]
<1>1. c.line \in Seq(Byte) /\ c.got \in Seq(Byte) /\ c.lines \in Seq(Seq(Byte))
  BY DEF ReadCall
<1>2. \A r \in ReadCall : r.on = c.on => Again(r) \in GoesOn(c)
  <2>1. <<>> \in Seq(Byte)
    BY EmptySeq
  <2> SUFFICES ASSUME NEW r \in ReadCall, r.on = c.on
               PROVE  Again(r) \in ReadCall /\ Again(r).on = c.on
    BY DEF GoesOn
  <2>2. Again(r).on = c.on
    BY DEF Again, ReadCall
  <2>3. Again(r) \in ReadCall
    <3> DEFINE none == <<>>
               zero == 0
               one == 1
    <3>1. Again(r) = [r EXCEPT !.left = one, !.read = zero, !.rune = none, !.got = none]
      BY DEF Again
    <3>2. none \in Seq(Byte) /\ zero \in Nat /\ one \in Int
      BY <2>1
    <3> HIDE DEF none, zero, one
    <3> QED
      BY <3>1, <3>2 DEF ReadCall
  <2> QED
    BY <2>2, <2>3
<1>3. Chomp(c.line) \in Seq(Byte)
  <2>1. CASE c.line = <<>>
    BY <1>1, <2>1 DEF Chomp
  <2>2. CASE c.line # <<>>
    <3>1. \A i \in 1 .. Len(c.line) - 1 : c.line[i] \in Byte
      BY <1>1, ElementOfSeq
    <3>2. Len(c.line) - 1 \in Int
      BY <1>1
    <3>3. Front(c.line) \in Seq(Byte)
      BY <3>1, <3>2, SubSeqProperties DEF Front
    <3> QED
      BY <1>1, <3>3 DEF Chomp
  <2> QED
    BY <2>1, <2>2
<1>4. lines \in Seq(Seq(Byte))
  BY <1>1, <1>3, AppendProperties
<1>5. c.line \o c.got \in Seq(Byte)
  BY <1>1, ConcatProperties
<1>6. more \in ReadCall /\ more.on = c.on
  BY <1>5 DEF ReadCall
<1> HIDE DEF lines
<1>7. next \in ReadCall /\ next.on = c.on
  BY <1>4, EmptySeq DEF ReadCall
<1>8. Again(more) \in GoesOn(c) /\ Again(next) \in GoesOn(c) /\ Idle \in GoesOn(c)
  BY <1>2, <1>6, <1>7 DEF GoesOn
<1> HIDE DEF more, next
<1>9. Returned(c) \in {Idle, Again(more), Again(next)}
  BY DEF Returned, lines, more, next
<1> QED
  BY <1>8, <1>9

LEMMA CompleteGoesOn ==
    ASSUME NEW c \in ReadCall, NEW bytes \in Seq(Byte)
    PROVE  Complete(c, bytes) \in GoesOn(c)
<1> DEFINE more == [c EXCEPT !.got = @ \o bytes, !.left = IF c.all THEN 0 ELSE @ - 1,
                             !.rune = <<>>,
                             !.read = IF @ + 1 = kBufferSize THEN 0 ELSE @ + 1]
<1>1. c.got \o bytes \in Seq(Byte)
  BY ConcatProperties DEF ReadCall
<1>2. more \in ReadCall /\ more.on = c.on
  <2> DEFINE left == IF c.all THEN 0 ELSE c.left - 1
             read == IF c.read + 1 = kBufferSize THEN 0 ELSE c.read + 1
  <2>1. left \in Int /\ read \in Nat /\ <<>> \in Seq(Byte)
    BY EmptySeq DEF ReadCall
  <2>2. more = [c EXCEPT !.got = c.got \o bytes, !.left = left, !.rune = <<>>, !.read = read]
    OBVIOUS
  <2> HIDE DEF left, read
  <2> QED
    BY <1>1, <2>1, <2>2 DEF ReadCall
<1> HIDE DEF more
<1>3. more \in GoesOn(c) /\ Returned(more) \in GoesOn(c)
  BY <1>2, ReturnedGoesOn DEF GoesOn
<1> QED
  BY <1>3 DEF Complete, more

LEMMA TakenGoesOn ==
    ASSUME NEW c \in ReadCall, NEW b \in Byte
    PROVE  Taken(c, b) \in GoesOn(c)
<1>1. <<b>> \in Seq(Byte) /\ Append(c.rune, b) \in Seq(Byte)
  BY AppendProperties DEF ReadCall
<1>2. [c EXCEPT !.rune = <<b>>] \in GoesOn(c)
  BY <1>1 DEF ReadCall, GoesOn
<1>3. /\ Complete(c, <<b>>) \in GoesOn(c)
      /\ Complete(c, Append(c.rune, b)) \in GoesOn(c)
      /\ Returned(c) \in GoesOn(c)
  BY <1>1, CompleteGoesOn, ReturnedGoesOn
<1> QED
  BY <1>2, <1>3 DEF Taken

-----------------------------------------------------------------------------
(* WHAT A STEP LEAVES ALONE *)

(* Descriptors keep their owners while none is opened, closed or moved.    *)
LEMMA SameOwners ==
    ASSUME OneOwner,
           \A s \in Streams : /\ Live(s)' <=> Live(s)
                              /\ Live(s) => stream'[s].handle = stream[s].handle,
           \A d \in Descriptors : /\ OnItsWay(d)' <=> OnItsWay(d)
                                  /\ descriptor'[d] = Free <=> descriptor[d] = Free,
           TypeOK
    PROVE  OneOwner'
<1>1. \A s \in Streams : Live(s) /\ stream[s].handle > 0 => stream[s].handle \in Descriptors
  BY LiveIsObject DEF StreamObject
<1> QED
  BY <1>1 DEF OneOwner

(* Nothing is read and nothing sent in the beginning.                      *)
LEMMA ProgressStarts ==
    ASSUME NEW file, Len(file) \in Nat
    PROVE  Progress(<<>>, <<>>, 0, FALSE, file)
<1> DEFINE none == <<>>
<1>1. Len(none) = 0
  OBVIOUS
<1> HIDE DEF none
<1> DEFINE start == 0 - Len(none)
<1>2. start = 0
  BY <1>1
<1>3. \A i \in 1 .. Len(none) : FALSE
  BY <1>1
<1> HIDE DEF start
<1>4. /\ start \in Nat /\ 0 <= Len(file) /\ Len(none) = start
      /\ \A i \in 1 .. Len(none) : none[i].at = start + i /\ none[i].byte = file[start + i]
      /\ \A i \in 1 .. Len(none) : none[i].at <= start
      /\ \A i \in 1 .. Len(none) : none[i].byte = file[i]
  BY <1>1, <1>2, <1>3
<1>5. Progress(none, none, 0, FALSE, file)
  BY <1>4 DEF Progress, start
<1> QED
  BY <1>5 DEF none

(* What was read and sent stays true of a file that grows.                 *)
LEMMA ProgressInLongerFile ==
    ASSUME NEW sent \in Seq(Byte), NEW chunk \in Seq(Byte), NEW at \in Nat, NEW cut,
           NEW file \in Seq(Bytes), NEW b \in Bytes,
           Progress(sent, chunk, at, cut, file)
    PROVE  Progress(sent, chunk, at, cut, Append(file, b))
<1> DEFINE p == at - Len(chunk)
           longer == Append(file, b)
<1>1. Len(longer) = Len(file) + 1 /\ \A i \in 1 .. Len(file) : longer[i] = file[i]
  BY AppendProperties
<1>2. p \in Nat /\ at \in Int /\ at <= Len(file) /\ p + Len(chunk) <= Len(file)
  BY DEF Progress
<1>3. /\ \A i \in 1 .. Len(chunk) : p + i \in 1 .. Len(file)
      /\ Len(sent) = p => \A i \in 1 .. Len(sent) : i \in 1 .. Len(file)
  BY <1>2
<1> HIDE DEF longer
<1> QED
  BY <1>1, <1>2, <1>3 DEF Progress, longer

LEMMA ElsewhereStep ==
    ASSUME IInv, Elsewhere
    PROVE  IInv'
<1>1. PICK b \in Bytes : contents' = Append(contents, b)
  BY DEF Elsewhere
<1>2. /\ UNCHANGED <<descriptor, stream, call, setup>>
      /\ contents \in Seq(Bytes)
  BY DEF Elsewhere, IInv, TypeOK
<1>3. /\ contents' \in Seq(Bytes) /\ Len(contents') = Len(contents) + 1
      /\ \A i \in 1 .. Len(contents) : contents'[i] = contents[i]
  BY <1>1, <1>2, AppendProperties
<1>4. TypeOK'
  BY <1>2, <1>3 DEF IInv, TypeOK
<1>5. OneOwner' /\ Roles' /\ CallOK' /\ Unsent' /\ SentInOrder' /\ NothingIsSkipped'
  BY <1>2 DEF IInv, OneOwner, Roles, CallOK, Unsent, SentInOrder, NothingIsSkipped,
              Live, Held, Script, OnFile, At, OnItsWay, Serves, InOrder
<1>6. Piped'
  <2> SUFFICES ASSUME call.op = "pipe", OnFile(call.from)
               PROVE  Progress(stream[call.to].sent, call.chunk, At(call.from), call.cut, contents')
    BY <1>2 DEF IInv, Piped, OnFile, At
  <2>1. /\ Progress(stream[call.to].sent, call.chunk, At(call.from), call.cut, contents)
        /\ call.chunk \in Seq(Byte) /\ stream[call.to].sent \in Seq(Byte)
    BY CallKinds, LiveIsObject DEF IInv, Piped, CallOK, Serves, Held, StreamObject, PipeCall
  <2>2. At(call.from) \in Nat
    BY CallKinds, AheadIsTheRest DEF IInv, CallOK, Serves, Roles, PipeCall
  <2> QED
    BY <1>1, <1>2, <2>1, <2>2, ProgressInLongerFile
<1> QED
  BY <1>4, <1>5, <1>6 DEF IInv

-----------------------------------------------------------------------------
(* OPENING AND CLOSING *)

(* A descriptor that is free is nobody's. *)
LEMMA FreeIsNobodys ==
    ASSUME IInv, NEW d \in Descriptors, descriptor[d] = Free, d # 0
    PROVE  ~OnItsWay(d) /\ \A s \in Streams : Live(s) => stream[s].handle # d
  BY DEF IInv, OneOwner, Descriptors

(* A descriptor is given out and on its way to a stream.                   *)
LEMMA OpenedHasOwner ==
    ASSUME IInv, call.op # "new", NEW d \in Descriptors, descriptor[d] = Free,
           NEW x, x # Free, descriptor' = [descriptor EXCEPT ![d] = x],
           call'.op = "new", call'.handle = d, UNCHANGED stream
    PROVE  OneOwner'
<1>1. /\ \A e \in Descriptors : descriptor'[e] = IF e = d THEN x ELSE descriptor[e]
      /\ \A s \in Streams : Live(s)' <=> Live(s)
      /\ \A e : OnItsWay(e)' <=> e = d
      /\ \A e : ~OnItsWay(e)
  BY DEF IInv, TypeOK, Live, OnItsWay
<1>2. \A s \in Streams : Live(s) /\ stream[s].handle > 0 => stream[s].handle \in Descriptors \ {d}
  BY LiveIsObject, FreeIsNobodys DEF IInv, StreamObject
<1> QED
  BY <1>1, <1>2 DEF IInv, OneOwner

(* Nothing changes for streams whose descriptors are not touched.          *)
LEMMA SameReading ==
    ASSUME NothingIsSkipped,
           \A s \in Streams :
              Script(s)' /\ stream'[s].whole /\ stream'[s].handle # 0 =>
                 /\ Script(s) /\ stream[s].whole /\ stream[s].handle # 0
                 /\ stream'[s].buffer = stream[s].buffer
                 /\ stream'[s].next = stream[s].next
                 /\ At(s)' = At(s)
    PROVE  NothingIsSkipped'
  BY DEF NothingIsSkipped

LEMMA OpenStep ==
    ASSUME IInv, call = Idle, NEW mode \in {"r", "w", "rw"}, NEW append \in BOOLEAN,
           NEW for \in {"text", "binary"} \cup Streams,
           for \in Streams => Held(for) /\ stream[for].kind = "socket",
           Open(mode, append, for)
    PROVE  IInv'
<1> DEFINE d == Lowest(FreeDescriptors)
           x == [what |-> "file", at |-> 0, append |-> append /\ mode # "r"]
<1>1. d \in Descriptors /\ descriptor[d] = Free
  BY LowestIsFree DEF Open
<1>2. /\ descriptor' = [descriptor EXCEPT ![d] = x]
      /\ call' = [op |-> "new", kind |-> "file", handle |-> d, mode |-> mode, for |-> for]
      /\ contents' = IF mode = "r" \/ append THEN contents ELSE <<>>
      /\ UNCHANGED <<stream, setup>>
      /\ call.op = "idle"
  BY DEF Open, Idle
<1> HIDE DEF d
<1>3. x \in OpenFile /\ x # Free /\ x.what = "file" /\ x.at = 0
  BY DEF OpenFile, Free
<1> HIDE DEF x
<1>4. \A e \in Descriptors : descriptor'[e] = IF e = d THEN x ELSE descriptor[e]
  BY <1>2 DEF IInv, TypeOK
<1>5. TypeOK'
  <2>1. descriptor' \in [Descriptors -> {Free, Other} \cup OpenFile]
    BY <1>1, <1>2, <1>3 DEF IInv, TypeOK
  <2>2. call' \in NewCall
    BY <1>1, <1>2 DEF NewCall
  <2>3. contents' \in Seq(Bytes)
    BY <1>2, EmptySeq DEF IInv, TypeOK
  <2> QED
    BY <1>2, <2>1, <2>2, <2>3 DEF IInv, TypeOK
<1>6. OneOwner'
  BY <1>1, <1>2, <1>3, OpenedHasOwner
<1>7. Roles' /\ Unsent' /\ SentInOrder' /\ Piped'
  BY <1>2 DEF IInv, Roles, Unsent, SentInOrder, Piped, Held, Live, InOrder
<1>8. CallOK'
  BY <1>1, <1>2, <1>3, <1>4, NamesAssumption DEF IInv, CallOK, Held, Live
<1>9. NothingIsSkipped'
  <2>1. \A s \in Streams : Script(s) /\ stream[s].handle # 0 =>
            stream[s].handle \in Descriptors /\ stream[s].handle # d
    BY <1>1, FreeIsNobodys DEF IInv, Roles, Script, Held
  <2>2. \A s \in Streams : Script(s)' <=> Script(s)
    BY <1>2 DEF Script, Held, Live
  <2> QED
    BY <1>2, <1>4, <2>1, <2>2, SameReading DEF IInv, At
<1> QED
  BY <1>5, <1>6, <1>7, <1>8, <1>9 DEF IInv

LEMMA FileOpenStep ==
    ASSUME IInv, file_s_open
    PROVE  IInv'
<1>1. PICK mode \in Setups[setup].modes, append \in BOOLEAN :
          Open(mode.mode, append, IF mode.binary THEN "binary" ELSE "text")
  BY DEF file_s_open
<1>2. mode.mode \in {"r", "w", "rw"}
  BY SetupsAssumption DEF IInv, TypeOK
<1> QED
  BY <1>1, <1>2, OpenStep, NamesAssumption DEF file_s_open

LEMMA ServeFileStep ==
    ASSUME IInv, NEW c \in Streams, ServeFile(c)
    PROVE  IInv'
  BY OpenStep DEF ServeFile

LEMMA AcceptStep ==
    ASSUME IInv, Accept
    PROVE  IInv'
<1> DEFINE d == Lowest(FreeDescriptors)
<1>1. d \in Descriptors /\ descriptor[d] = Free
  BY LowestIsFree DEF Accept
<1>2. /\ descriptor' = [descriptor EXCEPT ![d] = Other]
      /\ call' = [op |-> "new", kind |-> "socket", handle |-> d, mode |-> "rw", for |-> "server"]
      /\ UNCHANGED <<contents, stream, setup>>
      /\ call.op = "idle"
  BY DEF Accept, Idle
<1> HIDE DEF d
<1>3. Other # Free
  BY DEF Other, Free
<1>4. \A e \in Descriptors : descriptor'[e] = IF e = d THEN Other ELSE descriptor[e]
  BY <1>2 DEF IInv, TypeOK
<1>5. TypeOK'
  <2>1. descriptor' \in [Descriptors -> {Free, Other} \cup OpenFile]
    BY <1>1, <1>2 DEF IInv, TypeOK
  <2>2. call' \in NewCall
    BY <1>1, <1>2 DEF NewCall
  <2> QED
    BY <1>2, <2>1, <2>2 DEF IInv, TypeOK
<1>6. OneOwner'
  BY <1>1, <1>2, <1>3, OpenedHasOwner
<1>7. Roles' /\ Unsent' /\ SentInOrder' /\ Piped'
  BY <1>2 DEF IInv, Roles, Unsent, SentInOrder, Piped, Held, Live, InOrder
<1>8. CallOK'
  BY <1>2, NamesAssumption DEF CallOK
<1>9. NothingIsSkipped'
  <2>1. \A s \in Streams : Script(s) /\ stream[s].handle # 0 =>
            stream[s].handle \in Descriptors /\ stream[s].handle # d
    BY <1>1, FreeIsNobodys DEF IInv, Roles, Script, Held
  <2>2. \A s \in Streams : Script(s)' <=> Script(s)
    BY <1>2 DEF Script, Held, Live
  <2> QED
    BY <1>2, <1>4, <2>1, <2>2, SameReading DEF IInv, At
<1> QED
  BY <1>5, <1>6, <1>7, <1>8, <1>9 DEF IInv

LEMMA NewStep ==
    ASSUME IInv, New
    PROVE  IInv'
<1>1. PICK s \in Setups[setup].streams :
          /\ ~Live(s)
          /\ stream' = [stream EXCEPT ![s] =
                [kind |-> call.kind, mode |-> call.mode, handle |-> call.handle, held |-> TRUE,
                 object |-> call.for \in {"text", "binary"}, binary |-> call.for = "binary",
                 buffer |-> <<>>, next |-> 1, whole |-> TRUE, sent |-> <<>>]]
          /\ call' = IF call.kind = "file" /\ call.for \in Streams
                     THEN [op |-> "head", from |-> s, to |-> call.for] ELSE Idle
  BY DEF New
<1>2. s \in Streams /\ call \in NewCall /\ call.op = "new"
  BY SetupsAssumption, CallKinds DEF IInv, TypeOK, New
<1> DEFINE x == stream'[s]
<1>3. /\ \A t \in Streams : t # s => stream'[t] = stream[t]
      /\ x.kind = call.kind /\ x.handle = call.handle /\ x.held = TRUE
      /\ x.object <=> call.for \in {"text", "binary"}
      /\ x.buffer = <<>> /\ x.next = 1 /\ x.sent = <<>>
  BY <1>1, <1>2 DEF IInv, TypeOK
<1>4. x \in StreamObject
  <2> DEFINE one == 1
             none == <<>>
             o == call.for \in {"text", "binary"}
             b == call.for = "binary"
  <2>1. x = [kind |-> call.kind, mode |-> call.mode, handle |-> call.handle, held |-> TRUE,
             object |-> o, binary |-> b, buffer |-> none, next |-> one, whole |-> TRUE, sent |-> none]
    BY <1>1, <1>2 DEF IInv, TypeOK
  <2>2. one \in Nat /\ none \in Seq(Byte) /\ o \in BOOLEAN /\ b \in BOOLEAN
    BY EmptySeq
  <2> HIDE DEF one, none, o, b, x
  <2> QED
    BY <1>2, <2>1, <2>2 DEF StreamObject, NewCall
<1>5. UNCHANGED <<contents, descriptor, setup>>
  BY DEF New
<1>6. \/ call' = Idle /\ call'.op = "idle"
      \/ /\ call.kind = "file" /\ call.for \in Streams
         /\ call' = [op |-> "head", from |-> s, to |-> call.for]
  BY <1>1 DEF Idle
<1>7. /\ stream' \in [Streams -> {None} \cup StreamObject]
      /\ \A t \in Streams : Live(t)' <=> (t = s \/ Live(t))
      /\ \A t \in Streams : Held(t)' <=> (t = s \/ Held(t))
  <2>1. stream' \in [Streams -> {None} \cup StreamObject]
    BY <1>1, <1>2, <1>4 DEF IInv, TypeOK
  <2>2. \A t \in Streams : Live(t)' <=> (t = s \/ Live(t))
    BY <1>2, <1>3, <1>4 DEF Live, StreamObject
  <2> QED
    BY <1>3, <2>1, <2>2 DEF Held
<1> HIDE DEF x
<1>8. TypeOK'
  <2>1. call' \in {Idle} \cup HeadCall
    BY <1>2, <1>6 DEF HeadCall
  <2> QED
    BY <1>5, <1>7, <2>1 DEF IInv, TypeOK
<1>9. OneOwner'
  <2>1. \A d : OnItsWay(d) <=> d = call.handle
    BY <1>2 DEF OnItsWay
  <2>2. \A d : ~OnItsWay(d)'
    BY <1>6 DEF OnItsWay
  <2>3. \A t \in Streams : Live(t) /\ stream[t].handle > 0 => stream[t].handle # call.handle
    BY <2>1 DEF IInv, OneOwner
  <2>4. call.handle \in Descriptors
    BY <1>2 DEF NewCall
  <2>5. \A t \in Streams : stream'[t].handle = IF t = s THEN call.handle ELSE stream[t].handle
    BY <1>3 DEF x
  <2>6. \A t, u \in Streams : Live(t)' /\ Live(u)' /\ stream'[t].handle = stream'[u].handle
                                 /\ stream'[t].handle > 0 => t = u
    BY <1>7, <2>3, <2>5 DEF IInv, OneOwner
  <2>7. \A t \in Streams : Live(t)' /\ stream'[t].handle > 0 => descriptor'[stream'[t].handle] # Free
    BY <1>2, <1>5, <1>7, <2>1, <2>4, <2>5 DEF IInv, OneOwner, Descriptors
  <2>8. \A d \in Descriptors \ {0} : descriptor'[d] # Free =>
            \E t \in Streams : Live(t)' /\ stream'[t].handle = d
    <3> SUFFICES ASSUME NEW d \in Descriptors \ {0}, descriptor[d] # Free
                 PROVE  \E t \in Streams : Live(t)' /\ stream'[t].handle = d
      BY <1>5
    <3>1. CASE OnItsWay(d)
      BY <1>2, <1>7, <2>1, <2>5, <3>1
    <3>2. CASE ~OnItsWay(d)
      <4>1. PICK t \in Streams : Live(t) /\ stream[t].handle = d
        BY <3>2 DEF IInv, OneOwner
      <4> QED
        BY <1>1, <1>7, <2>5, <4>1
    <3> QED
      BY <3>1, <3>2
  <2> QED
    BY <2>2, <2>6, <2>7, <2>8 DEF OneOwner
<1>10. Roles'
  BY <1>2, <1>3, <1>7, NamesAssumption DEF x, IInv, Roles, CallOK, NewCall
<1>11. CallOK'
  <2> SUFFICES ASSUME call.kind = "file", call.for \in Streams,
                      call' = [op |-> "head", from |-> s, to |-> call.for]
               PROVE  CallOK'
    BY <1>6 DEF CallOK
  <2> PICK c \in Streams : c = call.for
    OBVIOUS
  <2>1. Held(c) /\ stream[c].kind = "socket" /\ c # s
    BY <1>1, <1>2 DEF IInv, CallOK, Held
  <2>2. Serves(s, c)'
    BY <1>2, <1>3, <1>7, <2>1, NamesAssumption DEF x, Serves
  <2>3. OnFile(s)' => At(s)' = 0
    BY <1>2, <1>3, <1>5 DEF x, IInv, CallOK, OnFile, At
  <2> QED
    BY <2>2, <2>3 DEF CallOK
<1>12. Unsent' /\ SentInOrder' /\ Piped'
  BY <1>2, <1>3, <1>6, <1>7 DEF x, IInv, Unsent, SentInOrder, Piped, InOrder
<1>13. NothingIsSkipped'
  <2> SUFFICES ASSUME NEW t \in Streams, Script(t)', stream'[t].whole, stream'[t].handle # 0
               PROVE  /\ \A i \in DOMAIN stream'[t].buffer :
                            stream'[t].buffer[i].at = stream'[t].next + i - 1
                      /\ At(t)' = stream'[t].next + Len(stream'[t].buffer) - 1
    BY DEF NothingIsSkipped
  <2>1. CASE t # s
    BY <1>3, <1>5, <1>7, <2>1 DEF IInv, NothingIsSkipped, Script, At
  <2>2. CASE t = s
    <3>1. call.kind = "file" /\ descriptor[call.handle].at = 0
      BY <1>2, <1>3, <2>2, NamesAssumption DEF x, IInv, CallOK, Script, NewCall
    <3>2. At(t)' = 0
      BY <1>3, <1>5, <2>2, <3>1 DEF x, At
    <3> QED
      BY <1>3, <2>2, <3>2 DEF x
  <2> QED
    BY <2>1, <2>2
<1> QED
  BY <1>8, <1>9, <1>10, <1>11, <1>12, <1>13 DEF IInv

(* Descriptors are closed whose streams are left without them.             *)
LEMMA ClosedAreFree ==
    ASSUME IInv, NEW C, NEW D \in SUBSET Streams,
           TypeOK', descriptor' = Closing(C),
           \A s \in Streams \ D : stream'[s].handle = stream[s].handle /\ (Live(s)' <=> Live(s)),
           \A s \in D : Live(s) /\ (Live(s)' => stream'[s].handle <= 0),
           \A d \in Descriptors \ {0} : d \in C <=> \E s \in D : stream[s].handle = d,
           \A d \in Descriptors \ {0} : OnItsWay(d)' <=> OnItsWay(d)
    PROVE  OneOwner'
<1>1. /\ \A s \in Streams : Live(s) => stream[s].handle \in Descriptors \cup {-1}
      /\ \A s \in Streams : Live(s)' => stream'[s].handle \in Descriptors \cup {-1}
  <2>1. \A r \in StreamObject : r.handle \in Descriptors \cup {-1}
    BY DEF StreamObject
  <2> QED
    BY <2>1 DEF IInv, TypeOK, Live, None
<1>2. \A d \in Descriptors : descriptor'[d] = IF d \in C THEN Free ELSE descriptor[d]
  BY DEF Closing
<1>3. \A s \in Streams : Live(s)' /\ stream'[s].handle > 0 => s \notin D /\ Live(s)
  BY <1>1, StreamsAssumption DEF Descriptors
<1>4. \A s \in Streams \ D : Live(s) /\ stream[s].handle > 0 => stream[s].handle \notin C
  BY <1>1 DEF IInv, OneOwner, Descriptors
<1>5. \A d \in Descriptors \ {0} : OnItsWay(d) => d \notin C
  BY DEF IInv, OneOwner, Descriptors
<1>6. \A s, t \in Streams : Live(s)' /\ Live(t)' /\ stream'[s].handle = stream'[t].handle
                               /\ stream'[s].handle > 0 => s = t
  BY <1>3 DEF IInv, OneOwner
<1>7. \A s \in Streams : Live(s)' /\ stream'[s].handle > 0 =>
          descriptor'[stream'[s].handle] # Free /\ ~OnItsWay(stream[s].handle)
  BY <1>1, <1>2, <1>3, <1>4 DEF IInv, OneOwner
<1>8. \A d \in Descriptors \ {0} : OnItsWay(d) => descriptor'[d] # Free
  BY <1>2, <1>5 DEF IInv, OneOwner
<1>9. \A d \in Descriptors \ {0} : descriptor'[d] # Free =>
          OnItsWay(d) \/ \E s \in Streams : Live(s)' /\ stream'[s].handle = d
  <2> SUFFICES ASSUME NEW d \in Descriptors \ {0}, descriptor[d] # Free, d \notin C, ~OnItsWay(d)
               PROVE  \E s \in Streams : Live(s)' /\ stream'[s].handle = d
    BY <1>2
  <2>1. PICK s \in Streams : Live(s) /\ stream[s].handle = d
    BY DEF IInv, OneOwner
  <2> QED
    BY <2>1
<1>10. \A s \in Streams : Live(s)' /\ stream'[s].handle > 0 =>
           descriptor'[stream'[s].handle] # Free /\ ~(call'.op = "new" /\ call'.handle = stream'[s].handle)
  <2> SUFFICES ASSUME NEW s \in Streams, Live(s)', stream'[s].handle > 0
               PROVE  descriptor'[stream'[s].handle] # Free
                      /\ ~(call'.op = "new" /\ call'.handle = stream'[s].handle)
    OBVIOUS
  <2> DEFINE d == stream[s].handle
  <2>1. stream'[s].handle = d /\ d \in Descriptors \ {0}
    BY <1>1, <1>3 DEF Descriptors
  <2>2. descriptor'[d] # Free /\ ~OnItsWay(d)
    BY <1>7, <2>1
  <2> HIDE DEF d
  <2> QED
    BY <2>1, <2>2 DEF OnItsWay
<1> QED
  BY <1>6, <1>8, <1>9, <1>10 DEF OneOwner, OnItsWay

LEMMA CloseStep ==
    ASSUME IInv, NEW s \in Streams, Close(s)
    PROVE  IInv'
<1>1. /\ call = Idle /\ call.op = "idle" /\ Script(s) /\ Live(s)
      /\ descriptor' = Closing({stream[s].handle})
      /\ UNCHANGED <<contents, call, setup>>
  BY DEF Close, Idle, Script, Held
<1> DEFINE x == [stream[s] EXCEPT !.handle = Shut(s), !.held = FALSE, !.object = FALSE]
<1>2. /\ stream' = [stream EXCEPT ![s] = x]
      /\ stream[s] \in StreamObject
  BY <1>1, LiveIsObject DEF IInv, Close, TypeOK
<1>3. Shut(s) \in {0, -1} /\ Shut(s) \in Descriptors \cup {-1}
  BY StreamsAssumption DEF Shut, Descriptors
<1>4. /\ x \in StreamObject
      /\ x.handle = Shut(s) /\ x.held = FALSE /\ x.object = FALSE /\ x.sent = stream[s].sent
  BY <1>2, <1>3 DEF StreamObject
<1> HIDE DEF x
<1>5. /\ stream' \in [Streams -> {None} \cup StreamObject]
      /\ \A t \in Streams : stream'[t] = IF t = s THEN x ELSE stream[t]
  BY <1>2, <1>4 DEF IInv, TypeOK
<1>6. \A t \in Streams : /\ Live(t)' <=> Live(t)
                         /\ Held(t)' <=> (Held(t) /\ t # s)
  BY <1>1, <1>4, <1>5 DEF Held, Live, StreamObject
<1>7. \A d \in Descriptors :
          descriptor'[d] = IF d = stream[s].handle THEN Free ELSE descriptor[d]
  BY <1>1 DEF Closing
<1>8. TypeOK'
  <2>1. descriptor' \in [Descriptors -> {Free, Other} \cup OpenFile]
    BY <1>1 DEF IInv, TypeOK, Closing
  <2> QED
    BY <1>1, <1>5, <2>1 DEF IInv, TypeOK
<1>9. OneOwner'
  <2> DEFINE C == {stream[s].handle}
             D == {s}
  <2>1. \A t \in Streams \ D : stream'[t].handle = stream[t].handle /\ (Live(t)' <=> Live(t))
    BY <1>5, <1>6
  <2>2. \A t \in D : Live(t) /\ (Live(t)' => stream'[t].handle <= 0)
    BY <1>1, <1>3, <1>4, <1>5
  <2>3. \A d \in Descriptors \ {0} : d \in C <=> \E t \in D : stream[t].handle = d
    OBVIOUS
  <2>4. \A d \in Descriptors \ {0} : OnItsWay(d)' <=> OnItsWay(d)
    BY <1>1 DEF OnItsWay
  <2> QED
    BY <1>1, <1>8, <2>1, <2>2, <2>3, <2>4, ClosedAreFree
<1>10. Roles' /\ Unsent' /\ SentInOrder' /\ Piped' /\ CallOK'
  BY <1>1, <1>4, <1>5, <1>6 DEF IInv, Roles, Unsent, SentInOrder, Piped, CallOK, InOrder
<1>11. NothingIsSkipped'
  <2>1. \A t \in Streams : Script(t)' => Script(t) /\ t # s
    BY <1>5, <1>6 DEF Script
  <2>2. \A t \in Streams : Script(t)' /\ stream[t].handle # 0 => At(t)' = At(t)
    <3> SUFFICES ASSUME NEW t \in Streams, Script(t)', stream[t].handle # 0
                 PROVE  At(t)' = At(t)
      OBVIOUS
    <3>1. stream[t].handle # stream[s].handle /\ stream[t].handle \in Descriptors
      BY <1>1, <2>1 DEF IInv, OneOwner, Roles, Script, Held, Descriptors
    <3> QED
      BY <1>5, <1>7, <2>1, <3>1 DEF At
  <2> QED
    BY <1>5, <2>1, <2>2, SameReading DEF IInv
<1> QED
  BY <1>8, <1>9, <1>10, <1>11 DEF IInv

LEMMA ForgetStep ==
    ASSUME IInv, NEW s \in Streams, Forget(s)
    PROVE  IInv'
<1>1. /\ call = Idle /\ call.op = "idle" /\ Held(s) /\ Live(s)
      /\ UNCHANGED <<contents, descriptor, call, setup>>
  BY DEF Forget, Idle, Held
<1> DEFINE x == [stream[s] EXCEPT !.held = FALSE]
<1>2. stream' = [stream EXCEPT ![s] = x] /\ stream[s] \in StreamObject
  BY <1>1, LiveIsObject DEF IInv, Forget, TypeOK
<1>3. /\ x \in StreamObject
      /\ x.handle = stream[s].handle /\ x.held = FALSE /\ x.object = stream[s].object
      /\ x.kind = stream[s].kind /\ x.sent = stream[s].sent
  BY <1>2 DEF StreamObject
<1> HIDE DEF x
<1>4. /\ stream' \in [Streams -> {None} \cup StreamObject]
      /\ \A t \in Streams : stream'[t] = IF t = s THEN x ELSE stream[t]
  BY <1>2, <1>3 DEF IInv, TypeOK
<1>5. \A t \in Streams : /\ Live(t)' <=> Live(t)
                         /\ Held(t)' <=> (Held(t) /\ t # s)
  BY <1>1, <1>3, <1>4 DEF Held, Live, StreamObject
<1>6. TypeOK'
  BY <1>1, <1>4 DEF IInv, TypeOK
<1>7. OneOwner'
  BY <1>1, <1>3, <1>4, <1>5, SameOwners DEF IInv, OnItsWay
<1>8. Roles' /\ Unsent' /\ SentInOrder' /\ Piped' /\ CallOK'
  BY <1>1, <1>3, <1>4, <1>5 DEF IInv, Roles, Unsent, SentInOrder, Piped, CallOK, InOrder
<1>9. NothingIsSkipped'
  BY <1>1, <1>4, <1>5, SameReading DEF IInv, Script, At
<1> QED
  BY <1>6, <1>7, <1>8, <1>9 DEF IInv

(* What is collected is not held; a crash leaves nothing. *)
LEMMA SweepStep ==
    ASSUME IInv, Sweep
    PROVE  IInv'
<1> DEFINE Closed(D, late) == UNION {IF s \in late THEN {stream[s].handle} ELSE Destroyed(s) : s \in D}
           Collects(D, late) == /\ descriptor' = Closing(Closed(D, late))
                                /\ stream' = [s \in Streams |-> IF s \in D THEN None ELSE stream[s]]
                                /\ call' = call
           Crashes == /\ call' = [op |-> "crashed"]
                      /\ descriptor' = [d \in Descriptors |-> Free]
                      /\ stream' = [s \in Streams |-> None]
<1>1. PICK D \in SUBSET {s \in Streams : Live(s) /\ ~Held(s)} :
          \E late \in SUBSET D : Collects(D, late) \/ Crashes
  BY DEF Sweep
<1> PICK late \in SUBSET D : Collects(D, late) \/ Crashes
  BY <1>1
<1>2. UNCHANGED <<contents, setup>> /\ call.op \in {"idle", "new"}
  BY DEF Sweep
<1>3. CASE Crashes
  <2>1. call'.op = "crashed" /\ \A s \in Streams : ~Live(s)'
    BY <1>3 DEF Live, None
  <2>2. TypeOK'
    BY <1>2, <1>3 DEF IInv, TypeOK
  <2>3. OneOwner'
    BY <1>3, <2>1 DEF OneOwner, OnItsWay
  <2> QED
    BY <2>1, <2>2, <2>3
    DEF IInv, Roles, CallOK, Unsent, Piped, SentInOrder, NothingIsSkipped, Script, Held
<1>4. CASE Collects(D, late)
  <2> DEFINE C == Closed(D, late)
  <2>1. \A d \in Descriptors \ {0} : d \in C <=> \E s \in D : stream[s].handle = d
    BY DEF Destroyed
  <2>2. descriptor' = Closing(C)
    BY <1>4
  <2> HIDE DEF C
  <2>3. /\ D \subseteq Streams
        /\ \A s \in D : Live(s) /\ ~Held(s) /\ stream'[s] = None /\ ~Live(s)'
        /\ \A s \in Streams \ D : stream'[s] = stream[s] /\ (Live(s)' <=> Live(s))
    BY <1>1, <1>4 DEF Live, None
  <2>4. \A s \in Streams : /\ Live(s)' => stream'[s] = stream[s] /\ Live(s)
                           /\ Held(s)' => Held(s)
                           /\ Held(s) => Held(s)' /\ stream'[s] = stream[s]
    BY <2>3 DEF Held
  <2>5. \A d \in Descriptors : descriptor'[d] = IF d \in C THEN Free ELSE descriptor[d]
    BY <2>2 DEF Closing
  <2>6. TypeOK'
    <3>1. descriptor' \in [Descriptors -> {Free, Other} \cup OpenFile]
      BY <2>2 DEF IInv, TypeOK, Closing
    <3>2. stream' \in [Streams -> {None} \cup StreamObject]
      BY <1>4 DEF IInv, TypeOK
    <3> QED
      BY <1>2, <1>4, <3>1, <3>2 DEF IInv, TypeOK
  <2>7. OneOwner'
    <3>1. \A d \in Descriptors \ {0} : OnItsWay(d)' <=> OnItsWay(d)
      BY <1>4 DEF OnItsWay
    <3>2. \A s \in Streams \ D : stream'[s].handle = stream[s].handle /\ (Live(s)' <=> Live(s))
      BY <2>3
    <3>3. \A s \in D : Live(s) /\ (Live(s)' => stream'[s].handle <= 0)
      BY <2>3
    <3> QED
      BY <2>1, <2>2, <2>3, <2>6, <3>1, <3>2, <3>3, ClosedAreFree
  <2>8. Roles' /\ Unsent' /\ SentInOrder' /\ Piped'
    BY <1>2, <1>4, <2>4 DEF IInv, Roles, Unsent, SentInOrder, Piped, InOrder
  <2>9. \A d \in Descriptors \ {0} :
            OnItsWay(d) \/ (\E s \in Streams : Held(s) /\ stream[s].handle = d) => d \notin C
    BY <2>1, <2>3 DEF IInv, OneOwner, Held, Descriptors
  <2>10. CallOK'
    <3> SUFFICES ASSUME call.op = "new" PROVE CallOK'
      BY <1>2, <1>4 DEF CallOK
    <3> DEFINE h == call.handle
    <3>1. h \in Descriptors /\ (h # 0 => OnItsWay(h))
      BY CallKinds DEF IInv, NewCall, OnItsWay
    <3>2. h # 0 => descriptor'[h] = descriptor[h]
      BY <2>5, <2>9, <3>1
    <3>3. descriptor'[h] = descriptor[h] \/ descriptor'[h].what # "file"
      BY <2>5, <3>1 DEF Free
    <3> QED
      BY <1>4, <2>4, <3>2, <3>3 DEF IInv, CallOK
  <2>11. NothingIsSkipped'
    <3>1. \A s \in Streams : Script(s)' => Script(s) /\ stream'[s] = stream[s] /\ Held(s)
      BY <2>4 DEF Script
    <3>2. \A s \in Streams : Held(s) /\ stream[s].handle # 0 =>
              stream[s].handle \in Descriptors /\ stream[s].handle \notin C
      BY <2>9 DEF IInv, Roles
    <3> QED
      BY <2>5, <3>1, <3>2, SameReading DEF IInv, At
  <2> QED
    BY <2>6, <2>7, <2>8, <2>10, <2>11 DEF IInv
<1> QED
  BY <1>1, <1>3, <1>4

-----------------------------------------------------------------------------
(* READING AND WRITING *)

LEMMA ReadStep ==
    ASSUME IInv, NEW s \in Streams, NEW kind \in {"read", "line", "lines"}, NEW n \in Nat,
           Read(s, kind, n)
    PROVE  IInv'
<1>1. /\ call = Idle /\ call.op = "idle" /\ Script(s)
      /\ UNCHANGED <<contents, descriptor, stream, setup>>
  BY DEF Read, Idle
<1>2. call' \in ReadCall /\ call'.on = s /\ call'.op = "read"
  <2> DEFINE none == <<>>
             zero == 0
             all == n = 0
             start == stream[s].next
  <2>1. call' = [op |-> "read", kind |-> kind, on |-> s, start |-> start,
                 left |-> n, all |-> all, read |-> zero, rune |-> none, got |-> none,
                 line |-> none, lines |-> none, torn |-> FALSE]
    BY DEF Read
  <2>2. /\ none \in Seq(Byte) /\ none \in Seq(Seq(Byte)) /\ zero \in Nat /\ all \in BOOLEAN
        /\ start \in Nat
    BY <1>1, EmptySeq, LiveIsObject DEF IInv, Script, Held, StreamObject
  <2> HIDE DEF none, zero, all, start
  <2> QED
    BY <2>1, <2>2 DEF ReadCall
<1>3. TypeOK'
  BY <1>1, <1>2 DEF IInv, TypeOK
<1>4. OneOwner'
  BY <1>1, <1>2, SameOwners DEF IInv, OnItsWay, Live
<1>5. Roles' /\ Unsent' /\ SentInOrder' /\ Piped' /\ CallOK'
  BY <1>1, <1>2
  DEF IInv, Roles, Unsent, SentInOrder, Piped, CallOK, InOrder, Script, Held, Live
<1>6. NothingIsSkipped'
  BY <1>1, SameReading DEF IInv, Script, Held, Live, At
<1> QED
  BY <1>3, <1>4, <1>5, <1>6 DEF IInv

(* The call goes on with its stream or ends, and streams keep their files. *)
LEMMA ReadGoesOn ==
    ASSUME IInv, call \in ReadCall, call' \in GoesOn(call),
           UNCHANGED <<contents, setup>>, TypeOK',
           \A s \in Streams : /\ Live(s)' <=> Live(s)
                              /\ Live(s) => /\ stream'[s].handle = stream[s].handle
                                            /\ stream'[s].kind = stream[s].kind
                                            /\ stream'[s].held = stream[s].held
                                            /\ stream'[s].object = stream[s].object
                                            /\ stream'[s].sent = stream[s].sent,
           \A d \in Descriptors : descriptor'[d] = Free <=> descriptor[d] = Free,
           NothingIsSkipped'
    PROVE  IInv'
<1>1. call.op = "read" /\ call'.op \in {"idle", "read"} /\ (call'.op = "read" => call'.on = call.on)
  BY DEF ReadCall, GoesOn, Idle
<1>2. \A s \in Streams : (Held(s)' <=> Held(s)) /\ (Script(s)' <=> Script(s))
  BY DEF Held, Script
<1>3. OneOwner'
  BY <1>1, SameOwners DEF IInv, OnItsWay
<1>4. Roles' /\ Unsent' /\ SentInOrder' /\ Piped'
  BY <1>1, <1>2 DEF IInv, Roles, Unsent, SentInOrder, Piped, InOrder, Held
<1>5. CallOK'
  <2>1. call.on \in Streams /\ Script(call.on)
    BY <1>1 DEF IInv, CallOK, ReadCall
  <2> PICK s \in Streams : s = call.on
    BY <2>1
  <2>2. Script(s)'
    BY <1>2, <2>1
  <2> QED
    BY <1>1, <2>2 DEF CallOK
<1> QED
  BY <1>3, <1>4, <1>5 DEF IInv

LEMMA TakeStep ==
    ASSUME IInv, Take
    PROVE  IInv'
<1> DEFINE s == call.on
           buffer == stream[s].buffer
           b == Head(buffer)
           x == [stream[s] EXCEPT !.buffer = Tail(buffer), !.next = b.at + 1]
<1>1. /\ call \in ReadCall /\ call.op = "read" /\ s \in Streams
      /\ Script(s) /\ Live(s) /\ stream[s] \in StreamObject
      /\ buffer \in Seq(Byte) /\ buffer # <<>>
      /\ UNCHANGED <<contents, descriptor, setup>>
  BY CallKinds, LiveIsObject DEF IInv, CallOK, Take, Script, Held, ReadCall, StreamObject
<1>2. /\ b \in Byte /\ Tail(buffer) \in Seq(Byte) /\ Len(Tail(buffer)) = Len(buffer) - 1
      /\ b = buffer[1] /\ \A i \in 1 .. Len(Tail(buffer)) : Tail(buffer)[i] = buffer[i + 1]
  BY <1>1, HeadTailProperties
<1>3. call' \in GoesOn(call)
  BY <1>1, <1>2, TakenGoesOn DEF Take
<1>4. stream' = [stream EXCEPT ![s] = x]
  BY <1>1 DEF Take, IInv, TypeOK
<1>5. /\ x \in StreamObject
      /\ x.handle = stream[s].handle /\ x.kind = stream[s].kind /\ x.held = stream[s].held
      /\ x.object = stream[s].object /\ x.sent = stream[s].sent /\ x.whole = stream[s].whole
      /\ x.buffer = Tail(buffer) /\ x.next = b.at + 1
  <2> DEFINE rest == Tail(buffer)
             next == b.at + 1
  <2>1. rest \in Seq(Byte) /\ next \in Nat
    BY <1>2 DEF Byte
  <2>2. x = [stream[s] EXCEPT !.buffer = rest, !.next = next]
    OBVIOUS
  <2> HIDE DEF rest, next, x
  <2>3. /\ x \in StreamObject
        /\ x.handle = stream[s].handle /\ x.kind = stream[s].kind /\ x.held = stream[s].held
        /\ x.object = stream[s].object /\ x.sent = stream[s].sent /\ x.whole = stream[s].whole
        /\ x.buffer = rest /\ x.next = next
    BY <1>1, <2>1, <2>2 DEF StreamObject
  <2> QED
    BY <2>3 DEF rest, next
<1> HIDE DEF x, b, buffer
<1>6. /\ stream' \in [Streams -> {None} \cup StreamObject]
      /\ \A t \in Streams : stream'[t] = IF t = s THEN x ELSE stream[t]
  BY <1>1, <1>4, <1>5 DEF IInv, TypeOK
<1>7. \A t \in Streams : Live(t)' <=> Live(t)
  BY <1>1, <1>5, <1>6 DEF Live
<1>8. TypeOK'
  BY <1>1, <1>3, <1>6 DEF IInv, TypeOK, GoesOn
<1>9. NothingIsSkipped'
  <2>1. ASSUME NEW t \in Streams, t # s, Script(t)', stream'[t].whole, stream'[t].handle # 0
        PROVE  /\ \A i \in DOMAIN stream'[t].buffer :
                     stream'[t].buffer[i].at = stream'[t].next + i - 1
               /\ At(t)' = stream'[t].next + Len(stream'[t].buffer) - 1
    BY <1>1, <1>6, <2>1 DEF IInv, NothingIsSkipped, Script, Held, Live, At
  <2>2. ASSUME stream[s].whole, stream[s].handle # 0
        PROVE  /\ \A i \in DOMAIN x.buffer : x.buffer[i].at = x.next + i - 1
               /\ At(s) = x.next + Len(x.buffer) - 1
    <3>1. /\ \A i \in 1 .. Len(buffer) : buffer[i].at = stream[s].next + i - 1
          /\ At(s) = stream[s].next + Len(buffer) - 1
      BY <1>1, <2>2 DEF IInv, NothingIsSkipped, buffer
    <3>2. Len(buffer) \in Nat /\ Len(buffer) > 0 /\ stream[s].next \in Nat
      BY <1>1, EmptySeq DEF StreamObject
    <3>3. b.at = stream[s].next
      BY <1>2, <3>1, <3>2
    <3>4. DOMAIN Tail(buffer) = 1 .. Len(buffer) - 1
      BY <1>2
    <3>5. \A i \in 1 .. Len(buffer) - 1 : Tail(buffer)[i].at = stream[s].next + 1 + i - 1
      <4> SUFFICES ASSUME NEW i \in 1 .. Len(buffer) - 1
                   PROVE  Tail(buffer)[i].at = stream[s].next + 1 + i - 1
        OBVIOUS
      <4>1. Tail(buffer)[i] = buffer[i + 1] /\ i + 1 \in 1 .. Len(buffer)
        BY <1>2, <3>2
      <4>2. buffer[i + 1].at = stream[s].next + (i + 1) - 1
        BY <3>1, <4>1
      <4> QED
        BY <3>2, <4>1, <4>2
    <3>6. Len(Tail(buffer)) = Len(buffer) - 1
      BY <1>2
    <3>7. x.buffer = Tail(buffer) /\ x.next = stream[s].next + 1
      BY <1>5, <3>3
    <3>8. \A i \in DOMAIN x.buffer : x.buffer[i].at = x.next + i - 1
      BY <3>4, <3>5, <3>7
    <3>9. At(s) = x.next + Len(x.buffer) - 1
      <4> DEFINE n == stream[s].next
                 k == Len(buffer)
      <4>1. n \in Nat /\ k \in Nat /\ x.next = n + 1 /\ Len(x.buffer) = k - 1
        BY <3>2, <3>6, <3>7
      <4>2. At(s) = n + k - 1
        BY <3>1
      <4> HIDE DEF n, k
      <4> QED
        BY <4>1, <4>2
    <3> QED
      BY <3>8, <3>9
  <2>3. stream'[s] = x /\ x.handle = stream[s].handle /\ x.whole = stream[s].whole
    BY <1>1, <1>5, <1>6
  <2>4. \A t \in Streams : At(t)' = descriptor[stream'[t].handle].at
    BY <1>1 DEF At
  <2>5. ASSUME NEW t \in Streams, t = s, stream'[t].whole, stream'[t].handle # 0
        PROVE  /\ \A i \in DOMAIN stream'[t].buffer :
                     stream'[t].buffer[i].at = stream'[t].next + i - 1
               /\ At(t)' = stream'[t].next + Len(stream'[t].buffer) - 1
    BY <2>2, <2>3, <2>4, <2>5 DEF At
  <2> QED
    BY <2>1, <2>5 DEF NothingIsSkipped
<1> QED
  BY <1>1, <1>3, <1>5, <1>6, <1>7, <1>8, <1>9, ReadGoesOn

LEMMA FillStep ==
    ASSUME IInv, Fill
    PROVE  IInv'
<1> DEFINE s == call.on
           h == stream[s].handle
<1>1. /\ call \in ReadCall /\ call.op = "read" /\ s \in Streams
      /\ Script(s) /\ Held(s) /\ Live(s) /\ stream[s] \in StreamObject
      /\ h \in Descriptors /\ stream[s].buffer = <<>>
      /\ UNCHANGED <<contents, setup>>
  BY CallKinds, LiveIsObject DEF IInv, CallOK, Roles, Fill, Script, Held, ReadCall
<1>2. PICK bytes \in DirectRead(s) :
          /\ descriptor' = [descriptor EXCEPT ![h].at = @ + Len(bytes)]
          /\ stream' = [stream EXCEPT ![s].buffer = bytes]
          /\ call' = IF bytes # <<>> THEN call
                     ELSE IF stream[s].binary /\ call.read > 0 THEN [call EXCEPT !.read = 0]
                     ELSE Returned(call)
  BY DEF Fill
<1>3. /\ OnFile(s) /\ At(s) \in Nat
      /\ bytes \in Seq(Byte) /\ Len(bytes) \in Nat
      /\ \A i \in 1 .. Len(bytes) : bytes[i].at = At(s) + i
  BY <1>1, ReadGivesTheNext DEF IInv
<1>4. call' \in GoesOn(call)
  <2>1. call \in GoesOn(call) /\ Returned(call) \in GoesOn(call)
    BY <1>1, ReturnedGoesOn DEF GoesOn
  <2>2. [call EXCEPT !.read = 0] \in GoesOn(call)
    <3> DEFINE zero == 0
    <3>1. zero \in Nat
      OBVIOUS
    <3> HIDE DEF zero
    <3>2. [call EXCEPT !.read = zero] \in ReadCall /\ [call EXCEPT !.read = zero].on = s
      BY <1>1, <3>1 DEF ReadCall
    <3> QED
      BY <3>2 DEF GoesOn, zero
  <2> QED
    BY <1>2, <2>1, <2>2
<1> DEFINE x == [stream[s] EXCEPT !.buffer = bytes]
           f == [descriptor[h] EXCEPT !.at = At(s) + Len(bytes)]
<1>5. /\ x \in StreamObject
      /\ x.handle = h /\ x.kind = stream[s].kind /\ x.held = stream[s].held
      /\ x.object = stream[s].object /\ x.sent = stream[s].sent /\ x.whole = stream[s].whole
      /\ x.buffer = bytes /\ x.next = stream[s].next
  BY <1>1, <1>3 DEF StreamObject
<1>6. f \in OpenFile /\ f # Free /\ f.at = At(s) + Len(bytes) /\ descriptor[h] # Free
  <2>1. descriptor[h] \in OpenFile
    BY <1>1, <1>3, DescriptorKinds DEF IInv, OnFile
  <2>2. At(s) + Len(bytes) \in Nat
    BY <1>3
  <2> QED
    BY <2>1, <2>2 DEF OpenFile, Free
<1>7. /\ descriptor' = [descriptor EXCEPT ![h] = f]
      /\ stream' = [stream EXCEPT ![s] = x]
  BY <1>1, <1>2 DEF IInv, TypeOK, At
<1> HIDE DEF x, f
<1>8. /\ stream' \in [Streams -> {None} \cup StreamObject]
      /\ \A t \in Streams : stream'[t] = IF t = s THEN x ELSE stream[t]
      /\ descriptor' \in [Descriptors -> {Free, Other} \cup OpenFile]
      /\ \A d \in Descriptors : descriptor'[d] = IF d = h THEN f ELSE descriptor[d]
  BY <1>1, <1>5, <1>6, <1>7 DEF IInv, TypeOK
<1>9. \A t \in Streams : Live(t)' <=> Live(t)
  BY <1>1, <1>5, <1>8 DEF Live
<1>10. TypeOK'
  BY <1>1, <1>4, <1>8 DEF IInv, TypeOK, GoesOn
<1>11. NothingIsSkipped'
  <2> SUFFICES ASSUME NEW t \in Streams, Script(t)', stream'[t].whole, stream'[t].handle # 0
               PROVE  /\ \A i \in DOMAIN stream'[t].buffer :
                            stream'[t].buffer[i].at = stream'[t].next + i - 1
                      /\ At(t)' = stream'[t].next + Len(stream'[t].buffer) - 1
    BY DEF NothingIsSkipped
  <2>1. CASE t # s
    <3>1. /\ stream'[t] = stream[t] /\ Script(t) /\ Live(t)
          /\ stream[t].handle \in Descriptors /\ stream[t].handle # h
      BY <1>1, <1>8, <1>9, <2>1 DEF IInv, OneOwner, Roles, Script, Held, Descriptors
    <3>2. At(t)' = At(t)
      BY <1>8, <3>1 DEF At
    <3> QED
      BY <3>1, <3>2 DEF IInv, NothingIsSkipped
  <2>2. CASE t = s
    <3>1. stream'[t] = x /\ h # 0 /\ stream[s].whole
      BY <1>5, <1>8, <2>2
    <3>2. At(t)' = At(s) + Len(bytes)
      BY <1>1, <1>5, <1>6, <1>8, <3>1 DEF At
    <3>3. At(s) = stream[s].next - 1
      BY <1>1, <3>1 DEF IInv, NothingIsSkipped, StreamObject
    <3>4. stream[s].next \in Nat /\ DOMAIN bytes = 1 .. Len(bytes)
      BY <1>1, <1>3 DEF StreamObject
    <3>5. \A i \in DOMAIN bytes : bytes[i].at = stream[s].next + i - 1
      BY <1>3, <3>3, <3>4
    <3>6. x.buffer = bytes /\ x.next = stream[s].next
      BY <1>5
    <3> QED
      BY <1>3, <3>1, <3>2, <3>3, <3>4, <3>5, <3>6
  <2> QED
    BY <2>1, <2>2
<1>12. \A d \in Descriptors : descriptor'[d] = Free <=> descriptor[d] = Free
  BY <1>6, <1>8
<1> QED
  BY <1>1, <1>4, <1>5, <1>8, <1>9, <1>10, <1>11, <1>12, ReadGoesOn

LEMMA ReadFailsStep ==
    ASSUME IInv, ReadFails
    PROVE  IInv'
<1>1. call \in ReadCall /\ UNCHANGED <<contents, descriptor, stream, setup>>
  BY CallKinds DEF IInv, ReadFails
<1>2. call' \in GoesOn(call)
  <2>1. [call EXCEPT !.torn = TRUE] \in ReadCall /\ [call EXCEPT !.torn = TRUE].on = call.on
    BY <1>1 DEF ReadCall
  <2>2. Returned([call EXCEPT !.torn = TRUE]) \in GoesOn(call)
    BY <2>1, ReturnedGoesOn DEF GoesOn
  <2> QED
    BY <2>2 DEF ReadFails, GoesOn
<1>3. TypeOK' /\ NothingIsSkipped'
  BY <1>1, <1>2 DEF IInv, TypeOK, GoesOn, NothingIsSkipped, Script, Held, Live, At
<1>4. \A s \in Streams : Live(s)' <=> Live(s)
  BY <1>1 DEF Live
<1> QED
  BY <1>1, <1>2, <1>3, <1>4, ReadGoesOn

LEMMA WriteStep ==
    ASSUME IInv, NEW s \in Streams, NEW n \in Nat, Write(s, n)
    PROVE  IInv'
<1> DEFINE h == stream[s].handle
           from == IF descriptor[h].append THEN Len(contents) ELSE At(s)
           most == IF from + n > Len(contents) THEN from + n ELSE Len(contents)
<1>1. /\ call = Idle /\ call.op = "idle" /\ Script(s) /\ Held(s) /\ Live(s) /\ OnFile(s)
      /\ h \in Descriptors /\ stream[s] \in StreamObject
      /\ UNCHANGED <<call, setup>>
  BY LiveIsObject DEF Write, Idle, IInv, Roles, Script, Held
<1>2. descriptor[h] \in OpenFile /\ descriptor[h] # Free
  BY <1>1, DescriptorKinds DEF IInv, OnFile
<1>3. from \in Nat /\ most \in Nat /\ Len(contents) \in Nat
  BY <1>2 DEF IInv, TypeOK, At, OpenFile
<1> HIDE DEF from
<1> DEFINE x == [stream[s] EXCEPT !.whole = FALSE]
           f == [descriptor[h] EXCEPT !.at = from + n]
           byte(i) == IF i \in DOMAIN contents \ (from + 1 .. from + n) THEN contents[i] ELSE "x"
<1>4. /\ contents' = [i \in 1 .. most |-> byte(i)]
      /\ descriptor' = [descriptor EXCEPT ![h] = f]
      /\ stream' = [stream EXCEPT ![s] = x]
  BY <1>1 DEF Write, IInv, TypeOK, from
<1> HIDE DEF most
<1>5. contents' \in Seq(Bytes)
  <2>1. \A i \in 1 .. most : byte(i) \in Bytes
    BY DEF IInv, TypeOK, Bytes
  <2> HIDE DEF byte
  <2> QED
    BY <1>3, <1>4, <2>1, IsASeq
<1>6. /\ x \in StreamObject /\ x.whole = FALSE
      /\ x.handle = h /\ x.kind = stream[s].kind /\ x.held = stream[s].held
      /\ x.object = stream[s].object /\ x.sent = stream[s].sent
  BY <1>1 DEF StreamObject
<1>7. f \in OpenFile /\ f # Free
  <2>1. from + n \in Nat
    BY <1>3
  <2> QED
    BY <1>2, <2>1 DEF OpenFile, Free
<1> HIDE DEF x, f
<1>8. /\ stream' \in [Streams -> {None} \cup StreamObject]
      /\ \A t \in Streams : stream'[t] = IF t = s THEN x ELSE stream[t]
      /\ descriptor' \in [Descriptors -> {Free, Other} \cup OpenFile]
      /\ \A d \in Descriptors : descriptor'[d] = IF d = h THEN f ELSE descriptor[d]
  BY <1>1, <1>4, <1>6, <1>7 DEF IInv, TypeOK
<1>9. \A t \in Streams : /\ Live(t)' <=> Live(t)
                         /\ Held(t)' <=> Held(t)
                         /\ Script(t)' <=> Script(t)
  BY <1>1, <1>6, <1>8 DEF Live, Held, Script
<1>10. TypeOK'
  BY <1>1, <1>5, <1>8 DEF IInv, TypeOK
<1>11. OneOwner'
  BY <1>1, <1>2, <1>6, <1>7, <1>8, <1>9, SameOwners DEF IInv, OnItsWay
<1>12. Roles' /\ Unsent' /\ SentInOrder' /\ Piped' /\ CallOK'
  BY <1>1, <1>6, <1>8, <1>9 DEF IInv, Roles, Unsent, SentInOrder, Piped, CallOK, InOrder
<1>13. NothingIsSkipped'
  <2>1. ASSUME NEW t \in Streams, Script(t)', stream'[t].whole, stream'[t].handle # 0
        PROVE  stream'[t] = stream[t] /\ Script(t) /\ At(t)' = At(t)
    <3>1. t # s /\ stream'[t] = stream[t] /\ Script(t)
      BY <1>6, <1>8, <1>9, <2>1
    <3>2. stream[t].handle \in Descriptors /\ stream[t].handle # h
      BY <1>1, <2>1, <3>1 DEF IInv, OneOwner, Roles, Script, Held, Descriptors
    <3> QED
      BY <1>8, <3>1, <3>2 DEF At
  <2> QED
    BY <2>1, SameReading DEF IInv
<1> QED
  BY <1>10, <1>11, <1>12, <1>13 DEF IInv

-----------------------------------------------------------------------------
(* A FILE GOES TO ITS CLIENT *)

(* Both ends are closed. *)
LEMMA ServedStep ==
    ASSUME IInv, NEW c \in Streams, NEW s \in Streams, Serves(s, c),
           call.op \in {"head", "pipe"}, call.to = c, Served(c, s)
    PROVE  IInv'
<1> DEFINE x == [stream[c] EXCEPT !.handle = Shut(c), !.held = FALSE]
           y == [stream[s] EXCEPT !.handle = Shut(s), !.held = FALSE]
<1>1. /\ Held(c) /\ Held(s) /\ Live(c) /\ Live(s)
      /\ stream[c] \in StreamObject /\ stream[s] \in StreamObject
      /\ c # s
  BY LiveIsObject DEF IInv, Serves, Held
<1>2. /\ stream' = [stream EXCEPT ![c] = x, ![s] = y]
      /\ call' = Idle /\ call'.op = "idle"
      /\ UNCHANGED <<contents, setup>>
      /\ descriptor' = Closing({stream[c].handle, stream[s].handle})
  BY <1>1 DEF Served, IInv, TypeOK, Idle
<1>3. \A t \in {c, s} : Shut(t) \in {0, -1} /\ Shut(t) \in Descriptors \cup {-1}
  BY StreamsAssumption DEF Shut, Descriptors
<1>4. /\ x \in StreamObject /\ y \in StreamObject
      /\ x.handle = Shut(c) /\ x.held = FALSE /\ x.object = stream[c].object
      /\ x.kind = stream[c].kind /\ x.sent = stream[c].sent
      /\ y.handle = Shut(s) /\ y.held = FALSE /\ y.object = stream[s].object
      /\ y.kind = stream[s].kind /\ y.sent = stream[s].sent
  BY <1>1, <1>3 DEF StreamObject
<1> HIDE DEF x, y
<1>5. /\ stream' \in [Streams -> {None} \cup StreamObject]
      /\ \A t \in Streams : stream'[t] = IF t = c THEN x ELSE IF t = s THEN y ELSE stream[t]
  BY <1>1, <1>2, <1>4 DEF IInv, TypeOK
<1>6. \A t \in Streams : /\ Live(t)' <=> Live(t)
                         /\ Held(t)' <=> (Held(t) /\ t \notin {c, s})
  BY <1>1, <1>4, <1>5 DEF Held, Live, StreamObject
<1>7. \A d \in Descriptors :
          descriptor'[d] = IF d \in {stream[c].handle, stream[s].handle} THEN Free ELSE descriptor[d]
  BY <1>2 DEF Closing
<1>8. TypeOK'
  <2>1. descriptor' \in [Descriptors -> {Free, Other} \cup OpenFile]
    BY <1>2 DEF IInv, TypeOK, Closing
  <2> QED
    BY <1>2, <1>5, <2>1 DEF IInv, TypeOK
<1>9. OneOwner'
  <2> DEFINE C == {stream[c].handle, stream[s].handle}
             D == {c, s}
  <2>1. \A t \in Streams \ D : stream'[t].handle = stream[t].handle /\ (Live(t)' <=> Live(t))
    BY <1>5, <1>6
  <2>2. \A t \in D : Live(t) /\ (Live(t)' => stream'[t].handle <= 0)
    BY <1>1, <1>3, <1>4, <1>5
  <2>3. \A d \in Descriptors \ {0} : d \in C <=> \E t \in D : stream[t].handle = d
    OBVIOUS
  <2>4. \A d \in Descriptors \ {0} : OnItsWay(d)' <=> OnItsWay(d)
    BY <1>2 DEF OnItsWay
  <2>5. D \in SUBSET Streams /\ descriptor' = Closing(C)
    BY <1>2
  <2> HIDE DEF C, D
  <2> QED
    BY <1>8, <2>1, <2>2, <2>3, <2>4, <2>5, ClosedAreFree
<1>10. Roles' /\ SentInOrder' /\ Piped' /\ CallOK'
  BY <1>1, <1>2, <1>4, <1>5, <1>6 DEF IInv, Roles, SentInOrder, Piped, CallOK, InOrder, Serves
<1>11. Unsent'
  BY <1>2, <1>5, <1>6 DEF IInv, Unsent
<1>12. NothingIsSkipped'
  <2>1. \A t \in Streams : Script(t)' => Script(t) /\ t \notin {c, s}
    BY <1>5, <1>6 DEF Script
  <2>2. \A t \in Streams : Script(t)' /\ stream[t].handle # 0 => At(t)' = At(t)
    <3> SUFFICES ASSUME NEW t \in Streams, Script(t)', stream[t].handle # 0
                 PROVE  At(t)' = At(t)
      OBVIOUS
    <3>1. /\ stream[t].handle \notin {stream[c].handle, stream[s].handle}
          /\ stream[t].handle \in Descriptors
      BY <1>1, <2>1 DEF IInv, OneOwner, Roles, Script, Held, Descriptors
    <3> QED
      BY <1>5, <1>7, <2>1, <3>1 DEF At
  <2> QED
    BY <1>5, <2>1, <2>2, SameReading DEF IInv
<1> QED
  BY <1>8, <1>9, <1>10, <1>11, <1>12 DEF IInv

LEMMA WriteHeadStep ==
    ASSUME IInv, WriteHead
    PROVE  IInv'
<1>1. /\ call \in HeadCall /\ call.op = "head"
      /\ call.from \in Streams /\ call.to \in Streams /\ Serves(call.from, call.to)
      /\ OnFile(call.from) => At(call.from) = 0
      /\ stream[call.to].sent = <<>>
  BY CallKinds DEF IInv, CallOK, WriteHead, HeadCall, Unsent, Serves
<1>2. CASE Served(call.to, call.from)
  BY <1>1, <1>2, ServedStep
<1>3. CASE /\ call' = [op |-> "pipe", from |-> call.from, to |-> call.to, chunk |-> <<>>, cut |-> FALSE]
           /\ UNCHANGED <<contents, descriptor, stream, setup>>
  <2>1. /\ call' \in PipeCall /\ call'.op = "pipe"
        /\ call'.from = call.from /\ call'.to = call.to /\ call'.chunk = <<>> /\ ~call'.cut
    <3> DEFINE none == <<>>
    <3>1. none \in Seq(Byte)
      BY EmptySeq
    <3> HIDE DEF none
    <3>2. call' = [op |-> "pipe", from |-> call.from, to |-> call.to, chunk |-> none, cut |-> FALSE]
      BY <1>3 DEF none
    <3>3. /\ call' \in PipeCall /\ call'.op = "pipe"
          /\ call'.from = call.from /\ call'.to = call.to /\ call'.chunk = none /\ ~call'.cut
      BY <1>1, <3>1, <3>2 DEF PipeCall
    <3> QED
      BY <3>3 DEF none
  <2>2. TypeOK'
    BY <1>3, <2>1 DEF IInv, TypeOK
  <2>3. OneOwner'
    BY <1>1, <1>3, <2>1, SameOwners DEF IInv, OnItsWay, Live
  <2>4. Roles' /\ Unsent' /\ SentInOrder' /\ NothingIsSkipped'
    BY <1>1, <1>3, <2>1
    DEF IInv, Roles, Unsent, SentInOrder, InOrder, NothingIsSkipped, Script, Held, Live, At
  <2>5. Serves(call.from, call.to) /\ call'.from = call.from /\ call'.to = call.to
        /\ stream' = stream
    BY <1>1, <1>3, <2>1
  <2>6. CallOK'
    BY <2>1, <2>5 DEF CallOK, Serves, Held, Live
  <2>7. Piped'
    <3>1. OnFile(call.from) => Progress(<<>>, <<>>, 0, FALSE, contents)
      <4>1. contents \in Seq(Bytes)
        BY DEF IInv, TypeOK
      <4>2. Len(contents) \in Nat
        BY <4>1, LenProperties
      <4> QED
        BY <4>2, ProgressStarts
    <3>2. \A s \in Streams : (OnFile(s)' <=> OnFile(s)) /\ At(s)' = At(s)
      BY <1>3 DEF OnFile, At
    <3>3. PICK from \in Streams, to \in Streams : from = call.from /\ to = call.to
      BY <1>1
    <3>4. OnFile(from)' => Progress(stream'[to].sent, <<>>, At(from)', FALSE, contents')
      BY <1>1, <1>3, <3>1, <3>2, <3>3
    <3>5. call'.op = "pipe" /\ call'.chunk = <<>> /\ call'.cut = FALSE
          /\ call'.from = from /\ call'.to = to
      BY <1>3, <2>1, <3>3
    <3> QED
      BY <3>4, <3>5 DEF Piped, OnFile, At
  <2> QED
    BY <2>2, <2>3, <2>4, <2>6, <2>7 DEF IInv
<1> QED
  BY <1>2, <1>3 DEF WriteHead

(* A chunk is read behind the last one. *)
LEMMA ProgressRead ==
    ASSUME NEW sent \in Seq(Byte), NEW at \in Nat, NEW cut, NEW file \in Seq(Bytes),
           Progress(sent, <<>>, at, cut, file),
           NEW bytes \in Seq(Byte), at + Len(bytes) <= Len(file),
           \A i \in 1 .. Len(bytes) : bytes[i].at = at + i /\ bytes[i].byte = file[at + i]
    PROVE  Progress(sent, bytes, at + Len(bytes), cut, file)
<1>1. at + Len(bytes) - Len(bytes) = at /\ at - Len(<<>>) = at
  BY EmptySeq
<1> QED
  BY <1>1 DEF Progress

(* A chunk is sent, or the first part of it. *)
LEMMA ProgressSent ==
    ASSUME NEW sent \in Seq(Byte), NEW chunk \in Seq(Byte), NEW at \in Nat, NEW cut \in BOOLEAN,
           NEW file \in Seq(Bytes), Progress(sent, chunk, at, cut, file), InOrder(sent),
           NEW bytes \in SomeOf(chunk)
    PROVE  /\ sent \o bytes \in Seq(Byte)
           /\ InOrder(sent \o bytes)
           /\ Progress(sent \o bytes, <<>>, at, cut \/ bytes # chunk, file)
<1> DEFINE p == at - Len(chunk)
           all == sent \o bytes
<1>1. PICK n \in 1 .. Len(chunk) : bytes = SubSeq(chunk, 1, n)
  BY DEF SomeOf
<1>2. /\ bytes \in Seq(Byte) /\ Len(bytes) = n /\ n \in Nat
      /\ \A i \in 1 .. n : bytes[i] = chunk[i]
  <2>1. n \in Int /\ \A i \in 1 .. n : chunk[i] \in Byte
    BY <1>1, ElementOfSeq
  <2> QED
    BY <1>1, <2>1, SubSeqProperties
<1>3. /\ all \in Seq(Byte) /\ Len(all) = Len(sent) + n
      /\ \A i \in 1 .. Len(sent) + n : all[i] = IF i <= Len(sent) THEN sent[i] ELSE bytes[i - Len(sent)]
  BY <1>2, ConcatProperties
<1>4. /\ p \in Nat /\ at <= Len(file)
      /\ \A i \in 1 .. Len(chunk) : chunk[i].at = p + i /\ chunk[i].byte = file[p + i]
      /\ \A i \in 1 .. Len(sent) : sent[i].at <= p
      /\ ~cut => /\ Len(sent) = p
                 /\ \A i \in 1 .. Len(sent) : sent[i].byte = file[i]
  BY DEF Progress
<1> HIDE DEF p, all
<1>5. Len(sent) \in Nat /\ Len(chunk) \in Nat /\ Len(chunk) = at - p /\ p <= at
  BY <1>4 DEF p
<1>6. \A i \in 1 .. Len(sent) : all[i] = sent[i] /\ sent[i].at <= p /\ sent[i] \in Byte
  BY <1>2, <1>3, <1>4, <1>5, ElementOfSeq
<1>7. \A i \in Len(sent) + 1 .. Len(sent) + n :
          /\ all[i] = chunk[i - Len(sent)]
          /\ all[i].at = p + (i - Len(sent)) /\ all[i].byte = file[p + (i - Len(sent))]
  <2> SUFFICES ASSUME NEW i \in Len(sent) + 1 .. Len(sent) + n
               PROVE  /\ all[i] = chunk[i - Len(sent)]
                      /\ all[i].at = p + (i - Len(sent)) /\ all[i].byte = file[p + (i - Len(sent))]
    OBVIOUS
  <2>1. i - Len(sent) \in 1 .. n /\ i \in 1 .. Len(sent) + n /\ ~(i <= Len(sent))
    BY <1>2, <1>5
  <2>2. all[i] = bytes[i - Len(sent)] /\ i - Len(sent) \in 1 .. Len(chunk)
    BY <1>1, <1>3, <1>5, <2>1
  <2> QED
    BY <1>2, <1>4, <2>1, <2>2
<1>8. InOrder(all)
  <2>1. DOMAIN all = 1 .. Len(sent) + n /\ DOMAIN sent = 1 .. Len(sent)
    BY <1>3
  <2> SUFFICES ASSUME NEW i \in 1 .. Len(sent) + n, NEW j \in 1 .. Len(sent) + n, i < j
               PROVE  all[i].at < all[j].at
    BY <2>1 DEF InOrder
  <2>2. CASE j <= Len(sent)
    <3>1. i \in 1 .. Len(sent) /\ j \in 1 .. Len(sent)
      BY <1>2, <1>5, <2>2
    <3> QED
      BY <1>6, <2>1, <3>1 DEF InOrder
  <2>3. CASE i <= Len(sent) /\ j > Len(sent)
    <3>1. i \in 1 .. Len(sent) /\ j \in Len(sent) + 1 .. Len(sent) + n
      BY <1>2, <1>5, <2>3
    <3>2. all[i].at <= p /\ all[i].at \in Nat /\ all[j].at = p + (j - Len(sent))
      BY <1>6, <1>7, <3>1 DEF Byte
    <3> QED
      BY <1>4, <1>5, <3>1, <3>2
  <2>4. CASE i > Len(sent)
    <3>1. i \in Len(sent) + 1 .. Len(sent) + n /\ j \in Len(sent) + 1 .. Len(sent) + n
      BY <1>2, <1>5, <2>4
    <3>2. all[i].at = p + (i - Len(sent)) /\ all[j].at = p + (j - Len(sent))
      BY <1>7, <3>1
    <3> QED
      BY <1>4, <1>5, <3>1, <3>2
  <2> QED
    BY <1>2, <1>5, <2>2, <2>3, <2>4
<1>9. \A i \in 1 .. Len(all) : all[i].at <= at
  <2> SUFFICES ASSUME NEW i \in 1 .. Len(sent) + n
               PROVE  all[i].at <= at
    BY <1>3
  <2>1. CASE i <= Len(sent)
    <3>1. i \in 1 .. Len(sent)
      BY <1>2, <1>5, <2>1
    <3>2. all[i].at <= p /\ all[i].at \in Nat
      BY <1>6, <3>1 DEF Byte
    <3> QED
      BY <1>4, <1>5, <3>2
  <2>2. CASE i > Len(sent)
    <3>1. i \in Len(sent) + 1 .. Len(sent) + n
      BY <1>2, <1>5, <2>2
    <3>2. all[i].at = p + (i - Len(sent))
      BY <1>7, <3>1
    <3> QED
      BY <1>1, <1>4, <1>5, <3>1, <3>2
  <2> QED
    BY <1>2, <1>5, <2>1, <2>2
<1>10. ASSUME ~cut, bytes = chunk
       PROVE  Len(all) = at /\ \A i \in 1 .. Len(all) : all[i].byte = file[i]
  <2>1. n = Len(chunk) /\ Len(sent) = p /\ \A i \in 1 .. Len(sent) : sent[i].byte = file[i]
    BY <1>2, <1>4, <1>10
  <2>2. Len(all) = at
    BY <1>3, <1>5, <2>1
  <2>3. ASSUME NEW i \in 1 .. Len(all)
        PROVE  all[i].byte = file[i]
    <3>1. CASE i <= Len(sent)
      <4>1. i \in 1 .. Len(sent)
        BY <1>5, <3>1
      <4> QED
        BY <1>6, <2>1, <4>1
    <3>2. CASE i > Len(sent)
      <4>1. i \in Len(sent) + 1 .. Len(sent) + n /\ p + (i - Len(sent)) = i
        BY <1>2, <1>3, <1>4, <1>5, <2>1, <3>2
      <4>2. all[i].byte = file[p + (i - Len(sent))]
        BY <1>7, <4>1
      <4> QED
        BY <4>1, <4>2
    <3> QED
      BY <1>5, <3>1, <3>2
  <2> QED
    BY <2>2, <2>3
<1>11. Progress(all, <<>>, at, cut \/ bytes # chunk, file)
  <2>1. at - Len(<<>>) = at /\ Len(<<>>) = 0
    BY EmptySeq
  <2> QED
    BY <1>4, <1>9, <1>10, <2>1 DEF Progress
<1> QED
  BY <1>3, <1>8, <1>11 DEF all

LEMMA PipeReadStep ==
    ASSUME IInv, PipeRead
    PROVE  IInv'
<1>1. PICK s \in Streams, c \in Streams : s = call.from /\ c = call.to /\ Serves(s, c)
  BY CallKinds DEF IInv, CallOK, PipeRead, PipeCall
<1> DEFINE h == stream[s].handle
<1>2. /\ call \in PipeCall /\ call.op = "pipe" /\ call.chunk = <<>>
      /\ Held(s) /\ Live(s) /\ h \in Descriptors /\ stream[s].kind = "file" /\ ~stream[s].object
      /\ stream[c].sent \in Seq(Byte)
      /\ UNCHANGED <<contents, stream, setup>>
  BY <1>1, CallKinds, LiveIsObject DEF IInv, PipeRead, Serves, Held, Roles, StreamObject
<1>3. PICK bytes \in DirectRead(s) :
          /\ bytes # <<>>
          /\ descriptor' = [descriptor EXCEPT ![h].at = @ + Len(bytes)]
          /\ call' = [call EXCEPT !.chunk = bytes]
  BY <1>1 DEF PipeRead
<1>4. /\ OnFile(s) /\ At(s) \in Nat
      /\ bytes \in Seq(Byte) /\ Len(bytes) \in Nat
      /\ \A i \in 1 .. Len(bytes) :
            bytes[i].at = At(s) + i /\ bytes[i].byte = contents[At(s) + i]
      /\ At(s) + Len(bytes) <= Len(contents)
  BY <1>2, <1>3, ReadGivesTheNext DEF IInv
<1> DEFINE f == [descriptor[h] EXCEPT !.at = At(s) + Len(bytes)]
<1>5. /\ f \in OpenFile /\ f # Free /\ f.at = At(s) + Len(bytes) /\ f.what = "file"
      /\ descriptor[h] # Free
  <2>1. descriptor[h] \in OpenFile
    BY <1>2, <1>4, DescriptorKinds DEF IInv, OnFile
  <2>2. At(s) + Len(bytes) \in Nat
    BY <1>4
  <2> QED
    BY <2>1, <2>2 DEF OpenFile, Free
<1>6. descriptor' = [descriptor EXCEPT ![h] = f]
  BY <1>2, <1>3 DEF IInv, TypeOK, At
<1> HIDE DEF f
<1>7. /\ descriptor' \in [Descriptors -> {Free, Other} \cup OpenFile]
      /\ \A d \in Descriptors : descriptor'[d] = IF d = h THEN f ELSE descriptor[d]
  BY <1>2, <1>5, <1>6 DEF IInv, TypeOK
<1>8. /\ call' \in PipeCall /\ call'.op = "pipe" /\ call'.from = s /\ call'.to = c
      /\ call'.chunk = bytes /\ call'.cut = call.cut
  BY <1>1, <1>2, <1>3, <1>4 DEF PipeCall
<1>9. TypeOK'
  BY <1>2, <1>7, <1>8 DEF IInv, TypeOK
<1>10. OneOwner'
  BY <1>2, <1>5, <1>7, <1>8, SameOwners DEF IInv, OnItsWay, Live
<1>11. Roles' /\ Unsent' /\ SentInOrder'
  BY <1>1, <1>2, <1>8 DEF IInv, Roles, Unsent, SentInOrder, InOrder, Held, Live
<1>12. CallOK'
  BY <1>1, <1>2, <1>8 DEF CallOK, Serves, Held, Live
<1>13. Piped'
  <2>1. Progress(stream[c].sent, <<>>, At(s), call.cut, contents)
    BY <1>1, <1>2, <1>4 DEF IInv, Piped
  <2>2. Progress(stream[c].sent, bytes, At(s) + Len(bytes), call.cut, contents)
    BY <1>2, <1>4, <2>1, ProgressRead DEF IInv, TypeOK
  <2>3. At(s)' = At(s) + Len(bytes) /\ OnFile(s)'
    BY <1>2, <1>5, <1>7 DEF At, OnFile
  <2> QED
    BY <1>2, <1>8, <2>2, <2>3 DEF Piped, At, OnFile
<1>14. NothingIsSkipped'
  <2>1. ASSUME NEW t \in Streams, Script(t)', stream'[t].handle # 0
        PROVE  Script(t) /\ At(t)' = At(t)
    <3>1. Script(t) /\ t # s /\ stream[t].handle \in Descriptors /\ stream[t].handle # h
      BY <1>2, <2>1 DEF IInv, OneOwner, Roles, Script, Held, Live, Descriptors
    <3> QED
      BY <1>2, <1>7, <3>1 DEF At
  <2> QED
    BY <1>2, <2>1, SameReading DEF IInv
<1> QED
  BY <1>9, <1>10, <1>11, <1>12, <1>13, <1>14 DEF IInv

LEMMA PipeWriteStep ==
    ASSUME IInv, PipeWrite
    PROVE  IInv'
<1>1. PICK s \in Streams, c \in Streams : s = call.from /\ c = call.to /\ Serves(s, c)
  BY CallKinds DEF IInv, CallOK, PipeWrite, PipeCall
<1>2. /\ call \in PipeCall /\ call.op = "pipe" /\ call.chunk # <<>> /\ call.chunk \in Seq(Byte)
      /\ call.cut \in BOOLEAN
      /\ Held(c) /\ Live(c) /\ Held(s) /\ stream[c] \in StreamObject /\ stream[c].sent \in Seq(Byte)
      /\ stream[s].handle \in Descriptors
      /\ s # c /\ UNCHANGED <<contents, descriptor, setup>>
  BY <1>1, CallKinds, LiveIsObject DEF IInv, Roles, PipeWrite, Serves, Held, StreamObject, PipeCall
<1>3. PICK bytes \in SomeOf(call.chunk) :
          /\ stream' = [stream EXCEPT ![c].sent = @ \o bytes]
          /\ call' = [call EXCEPT !.chunk = <<>>, !.cut = @ \/ bytes # call.chunk]
  BY <1>1 DEF PipeWrite
<1> DEFINE all == stream[c].sent \o bytes
           cut == call.cut \/ bytes # call.chunk
           x == [stream[c] EXCEPT !.sent = all]
<1>4. OnFile(s) /\ At(s) \in Nat /\ Progress(stream[c].sent, call.chunk, At(s), call.cut, contents)
  <2>1. OnFile(s)
    BY <1>1, <1>2 DEF IInv, Piped
  <2> QED
    BY <1>1, <1>2, <2>1, AheadIsTheRest DEF IInv, Piped
<1>5. all \in Seq(Byte) /\ InOrder(all) /\ Progress(all, <<>>, At(s), cut, contents)
  BY <1>2, <1>3, <1>4, ProgressSent DEF IInv, TypeOK, SentInOrder
<1>6. stream' = [stream EXCEPT ![c] = x]
  BY <1>2, <1>3 DEF IInv, TypeOK
<1> HIDE DEF all
<1>7. /\ x \in StreamObject
      /\ x.handle = stream[c].handle /\ x.kind = stream[c].kind /\ x.held = stream[c].held
      /\ x.object = stream[c].object /\ x.sent = all /\ x.whole = stream[c].whole
      /\ x.buffer = stream[c].buffer /\ x.next = stream[c].next
  BY <1>2, <1>5 DEF StreamObject
<1> HIDE DEF x
<1>8. /\ stream' \in [Streams -> {None} \cup StreamObject]
      /\ \A t \in Streams : stream'[t] = IF t = c THEN x ELSE stream[t]
  BY <1>2, <1>6, <1>7 DEF IInv, TypeOK
<1>9. \A t \in Streams : /\ Live(t)' <=> Live(t)
                         /\ Held(t)' <=> Held(t)
                         /\ Script(t)' <=> Script(t)
  BY <1>2, <1>7, <1>8 DEF Live, Held, Script
<1>10. /\ call' \in PipeCall /\ call'.op = "pipe" /\ call'.from = s /\ call'.to = c
       /\ call'.chunk = <<>> /\ call'.cut = cut
  <2> DEFINE none == <<>>
  <2>1. none \in Seq(Byte) /\ cut \in BOOLEAN
    BY EmptySeq
  <2>2. call' = [call EXCEPT !.chunk = none, !.cut = cut]
    BY <1>3
  <2> HIDE DEF none, cut
  <2>3. /\ call' \in PipeCall /\ call'.op = "pipe" /\ call'.from = s /\ call'.to = c
        /\ call'.chunk = none /\ call'.cut = cut
    BY <1>1, <1>2, <2>1, <2>2 DEF PipeCall
  <2> QED
    BY <2>3 DEF none
<1> HIDE DEF cut
<1>11. TypeOK'
  BY <1>2, <1>8, <1>10 DEF IInv, TypeOK
<1>12. OneOwner'
  BY <1>2, <1>7, <1>8, <1>9, <1>10, SameOwners DEF IInv, OnItsWay
<1>13. Roles' /\ Unsent' /\ SentInOrder'
  BY <1>1, <1>2, <1>5, <1>7, <1>8, <1>9, <1>10 DEF IInv, Roles, Unsent, SentInOrder, InOrder
<1>14. CallOK'
  <2>1. Serves(s, c)'
    BY <1>1, <1>7, <1>8, <1>9 DEF Serves
  <2> QED
    BY <1>10, <2>1 DEF CallOK, Serves, Held, Live
<1>15. Piped'
  <2>1. stream'[s] = stream[s] /\ stream'[c].sent = all
    BY <1>2, <1>7, <1>8
  <2>2. At(s)' = At(s) /\ OnFile(s)'
    BY <1>2, <1>4, <2>1 DEF At, OnFile
  <2>3. Progress(stream'[c].sent, <<>>, At(s)', cut, contents')
    BY <1>2, <1>5, <2>1, <2>2
  <2> QED
    BY <1>10, <2>2, <2>3 DEF Piped, At, OnFile
<1>16. NothingIsSkipped'
  <2>1. \A t \in Streams : At(t)' = At(t)
    BY <1>2, <1>7, <1>8 DEF At
  <2> QED
    BY <1>7, <1>8, <1>9, <2>1, SameReading DEF IInv
<1> QED
  BY <1>11, <1>12, <1>13, <1>14, <1>15, <1>16 DEF IInv

LEMMA PipeEndStep ==
    ASSUME IInv, PipeEnds \/ PipeFails
    PROVE  IInv'
<1>1. /\ call.op = "pipe" /\ call.from \in Streams /\ call.to \in Streams
      /\ Served(call.to, call.from) /\ Serves(call.from, call.to)
  BY CallKinds DEF IInv, CallOK, PipeEnds, PipeFails, PipeCall
<1> QED
  BY <1>1, ServedStep

-----------------------------------------------------------------------------
(* THE THEOREMS *)

LEMMA InitOK == Init => IInv
<1> SUFFICES ASSUME Init PROVE IInv
  OBVIOUS
<1>1. /\ call = Idle /\ call.op = "idle" /\ stream = [s \in Streams |-> None]
      /\ \A s \in Streams : ~Live(s)
  BY DEF Init, Live, None, Idle
<1>2. contents \in Seq(Bytes) /\ setup \in DOMAIN Setups
  BY SetupsAssumption DEF Init
<1>3. TypeOK
  BY <1>1, <1>2 DEF Init, TypeOK
<1>4. OneOwner
  BY <1>1 DEF Init, OneOwner, OnItsWay, Descriptors
<1> QED
  BY <1>1, <1>3, <1>4
  DEF IInv, Roles, CallOK, Unsent, Piped, SentInOrder, NothingIsSkipped, Script, Held

LEMMA StepOK == IInv /\ [Next]_vars => IInv'
<1> SUFFICES ASSUME IInv, [Next]_vars PROVE IInv'
  OBVIOUS
<1>1. CASE Elsewhere
  BY <1>1, ElsewhereStep
<1>2. CASE file_s_open
  BY <1>2, FileOpenStep
<1>3. CASE Accept
  BY <1>3, AcceptStep
<1>4. CASE New
  BY <1>4, NewStep
<1>5. CASE Sweep
  BY <1>5, SweepStep
<1>6. CASE Take
  BY <1>6, TakeStep
<1>7. CASE Fill
  BY <1>7, FillStep
<1>8. CASE ReadFails
  BY <1>8, ReadFailsStep
<1>9. CASE WriteHead
  BY <1>9, WriteHeadStep
<1>10. CASE PipeRead
  BY <1>10, PipeReadStep
<1>11. CASE PipeWrite
  BY <1>11, PipeWriteStep
<1>12. CASE PipeEnds \/ PipeFails
  BY <1>12, PipeEndStep
<1>13. ASSUME NEW s \in Streams, Close(s) \/ Forget(s) \/ ServeFile(s)
       PROVE  IInv'
  BY <1>13, CloseStep, ForgetStep, ServeFileStep
<1>14. ASSUME NEW s \in Streams,
              \/ \E n \in 0 .. 2 : Read(s, "read", n)
              \/ \E kind \in {"line", "lines"} : Read(s, kind, 1)
       PROVE  IInv'
  BY <1>14, ReadStep
<1>15. ASSUME NEW s \in Streams, \E n \in 1 .. 2 : Write(s, n)
       PROVE  IInv'
  BY <1>15, WriteStep
<1>16. CASE UNCHANGED vars
  <2>1. UNCHANGED <<contents, descriptor, stream, call, setup>>
    BY <1>16 DEF vars
  <2>2. TypeOK' /\ OneOwner' /\ Roles' /\ CallOK'
    BY <2>1 DEF IInv, TypeOK, OneOwner, OnItsWay, Roles, CallOK, Serves, Script, Held, Live, OnFile, At
  <2>3. Unsent' /\ Piped' /\ SentInOrder' /\ NothingIsSkipped'
    BY <2>1
    DEF IInv, Unsent, Piped, SentInOrder, InOrder, NothingIsSkipped, Script, Held, Live, OnFile, At
  <2> QED
    BY <2>2, <2>3 DEF IInv
<1> QED
  BY <1>1, <1>2, <1>3, <1>4, <1>5, <1>6, <1>7, <1>8, <1>9, <1>10, <1>11, <1>12, <1>13, <1>14,
     <1>15, <1>16 DEF Next

(* Every descriptor above 0 that is open has one owner, every stream that  *)
(* is open its descriptor, and what a call has moved so far are the bytes  *)
(* of the file in their order.                                             *)
THEOREM Invariant == Spec => []IInv
  BY InitOK, StepOK, PTL DEF Spec

(* A descriptor has one owner, in numbers. *)
LEMMA OwnersAreCounted == IInv => DescriptorsAreOwned
<1> SUFFICES ASSUME IInv, NEW d \in Descriptors \ {0}
             PROVE  Cardinality({s \in Streams : Live(s) /\ stream[s].handle = d})
                        + (IF call.op = "new" /\ call.handle = d THEN 1 ELSE 0)
                    = IF descriptor[d] = Free THEN 0 ELSE 1
  BY DEF DescriptorsAreOwned
<1> DEFINE owners == {s \in Streams : Live(s) /\ stream[s].handle = d}
<1>1. d > 0
  BY DEF Descriptors
<1>2. Cardinality({}) = 0 /\ \A s : Cardinality({s}) = 1
  BY FS_EmptySet, FS_Singleton
<1>3. CASE OnItsWay(d)
  <2>1. owners = {} /\ descriptor[d] # Free
    BY <1>1, <1>3 DEF IInv, OneOwner
  <2> QED
    BY <1>2, <1>3, <2>1 DEF OnItsWay
<1>4. CASE ~OnItsWay(d) /\ descriptor[d] = Free
  <2>1. owners = {}
    BY <1>1, <1>4 DEF IInv, OneOwner
  <2> QED
    BY <1>2, <1>4, <2>1 DEF OnItsWay
<1>5. CASE ~OnItsWay(d) /\ descriptor[d] # Free
  <2>1. PICK s \in Streams : Live(s) /\ stream[s].handle = d
    BY <1>5 DEF IInv, OneOwner
  <2>2. owners = {s}
    BY <1>1, <2>1 DEF IInv, OneOwner
  <2> QED
    BY <1>2, <1>5, <2>2 DEF OnItsWay
<1> QED
  BY <1>3, <1>4, <1>5

(* No descriptor is closed under a stream that uses it, and none is left   *)
(* open without an owner: in the order in which a File object, its stream  *)
(* and the kernel open, close and collect, descriptor 0 alone is shared.   *)
THEOREM DescriptorsHaveOneOwner == Spec => []DescriptorsAreOwned
  BY Invariant, OwnersAreCounted, PTL

(* No call of a script skips a byte of a file or reads one twice.          *)
THEOREM ReadsAreContinuous == Spec => []NothingIsSkipped
<1>1. IInv => NothingIsSkipped
  BY DEF IInv
<1> QED
  BY <1>1, Invariant, PTL

(* When a file has been piped to its end and no write was cut short, the   *)
(* client has all of it.                                                   *)
LEMMA EndOfPipe ==
    ASSUME IInv, PipeEnds, ~call.cut
    PROVE  [i \in DOMAIN stream[call.to].sent |-> stream[call.to].sent[i].byte] = contents
<1>1. PICK s \in Streams, c \in Streams : s = call.from /\ c = call.to /\ Serves(s, c)
  BY CallKinds DEF IInv, CallOK, PipeEnds, PipeCall
<1> DEFINE sent == stream[c].sent
<1>2. /\ stream[s].handle \in Descriptors /\ sent \in Seq(Byte)
      /\ call.op = "pipe" /\ call.chunk = <<>> /\ <<>> \in DirectRead(s)
  BY <1>1, LiveIsObject DEF IInv, Roles, PipeEnds, Serves, Held, StreamObject
<1>3. OnFile(s) /\ At(s) \in Nat /\ At(s) >= Len(contents)
  BY <1>2, ReadGivesTheNext DEF IInv
<1>4. Progress(sent, <<>>, At(s), call.cut, contents)
  BY <1>1, <1>2, <1>3 DEF IInv, Piped
<1>5. /\ Len(sent) = At(s) /\ At(s) <= Len(contents) /\ Len(contents) \in Nat
      /\ \A i \in 1 .. Len(sent) : sent[i].byte = contents[i]
  <2>1. At(s) - Len(<<>>) = At(s)
    BY <1>3, EmptySeq
  <2> QED
    BY <1>4, <2>1 DEF Progress, IInv, TypeOK
<1>6. Len(sent) = Len(contents)
  BY <1>3, <1>5
<1>7. /\ DOMAIN sent = 1 .. Len(contents) /\ DOMAIN contents = 1 .. Len(contents)
      /\ contents = [i \in DOMAIN contents |-> contents[i]]
  BY <1>2, <1>6 DEF IInv, TypeOK
<1> HIDE DEF sent
<1>8. [i \in DOMAIN sent |-> sent[i].byte] = contents
  BY <1>5, <1>6, <1>7
<1> QED
  BY <1>1, <1>8 DEF sent

(* A client gets the bytes of a static file in their order and, unless the *)
(* connection took only a part of a write, all of them.                    *)
THEOREM FilesReachTheirClients == Spec => ClientsGetTheFile
<1>1. IInv => \A s \in Streams : Live(s) => InOrder(stream[s].sent)
  BY DEF IInv, SentInOrder
<1>2. IInv /\ [Next]_vars =>
          [/\ \A s \in Streams : Live(s) => InOrder(stream[s].sent)
           /\ PipeEnds /\ ~call.cut =>
                [i \in DOMAIN stream[call.to].sent |-> stream[call.to].sent[i].byte] = contents]_vars
  BY <1>1, EndOfPipe
<1> QED
  BY <1>2, Invariant, PTL DEF ClientsGetTheFile, Spec
=============================================================================
