------------------------------ MODULE FileStreams ------------------------------
(***************************************************************************)
(* Files, sockets and the streams on them: Stream (io/stream.cc), the      *)
(* PosixFileStream of core/filename.cc, Socket (net/socket.cc), the        *)
(* FileStreamObject of api/file.cc, lines (api/stream.cc), and the way of  *)
(* a static file to its client (sapi/httpd/server.cc).                     *)
(*                                                                         *)
(* One thread runs all of this, but every system call is a step: the       *)
(* kernel decides how much a read or a write moves, and another process    *)
(* may write to the file in between.  There is one file.  A byte is known  *)
(* by its place in the file, so that what a reader gets can be compared    *)
(* with what there is.                                                     *)
(*                                                                         *)
(* Streams are collected like all objects.  Their destructors close        *)
(* descriptors, and a PosixFileStream that was closed before takes         *)
(* descriptor 0 for its own.  A call that is refused without changing      *)
(* anything (a closed stream, a wrong mode) is not an action.              *)
(***************************************************************************)
EXTENDS Integers, FiniteSets, SequencesExt

CONSTANTS Streams,       \* as many streams as there may be at a time
          MaxDescriptor, \* the last descriptor the kernel gives out
          kBufferSize,   \* BUFSIZ: bytes in the buffer of a stream
          MaxLength,     \* bound on the length of the file
          Setups         \* what a run is about: the file, the modes and calls

ASSUME StreamsAssumption ==
    /\ MaxDescriptor \in Nat
    /\ kBufferSize \in Nat \ {0}
    /\ MaxLength \in Nat

(* The first three are characters, a "lead" and a "tail" are one together. *)
Bytes == {"x", "lf", "cr", "lead", "tail"}

(* Of a setup: the streams there may be, the files there may be in the     *)
(* beginning, and the modes they are opened in.                            *)
ASSUME SetupsAssumption ==
    \A i \in DOMAIN Setups :
        /\ Setups[i].streams \subseteq Streams
        /\ Setups[i].files \subseteq Seq(Bytes)
        /\ Setups[i].modes \subseteq [mode : {"r", "w", "rw"}, append : BOOLEAN, binary : BOOLEAN]
ASSUME NamesAssumption == Streams \cap {"text", "binary", "server"} = {}

VARIABLES contents,      \* the file
          descriptor,    \* the descriptors of the process
          stream,        \* the Stream objects and the script objects for them
          call,          \* the call that is in progress
          setup          \* what this run is about

vars == <<contents, descriptor, stream, call, setup>>

Descriptors == 0 .. MaxDescriptor
Free  == [what |-> "free"]
Other == [what |-> "other"]                     \* standard input, a connection

None == [kind |-> "none"]
Idle == [op |-> "idle"]

Live(s) == stream[s].kind # "none"
Held(s) == Live(s) /\ stream[s].held
Script(s) == Held(s) /\ stream[s].object        \* open for the script
IsReadable(s) == stream[s].mode \in {"r", "rw"}
IsWritable(s) == stream[s].mode \in {"w", "rw"}

Init ==
    /\ setup \in DOMAIN Setups
    /\ contents \in Setups[setup].files
    /\ descriptor = [d \in Descriptors |-> IF d = 0 THEN Other ELSE Free]
    /\ stream = [s \in Streams |-> None]
    /\ call = Idle

-----------------------------------------------------------------------------
(* THE KERNEL *)

FreeDescriptors == {d \in Descriptors : descriptor[d] = Free}
Lowest(ds) == CHOOSE d \in ds : \A e \in ds : d <= e
Closing(ds) == [d \in Descriptors |-> IF d \in ds THEN Free ELSE descriptor[d]]

OnFile(s) == descriptor[stream[s].handle].what = "file"
At(s)     == descriptor[stream[s].handle].at
Ahead(s)  == [i \in 1 .. Len(contents) - At(s) |-> [at |-> At(s) + i, byte |-> contents[At(s) + i]]]

(* What a system call that may move all of these bytes can have moved.     *)
SomeOf(bytes) == {SubSeq(bytes, 1, n) : n \in 1 .. Len(bytes)}

(* DirectRead(): some bytes, or none at the end of the file.               *)
DirectRead(s) ==
    LET n == IF Len(Ahead(s)) < kBufferSize THEN Len(Ahead(s)) ELSE kBufferSize
    IN  IF ~OnFile(s) THEN {} ELSE IF n = 0 THEN {<<>>} ELSE SomeOf(SubSeq(Ahead(s), 1, n))

(* Another process adds a byte to the file. *)
Elsewhere == /\ Setups[setup].growing /\ Len(contents) < MaxLength
             /\ \E b \in Bytes : contents' = Append(contents, b)
             /\ UNCHANGED <<descriptor, stream, call, setup>>

-----------------------------------------------------------------------------
(* OPENING AND CLOSING *)

(* Filename::Open() for File.open() and for ServeFile().  The variable     *)
(* append of File.open() has no value unless the mode has an 'a'.          *)
Open(mode, append, for) ==
    /\ FreeDescriptors # {}
    /\ contents' = IF mode = "r" \/ append THEN contents ELSE <<>>
    /\ LET d == Lowest(FreeDescriptors) IN
       /\ descriptor' = [descriptor EXCEPT ![d] = [what |-> "file", at |-> 0,
                                                   append |-> append /\ mode # "r"]]
       /\ call' = [op |-> "new", kind |-> "file", handle |-> d, mode |-> mode, for |-> for]
    /\ UNCHANGED <<stream, setup>>

file_s_open ==
    /\ call = Idle
    /\ \E mode \in Setups[setup].modes : \E append \in IF mode.append THEN {TRUE} ELSE BOOLEAN :
          Open(mode.mode, append, IF mode.binary THEN "binary" ELSE "text")

(* Accept() of the server, when the request before is done with.           *)
Accept ==
    /\ call = Idle /\ Setups[setup].serving /\ FreeDescriptors # {} /\ ~\E s \in Streams : Held(s)
    /\ LET d == Lowest(FreeDescriptors) IN
       /\ descriptor' = [descriptor EXCEPT ![d] = Other]
       /\ call' = [op |-> "new", kind |-> "socket", handle |-> d, mode |-> "rw", for |-> "server"]
    /\ UNCHANGED <<contents, stream, setup>>

(* The object for the descriptor; constructing it may collect others.      *)
New ==
    /\ call.op = "new"
    /\ \E s \in Setups[setup].streams :
          /\ ~Live(s)
          /\ stream' = [stream EXCEPT ![s] =
                [kind |-> call.kind, mode |-> call.mode, handle |-> call.handle, held |-> TRUE,
                 object |-> call.for \in {"text", "binary"}, binary |-> call.for = "binary",
                 buffer |-> <<>>, next |-> 1, whole |-> TRUE, sent |-> <<>>]]
          /\ call' = IF call.kind = "file" /\ call.for \in Streams
                     THEN [op |-> "head", from |-> s, to |-> call.for] ELSE Idle
    /\ UNCHANGED <<contents, descriptor, setup>>

(* Mutant: a file that is closed keeps its number. *)
ShutKeeping(s) == IF stream[s].kind = "file" THEN stream[s].handle ELSE -1

(* m_handle after Close(). *)
Shut(s) == IF stream[s].kind = "file" THEN 0 ELSE -1

(* FileStreamObject::Close() for Stream#close(), and at the end of         *)
(* File.open() with a function; the Stream is left to the collector.       *)
Close(s) ==
    /\ call = Idle /\ Script(s)
    /\ descriptor' = Closing({stream[s].handle})
    /\ stream' = [stream EXCEPT ![s].handle = Shut(s), ![s].held = FALSE, ![s].object = FALSE]
    /\ UNCHANGED <<contents, call, setup>>

(* The last reference is gone: the script lost the object, or the request  *)
(* was not understood and nobody closed the socket.                        *)
Forget(s) == /\ call = Idle /\ Held(s)
             /\ stream' = [stream EXCEPT ![s].held = FALSE]
             /\ UNCHANGED <<contents, descriptor, call, setup>>

(* Descriptors that the destructors close: that of the stream, and, if a   *)
(* FileStreamObject has closed it just before, descriptor 0.               *)
Destroyed(s) == {stream[s].handle} \cup (IF stream[s].object THEN {0} ELSE {})

(* A collection, at some allocation.  If the sweep meets a stream before   *)
(* the object that will close it, the object calls a stream that is gone:  *)
(* the process ends, or the same descriptor is closed twice.               *)
Sweep ==
    /\ call.op \in {"idle", "new"}
    /\ \E D \in SUBSET {s \in Streams : Live(s) /\ ~Held(s)} : \E late \in SUBSET D :
          /\ D # {} /\ \A s \in late : stream[s].object
          /\ \/ /\ descriptor' = Closing(UNION {IF s \in late THEN {stream[s].handle}
                                                              ELSE Destroyed(s) : s \in D})
                /\ stream' = [s \in Streams |-> IF s \in D THEN None ELSE stream[s]]
                /\ call' = call
             \/ /\ late # {} /\ call' = [op |-> "crashed"]
                /\ descriptor' = [d \in Descriptors |-> Free]
                /\ stream' = [s \in Streams |-> None]
    /\ UNCHANGED <<contents, setup>>

-----------------------------------------------------------------------------
(* READING: one byte after the other, through the buffer of the stream *)

(* Mutant: every call begins with an empty buffer. *)
ReadFlushing(s, kind, n) ==
    /\ call = Idle /\ Script(s) /\ IsReadable(s) /\ kind \in Setups[setup].calls
    /\ call' = [op |-> "read", kind |-> kind, on |-> s, start |-> stream[s].next,
                left |-> n, all |-> n = 0, read |-> 0, rune |-> <<>>, got |-> <<>>,
                line |-> <<>>, lines |-> <<>>, torn |-> FALSE]
    /\ stream' = [stream EXCEPT ![s].buffer = <<>>]
    /\ UNCHANGED <<contents, descriptor, setup>>

(* Stream#read() of n bytes or characters (0 for all), Stream#readline(),  *)
(* which reads one by one, and a loop over the lines (StreamIterator).     *)
Read(s, kind, n) ==
    /\ call = Idle /\ Script(s) /\ IsReadable(s) /\ kind \in Setups[setup].calls
    /\ call' = [op |-> "read", kind |-> kind, on |-> s, start |-> stream[s].next,
                left |-> n, all |-> n = 0, read |-> 0, rune |-> <<>>, got |-> <<>>,
                line |-> <<>>, lines |-> <<>>, torn |-> FALSE]
    /\ UNCHANGED <<contents, descriptor, stream, setup>>

(* Mutant: a carriage return at the end of a line stays. *)
ChompNothing(line) == line

Chomp(line)  == IF line # <<>> /\ Last(line).byte = "cr" THEN Front(line) ELSE line
Again(c)     == [c EXCEPT !.left = 1, !.read = 0, !.rune = <<>>, !.got = <<>>]

(* What becomes of the call c when its read() returns: c.got, or null when *)
(* that is empty.                                                          *)
Returned(c) ==
    LET ended == c.got = <<>> \/ c.got[1].byte = "lf"
        lines == IF c.got = <<>> /\ c.line = <<>> THEN c.lines ELSE Append(c.lines, Chomp(c.line))
    IN  CASE c.kind = "read" -> Idle
          [] c.kind # "read" /\ ~ended -> Again([c EXCEPT !.line = @ \o c.got])
          [] c.kind = "line" /\ ended  -> Idle
          [] c.kind = "lines" /\ ended /\ lines # c.lines ->
                Again([c EXCEPT !.line = <<>>, !.lines = lines])
          [] OTHER -> Idle

(* A character or byte is complete: is it the last one that was asked for? *)
Complete(c, bytes) ==
    LET more == [c EXCEPT !.got = @ \o bytes, !.left = IF c.all THEN 0 ELSE @ - 1,
                          !.rune = <<>>,
                          !.read = IF @ + 1 = kBufferSize THEN 0 ELSE @ + 1]
    IN  IF ~c.all /\ c.left = 1 THEN Returned(more) ELSE more

(* A byte from the buffer.  ReadRune() gives up at a byte that does not    *)
(* belong where it is, which ends the read() as the end of the file would. *)
Taken(c, b) ==
    IF stream[c.on].binary THEN Complete(c, <<b>>)
    ELSE IF c.rune # <<>> THEN IF b.byte = "tail" THEN Complete(c, Append(c.rune, b)) ELSE Returned(c)
    ELSE CASE b.byte = "lead" -> [c EXCEPT !.rune = <<b>>]
           [] b.byte = "tail" -> Returned(c)
           [] OTHER           -> Complete(c, <<b>>)

Take ==
    /\ call.op = "read" /\ stream[call.on].buffer # <<>>
    /\ LET b == Head(stream[call.on].buffer) IN
       /\ stream' = [stream EXCEPT ![call.on].buffer = Tail(@), ![call.on].next = b.at + 1]
       /\ call' = Taken(call, b)
    /\ UNCHANGED <<contents, descriptor, setup>>

(* The buffer is filled.  At the end of the file ReadBytes() tries once    *)
(* more if the last Read() gave it something.                              *)
Fill ==
    /\ call.op = "read" /\ stream[call.on].buffer = <<>>
    /\ \E bytes \in DirectRead(call.on) :
          /\ descriptor' = [descriptor EXCEPT ![stream[call.on].handle].at = @ + Len(bytes)]
          /\ stream' = [stream EXCEPT ![call.on].buffer = bytes]
          /\ call' = IF bytes # <<>> THEN call
                     ELSE IF stream[call.on].binary /\ call.read > 0 THEN [call EXCEPT !.read = 0]
                     ELSE Returned(call)
    /\ UNCHANGED <<contents, setup>>

(* A read fails, and what the call has read is lost; inside of a character *)
(* ReadRune() takes the failure for a malformed one.                       *)
ReadFails ==
    /\ call.op = "read" /\ stream[call.on].buffer = <<>>
    /\ call' = IF call.rune = <<>> THEN Idle ELSE Returned([call EXCEPT !.torn = TRUE])
    /\ UNCHANGED <<contents, descriptor, stream, setup>>

-----------------------------------------------------------------------------
(* WRITING *)

(* Stream#write(): n bytes get into the file, which may be fewer than were *)
(* to be written; DirectWrite() does not look.  A write behind the end of  *)
(* a file that was truncated leaves a hole.                                *)
Write(s, n) ==
    /\ call = Idle /\ Script(s) /\ IsWritable(s) /\ "write" \in Setups[setup].calls /\ OnFile(s)
    /\ LET from == IF descriptor[stream[s].handle].append THEN Len(contents) ELSE At(s)
           most == IF from + n > Len(contents) THEN from + n ELSE Len(contents) IN
       /\ most <= MaxLength
       /\ contents' = [i \in 1 .. most |-> IF i \in DOMAIN contents \ (from + 1 .. from + n)
                                           THEN contents[i] ELSE "x"]
       /\ descriptor' = [descriptor EXCEPT ![stream[s].handle].at = from + n]
    /\ stream' = [stream EXCEPT ![s].whole = FALSE]
    /\ UNCHANGED <<call, setup>>

-----------------------------------------------------------------------------
(* A STATIC FILE GOES TO ITS CLIENT *)

(* ServeFile(): if the file cannot be opened send_error() closes the client*)
ServeFile(c) ==
    /\ call = Idle /\ Held(c) /\ stream[c].kind = "socket"
    /\ Open("r", FALSE, c)

(* Client and file are closed, and both references given up. *)
Served(c, s) ==
    /\ descriptor' = Closing({stream[c].handle, stream[s].handle})
    /\ stream' = [stream EXCEPT ![c].handle = Shut(c), ![c].held = FALSE,
                                ![s].handle = Shut(s), ![s].held = FALSE]
    /\ call' = Idle
    /\ UNCHANGED <<contents, setup>>

Connected(c) == descriptor[stream[c].handle].what = "other"

(* The head; when it cannot be written the file is not sent.               *)
WriteHead ==
    /\ call.op = "head"
    /\ \/ Served(call.to, call.from)
       \/ /\ Connected(call.to)
          /\ call' = [op |-> "pipe", from |-> call.from, to |-> call.to,
                      chunk |-> <<>>, cut |-> FALSE]
          /\ UNCHANGED <<contents, descriptor, stream, setup>>

(* Pipe() on a stream nothing was read from: a chunk is read ...           *)
PipeRead ==
    /\ call.op = "pipe" /\ call.chunk = <<>>
    /\ \E bytes \in DirectRead(call.from) :
          /\ bytes # <<>>
          /\ descriptor' = [descriptor EXCEPT ![stream[call.from].handle].at = @ + Len(bytes)]
          /\ call' = [call EXCEPT !.chunk = bytes]
    /\ UNCHANGED <<contents, stream, setup>>

(* Mutant: a chunk of which a part was accepted is written again. *)
PipeWriteAgain ==
    /\ call.op = "pipe" /\ call.chunk # <<>> /\ Connected(call.to)
    /\ \E bytes \in SomeOf(call.chunk) :
          /\ stream' = [stream EXCEPT ![call.to].sent = @ \o bytes]
          /\ call' = [call EXCEPT !.chunk = IF bytes = @ THEN <<>> ELSE @,
                                  !.cut = @ \/ bytes # call.chunk]
    /\ UNCHANGED <<contents, descriptor, setup>>

(* ... and written.  When the connection accepts a part of it the rest is  *)
(* forgotten.                                                              *)
PipeWrite ==
    /\ call.op = "pipe" /\ call.chunk # <<>> /\ Connected(call.to)
    /\ \E bytes \in SomeOf(call.chunk) :
          /\ stream' = [stream EXCEPT ![call.to].sent = @ \o bytes]
          /\ call' = [call EXCEPT !.chunk = <<>>, !.cut = @ \/ bytes # call.chunk]
    /\ UNCHANGED <<contents, descriptor, setup>>

(* The end of the file, or a failure of either side.                       *)
PipeEnds == /\ call.op = "pipe" /\ call.chunk = <<>> /\ <<>> \in DirectRead(call.from)
            /\ Served(call.to, call.from)
PipeFails == call.op = "pipe" /\ Served(call.to, call.from)

-----------------------------------------------------------------------------

Next ==
    \/ Elsewhere \/ file_s_open \/ Accept \/ New \/ Sweep
    \/ Take \/ Fill \/ ReadFails
    \/ WriteHead \/ PipeRead \/ PipeWrite \/ PipeEnds \/ PipeFails
    \/ \E s \in Streams :
          \/ Close(s) \/ Forget(s) \/ ServeFile(s)
          \/ \E n \in 0 .. 2 : Read(s, "read", n)
          \/ \E kind \in {"line", "lines"} : Read(s, kind, 1)
          \/ \E n \in 1 .. 2 : Write(s, n)

Spec == Init /\ [][Next]_vars

-----------------------------------------------------------------------------
(* PROPERTIES *)

(* No read loses or repeats a byte of a file, however calls of all kinds   *)
(* follow one another, whatever they break off at, and however the kernel  *)
(* cuts the file up: the buffer goes on where the last call stopped, and   *)
(* the file where the buffer ends.  Streams that write, and those on       *)
(* descriptor 0, which they may have to share, are left out.               *)
NothingIsSkipped ==
    \A s \in Streams :
        Script(s) /\ stream[s].whole /\ stream[s].handle # 0 =>
            LET b == stream[s].buffer IN
            /\ \A i \in DOMAIN b : b[i].at = stream[s].next + i - 1
            /\ At(s) = stream[s].next + Len(b) - 1

(* The lines of a text by themselves, as the documentation of              *)
(* Stream#readline() separates them: by \r\n, by \n or just by \r.         *)
IsText(bytes) ==
    \A i \in DOMAIN bytes : /\ bytes[i] = "lead" => i < Len(bytes) /\ bytes[i + 1] = "tail"
                            /\ bytes[i] = "tail" => i > 1 /\ bytes[i - 1] = "lead"
Pair(bytes, i) == i \in 1 .. Len(bytes) - 1 /\ bytes[i] = "cr" /\ bytes[i + 1] = "lf"
LinesOf(bytes) ==
    LET ends == {i \in DOMAIN bytes : bytes[i] \in {"cr", "lf"} /\ ~Pair(bytes, i)}
        end  == SetToSortSeq(ends, <)
        from(n) == IF n = 1 THEN 1 ELSE end[n - 1] + 1
        to(n)   == IF Pair(bytes, end[n] - 1) THEN end[n] - 2 ELSE end[n] - 1
        whole   == [n \in 1 .. Len(end) |-> SubSeq(bytes, from(n), to(n))]
        rest    == SubSeq(bytes, from(Len(end) + 1), Len(bytes))
    IN  IF rest = <<>> THEN whole ELSE Append(whole, rest)

(* The code separates at \n only, and takes a \r away in front of it and at *)
(* the end of the file: where a \r stands elsewhere, code and documentation *)
(* disagree.                                                               *)
LoneReturn(bytes) == \E i \in 1 .. Len(bytes) - 1 : bytes[i] = "cr" /\ ~Pair(bytes, i)

(* A loop over the lines of a file nobody writes delivers its lines, as     *)
(* long as the text is well formed, has no lone \r before its end, and no  *)
(* read() fails in the middle of a character; and of itself it ends only   *)
(* where the text ends, lone \r or not.                                    *)
TextRead(c, to) == SubSeq(contents, c.start, to - 1)
InLines == call.op = "read" /\ call.kind = "lines" /\ ~call.torn /\ stream[call.on].handle # 0
LineEnded == (Take \/ Fill) /\ call' # Idle
             /\ call'.got = <<>> /\ call'.line = <<>> /\ call'.rune = <<>>
LinesAreTheText ==
    [][InLines =>
         LET text == TextRead(call, stream'[call.on].next) IN
         stream[call.on].binary \/ IsText(text) =>
             /\ call' = Idle => ReadFails \/ Fill
             /\ LineEnded /\ ~LoneReturn(text) =>
                   [i \in DOMAIN call'.lines |->
                      [j \in DOMAIN call'.lines[i] |-> call'.lines[i][j].byte]] = LinesOf(text)]_vars

(* Every descriptor but 0 belongs to one stream, which is going to close   *)
(* it: none is closed under a stream that uses it, and none is left open.  *)
DescriptorsAreOwned ==
    \A d \in Descriptors \ {0} :
        Cardinality({s \in Streams : Live(s) /\ stream[s].handle = d})
            + (IF call.op = "new" /\ call.handle = d THEN 1 ELSE 0)
        = IF descriptor[d] = Free THEN 0 ELSE 1

(* A client gets the bytes of the file in their order, and if Pipe() comes *)
(* to the end of the file and no write was cut short it got all of them.   *)
InOrder(bytes) == \A i, j \in DOMAIN bytes : i < j => bytes[i].at < bytes[j].at
ClientsGetTheFile ==
    [][/\ \A s \in Streams : Live(s) => InOrder(stream[s].sent)
       /\ PipeEnds /\ ~call.cut =>
            [i \in DOMAIN stream[call.to].sent |-> stream[call.to].sent[i].byte] = contents]_vars
=============================================================================
