# A formal model of tempearly

tempearly is an interpreter for a scripting and template language for web pages,
written in C++ (`src/src`), with a reference-counting and generational memory
manager of its own, a small standard library and several front ends, one of them
a web server. This directory holds TLA+ modules translated from the parts of
that program that keep interesting state, TLC configurations that check them on
small instances, and proofs for TLAPS: of the memory manager, the execution of
statements, calls and lookups, the lexer and the parser of scripts, the
collections of the language with the loops over them, the web server with its
responses and files, and dates. The modules cover the memory manager, the
parsers, the execution of statements, calls and lookups, the collections with
their iterators, streams, dates and the server.

Paths below are relative to `src/src` of the repository. `PROJECT.json` lists
every run with its properties, the lines every definition stands for, the
hazards found in the code and the deliberate defects (`mutants`) that show that
each property can fail.

## Inventory

| component | state | operations | who calls it | what must be true |
| --- | --- | --- | --- | --- |
| handles and collector (`memory.h`, `memory.cc`) | three generations, marks, reference counters, counters of allocations | every assignment, move and destruction of a `Handle`; `operator new` with mark and sweep | everything: any allocation may collect | as long as no accessible object is deleted, no handle dangles; nothing counted is deleted; garbage goes away |
| blocks (`memory.cc`, class `Block`) | two doubly linked lists of records per block | `Allocate`, `MarkAsFree` | `operator new`, the sweep | a record is on one list; free memory is reused |
| script execution (`script/node.cc`, `interpreter.cc`, `frame.cc`, `api/function.cc`) | C++ stack, frames, pending exception, caught exception | `Execute` of every statement, calls, include, import, throw and catch | front ends, native functions | frames match calls; no exception is lost or left over; finally runs |
| lists (`api/list.cc`) | links, front, back, size | append, prepend, insert, pop, remove, clear, assignment, +, * | scripts, other natives | the elements are those the script put there; walks end |
| iterators (`api/iterator.cc`) | push-back buffer, a raw pointer into the list | next, peek, feed | `for` loops, natives | each element once and in order |
| response (`sapi/response.cc`, `sapi/httpd/response.cc`, `api/response.cc`) | status, headers, committed | header, status, redirect, write, exception | scripts, the server | one head, before the body |
| HTTP server (`sapi/httpd/server.cc`) | script cache, connection in service | accept, parse, compile, execute, close | clients | edits are served, connections are closed |
| dates and times (`core/date.cc`, `time.cc`, `datetime.cc`) | values | ++, --, compare, validity | the server's cache, scripts | counts days; orders moments |
| script parser (`script/parser.cc`, `core/parser.cc`) | runes and tokens that wait to be read again, template mode, separators | read, unread, one function per production | server, import | what is unread is read again in order; what is accepted is well formed; it ends |
| streams, files, sockets (`io/stream.cc`, `api/stream.cc`, `api/file.cc`, `core/filename.cc`, `net/socket.cc`) | buffers, offsets, descriptors | open, read, write, pipe, close, collection | scripts, server | bytes arrive once and in order; a descriptor has one owner |
| maps, sets, `Dictionary` (`api/map.cc`, `api/set.cc`, `core/dictionary.h`) | buckets and an order of insertion | insert, erase, lookup, iterate, combine | scripts, frames, classes | lookup and order agree with what was inserted |
| iterables and ranges (`api/iterable.cc`, `api/range.cc`) | what a method has collected, the iterator it asks | the methods of `Iterable` | scripts | every element is accounted for |
| object model (`object.cc`, `customobject.cc`, `api/class.cc`, `api/function.cc`) | attributes, class chain | lookup, assignment, call, allocation | scripts, every native | a native gets an object of its class; failures leave exceptions |
| JSON (`json/parser.cc`, `as_json()`) | the position in the text | read, write | scripts | a value is what its text says |
| strings (`core/string.cc`, `bytestring.cc`) | shared immutable buffers | slices, conversions, compare | everything | a slice is what it says |
| URLs, request data, cookies | – | parsing | the server, scripts | – |
| CGI, FastCGI, Apache, REPL front ends | – | drive interpreter and response | the host | – |

**How they interact.** A front end creates an `Interpreter` and a response,
compiles a script and executes it. Executing a node allocates objects, so a
collection may happen between almost any two statements of C++; it calls
`Mark()` of objects with a counter that is not zero, which reaches the others
through raw members. Scripts call back: `__eq__`, `__iter__`, `next` and
attribute access may run script code in the middle of a native method, of a
loop over a table, or of the lookup of another attribute. The
server's cache outlives interpreters and is itself marked by collections.

**What is hard.** The program has one thread. What interleaves is the collector
with everything else, script callbacks with native loops, time and edits of
files with the server, and clients with each other. Errors are a protocol (a
result kind together with a pending exception), which every node has to keep
although statements end in five ways. Linked structures are unlinked by hand.
Both parsers push back what they have read too much of. System calls move fewer
bytes than they are asked for.

## The modules

| module | models | abstraction |
| --- | --- | --- |
| `HandleHeap` | what the memory manager promises | a set of live objects and what handles point at, up to the collection that deletes what is in use |
| `GarbageCollector` | `memory.h`, `memory.cc` | objects are slots; members are two sets of raw pointers, those `Mark()` follows and those it passes over; which record is taken is open |
| `GarbageCollectorProofs` | – | theorems about it |
| `BlockAllocator` | class `Block` and the search in `operator new` | sizes from a small set |
| `BlockAllocatorProofs` | – | theorems about the lists of records |
| `ScriptExecution` | statements, calls, frames, exceptions | no values: conditions, expressions and natives are nondeterministic, so one behaviour set stands for all programs |
| `ObjectModel` | lookup, classes, functions and methods | scripted functions return anything; functions have no attributes of their own |
| `ExecutionProofs` | – | theorems about both: frames, exceptions, control and finally; receivers and outcomes |
| `MCScriptExecution` | – | a run of `ScriptExecution` or of `ObjectModel` |
| `ListObject` | `ListObject` and the methods of `List` | values are told apart, nothing else |
| `ListIteration` | iterators and the search of `List#remove()` while the list changes | one list; comparison by an arbitrary `__eq__` |
| `ListIterationProofs` | – | theorems about lists, iterators and the search |
| `OrderedMap` | what a `Dictionary`, a map and a set promise | a sequence of entries with different hashes |
| `HashTable` | the entries, buckets and pointers of the three tables | an entry is its place in the order of construction |
| `MapsAndSets` | the methods of `Map`, `Set` and `Dictionary`, their iterators, `join()` and `as_json()` of maps | script code between two steps of a loop is any operation |
| `MapsAndSetsProofs` | – | theorems about tables as ordered maps, loops over them, the flag of a map, ranges |
| `Iterables` | the methods of `Iterable`, the iterators of ranges | what callbacks answer is open |
| `ScriptLexer` | `core/parser.cc`, `ReadToken()` | a keyword is one rune; no texts of literals |
| `ScriptParser` | the parse functions, templates | nodes are their operator and the levels of their operands |
| `ScriptParserProofs` | – | theorems about the order of runes, the text of templates and the grouping of operators |
| `JsonParser` | the JSON parser, conversion of numbers, `as_json()` | floats are decimal fractions with four digits |
| `FileStreams` | streams, files, sockets, lines, static files | one file, whose bytes are known by their places |
| `FileStreamsProofs` | – | theorems about descriptors, reads and static files |
| `DateTime`, `CalendarWalk` | calendar arithmetic; a walk over days | no weekdays, formats and zones |
| `Response` | the response object | header values from a small set |
| `HttpServer` | the server around `Response` and `DateTime`, its clients, files and clock | parsing of requests is a choice of outcome |
| `HttpServerProofs` | – | theorems about the server and its responses, and about ++, -- and comparison of its dates |
| `MCGarbageCollector`, `MCHttpServer`, `MCFileStreams`, `MCIterables`, `MCListIteration` | – | symmetry and what is explored of the heap, what is fed, the moments of the clock, files and modes, tables and loops |
| `MCScriptParser` | – | the programs, templates and JSON texts; a text is read by one of the two parsers |

`GarbageCollector` refines `HandleHeap`. `HttpServer` extends `Response` and
`DateTime`; `ListIteration` extends `ListObject`; `CalendarWalk` extends
`DateTime`. `Iterables` extends `MapsAndSets`, which extends `HashTable` and
refines `OrderedMap`. `ScriptParser` and `JsonParser` both extend `ScriptLexer`,
as the two C++ classes have one base.

### GarbageCollector

The variables are the fields of `memory.h` and `memory.cc`: `generation[g]` is
the list from `gc_generation[g].head`, `counter[g]` its counter, `marked` the
flags, `count` the reference counters (unsigned, so that they wrap), `handle`
the pointer of every `Handle` and `owner` the object a handle is a member of
(the classes of an `Interpreter`, the script of a `ScriptMapping`). Most members
are raw pointers. `children` are those `Mark()` of the object follows, `blind`
those it passes over: `TryNode::Mark()` marks its else and finally blocks only
if they are marked already (`script/node.cc:445`, `449`), and the objects of
`Function`, `List`, `Map`, `Set`, `Range`, `Iterator` and `Exception` call
`Object::Mark()` instead of `CustomObject::Mark()`, so that their class and
attributes are not reached. Any object of the model may have members of both
kinds.

The mutator has one action per way to change a handle or a member: `CopyAssign`,
`MoveAssign`, `Release`, `LoadMember`, `StoreMember`, `StoreBlindMember`,
`EraseMember`, `AdoptHandle`. `LoadMember` reads a raw pointer wherever it leads,
as the code does: into the record of a deleted object, whose counter it then
increments, or to the object that has been placed there since. `operator new` is
split where other state is read or changed: `New` or `NewTemporary` starts it,
`Examine` is the loop that finds a generation whose counter has reached the
threshold, `gc_mark` and `gc_sweep` collect, `Place` links the new object,
`BadAlloc` throws.

Three things of the code decide what can be claimed. Marks are cleared by a sweep
only in the generation that is swept, so that marks of other generations stay
and keep garbage for one more collection, and keep `Mark()` from entering these
objects. Marking starts from the counted objects of the generation alone. And
some members are passed over. By each of the last two, and by marks left over,
an object that the program can still get at may be deleted. The history variable
`torn` says that this has happened; after it a member of an accessible object
dangles, a handle it is read into dangles too, and the memory manager promises
nothing (`Safe` is claimed while `torn` is false, and `HandleHeap` has a variable
`broken` for it). What remains to be shown, and is, is that nothing *else* makes
a handle dangle (neither assignments in any order, nor the destructors of
swept objects, nor records that are taken again) and that a collection loses
an accessible object only behind a member it does not follow
(`LossesAreExplained`). `leaked` counts the references that move assignment
loses (`memory.h:233`), so that the counters can be required to be exact.

### BlockAllocator

Records are numbered as they are carved. `Allocate` is `Reuse`, `Carve` or
`NewBlock`, in the order of the code's search; unlinking is given by what
happens to each pointer (`NextWithout`, `PrevWithout`, `HeadWithout`,
`TailWithout`), which is shorter than the four cases of the code and the same.
`MarkAsFree` leaves the record's own `prev` as it was; the variable `stale`
says that an allocation has since followed such a pointer, after which the
lists mean nothing any more (and the model stops when a record in use is taken).

### ScriptExecution

`stack` is the C++ call stack: an activation per `Execute` or `Invoke` that has
not returned, with where in its body it is. `result` is the `Result` a child
has just returned. Every statement has actions for each thing it does with each
kind of result. The auxiliary variables `leaked` and `lost` mark three places
where the code leaves the protocol: `Import` of a module that fails to compile
does not pop its frame (`interpreter.cc:141`), `AttributeNode::Assign` reports
failure without an exception (`script/node.cc:691`), and a pending exception is
cleared while an error is kept for later, by an activation below the one that
clears it (`ErrorKept`). `EnterGetattr` is the call of a
scripted `__getattr__()`: the lookup before it has thrown already, and if the
call succeeds that exception (`Missing`) stays pending although nothing failed
(`object.cc:58`); the property about unnoticed exceptions names this case.

A `return` with a value comes back as an ordinary success (`script/node.cc:480`),
so that the statements behind it are executed; the model does the same.

### ObjectModel

`objects` has for every object its class, its C++ type and its attributes, for
classes their base and allocator, too. `todo` is the stack of C++ functions that
have not returned (`GetAttribute`, the rest of `CallMethod`, `Invoke` of every
kind of function, the rest of a native method behind a call it makes), and
`answer` is what the last one returned. The script reads an attribute, keeps the
result (`held`), assigns it to an attribute, and calls attributes, with or
without an argument. What follows from the code, and is so in the model:

* `Object::GetAttribute()` asks the class of an object *as an object*
  (`object.cc:46`), so that a method of `Class` is found for instances, bound to
  their class: `o()` makes another instance of the class of `o`;
* `Class#__str__()` is found for `Class` alone, since other classes find the
  method of `Object` first, along their bases;
* `CallMethod()` of an attribute that is no function and whose `__call__` is
  none either succeeds and leaves the result as it was (`object.cc:104`). In
  `Class#__call__()` that is a null handle: the process dies (the model stops
  before `Initialize`);
* the classes `Stream` and `File` have no allocator, so that an instance a
  script makes of them is a `CustomObject` although their methods cast it
  (`api/stream.cc:204`, `api/file.cc:772`). `ReceiverFits` is about classes
  with an allocator of their own.

### ListObject and ListIteration

Links are numbered as they are constructed. `ideal` is the sequence the comments
of the methods promise, and `intact` says that none of these has happened:

* `Insert()` at a position that exists puts the new link behind that position
  and leaves its `m_next` null: the rest of the list is cut off
  (`api/list.cc:136`), while `m_back` stays on the part that was cut off;
* `Append(vector)` and `Prepend(vector)` do not set `m_prev` where new and old
  links meet (`api/list.cc:55`, `116`), and `Erase()` takes a link without
  `m_prev` for the first (`api/list.cc:170`): `a = [1]; a.append(2); a.pop()`
  leaves an empty list of size 1.

What holds of all lists, broken or not, is therefore separate from what holds
of intact ones. `ListIteration` adds iterators whose `m_link` is a pointer into
the list, and the loop of `List#remove()`, whose `__eq__` calls are points at
which any other operation may happen. `Grow`, `Move` and `Replace` are the
operations by whether an index still means the same element afterwards. All
empty collections share one iterator object (`interpreter.cc:338`), so that what
is fed to it is delivered by the next loop over something empty; the property
about delivered elements leaves that iterator out and says so. `fed` is what was
pushed back to an iterator and not delivered yet. `api/iterator.cc:144` promises
an order in which several fed objects come ("LILO(Last In, Last Out)") that the
code does not keep: the last one fed comes first. `DeliversTheList` therefore
requires of an iterator over a list left alone that everything fed comes, each
as often as it was fed, in whichever order, and before the rest of the list.

### HashTable, OrderedMap, MapsAndSets and Iterables

`HashTable` has the record of a table: its entries with the pointers `m_next`,
`m_prev` and `m_child`, the heads of the buckets, front, back and size. An entry
that was erased keeps its pointers, because a loop may stand on it.
`MapsAndSets` has an action for each method; those that run over another table
or make a new one do it whole. `contents` is what the list of every table
contains, maintained next to it, and the refinement mapping to `OrderedMap`. A loop
is an iterator (it holds the entry it will deliver) or a walk (`join()` and
`as_json()`: it holds the entry being converted), and `owed` are the entries it
has still to deliver. `Iterables` runs one method over a table, a range or an
iterator defined in a script, with the state the C++ function has in its local
variables; between two elements the callback may change the table or fail.

### ScriptLexer, ScriptParser and JsonParser

`source` and `pos` are the stream, `runes` and `tokens` the two push-back
buffers; runes are kept by position, so that two equal ones are told apart.
`ReadToken()` reads one rune a step. In `ScriptParser` a parse function is what
it still does, given the token it peeks at: `todo` is the stack of that, `vals`
the nodes that are not part of another one yet. A null node returns through
`todo` up to a place in the code that does not look at it. `JsonParser` is
another machine on the same lexer state, with `as_json()` and a definition of
what a text denotes (RFC 8259) to be compared with. `odd` collects the ways in
which a text has met one of the departures listed below; a property that does not
hold for these names the tag, and each tag is necessary.

### FileStreams

Every system call is a step, after which the kernel has moved any number of
bytes up to what was asked for, and in which another process may write. A stream
has its descriptor, its buffer and the place of the byte a script gets next; a
call in progress has what it has read so far. `Sweep` collects streams nobody
refers to, with the two descriptors their destructors close. Setups say what a
part of the run is about: which files, modes and calls.

### Response, HttpServer and DateTime

`Response` has an action per function a script can call and the three ends of
`ServeScript`. `HttpServer` adds the accept loop with its clients, the cache
with `last_cached`, and an environment that lets the clock tick, edits files,
changes their permissions and lets the collector run. `ServeScript`, `Open` and
`Compile` are steps of their own because time passes and files change between
them. Times are the actual values of `DateTime`, because `Time::IsValid` refuses
the last second of a minute (`core/time.cc:36`) and such a time becomes midnight.

## The runs

| run | instance | what it shows |
| --- | --- | --- |
| `collector` | 3 slots, 2 handles, threshold 2, counters up to 2, one raw member per object of either kind, two in the heap, one lost reference | the invariant (handles, exact counters and accessible members while nothing accessible was deleted), what a collection can miss and what it marks, and refinement of `HandleHeap` |
| `collector_liveness` | 2 slots, 2 handles, counters up to 1, one member per object, without symmetry | garbage is deleted unless something accessible is deleted before |
| `accessible_never_trashed` | as `collector` | counterexample: `memory.h:378` |
| `blocks` | 5 records, 3 blocks, sizes 1, 2 and 8 in a block of 8 | lists stay well formed; carving is the last resort |
| `execution` | four activations and a catch clause; two objects made by the script, one assignment, calls four deep | frames, exceptions, control and finally blocks; natives get objects of their class (`ReceiverFits`), failures leave exceptions (`OutcomeIsPending`) |
| `lists` | five links, two arguments per call | no cycles, no underflow of `m_size`, and documented contents up to the first broken operation |
| `iteration` | three links, one iterator of its own and the shared one, one search, up to two pushed-back objects that differ | order, no repetition, peek, feed, stale index |
| `calendar` | two years from 1899, 1903 and 1999 | days, days of the year, order |
| `server` | 2 clients, one script, two edits, four seconds around the end of a minute | responses, connections, cache |
| `parser` | 40 programs and templates that use every production, each also cut off at and changed in every place; all pairs of binary operators; 29 JSON texts with the same changes, and what `as_json()` writes for 72 values | text is kept, operators group as documented, failures are explained, what is accepted is well formed, JSON means what it says, both parsers end |
| `streams` | one stream and every file of up to three bytes, a growing file, two streams on a file, three streams that serve clients; buffers of two bytes | no byte is skipped or repeated, lines are those of the text (ended by a line feed, with or without a carriage return before it), descriptors have one owner, clients get the file in order |
| `collections` | two tables that are combined, one table with up to two loops, all methods over sets, ranges up to the largest integer and script iterators | refinement of `OrderedMap`, no entry missed, flags released, methods account for every element, ranges of integers in order and other ranges inside their bounds |

Why these bounds are enough. *collector*: three slots give one object in each
generation, or a chain or cycle of three; threshold 2 makes a generation be
collected while another is between collections; the reference counter reaches 2,
which tells "shared" from "owned once". The constraint `Explored` of the run
leaves out states with more than two raw members in the whole heap or a second
lost reference, and combinations of a lost reference with members that are
handles or passed over (the proofs have no such limits); a state with a dangling
handle is still checked, but not continued, because the program may do anything
with such a handle. *blocks*: size 8 does not fit in a block with its header, 1
and 2 make a record too small for a request; five records are two on each list
and one that is moved. *execution*: a script that calls a function whose body is
a try statement in a loop uses four activations, and so does one with a try
statement in a catch clause, whose own clause is the fifth. A class and an
instance of it, next to `List`, are what methods can be moved between; one
assignment suffices to put a method where it does not belong, and four levels
are a call inside the making of an instance. *lists*: five links are enough for
a broken operation in the middle followed by an append to and a removal from
both parts. *iteration*: what is fed is an object no list holds, alone or with
one that may be an element as well, fed in one call, so that two objects that
wait can be told apart; the rest of the list at the moment of a change has zero,
one or two elements; more iterators do not influence each other because they
change nothing but themselves, except through the shared one, which exists next
to the single handle. *calendar*: two kinds of centuries and a leap year in each
direction. *server*: the last second of a minute is in the middle of the
moments, two clients let one wait while the other is served, and two edits can
fall on both sides of a compilation. *parser*: the parse functions look no
further ahead than two runes or one token, and every place of every production
is the place of a change in some text. *streams*: a file of three bytes is
longer than the buffer, so that characters, separators and lines meet every
boundary; three descriptors are one more than streams that share one.
*collections*: two buckets with four objects give an entry alone, two in a
bucket, and two objects with one hash; three entries are a first, a middle and a
last one.

Deadlock is checked in the runs of the collector, the lists and the iterators. The other
models may stop: a program or a parser ends, a process dies at a null pointer,
the tables of a run are full, a server that followed a null pointer
crashes, a walk reaches its last year, and `BlockAllocator` stops when an object
would be placed over another.

**Fairness.** `collector_liveness` and the property `ParsersEnd` of `parser`
need it. The parsers are straight-line code and loops without waiting, so that
weak fairness of their next step is what a processor does; the text is finite,
and what is to be shown is that no loop of a parser stays in one place. For the
collector, `WF(OperatorNew)`: the code of `operator new` runs to its end, since
it is straight-line code and loops over finite lists. `WF(NewTemporary)`: the
interpreter goes on allocating, since every node it evaluates makes objects; an
interpreter that allocates no more collects no more, which is what the code
does. Nothing is assumed of handles being released or of which record is taken.

## What is proved

Eight modules hold theorems. A theorem is about every value of the constants
that the named assumptions of its module allow; the runs show the same
properties on one instance. Each module has an inductive invariant, one lemma
per action (or per kind of step) that keeps it, and theorems that follow from
it. Invariants that TLC can evaluate were given to it before they were proved;
those that say that an order, a sequence or a set exists (`ListInv`,
`ReceiverInv`, `GroupInv`) were not.

### The collector

`GarbageCollectorProofs` proves for every finite set of slots and handles and
every threshold and bound (assumptions: these sets are finite and do not
contain `Null`, the threshold is positive, the counted references fit into a
counter):

| theorem | statement |
| --- | --- |
| `Invariant` | `Spec => []IInv` |
| `HandlesNeverDangle` | `Spec => [](~torn => HandleTargetsLive /\ CountsAreExact /\ AccessibleIsLive)` |
| `CountedObjectsSurvive` | `Spec => CountedNeverDeleted` |
| `CollectionsLoseNothingElse` | `Spec => LossesAreExplained` |
| `CollectionsArePrecise` | `Spec => OnlyAccessibleIsMarked` |
| `CollectorImplementsHandleHeap` | `Spec => ImplementsHandleHeap` |

`HandleTargetsLive` is not inductive. A sweep deletes objects, and that none of
these has a handle follows only from its counter being zero, thus from
`CountsAreExact`: a counter is the number of handles to the object and of the
references that move assignments lost. And a handle is assigned what a member
holds, so the members of everything accessible must be live
(`AccessibleIsLive`); this is what a collection may break, and `torn` says
whether one did. `IInv` has these three while `torn` is false, and

* `FreeIsBare`, also while `torn` is false: what was deleted has no members and
  owns no handles, so that a record that is taken again drags nothing along;
* `RootsMarked`: when a sweep begins, counted objects of the generation carry
  marks, whether this collection or an earlier one set them;
* `GenerationsDisjoint`: a survivor is moved to a list it was not on;
* `DestNull`: the destination of a `new` expression is null during `operator
  new`, so that destructors do not change it.

`RootsMarked`, `GenerationsDisjoint` and `CountedNeverDeleted` hold after `torn`
as well: even then no collection deletes an object with a counter that is not
zero.

The proof has one lemma per action. Those of assignments rest on lemmas about
how the number of handles to an object changes when one handle is moved
(`RetargetExact`, `MoveExact`), that of the sweep on one about removing a set of
handles at once (`ReleasedIs`). What is accessible is a least closed set, of
which `AccessIs` and `AccessWithin` are all that is used: it is closed, and
inside every closed set with the roots. Hence a step that roots accessible
objects only and gives accessible objects accessible members makes nothing else
accessible (`AccessShrinks`), and each assignment is shown to be such a step.
`CollectionsLoseNothingElse` is about three least closed sets: the marks a
collection sets, with what is accessible of other generations and what hangs on
members that are not followed, contain the roots and are closed, so everything
accessible is among them. For the refinement every action is shown to be
`Allocate`, `Assign`, `Collect` or a stutter of `HandleHeap`, and after `torn`
anything.

### Blocks

`BlockAllocatorProofs`, for any number of records and blocks, any sizes, header
and capacity:

| theorem | statement |
| --- | --- |
| `ListsStayWellFormed` | `Spec => []WellFormed` |
| `FreeRecordsComeFirst` | `Spec => ReuseBeforeCarve` |

`WellFormed` says what is met by following `next` from the head of a list, and
this is no help for a step that unlinks in the middle. `IInv` says instead that
there is a sequence of different records with the set it should have as its
range, of which head, tail, `next` and `prev` are the first, the last, and the
neighbours (`List`), and that records beyond `carved` belong to no block.
`ListPushed` and `ListUnlinked` show how pointers have to change for such a
sequence to gain or lose a record, `ListElsewhere` that others do not notice,
and `ListIsFollowed` that `Follow` meets the sequence and then null. Only the
`prev` of the first record may be anything: `MarkAsFree` leaves it
(`memory.cc:184`). The assignments of `MarkAsFree` and `Reuse` come down to one
rewiring (`Rewired`), which is why both are unlinking and pushing.
`FreeRecordsComeFirst` follows: what a block did not find was not on its list,
so it is too small.

### Statements, calls and exceptions

In `ExecutionProofs`, for every depth of the C++ stack and every set of
exceptions that has no `None`:

| theorem | statement |
| --- | --- |
| `FramesFollowTheCalls` | `Spec => []WellNested` |
| `ExceptionsAreAccountedFor` | `Spec => []PendingIsAccountedFor` |
| `ControlIsConfined` | `Spec => []ControlStaysInside` |
| `FinallyAlwaysRuns` | `Spec => FinallyRuns` |

The first three are inductive together, not one by one: what an exception is
pending for depends on which activations are evaluating a type or a finally
block, and where a break can arrive on what may stand in what. For this
`WellNested` says of the whole stack which activation may enter which
(`Nests`), and that the frames are the owners among the activations in their
order (`IsFrameChain`). The lemmas in front say what pushing, changing and
popping the innermost activation does to these and to `ErrorKept`, `NativeRuns`
and `CatchRuns`, so that the steps need no induction over the stack. The
attempt to prove `PendingIsAccountedFor` showed that clearing an exception set
`lost` whenever an error was kept by the try statement that clears it, so that
every typed catch clause that matched excused what came after it; now `lost` is
set only if another activation has kept the error.

### Lookups, calls and receivers

In `ExecutionProofs`, too, for every set of objects a script may make, every
depth of calls and number of assignments:

| theorem | statement |
| --- | --- |
| `OutcomesAgree` | `ObjectSpec => []OutcomeIsPending` |
| `ReceiversFit` | `ObjectSpec => []ReceiverFits` |

`OutcomeInv` speaks of the functions that have not returned, too: all but the
innermost wait for one they have called, and while one runs nothing is pending.
`ReceiverInv` speaks of what there is: classes, which a script can only give
attributes, form a tree of depth two; a class with an allocator of its own has
instances of its type; and a value that is held, kept in an attribute, bound or
passed is an object that exists or a function over such values. Functions bind
functions, so there is no set of all values; the invariant says that there is
*a* set closed under what values contain (`Exist`), and each step adds to it.

### Lists, iterators and remove()

`ListIterationProofs`, for any number of links, handles and objects and every
bound on sizes (assumptions: objects that are assigned are no links,
`EmptyIterator` is no handle):

| theorem | statement |
| --- | --- |
| `ListStaysWalkable` | `ListSpec => []StaysWalkable` |
| `ListKeepsItsElements` | `ListSpec => []KeepsItsElements` |
| `IteratorDeliversTheList` | `Spec => []DeliversTheList` |
| `IteratorNeverDeliversTwice` | `Spec => []NeverTwice` |
| `RemoveErasesWhatItFound` | `Spec => []RemovesWhatItFound` |

A broken list is no sequence: parts that were cut off go on pointing into it,
`m_prev` may be null anywhere and `m_back` may be on a part that was cut off.
The invariant (`ListInv`) therefore gives every link a *place*, a number that
grows along `m_next` and along `m_prev` backwards, whether the link can still be
reached or not (`Ranked`); it is the existence of places that is inductive. New
links get places behind all, before all, or right behind the link they are
inserted at, and no operation turns the order of two links around
(`SameOrder`). What can be reached from `m_front` is in addition a finite
sequence (`Shape`), in which a link knows the one before it or none, which
`m_size` covers, and which is `ideal` while the list is intact; each operation
is shown to append to it, join to it, cut it or unlink one of it. `ChainExists`
and `ChainIsWalk` identify such a sequence with `Walk`, by way of the places and
not by induction over lists.

`IterInv` adds to this that the links an iterator went through have places
before its cursor, which is why it never meets one again, even on parts that
were cut off; that an iterator of a list left alone has to deliver what is
pushed back, reversed, and the rest of the list; and that the index of a search
is at most the number of links with places before the one it looks at, so that
it cannot outgrow the number of links, and is that link's index as long as
nothing was moved. Operations that only append or assign keep every index
(`Longer`). `ListChanges` is used for all operations on the list, and
`IteratorsStep` for all steps of iterators.

### The server and its responses

`HttpServerProofs`, for every set of clients, scripts and status codes, every
sequence of moments and every bound on edits and messages (assumptions: `None`
is no client and no script, there is a moment, all are dates of the calendar,
and later ones compare as later):

| theorem | statement |
| --- | --- |
| `HeadsAreSentOnce` | `Spec => []HeadIsSentOnce` |
| `ScriptsAreAnswered` | `Spec => []ScriptIsAnswered` |
| `OneConnectionAtATime` | `Spec => []OneConnection` |
| `EditsAreSeen` | `Spec => []EditsAreNoticed` |

`HeadIsSentOnce` becomes inductive (`ResponseInv`) with the type of the
messages and with room for the message of a failure while a script executes;
all its lemmas rest on `CommittingForms` (committing sends the head exactly if
it was not sent) and `AppendForms` (a piece of the body goes behind it).
`AnswerInv` adds that a script that has sent a head and no body has redirected.
`OneConnection` is inductive as it stands, because it says for every place in
`Run()` whether there is a connection in service; `ReturnStep` covers all ways
out of `Serve()`. `CacheInv` dates what is cached and what is being compiled:
it was read at a moment, `last_cached` is a later one, and a file that was
opened then and was not written since has those contents. That an edit is
noticed then rests on `LaterStaysLater`: moments that compare as later still do
so once they are `DateTime`s, *if* both are valid ones. `ClockAssumption`
leaves out that someone sets the clock back and that a summer time ends; then
an edit can go unnoticed for as long as the clock repeats itself.

### Streams, files and descriptors

`FileStreamsProofs`, for files of every length, buffers of every size, any
number of streams and descriptors and all setups (`SetupsAssumption`,
`NamesAssumption`: they name streams, files and modes that exist, and words
that are no streams):

| theorem | statement |
| --- | --- |
| `DescriptorsHaveOneOwner` | `Spec => []DescriptorsAreOwned` |
| `ReadsAreContinuous` | `Spec => []NothingIsSkipped` |
| `FilesReachTheirClients` | `Spec => ClientsGetTheFile` |

`OneOwner` follows a descriptor above 0 from the kernel into the object that
will close it, through the calls between opening and constructing (`OnItsWay`):
no two live streams have it, and it is open until its owner closes it. It is
needed also for the bytes, since only the owner moves the offset.
`NothingIsSkipped` is inductive with it: what a script has got, what waits in
the buffer and the offset are consecutive. `Piped` says how far a file on its
way to a client is: all before the chunk has been sent unless a write was
short, the chunk is what precedes the offset. `ClientsGetTheFile` is about the
step in which the last chunk turns out to be empty.

### Maps, sets and the loops over them

`MapsAndSetsProofs`, for any number of tables, loops and objects, any hash codes
and any number of buckets (`ObjectsAssumption`: the marks `Gone` and `NoEntry`
are no objects; `SetupsAssumption`: a run starts with finitely many entries in
each table, of objects that exist; `BucketSizeAssumption`: there is a bucket;
`IterablesAssumption` and `MethodsAssumption` for `Iterables`: methods run over
tables, ranges of `i64` values or script iterators):

| theorem | statement |
| --- | --- |
| `LoopsMissNothing` | `Spec => []NothingIsMissed` |
| `TablesAreOrderedMaps` | `Spec => ImplementsOrderedMap` |
| `FlagsFollowTheWalks` | `Spec => []FlagIsReleased` |
| `MethodsMissNothing` | `IterableSpec => []NothingIsMissed` |
| `MethodsSeeOrderedMaps` | `IterableSpec => ImplementsOrderedMap` |
| `MethodsLeaveFlags` | `IterableSpec => []FlagIsReleased` |
| `RangesStayInBounds` | `IterableSpec => []RangesKeepTheirBounds` |

*The shape of a table.* An entry is its place in the order of construction, so
that its number is its rank: `m_next` goes up and `m_prev` goes down, also for
entries that were erased long ago, and the list of a table is a strictly
increasing sequence that ends at `m_back`. `Good` says of a table that its list
is `Whole` in this sense, that every entry of the list is in exactly one chain,
the one of its hash code, that chains contain nothing else, and that `m_size`
is the length of the list. Each step of a C++ loop keeps `Good`: `Put()` finds
an entry or appends a new one to the list and to its chain, `Erase()` unlinks
it from both, `Clear()` leaves erased entries with their pointers. The
operations over another table (`InsertAll`, `RemoveAll`, the intersection and
the copies) are recursive functions over its list; they are shown to deliver
what a *selection* of the list is (`EraseIsWithout`, `InsertAllPuts`,
`RemoveAllIsWithout`, `InsertCommonIsWithin`), by looking at the first place at
which a bounded recursive function would leave its invariant (`ByInduction`),
and the lists of a table by the place from which a walk could not end
(`LoopExists`). With that, each action maps to the operation of `OrderedMap` on
`contents` that the refinement asks for.

*Loops.* A loop may stand on an entry that was erased, several times removed
from anything that can be reached. `Keeps` says what an operation does to paths:
from every entry, erased or not, the entries that can be reached afterwards are
those that could be reached before, less the erased ones, and new ones behind
them. `Owes` says that everything a loop owes lies on the path from the entry it
holds; one lemma per operation shows that it `Keeps`, and from there the
invariant `MissInv` carries over to each loop in the same way.

*The flag.* A flag that is set only while a walk is inside is not enough: the
second of two walks in one table would take the flag with it. The invariant
`FlagInv` therefore has the flag on exactly the tables with a walk, and one walk
on each.

*Methods.* A step of a method of `Iterable` is a step of a loop over its table,
an operation of the callback on the table, or leaves both alone (`QuietStep`);
`TablesAndLoops` is the invariant of the three theorems above together.
`GoesThrough` says of a range of integers what its iterator has delivered: every
value from the lower bound to the one before its counter, in this order, each
once (`Counted`), where the counter stays at the largest integer instead of
going past it (`Climbed`). A range of script objects takes whatever `__inc__()`
answers (`api/range.cc:145`), which may be an object that was delivered before
or a smaller one, so nothing is claimed of their order: only that the first one
is the lower bound and that none but the last has reached the upper one. That
objects have an order, which `__lt__()` tells, is assumed; integers above the
lower bound stand for them.

### The lexer and the parser of scripts

`ScriptParserProofs`, for every set of texts over any runes
(`SourcesAssumption`: the mark of the end and NUL are no runes of a text) and
every choice of templates and expressions among them:

| theorem | statement |
| --- | --- |
| `RunesComeInOrder` | `Spec => RuneByRune` |
| `TextIsReadOnce` | `Spec => []TextIsVerbatim` |
| `OperatorsGroup` | `Spec => []Grouping` |

Two buffers wait to be read again, one of runes and one of tokens, and
`ParseText()` reads runes past the second one. That it loses no token is not a
matter of that function: it is so because no production that has peeked at a
token without accepting it can return to one that reads text. Neither property
is inductive, and `VerbatimInv` has five parts, which hold of texts that are
cut off or make no sense as well:

* `LexInv`: at most one rune waits, the one read last, or the end of the text.
  That is what makes peeking and reading agree. Behind the point of a number two
  runes may be pushed back in the order in which they were read, after which
  nothing is in order (tag `swapped`) and the invariant says nothing more; it
  remembers where the number's point was, since only there it can happen;
* `OperatorInv`: what `ReadToken()` still tries to append to an operator are
  operators, so that no attempt ends in an error;
* `Stacked(todo)`: which production may wait under which other. Productions that
  read runes are at the head, or second below one that expects a token. A null
  node returns over any number of productions, so what lies below any place must
  be a stack of this kind again (`Suffix`, `ReturnedIs`);
* `TokenInv`: at most one token waits, and none while text is read, unless a
  comment in text is not terminated (tag `unterminated`);
* `TextInv`: what was delivered ascends and lies before the next rune, or before
  the place that a production of text remembers.

A lemma for each kind of production says what it pushes (`StatementsPush`,
`ListsPush`, `FunctionsPush`, `OperandsPush`, `OperatorsPush`), and
`GrammarPushes` is their sum: `Pushes(t, g)` includes that where the token is no
error nothing fails without a message. `TokenMoves` and `TokenReads` do the same
for the states of `ReadToken()`: what each does to the runes and to the token.
`NextKeepsVerbatim` goes through the actions with them.

*Grouping.* A binary node takes the last two of `vals`, whatever they are; that
they hold together tightly enough was settled by functions that were on the
stack when the operands were made. `GroupInv` follows the stack of productions
down to its end: `Balanced(v, a, s, e)` says that the items of `s`, one after
the other, lead from state `a` to `e`, where a state of `States` is how many
nodes there are, how many of them no item above has touched (`floor`), how
tightly the last one holds together (`top`) and whether a template has to
follow. `Passes` is one item: it takes no more nodes than there are, wants no
more of the last one than `top`, and promises a level of what it leaves; the
item of a binary node also finds its left operand in `vals`. A lemma per
production (`BlocksPass` to `RulesPass`) shows that what it pushes leads where
its own item led, whatever token decides, and `GrammarGroups` is their sum.

A null node is why `floor` is there. It returns past any number of productions
to one that does not check, and the nodes these would have taken stay. `Balanced`
therefore requires that the mark of such a production finds as many nodes as
there were when it was pushed, and that no item above it takes one of them
(`Counts`), so `DeafReturns` and `FailingGroups` can lead from the failure
straight to the mark. `GroupInv` is inductive only with `VerbatimInv`: what waits
below a statement that fails is known from `Stacked`.

### Dates

`HttpServerProofs` also proves, for walks of every length from every year since 0:

| theorem | statement |
| --- | --- |
| `StepsCountDays` | `Spec => []StepsAreDays` |
| `DatesAreOrdered` | `Spec => OrderIsChronological` |

`DayNumber` counts days by years and months (`YearStart`, `MonthStart`);
`NextDay` and `DayBefore` show that ++ and -- change it by one and keep a date
valid, `YearStep` and `LaterYears` are the rule of leap years, and `DayOfYear`
identifies the sum over months of `core/date.cc:199`, a recursive function,
with the table. Chronological order follows since `DayNumber` grows with each
field.

### What is model-checked only

* Liveness (`GarbageIsCollected`, `ParsersEnd`): out of the prover's reach.
* `JsonIsUnderstood`, `OutcomeIsRight`: what a text denotes and which texts are
  well formed is defined by recursion over texts, and induction over data cannot
  be expressed to the installed provers. `LinesAreTheText` compares with the
  lines of a file, which the library's sorting of positions defines.
* `MethodsKeepTheirWord`: for each of the methods this needs an invariant of
  its own about the values its function holds between two elements, and for
  sorting a proof of the quicksort of `api/iterable.cc`.

## Where code and comments disagree

One disagreement has a run with a counterexample (`accessible_never_trashed`).
Others were met while modelling; the models follow the code in all of them.

Memory, execution and the server:

* `memory.h:233`: move assignment leaks a reference (`memory.h:386`: "Returns
  the number of references this object has"). `memory.cc:184`: a freed record
  keeps its `prev` pointer (`memory.cc:88`).
* Accessible objects may be deleted, though `memory.h:378` says that `Mark()`
  keeps them: marking starts from the generation that is collected
  (`memory.cc:318`); `script/node.cc:445` and `449` test whether else and finally
  blocks are marked, where every other `Mark()` tests that they are not; and
  `api/function.cc:319`, `api/list.cc:217`, `api/map.cc:164`, `api/set.cc:181`,
  `api/range.cc:19`, `api/iterator.cc:108` and `api/exception.cc:23` call
  `Object::Mark()` and so skip class and attributes (`customobject.cc:62`).
* `script/node.cc:480`: `return` with a value does not end the function
  (`script/result.h:28`).
* `script/node.cc:409`: a try statement inside a catch clause clears the outer
  caught exception (`interpreter.h:146`).
* `script/node.cc:691`: a failed assignment to an attribute has no exception
  (`script/node.h:49`); `interpreter.cc:141`: a frame is left behind
  (`interpreter.h:53`).
* `api/class.cc:325`: `Class#__call__()` takes whatever `alloc()` returns, which
  `class.cc:291` says is an instance of the class.
* `core/time.cc:36`: hour 23, minute 59 and second 59 are invalid
  (`core/time.h:23`).
* `sapi/httpd/server.cc:425`: `last_cached` is set when a file could not be
  opened (`server.h:35`); `server.cc:421`: a syntax error leaves no message
  (`server.h:39`); `server.cc:247`: a collection meets mappings without a script
  (`server.h:37`).

Lists, tables and iterables:

* `api/list.cc:170`: the size of a list is not its length after `append()` and
  `pop()` (`api/list.h:186`).
* `api/iterator.cc:144`: objects fed to an iterator come out last in, first out,
  against "LILO(Last In, Last Out)". The property `DeliversTheList` requires
  neither order.
* The size of a map stays as it was when an entry is erased. A loop delivers an entry
  that was erased under it, and misses those added behind the last entry when
  the loop stands on that and it is erased. Assigning a `Dictionary` to itself
  empties it.
* `api/iterable.cc:590`: `grep()` stops where it should go on; `take()` passes
  over as many elements as it should take; `all()` of nothing is false.
* A range of integers that ends with the largest `i64` goes on below zero; a
  range of other values whose end comes before its beginning delivers the end.

Parsers:

* `script/parser.cc:1067`: a failure of the statement behind `else if` is not
  noticed; `878`: where the mark that ends an expression in a template is not read
  as a token, the test for it is inverted; `1268`: the words `break` and `continue`
  are not passed over before a semicolon is expected, so that no script with
  such a statement compiles.
* Runes that are pushed back behind others come out in the wrong order
  (`core/parser.cc:124`): in `1.x`, and at the start of a template in `#x`.
* In templates a backslash, a carriage return and another rune write that rune
  twice, and the line feed of `\` CR LF stays; a NUL ends the text.
* `**/` does not close a comment; `function ... => throw e` returns the result of
  the throw statement; `<=>` and `**=` are in the grammar of the comments only;
  an expression that is compiled by itself may be followed by anything.
* JSON: a comma before the end, a point without digits, and control characters in
  strings are accepted; an exponent behind a zero is left over (`0e1`); an
  exponent replaces that of the decimals (`1.5e2` is 1500); negative floats
  become zero, because the sign is a `bool`; the smallest `i64` is refused though
  `String::FromI64()` writes it; whole floats are written as integers; what
  follows a value is not looked at.

Streams:

* `core/filename.cc:298`: `Close()` sets the descriptor to 0, which the
  destructor closes again.
* `api/stream.cc:37`: a lone carriage return is documented to separate lines, and
  does not. `LinesAreTheText` compares with the lines as documented and leaves
  out texts in which a carriage return before the end has no line feed behind it
  (`LoneReturn`).
* `api/file.cc:578`: whether a file is opened for appending is uninitialised in
  some modes. Writes to a stream that is read as well take no notice of what is
  in the buffer. Short writes are reported as complete (`net/socket.cc:74`).
  `Pipe()` starts with the buffer as it was filled, whatever was read from it
  before (`io/stream.cc:228`). `read(0)` reads everything, and a character that
  cannot be decoded ends a read.

## What is not modelled

Values of expressions (`script/node.cc` beyond statements, attributes and
calls), texts of literals and identifiers, formatting and character tables; the
front ends other than the built-in server; the requests it reads; construction
of an object as separate from its allocation (a collection inside a
constructor); hash values; attributes of functions; comparison of whole
collections; the flag that keeps `join()` from entering its receiver again for
other collections than maps; `take(0)`; texts with NUL runes, which
`core/parser.cc:112` and `122` drop instead of keeping or pushing them back;
methods nested in the callbacks of methods. Of JSON: infinite floats, keys that
are not strings, control characters of five digits, overflow of doubles. Strings
and numbers have no state of their own, and where their edges matter to
something else (the largest `i64`, the conversion of numbers, characters cut by
a buffer) that something models them.

## Plan

1. Theorems: `MethodsKeepTheirWord`, method by method; that a script which is not
   compiled leaves a message (`OutcomeIsExplained`).
2. Values of expressions on top of `ObjectModel`: operators call methods
   (`__add__`, `__lt__`) that scripts may define; parameters and typehints.
3. Slices and searches of `String` and `ByteString` on shared buffers, against
   sequences; arithmetic at the limits of `i64`.
4. Requests: the loop that reads a request into a buffer, query strings and
   multipart data.
