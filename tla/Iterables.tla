------------------------------- MODULE Iterables -------------------------------
(***************************************************************************)
(* The methods of Iterable (api/iterable.cc) and the iterators of ranges   *)
(* (api/range.cc), on top of the tables.                                   *)
(*                                                                         *)
(* A method asks its receiver for an iterator and then runs through it.    *)
(* For most elements it calls the script, for a function that was given to *)
(* it or for a method of the element, and that call may change the table,  *)
(* or fail.  The iterator is one of a table, of a range, or one that is    *)
(* itself defined in a script, which may deliver anything and may fail.    *)
(* One method runs, after the program has made the table.                  *)
(***************************************************************************)
EXTENDS MapsAndSets

CONSTANTS MaxInt,        \* the largest i64; integers are 0 .. MaxInt
          MaxSeen,       \* bound on the elements one method sees
          Comparisons    \* outcomes of __lt__() or of the function of sort()

ASSUME IterablesAssumption == MaxInt \in Nat /\ Objects = 0 .. MaxInt

VARIABLE method          \* the method that runs, or what the last one returned

iterableVars == <<vars, method>>

Gone    == -1            \* m_current of a RangeIterator that is done
Default == -1            \* the second argument of first(), last(), single()
Less    == [p \in Objects \X Objects |-> p[1] < p[2]]

NoMethod == [at |-> "none"]

(* A method that begins, on an iterator from the given source.  value is   *)
(* <<v>> once v has been returned, by the order sort() met.                *)
Begun(name, given, source) ==
    [at |-> "next", name |-> name, given |-> given, source |-> source, from |-> source,
     kept |-> <<>>, rest |-> <<>>, value |-> <<>>, exception |-> FALSE,
     seen |-> <<>>, answers |-> <<>>, by |-> Less]

Return(m, v) == [m EXCEPT !.at = "done", !.value = <<v>>]
Raise(m)     == [m EXCEPT !.at = "done", !.exception = TRUE]
Otherwise(m) == IF m.given THEN Return(m, Default) ELSE Raise(m)     \* StateError

Element(m) == Last(m.seen)

-----------------------------------------------------------------------------
(* SORTING: lt[a, b] is what __lt__(), or the function given, answers *)

Swapped(s, i, j) == [s EXCEPT ![i] = s[j], ![j] = s[i]]

(* What stays on the left of the pivot is what is not greater, or, with a  *)
(* function, what is less.                                                 *)
Stays(x, pivot, lt, given) == IF given THEN lt[x, pivot] ELSE ~lt[pivot, x]

(* The first loop: what is less than the pivot goes to the left.           *)
Partition(s, lt, given, left, right, pivot) ==
    LET P[n \in Nat] ==
            IF n = 0 THEN [s |-> s, l |-> left, r |-> right]
            ELSE LET p == P[n - 1] IN
                 IF p.l >= p.r THEN p
                 ELSE IF Stays(p.s[p.l], p.s[pivot], lt, given) THEN [p EXCEPT !.l = @ + 1]
                 ELSE IF lt[p.s[p.r], p.s[pivot]]
                      THEN [s |-> Swapped(p.s, p.l, p.r), l |-> p.l + 1, r |-> p.r - 1]
                      ELSE [p EXCEPT !.r = @ - 1]
    IN  P[Len(s)].s

FirstGreater(s, lt, from, pivot) ==
    {i \in from .. pivot - 1 : lt[s[pivot], s[i]] /\ \A j \in from .. i - 1 : ~lt[s[pivot], s[j]]}

(* The second loop: the pivot goes where the first greater one is.         *)
PivotPlace(s, lt, from, pivot) ==
    IF FirstGreater(s, lt, from, pivot) = {} THEN pivot
    ELSE CHOOSE i \in FirstGreater(s, lt, from, pivot) : TRUE

(* One slice: its new contents and the place of its pivot.                 *)
Slice(s, lt, given, from, to) ==
    LET middle == from + (to - from + 1) \div 2
        right  == IF middle = to THEN to ELSE to - 1
        halves == Partition(Swapped(s, middle, to), lt, given, from, right, to)
        place  == PivotPlace(halves, lt, from, to)
    IN  [s |-> Swapped(halves, to, place), at |-> place]

(* quicksort() and quicksort_callback(): slice by slice, the lower part of *)
(* each one first.                                                         *)
Quicksort(s, lt, given) ==
    LET Q[n \in Nat] ==
            IF n = 0 THEN [s |-> s, todo |-> << <<1, Len(s)>> >>]
            ELSE LET q == Q[n - 1] IN
                 IF q.todo = <<>> THEN q
                 ELSE LET from == q.todo[1][1]
                          to   == q.todo[1][2]
                          part == Slice(q.s, lt, given, from, to)
                      IN  IF to - from < 1 THEN [q EXCEPT !.todo = Tail(@)]
                          ELSE [s |-> part.s,
                                todo |-> << <<from, part.at - 1>>, <<part.at + 1, to>> >>
                                            \o Tail(q.todo)]
    IN  Q[2 * Len(s) + 1].s

-----------------------------------------------------------------------------
(* WHAT THE METHODS DO                                                     *)
(*                                                                         *)
(* A handler says what becomes of its method m on an event e: an element,  *)
(* the last one seen; "yes" or "no", which the script answered about it;   *)
(* or "end", when there are no more.                                       *)

Ask(m)     == [m EXCEPT !.at = "callback"]
GoOn(m)    == [m EXCEPT !.at = "next"]
Keep(m)    == [GoOn(m) EXCEPT !.kept = Append(@, Element(m))]
Replace(m) == [GoOn(m) EXCEPT !.kept = <<Element(m)>>]
KeepOrAsk(m) == IF m.kept = <<>> THEN Keep(m) ELSE Ask(m)

iterable_first(m, e) == IF e = "element" THEN Return(m, Element(m)) ELSE Otherwise(m)
iterable_last(m, e)  == CASE e = "element"  -> Replace(m)
                          [] m.kept = <<>>  -> Otherwise(m)
                          [] OTHER          -> Return(m, m.kept[1])
iterable_single(m, e) == IF e = "element" /\ m.kept # <<>> THEN Raise(m) ELSE iterable_last(m, e)

(* Does the element replace what there is?  For max() the script is asked  *)
(* whether it is greater, for min() whether it is less.                    *)
iterable_max(m, e) == CASE e = "element" -> KeepOrAsk(m)
                        [] e = "yes"     -> Replace(m)
                        [] e = "no"      -> GoOn(m)
                        [] OTHER         -> IF m.kept = <<>> THEN Raise(m) ELSE Return(m, m.kept[1])
iterable_min(m, e) == iterable_max(m, e)

(* A sum is what was added up.                                             *)
iterable_sum(m, e) == CASE e = "element" -> KeepOrAsk(m)
                        [] e = "end"     -> IF m.kept = <<>> THEN Raise(m) ELSE Return(m, m.kept)
                        [] OTHER         -> Keep(m)
iterable_avg(m, e) == IF e = "end" /\ m.kept # <<>>
                      THEN Return(m, [sum |-> m.kept, count |-> Len(m.answers) + 1])
                      ELSE iterable_sum(m, e)

(* all() of nothing is false.                                              *)
iterable_all(m, e) == CASE e = "element" -> Ask(m)
                        [] e = "yes"     -> GoOn(m)
                        [] e = "no"      -> Return(m, FALSE)
                        [] OTHER         -> Return(m, m.seen # <<>>)
iterable_any(m, e) == CASE e = "element" -> Ask(m)
                        [] e = "yes"     -> Return(m, TRUE)
                        [] e = "no"      -> GoOn(m)
                        [] OTHER         -> Return(m, FALSE)
iterable_has(m, e) == iterable_any(m, e)          \* asks for equality

iterable_each(m, e) == CASE e = "element" -> Ask(m)
                         [] e = "end"     -> Return(m, "receiver")
                         [] OTHER         -> GoOn(m)
iterable_filter(m, e) == CASE e = "element" -> Ask(m)
                           [] e = "yes"     -> Keep(m)
                           [] e = "no"      -> GoOn(m)
                           [] OTHER         -> Return(m, m.kept)
iterable_split(m, e) == CASE e = "element" -> Ask(m)
                          [] e = "yes"     -> Keep(m)
                          [] e = "no"      -> [GoOn(m) EXCEPT !.rest = Append(@, Element(m))]
                          [] OTHER         -> Return(m, <<m.kept, m.rest>>)

(* What the script makes of an element stands for the element.             *)
iterable_map(m, e) == CASE e = "element" -> Ask(m)
                        [] e = "end"     -> Return(m, m.kept)
                        [] OTHER         -> Keep(m)
iterable_join(m, e)    == iterable_map(m, e)
iterable_as_json(m, e) == iterable_map(m, e)

(* The first element ends the loop; LoopEnds() says what happens before.   *)
iterable_grep(m, e) == IF m.exception THEN Raise(m) ELSE Return(m, <<>>)

iterable_take(m, e) == IF e = "end" \/ Len(m.seen) = m.given THEN Return(m, "iterator") ELSE m

iterable_sort(m, e, lt) ==
    IF e = "element" THEN Keep(m)
    ELSE [Return(m, Quicksort(m.kept, lt, m.given)) EXCEPT !.by = lt]

Methods == {"first", "last", "single", "max", "min", "sum", "avg", "all", "any", "each", "filter",
            "grep", "has", "join", "map", "sort", "split", "take", "as_json"}

ASSUME MethodsAssumption == \A s \in Setups : s.methods \subseteq Methods

Handler(m, e, lt) ==
    CASE m.name = "first"  -> iterable_first(m, e)    [] m.name = "last" -> iterable_last(m, e)
      [] m.name = "single" -> iterable_single(m, e)   [] m.name = "max"  -> iterable_max(m, e)
      [] m.name = "min"    -> iterable_min(m, e)      [] m.name = "sum"  -> iterable_sum(m, e)
      [] m.name = "avg"    -> iterable_avg(m, e)      [] m.name = "all"  -> iterable_all(m, e)
      [] m.name = "any"    -> iterable_any(m, e)      [] m.name = "each" -> iterable_each(m, e)
      [] m.name = "filter" -> iterable_filter(m, e)   [] m.name = "grep" -> iterable_grep(m, e)
      [] m.name = "has"    -> iterable_has(m, e)      [] m.name = "join" -> iterable_join(m, e)
      [] m.name = "map"    -> iterable_map(m, e)      [] m.name = "take" -> iterable_take(m, e)
      [] m.name = "split"  -> iterable_split(m, e)
      [] m.name = "sort"   -> iterable_sort(m, e, lt)
      [] m.name = "as_json" -> iterable_as_json(m, e)

(* __div__() of the sum and comparisons may fail as well. *)
FinishFails(m) == m.name = "avg" \/ (m.name = "sort" /\ Len(m.kept) > 1)

(* Mutant: a failure of the iterator is taken for its end. *)
LoopEndsAnyway(m, failed) ==
    \E lt \in Comparisons : method' = [Handler(m, "end", lt) EXCEPT !.exception = @ \/ failed]

(* GetNext() was refused: did the iteration end, or did it fail?  grep()   *)
(* goes on: it asks the script about the element it did not get, until     *)
(* that fails, crashes or an element comes, and then leaves its loop.      *)
LoopEnds(m, failed) ==
    \/ /\ ~failed /\ m.name # "grep"
       /\ \E lt \in Comparisons : method' = Handler(m, "end", lt)
    \/ /\ failed \/ m.name = "grep" \/ FinishFails(m)
       /\ method' = Raise(m)
    \/ /\ m.name = "grep"
       /\ \E at \in {"next", "crashed"} : method' = [m EXCEPT !.at = at, !.exception = @ \/ failed]

-----------------------------------------------------------------------------
(* ITERATORS *)

(* Mutant: the end of an exclusive range is delivered. *)
WithinInclusive(r) == r.current <= r.last

(* IntRangeIterator: is there an element left?                             *)
Within(r) == r.current < r.last \/ (~r.exclusive /\ r.current = r.last)

(* IntRangeIterator::Generate(); i64 overflows as hardware does.           *)
Incremented(r) == [r EXCEPT !.current = (@ + 1) % (MaxInt + 1)]

(* What GetNext() may give to m: [got, source] with an element, or a       *)
(* refusal.  RangeIterator compares with __lt__(), which is the order of   *)
(* the objects here, and moves on to whatever __inc__() answers, an equal  *)
(* or smaller object too; both are methods of the element and may fail.    *)
Got(e, source) == [ok |-> TRUE, element |-> e, source |-> source]
Ended          == [ok |-> FALSE, failed |-> FALSE]
Broken         == [ok |-> FALSE, failed |-> TRUE]

Offers(m) ==
    LET r == m.source IN
    CASE r.kind = "script" -> {Ended, Broken} \cup {Got(e, r) : e \in setup.objects}
      [] r.kind = "integers" -> {IF Within(r) THEN Got(r.current, Incremented(r)) ELSE Ended}
      [] r.kind = "range" /\ r.current = Gone -> {Ended}
      [] r.kind = "range" /\ r.current # Gone ->
            IF r.current < r.last
            THEN {Broken} \cup {Got(r.current, [r EXCEPT !.current = e]) : e \in Objects}
            ELSE {Broken, IF r.exclusive THEN Ended ELSE Got(r.last, [r EXCEPT !.current = Gone])}
      [] r.kind = "empty" -> {Ended}

Ranges == [kind : {"integers", "range"}, current : Objects, last : Objects, exclusive : BOOLEAN]

-----------------------------------------------------------------------------
(* STEPS *)

(* Arguments: first(), last(), single() and a default value; a count for   *)
(* take().                                                                 *)
Given(name) == IF name = "take" THEN 1 .. 2 ELSE BOOLEAN

Calls(name, source) == \E given \in Given(name) : method' = Begun(name, given, source)

CallOnTable(w, t) ==
    /\ method = NoMethod
    /\ \E name \in setup.methods \ {"join", "as_json"} :
          \/ /\ table[t].front = Null /\ Calls(name, [kind |-> "empty"])
             /\ UNCHANGED <<table, walker, inspecting, contents, setup>>
          \/ Iter(w, t) /\ Calls(name, [kind |-> "table", loop |-> w])

CallOnOther ==
    /\ method = NoMethod /\ Tables = {}
    /\ \E name \in setup.methods, source \in Ranges \cup {[kind |-> "script"]} : Calls(name, source)
    /\ UNCHANGED vars

WithElement(m, e, source) ==
    Handler([m EXCEPT !.seen = Append(@, e), !.source = source], "element", Less)

(* A loop that is left early leaves its iterator alone. *)
Abandons(m) == walker' = IF m.at = "done" /\ m.source.kind = "table"
                         THEN [walker EXCEPT ![m.source.loop] = Off] ELSE walker

GetNext ==
    /\ method.at = "next" /\ method.source.kind # "table" /\ Len(method.seen) < MaxSeen
    /\ \E o \in Offers(method) :
          \/ o.ok /\ method' = WithElement(method, o.element, o.source)
          \/ ~o.ok /\ LoopEnds(method, o.failed)
    /\ UNCHANGED vars

(* Sets deliver elements, maps lists of key and value; the key stands for  *)
(* the list.                                                               *)
GetNextOfTable ==
    /\ method.at = "next" /\ method.source.kind = "table"
    /\ LET w  == method.source.loop
           at == walker[w].at
       IN  \/ at = Null /\ Generate(w) /\ LoopEnds(method, FALSE)
           \/ /\ at # Null
              /\ method' = WithElement(method, table[walker[w].on].entry[at].key, method.source)
              /\ IF method'.at = "done" THEN walker' = [walker EXCEPT ![w] = Off]
                                        ELSE Generate(w)
              /\ UNCHANGED <<table, inspecting, contents, setup>>

(* The call of the script returns, or fails.                               *)
Answer ==
    /\ method.at = "callback"
    /\ \/ \E answer \in BOOLEAN :
             method' = Handler([method EXCEPT !.answers = Append(@, answer)],
                               IF answer THEN "yes" ELSE "no", Less)
       \/ method' = Raise(method)
    /\ Abandons(method')
    /\ UNCHANGED <<table, inspecting, contents, setup>>

(* The program between two methods, or the function a method has called.   *)
Meanwhile ==
    /\ method.at \in {"none", "callback"}
    /\ \E t \in Tables : SetItem(t) \/ PopItem(t) \/ ClearAll(t)
    /\ UNCHANGED method

IterableInit == Init /\ method = NoMethod

IterableNext ==
    \/ setup.methods = {} /\ Next /\ UNCHANGED method
    \/ setup.methods # {} /\ \/ \E w \in Walkers, t \in Tables : CallOnTable(w, t)
                             \/ CallOnOther \/ GetNext \/ GetNextOfTable \/ Answer \/ Meanwhile

IterableSpec == IterableInit /\ [][IterableNext]_iterableVars

-----------------------------------------------------------------------------
(* PROPERTIES *)

Returned == method.at = "done" /\ ~method.exception

(* The elements for which the script answered so. *)
Chosen(m, answer) == [i \in 1 .. Cardinality({j \in DOMAIN m.answers : m.answers[j] = answer}) |->
                         m.seen[CHOOSE j \in DOMAIN m.answers :
                                   /\ m.answers[j] = answer
                                   /\ Cardinality({k \in 1 .. j : m.answers[k] = answer}) = i]]

(* A fold asks whether an element is to replace the one it has.            *)
LastTrue(m) == LET yes == {i \in DOMAIN m.answers : m.answers[i]}
               IN  IF yes = {} THEN 1 ELSE 1 + CHOOSE i \in yes : \A j \in yes : j <= i

(* What a method promises of what it returns, in terms of the elements it  *)
(* saw and of what the script answered.  (grep() promises nothing; nor does*)
(* all() for an empty iteration.)                                          *)
Promised(m, v) ==
    LET d == m.seen
        a == m.answers
        n == Len(a)
    IN  CASE m.name \in {"first", "single"} -> IF d = <<>> THEN v = Default ELSE <<v>> = d
          [] m.name = "last"   -> v = IF d = <<>> THEN Default ELSE Last(d)
          [] m.name \in {"max", "min"} -> v = d[LastTrue(m)]
          [] m.name = "sum"    -> v = d
          [] m.name = "avg"    -> v = [sum |-> d, count |-> Len(d)]
          [] m.name = "all"    -> d # <<>> => /\ v = \A i \in 1 .. n : a[i]
                                              /\ n = Len(d) /\ \A i \in 1 .. n - 1 : a[i]
          [] m.name \in {"any", "has"} -> /\ v = \E i \in 1 .. n : a[i]
                                          /\ n = Len(d) /\ \A i \in 1 .. n - 1 : ~a[i]
          [] m.name = "filter" -> v = Chosen(m, TRUE)
          [] m.name = "split"  -> v = <<Chosen(m, TRUE), Chosen(m, FALSE)>>
          [] m.name = "sort"   -> /\ \E p \in Permutations(DOMAIN d) : v = [i \in DOMAIN d |-> d[p[i]]]
                                  /\ m.by = Less => \A i, j \in DOMAIN v : i < j => v[i] <= v[j]
          [] m.name = "take"   -> Len(d) <= m.given
          [] m.name \in {"map", "join", "as_json"} -> v = d
          [] OTHER -> TRUE

(* A method returns or raises, never both: the end of an iteration is told *)
(* apart from its failure.  What it returns accounts for every element it  *)
(* saw, none skipped, repeated or asked about in vain, also when the       *)
(* function it calls changes the table; sort() loses none whatever the     *)
(* comparison answers, and sorts if that is an order.                      *)
MethodsKeepTheirWord ==
    method.at = "done" => /\ (method.value = <<>>) = method.exception
                          /\ Returned => Promised(method, method.value[1])

(* A range begins with its first element and, whatever __inc__() answers,  *)
(* keeps below its last, which comes at the end or, if the range excludes  *)
(* it, not at all: every loop of each() over a range that includes it ends *)
(* with it.  A range of integers delivers every one of them in its turn,   *)
(* unless it ends with the largest i64.                                    *)
RangesKeepTheirBounds ==
    LET r == method.from
        d == method.seen
    IN  method.at # "none" /\ method.from.kind \in {"integers", "range"} /\ r.current <= r.last =>
          \/ r.kind = "integers" /\ ~r.exclusive /\ r.last = MaxInt
          \/ /\ d # <<>> => d[1] = r.current
             /\ \A i \in DOMAIN d : \/ d[i] < r.last
                                    \/ i = Len(d) /\ ~r.exclusive /\ d[i] = r.last
             /\ r.kind = "integers" => \A i \in DOMAIN d : d[i] = r.current + i - 1
             /\ (method.name = "each" /\ Returned) =>
                   /\ ~r.exclusive => d # <<>> /\ Last(d) = r.last
                   /\ r.exclusive /\ r.kind = "integers" => Len(d) = r.last - r.current
=============================================================================
