------------------------------ MODULE JsonParser -------------------------------
(***************************************************************************)
(* JSON: json/parser.cc, which reads values from a stream of runes through *)
(* the same base class as the parser of scripts, the conversion of numbers *)
(* it uses (String::ParseInt() and ParseDouble()), and the as_json()       *)
(* methods, which write values.                                            *)
(*                                                                         *)
(* A value is a tuple of its kind and what it contains; floats are counted *)
(* in units of 10^-Scale.  The parser is a machine that reads one rune a   *)
(* step; the functions that have not returned are its calls.               *)
(***************************************************************************)
EXTENDS ScriptLexer, Integers, SequencesExt

CONSTANTS JsonSources,   \* the texts
          JsonValues,    \* values that are written and read again
          MaxInt,        \* the largest i64; the smallest is -MaxInt - 1
          Scale,         \* bound of the model: digits behind the point
          Smallest       \* DBL_MIN is 10^-Smallest

ASSUME JsonAssumption ==
    /\ MaxInt \in Nat /\ Scale \in Nat /\ Smallest \in 0 .. Scale
    /\ JsonSources \subseteq Seq(STRING \ {EOF, NUL})

VARIABLE json            \* the JSON parser

White   == {" ", "\t", "LF", "CR"}
Control == {"\t", "LF", "CR", "BEL"}          \* String::IsControl()
Exponent == {"e", "E"}
Literal == [t |-> <<"r", "u", "e">>, f |-> <<"a", "l", "s", "e">>, n |-> <<"u", "l", "l">>]
Meant   == [t |-> <<"bool", TRUE>>, f |-> <<"bool", FALSE>>, n |-> <<"null">>]
Escapes == [b |-> "BS", f |-> "\f", n |-> "LF", r |-> "CR", t |-> "\t"]
           @@ ("\"" :> "\"") @@ ("\\" :> "\\") @@ ("/" :> "/")
Ends    == [array |-> "]", object |-> "}"]

(* Runes by their number in hexadecimal. *)
Lower   == [A |-> "a", B |-> "b", C |-> "c", D |-> "d", E |-> "e", F |-> "f"]
Numbers == (<<"0", "0", "0", "7">> :> "BEL") @@ (<<"0", "0", "2", "f">> :> "/")
Decoded(hex) ==
    LET low == [i \in DOMAIN hex |-> IF hex[i] \in DOMAIN Lower THEN Lower[hex[i]] ELSE hex[i]]
    IN  IF low \in DOMAIN Numbers THEN Numbers[low] ELSE "another rune"

NoNumber == [negative |-> FALSE, digits |-> <<>>, fraction |-> 0, float |-> FALSE,
             down |-> FALSE, power |-> <<>>]

JsonOff == [at |-> "off", skipped |-> FALSE, calls |-> <<>>, word |-> <<>>, hex |-> <<>>,
            number |-> NoNumber, value |-> <<>>, odd |-> {}]

(* SkipWhitespace() comes first at these places. *)
Spaced == {"value", "array", "object", "comma", "colon"}

Stage(at) == [json EXCEPT !.at = at, !.skipped = FALSE]
Ready(at) == json.at = at /\ (at \in Spaced => json.skipped)
Odd(tag, j, if) == IF if THEN [j EXCEPT !.odd = @ \cup {tag}] ELSE j

Refused == json' = Stage("refused") /\ message' = TRUE
Continue(j) == json' = j /\ UNCHANGED message

-----------------------------------------------------------------------------
(* NUMBERS *)

DigitValue == [d \in Digit |-> CHOOSE n \in 0 .. 9 : ToString(n) = d]
Decimal(ds) == FoldLeft(LAMBDA n, d : 10 * n + DigitValue[d], 0, ds)

(* Mutant: only what is beyond a u64 is an overflow. *)
ParseIntWraps(n) ==
    LET size == Decimal(n.digits)
        wrap == IF size > MaxInt THEN size - 2 * MaxInt - 2 ELSE size
    IN  IF size > 2 * MaxInt + 1 THEN {} ELSE {<<"int", IF n.negative THEN -wrap ELSE wrap>>}

(* String::ParseInt(): the magnitude may not be above the largest i64.     *)
ParseInt(n) ==
    LET size == Decimal(n.digits)
    IN  IF size > MaxInt THEN {} ELSE {<<"int", IF n.negative THEN -size ELSE size>>}

(* String::ParseDouble(): an exponent that is given takes the place of the *)
(* one the digits behind the point make, and the number is multiplied by   *)
(* sign, which is false for negative numbers.                              *)
Power(n) == IF n.power = <<>> THEN -n.fraction
            ELSE IF n.down THEN -Decimal(n.power) ELSE Decimal(n.power)
ParseDouble(n) ==
    LET number == Decimal(n.digits)
        e      == Power(n)
        tiny   == e < 0 /\ -e >= Smallest /\ number < 10 ^ (-e - Smallest)
    IN  IF number = 0 THEN {<<"float", 0>>}
        ELSE IF tiny THEN {}
        ELSE {<<"float", IF n.negative THEN 0 ELSE number * 10 ^ (Scale + e)>>}

-----------------------------------------------------------------------------
(* VALUES *)

(* Of entries with the same key the first keeps its place and the last its *)
(* value (MapObject::Insert(), module HashTable).                          *)
Put(entries, key, v) ==
    LET p == SelectInSeq(entries, LAMBDA e : e[1] = key)
    IN  IF p = 0 THEN Append(entries, <<key, v>>) ELSE [entries EXCEPT ![p] = <<key, v>>]

Collected(call) == <<IF call.fn = "array" THEN "list" ELSE "map", call.got>>

(* A value is complete: it is the result, or belongs to what is around it. *)
Returned(j, v) ==
    IF j.calls = <<>> THEN [j EXCEPT !.at = "done", !.value = v]
    ELSE [j EXCEPT !.at = "comma", !.skipped = FALSE, !.word = <<>>,
                   !.calls[1].key = <<>>,
                   !.calls[1].got = IF j.calls[1].fn = "array" THEN Append(@, v)
                                    ELSE Put(@, j.calls[1].key[1], v)]

ReturnedCall == Returned([json EXCEPT !.calls = Tail(@)], Collected(Head(json.calls)))

SkipWhitespace ==
    /\ json.at \in Spaced /\ ~json.skipped
    /\ IF Rune \in White THEN ReadRune /\ UNCHANGED json
                         ELSE PeekRune /\ json' = [json EXCEPT !.skipped = TRUE]
    /\ UNCHANGED message

Called(fn) == [Stage(fn) EXCEPT !.calls = <<[fn |-> fn, got |-> <<>>, key |-> <<>>]>> \o @]

(* Digits go on, unless the first one is a zero. *)
FirstDigit(d, negative) ==
    [Stage(IF d = "0" THEN "zero" ELSE "digits")
        EXCEPT !.number = [NoNumber EXCEPT !.digits = <<d>>, !.negative = negative]]

parse_value ==
    /\ Ready("value") /\ ReadRune
    /\ \/ /\ Rune \in DOMAIN Literal
          /\ Continue([Stage("literal") EXCEPT !.word = Literal[Rune], !.value = Meant[Rune]])
       \/ Rune = "[" /\ Continue(Called("array"))
       \/ Rune = "{" /\ Continue(Called("object"))
       \/ Rune = "\"" /\ Continue([Stage("string") EXCEPT !.word = <<>>])
       \/ Rune = "-" /\ Continue(Stage("minus"))
       \/ Rune \in Digit /\ Continue(FirstDigit(Rune, FALSE))
       \/ Rune \notin DOMAIN Literal \cup {"[", "{", "\"", "-"} \cup Digit /\ Refused

(* The other letters of true, false and null. *)
ReadLiteral ==
    /\ Ready("literal")
    /\ IF Rune # Head(json.word) THEN MissRune /\ Refused
       ELSE /\ ReadRune
            /\ Continue(IF Len(json.word) > 1 THEN [json EXCEPT !.word = Tail(@)]
                        ELSE Returned([json EXCEPT !.value = <<>>], json.value))

(* An array may end here, also behind a comma; else an element follows.    *)
parse_array ==
    /\ Ready("array")
    /\ IF Rune = "]" THEN ReadRune /\ Continue(Odd("comma", ReturnedCall, json.calls[1].got # <<>>))
                     ELSE MissRune /\ Continue(Stage("value"))

parse_object ==
    /\ Ready("object")
    /\ \/ Rune = "}" /\ ReadRune /\ Continue(Odd("comma", ReturnedCall, json.calls[1].got # <<>>))
       \/ Rune = "\"" /\ ReadRune /\ Continue([Stage("string") EXCEPT !.word = <<>>])
       \/ Rune \notin {"}", "\""} /\ MissRune /\ Refused

Colon == /\ Ready("colon")
         /\ IF Rune = ":" THEN ReadRune /\ Continue(Stage("value")) ELSE MissRune /\ Refused

(* Behind an element or an entry.                                          *)
Comma ==
    /\ Ready("comma")
    /\ LET fn == json.calls[1].fn IN
       \/ Rune = "," /\ ReadRune /\ Continue(Stage(fn))
       \/ Rune = Ends[fn] /\ ReadRune /\ Continue(ReturnedCall)
       \/ Rune \notin {",", Ends[fn]} /\ MissRune /\ Refused

-----------------------------------------------------------------------------
(* STRINGS *)

IsKey == json.calls # <<>> /\ json.calls[1].fn = "object" /\ json.calls[1].key = <<>>

parse_string ==
    /\ Ready("string") /\ ReadRune
    /\ \/ Rune = EOF /\ Refused
       \/ Rune = "\"" /\ Continue(IF IsKey THEN [Stage("colon") EXCEPT !.calls[1].key = <<json.word>>]
                                  ELSE Returned(json, <<"string", json.word>>))
       \/ Rune = "\\" /\ Continue(Stage("escape"))
       \/ /\ Rune \notin {EOF, "\"", "\\"}
          /\ Continue(Odd("control", [json EXCEPT !.word = Append(@, Rune)], Rune \in Control))

ReadEscape ==
    /\ Ready("escape") /\ ReadRune
    /\ \/ /\ Rune \in DOMAIN Escapes
          /\ Continue([Stage("string") EXCEPT !.word = Append(@, Escapes[Rune])])
       \/ Rune = "u" /\ Continue([Stage("hex") EXCEPT !.hex = <<>>])
       \/ Rune \notin DOMAIN Escapes \cup {"u"} /\ Refused

ReadHex ==
    /\ Ready("hex") /\ ReadRune
    /\ LET hex == Append(json.hex, Rune) IN
       \/ Rune \notin Hex /\ Refused
       \/ /\ Rune \in Hex
          /\ Continue(IF Len(hex) < 4 THEN [json EXCEPT !.hex = hex]
                      ELSE [Stage("string") EXCEPT !.word = Append(@, Decoded(hex)), !.hex = <<>>])

-----------------------------------------------------------------------------
(* NUMBERS *)

Finished(n, values) ==
    IF values = {} THEN json' = Odd("smallest", Stage("refused"),
                                    ~n.float /\ n.negative /\ Decimal(n.digits) = MaxInt + 1)
                        /\ message' = TRUE
    ELSE Continue(Odd("replaced",
                      Odd("negative",
                          Returned([json EXCEPT !.number = NoNumber], CHOOSE v \in values : TRUE),
                          n.float /\ n.negative),
                      n.fraction > 0 /\ n.power # <<>>))

(* The digits there are are read one by one, and then comes another stage. *)
Digits(at, seen, j) ==
    /\ Ready(at)
    /\ IF Rune \in Digit THEN ReadRune /\ Continue(seen) ELSE PeekRune /\ Continue(j)

Seen == [json EXCEPT !.number.digits = Append(@, Rune)]

parse_number ==
    \/ /\ Ready("minus") /\ ReadRune
       /\ IF Rune \in Digit THEN Continue(FirstDigit(Rune, TRUE)) ELSE Refused
    \/ /\ Ready("zero") /\ PeekRune
       /\ Continue(IF Rune = "." THEN Stage("point")
                   ELSE Odd("zero", Returned([json EXCEPT !.number = NoNumber], <<"int", 0>>),
                            Rune \in Exponent))
    \/ Digits("digits", Seen, Stage("point"))
    \/ /\ Ready("point")
       /\ IF Rune = "." THEN ReadRune /\ Continue([Stage("fraction") EXCEPT !.number.float = TRUE])
                        ELSE MissRune /\ Continue(Stage("exponent"))
    \/ Digits("fraction", [Seen EXCEPT !.number.fraction = @ + 1],
              Odd("point", Stage("exponent"), json.number.fraction = 0))

ReadExponentOfNumber ==
    \/ /\ Ready("exponent")
       /\ IF Rune \in Exponent THEN ReadRune /\ Continue([Stage("sign") EXCEPT !.number.float = TRUE])
          ELSE /\ MissRune
               /\ LET n == json.number
                  IN  Finished(n, IF n.float THEN ParseDouble(n) ELSE ParseInt(n))
    \/ /\ Ready("sign")
       /\ IF Rune \in {"+", "-"}
          THEN ReadRune /\ Continue([Stage("power") EXCEPT !.number.down = Rune = "-"])
          ELSE PeekRune /\ Continue(Stage("power"))
    \/ /\ Ready("power")
       /\ \/ Rune \in Digit /\ ReadRune
             /\ Continue([json EXCEPT !.number.power = Append(@, Rune)])
          \/ Rune \notin Digit /\ json.number.power = <<>> /\ ReadRune /\ Refused
          \/ /\ Rune \notin Digit /\ json.number.power # <<>> /\ PeekRune
             /\ Finished(json.number, ParseDouble(json.number))

JsonNext ==
    /\ \/ SkipWhitespace \/ parse_value \/ ReadLiteral \/ parse_array \/ parse_object
       \/ Colon \/ Comma \/ parse_string \/ ReadEscape \/ ReadHex
       \/ parse_number \/ ReadExponentOfNumber
    /\ UNCHANGED <<source, tokens, lex>>

(* A new parser reads one value; whatever follows it is left.              *)
ParseValue ==
    /\ source \in JsonSources
    /\ pos = 1 /\ runes = <<>> /\ tokens = <<>> /\ lex = Idle
    /\ message = FALSE /\ odd = {}
    /\ json = [JsonOff EXCEPT !.at = "value"]

-----------------------------------------------------------------------------
(* WRITING *)

Separated(parts) ==
    FlattenSeq([i \in DOMAIN parts |-> IF i = 1 THEN parts[i] ELSE <<",">> \o parts[i]])

(* EscapeJavaScript(). *)
EscapeJavaScript(word) ==
    FlattenSeq([i \in DOMAIN word |->
        LET r == word[i]
            short == {x \in DOMAIN Escapes \ {"/"} : Escapes[x] = r}
        IN  IF short # {} THEN <<"\\", CHOOSE x \in short : TRUE>>
            ELSE IF r \in Control THEN <<"\\", "u">> \o CHOOSE h \in DOMAIN Numbers : Numbers[h] = r
            ELSE <<r>>])
Quoted(word) == <<"\"">> \o EscapeJavaScript(word) \o <<"\"">>

RECURSIVE DigitsOf(_)
DigitsOf(n) == (IF n < 10 THEN <<>> ELSE DigitsOf(n \div 10)) \o <<ToString(n % 10)>>
Signed(n, size) == (IF n < 0 THEN <<"-">> ELSE <<>>) \o size
Size(n) == IF n < 0 THEN -n ELSE n

(* FromDouble() of a number of few digits: no zeros behind the last digit. *)
FromDouble(n) ==
    LET behind == [i \in 1 .. Scale |-> ToString((Size(n) \div 10 ^ (Scale - i)) % 10)]
        last   == SelectLastInSeq(behind, LAMBDA d : d # "0")
    IN  Signed(n, DigitsOf(Size(n) \div 10 ^ Scale)
                  \o IF last = 0 THEN <<>> ELSE <<".">> \o SubSeq(behind, 1, last))

RECURSIVE as_json(_)
as_json(v) ==
    CASE v[1] = "null"   -> <<"n", "u", "l", "l">>
      [] v[1] = "bool"   -> IF v[2] THEN <<"t", "r", "u", "e">> ELSE <<"f", "a", "l", "s", "e">>
      [] v[1] = "int"    -> Signed(v[2], DigitsOf(Size(v[2])))
      [] v[1] = "float"  -> FromDouble(v[2])
      [] v[1] = "string" -> Quoted(v[2])
      [] v[1] = "list"   -> <<"[">> \o Separated([i \in DOMAIN v[2] |-> as_json(v[2][i])]) \o <<"]">>
      [] v[1] = "map"    -> <<"{">> \o Separated([i \in DOMAIN v[2] |->
                                          Quoted(v[2][i][1]) \o <<":">> \o as_json(v[2][i][2])])
                                    \o <<"}">>

-----------------------------------------------------------------------------
(* PROPERTIES *)

(* What a text is as JSON (RFC 8259): a set, empty if it is no value or a  *)
(* number that an i64 or a double cannot have.                             *)
AreDigits(s) == s # <<>> /\ \A i \in DOMAIN s : s[i] \in Digit
Before(s, some) == LET i == SelectInSeq(s, LAMBDA r : r \in some)
                   IN  IF i = 0 THEN s ELSE SubSeq(s, 1, i - 1)
After(s, some)  == LET i == SelectInSeq(s, LAMBDA r : r \in some)
                   IN  IF i = 0 THEN <<>> ELSE SubSeq(s, i + 1, Len(s))
Unsigned(s, signs) == IF s # <<>> /\ Head(s) \in signs THEN Tail(s) ELSE s

NumberDenoted(s) ==
    LET sign     == IF Head(s) = "-" THEN -1 ELSE 1
        body     == Unsigned(s, {"-"})
        mantissa == Before(body, Exponent)
        whole    == Before(mantissa, {"."})
        behind   == After(mantissa, {"."})
        power    == Unsigned(After(body, Exponent), {"+", "-"})
        down     == After(body, Exponent) # <<>> /\ Head(After(body, Exponent)) = "-"
        n        == Decimal(whole \o behind)
        e        == (IF power = <<>> THEN 0 ELSE IF down THEN -Decimal(power) ELSE Decimal(power))
                    - Len(behind)
    IN  IF \/ ~AreDigits(whole) \/ (Len(whole) > 1 /\ whole[1] = "0")
           \/ "." \in Range(mantissa) /\ ~AreDigits(behind)
           \/ Exponent \cap Range(body) # {} /\ ~AreDigits(power)
        THEN {}
        ELSE IF Exponent \cap Range(body) = {} /\ "." \notin Range(mantissa)
             THEN {<<"int", sign * n>>} \cap ({"int"} \X (-MaxInt - 1 .. MaxInt))
        ELSE IF n = 0 THEN {<<"float", 0>>}
        ELSE IF -e >= Smallest /\ n < 10 ^ (-e - Smallest) THEN {}
        ELSE {<<"float", sign * n * 10 ^ (Scale + e)>>}

RECURSIVE WordsDenoted(_)
WordsDenoted(s) ==
    LET rest(n, r) == {<<r>> \o w : w \in WordsDenoted(SubSeq(s, n + 1, Len(s)))}
    IN  IF s = <<>> THEN {<<>>}
        ELSE IF s[1] # "\\" THEN IF s[1] \in Control \cup {"\""} THEN {} ELSE rest(1, s[1])
        ELSE IF Len(s) = 1 THEN {}
        ELSE IF s[2] \in DOMAIN Escapes THEN rest(2, Escapes[s[2]])
        ELSE IF s[2] = "u" /\ Len(s) > 5 /\ \A i \in 3 .. 6 : s[i] \in Hex
             THEN rest(6, Decoded(SubSeq(s, 3, 6)))
        ELSE {}

(* The ways to divide a text in two at a rune. *)
Divided(s, r) == {<<SubSeq(s, 1, i - 1), SubSeq(s, i + 1, Len(s))>> : i \in {k \in DOMAIN s : s[k] = r}}
Within(s) == SubSeq(s, 2, Len(s) - 1)

RECURSIVE Denoted(_), Elements(_), Entries(_)
Elements(s) ==
    {<<v>> : v \in Denoted(s)}
    \cup UNION { {<<v>> \o vs : v \in Denoted(d[1]), vs \in Elements(d[2])} : d \in Divided(s, ",") }
Entries(s) ==
    UNION { {<<<<key[2], v>>>> : key \in {k \in Denoted(d[1]) : k[1] = "string"}, v \in Denoted(d[2])}
            : d \in Divided(s, ":") }
    \cup UNION { {e \o es : e \in {x \in Entries(d[1]) : Len(x) = 1}, es \in Entries(d[2])}
                 : d \in Divided(s, ",") }
Denoted(s) ==
    IF s = <<>> THEN {}
    ELSE IF Head(s) \in White THEN Denoted(Tail(s))
    ELSE IF Last(s) \in White THEN Denoted(Front(s))
    ELSE IF Head(s) \in DOMAIN Literal THEN IF Tail(s) = Literal[Head(s)] THEN {Meant[Head(s)]} ELSE {}
    ELSE IF Head(s) \in Digit \cup {"-"} THEN NumberDenoted(s)
    ELSE IF Len(s) = 1 THEN {}
    ELSE CASE Head(s) = "\"" /\ Last(s) = "\"" -> {<<"string", w>> : w \in WordsDenoted(Within(s))}
           [] Head(s) = "[" /\ Last(s) = "]" ->
                {<<"list", vs>> : vs \in Elements(Within(s))}
                \cup IF Range(Within(s)) \subseteq White THEN {<<"list", <<>>>>} ELSE {}
           [] Head(s) = "{" /\ Last(s) = "}" ->
                {<<"map", FoldLeft(LAMBDA m, e : Put(m, e[1], e[2]), <<>>, es)>> : es \in Entries(Within(s))}
                \cup IF Range(Within(s)) \subseteq White THEN {<<"map", <<>>>>} ELSE {}
           [] OTHER -> {}

(* api/string.cc:977: String#parse_json() "Attempts to parse contents of   *)
(* the string as JSON and returns value contained by that JSON."  What the *)
(* parser has read is JSON and the value is the one it stands for; a text  *)
(* that is JSON is read as a whole; a text that is refused is explained;   *)
(* and what as_json() has written is read as what it was.  This leaves out *)
(* the texts that are read otherwise, each by its tag in odd: a comma      *)
(* before the end, a point without digits behind it, control characters in *)
(* strings, an exponent behind a zero, an exponent behind a fraction,      *)
(* negative floats and the smallest i64.                                   *)
JsonIsUnderstood ==
    /\ json.at = "refused" => message
    /\ json.at \in {"done", "refused"} /\ json.odd = {} =>
         LET whole == Denoted(source) IN
         /\ json.at = "done" => json.value \in Denoted(SubSeq(source, 1, Here - 1))
         /\ whole # {} => json.at = "done" /\ json.value \in whole
         /\ \A v \in JsonValues : source = as_json(v) => json.at = "done" /\ json.value = v
=============================================================================
