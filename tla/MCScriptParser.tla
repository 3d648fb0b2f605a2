----------------------------- MODULE MCScriptParser ----------------------------
(***************************************************************************)
(* The two parsers that read runes: the one of scripts and the one of      *)
(* JSON.  Each text is read by one of them.                                *)
(*                                                                         *)
(* Programs that use every production of the grammar, templates that use   *)
(* every kind of tag, the same with a rune missing, another in its place,  *)
(* or cut short, and every pair of binary operators; JSON of every kind of *)
(* value with the same changes, and JSON that as_json() has written.       *)
(***************************************************************************)
EXTENDS ScriptParser, JsonParser

(* The runes of what is a word of one string in the programs below. *)
Spelling ==
    ("++" :> <<"+", "+">>) @@ ("--" :> <<"-", "-">>) @@ ("+=" :> <<"+", "=">>) @@
    ("-=" :> <<"-", "=">>) @@ ("*=" :> <<"*", "=">>) @@ ("/=" :> <<"/", "=">>) @@
    ("%=" :> <<"%", "=">>) @@ ("&=" :> <<"&", "=">>) @@ ("|=" :> <<"|", "=">>) @@
    ("^=" :> <<"^", "=">>) @@ ("&&" :> <<"&", "&">>) @@ ("||" :> <<"|", "|">>) @@
    ("<<" :> <<"<", "<">>) @@ (">>" :> <<">", ">">>) @@ ("<=" :> <<"<", "=">>) @@
    (">=" :> <<">", "=">>) @@ ("==" :> <<"=", "=">>) @@ ("!=" :> <<"!", "=">>) @@
    ("=~" :> <<"=", "~">>) @@ ("!~" :> <<"!", "~">>) @@ ("=>" :> <<"=", ">">>) @@
    (".." :> <<".", ".">>) @@ ("..." :> <<".", ".", ".">>) @@ ("?." :> <<"?", ".">>) @@
    ("&&=" :> <<"&", "&", "=">>) @@ ("||=" :> <<"|", "|", "=">>) @@
    ("<<=" :> <<"<", "<", "=">>) @@ (">>=" :> <<">", ">", "=">>) @@
    ("{%" :> <<"{", "%">>) @@ ("%}" :> <<"%", "}">>) @@ ("{{" :> <<"{", "{">>) @@
    ("}}" :> <<"}", "}">>) @@ ("{!" :> <<"{", "!">>) @@ ("!}" :> <<"!", "}">>) @@
    ("{#" :> <<"{", "#">>) @@ ("#}" :> <<"#", "}">>) @@ ("/*" :> <<"/", "*">>) @@
    ("*/" :> <<"*", "/">>) @@ ("//" :> <<"/", "/">>) @@ ("#!" :> <<"#", "!">>) @@
    ("\\n" :> <<"\\", "n">>) @@ ("\\u" :> <<"\\", "u", "0", "a", "F", "1">>) @@
    ("\\CR" :> <<"\\", "CR", "LF">>) @@ ("_" :> <<" ">>) @@ ("CRLF" :> <<"CR", "LF">>)

Spell(words) == FlattenSeq([i \in DOMAIN words |->
                    IF words[i] \in DOMAIN Spelling THEN Spelling[words[i]] ELSE <<words[i]>>])

Tag(words) == <<"{%">> \o words \o <<"%}">>

Statements == {
    <<"if", "_", "x", ":", "return", ";", "else", "_", "if", "_", "x", ":", "x", ";", "else",
      ":", "return", "_", "x", ";", "end", "_", "if", ";">>,
    <<"while", "_", "x", ":", "x", "++", ";", "end", "_", "while", ";", "throw", "_", "x", ";">>,
    <<"for", "_", "[", "x", ",", "u", "]", ":", "x", ":", "x", ";", "else", ":", ";",
      "end", "_", "for">>,
    <<"try", ":", "x", ";", "catch", "_", "x", "?", "_", "u", ":", "catch", ":", "else", ":",
      "finally", ":", "x", ";", "end", "_", "try">>,
    <<"try", ":", "end", "_", "try", ";">>, <<"break", ";">>, <<"continue", ";">>,
    <<"x", "=", "function", "(", "x", ":", "x", "|", "u", ",", "u", "=", "1", ",", "...", "n",
      ")", ":", "x", ";", "end", "_", "function", ";">>,
    <<"function", "(", ")", "=>", "throw", "_", "x", ";">> }

Expressions == {
    <<"x", "=", "function", "=>", "x", "?", "[", "]", ":", "{", "}">>,
    <<"[", "true", ",", "false", "]", "+=", "-", "_", "--", "x", ".", "u", "++">>,
    <<"{", "null", ":", "x", "?.", "u", "(", "1", ",", "2", ")", ",", "1", ":", "x", "[", "0",
      "]", "}">>,
    <<"(", "x", ")", "=", "!", "x", "(", ")", "..", "+", "1", ".", "5", "e", "-", "3">>,
    <<"0", "b", "1", "0", "2">>, <<"0", "x", "f", "_", "7">>, <<"0", "7", "8">>, <<"0", "9">>,
    <<"0", "f", "+", "0", ".", "1", "e", "2">>, <<"0", "e", "x">>, <<"1", "2", "f">>,
    <<"1", ".", "u">>, <<"1", "e", "+", "x">>, <<"8", "..", "1">>, <<"1", "E", "4">>,
    <<"'", "x", "\\n", "\\u", "\\CR", "'", "//", "x", "LF", "~", "x">>,
    <<"/*", "x", "/*", "*/", "*", "x", "*/", "x", "#", "x">>, <<"x", "/*", "*", "*/">> }

Templates == {
    <<"#!", "x", "LF", "x">> \o Tag(<<"x", ";", "if", "_", "x", ":">>) \o <<"x">>
      \o Tag(<<"else", ":">>) \o <<"{{", "x", "}}">> \o Tag(<<"end", "_", "if">>) \o <<"CRLF", "u">>,
    <<"#", "x", "{!", "x", "!}", "{#", "x", "#", "#}", "{", "x">>,
    <<"x", "\\CR", "u", "\\", "{", "\\", "x", "\\", "LF", "x", "\\", "CR", "u">>,
    Tag(<<"x", "=", "function", "(", "x", ")", ":">>) \o <<"x">> \o Tag(<<"end", "_", "function">>) }

Programs == {Spell(p) : p \in Expressions \cup Templates \cup Statements
                                          \cup {Tag(s) : s \in Statements}}

(* A rune is left out or another takes its place, or the program ends.     *)
Wrong == {"}", "!", "$", "{"}
Variants(p) == UNION { {RemoveAt(p, i), SubSeq(p, 1, i - 1)} \cup {[p EXCEPT ![i] = r] : r \in Wrong}
                       : i \in DOMAIN p }

BinaryOperators == UNION {Rule[r].operators : r \in DOMAIN Rule} \cup Assignment \cup {".."}
Pairs == { Spell(<<"x", a, "x", b, "x">>) : a \in BinaryOperators, b \in BinaryOperators }

MCSources == Programs \cup Pairs \cup UNION {Variants(p) : p \in Programs}

-----------------------------------------------------------------------------
(* JSON *)

Word(w) == <<"\"">> \o w \o <<"\"">>
Texts == {
    <<"t", "r", "u", "e">>, <<" ", "f", "a", "l", "s", "e", " ">>, <<"n", "u", "l", "l", "x">>,
    Word(<<"x", "\\", "n", "\\", "/", "\\", "\"", "x">>),
    Word(<<"\\", "u", "0", "0", "0", "7", "\\", "u", "0", "0", "2", "F", "a">>),
    <<"-", "1", "2", ".", "5", "e", "1">>, <<"1", "e", "+", "2">>, <<"5", "E", "-", "1">>,
    <<"0", ".", "0", "2">>, <<"-", "0">>, <<"0", "1">>, <<"5", "e", "-", "3">>,
    <<"1", "2", "e", "-", "3">>, <<"1", "2", "7">>, <<"1", "2", "8">>, <<"2", "5", "5">>,
    <<"-", "1", "2", "7">>, <<"-", "1", "2", "8">>, <<"-", "1", "2", "9">>,
    <<"0", "e", "1">>, <<"9", "0", "0">>, <<"0", ".", "0", "e", "1">>,
    <<"[", "]">>, <<"[", " ", "[", "]", " ", ",", "1", "CR", "LF", "]">>,
    <<"[", "1", ",", "[", "2", ",", "\"", "\"", "]", ",", "{", "}", "]">>,
    <<"{", " ", "}">>, <<"{">> \o Word(<<"x">>) \o <<" ", ":", "\t", "1", ",">>
                             \o Word(<<>>) \o <<":", "[", "]", "}">>,
    <<"{">> \o Word(<<"x">>) \o <<":", "1", ",">> \o Word(<<"u">>) \o <<":", "2", ",">>
          \o Word(<<"x">>) \o <<":", "3", "}">>,
    <<"[", "{">> \o Word(<<"\\", "t">>) \o <<":", "n", "u", "l", "l", "}", " ", "]">> }

JsonWrong == {"}", "]", ",", "\"", "\\", "0", ".", "e", "BEL"}
JsonVariants(t) == UNION { {RemoveAt(t, i), SubSeq(t, 1, i - 1)} \cup {[t EXCEPT ![i] = r] : r \in JsonWrong}
                           : i \in DOMAIN t }

Simple == {<<"null">>, <<"bool", TRUE>>, <<"bool", FALSE>>, <<"int", 0>>, <<"int", 90>>, <<"int", -7>>,
           <<"int", 127>>, <<"int", -127>>, <<"int", -128>>, <<"float", 5000>>, <<"float", 123400>>,
           <<"float", -25000>>, <<"string", <<>>>>,
           <<"string", <<"\"", "\\", "/", "LF", "BEL", "\t", "x", "BS">>>>}
MCJsonValues ==
    Simple \cup {<<"list", vs>> : vs \in {<<>>} \cup {<<v>> : v \in Simple} \cup {<<v, v>> : v \in Simple}}
           \cup {<<"map", es>> : es \in {<<>>} \cup {<< <<<<"x">>, v>> >> : v \in Simple}
                                        \cup {<< <<<<"LF">>, v>>, <<<<>>, <<"list", <<v>>>>>> >> : v \in Simple}}

(* Powers of ten that TLC can count. *)
Small(t) == \A i \in 1 .. Len(t) - 1 : t[i] = "e" =>
    t[i + 1] \notin Digit \ {"0", "1", "2"} /\ (i + 1 < Len(t) => ~({t[i + 1], t[i + 2]} \subseteq Digit))

MCJsonSources == {t \in Texts \cup UNION {JsonVariants(t) : t \in Texts} : Small(t)}
                 \cup {as_json(v) : v \in MCJsonValues}

-----------------------------------------------------------------------------
(* A text is a script or JSON. *)

bothVars == <<vars, json>>

BothInit ==
    \/ Init /\ json = JsonOff
    \/ /\ ParseValue
       /\ todo = <<>> /\ vals = <<>> /\ text = <<>> /\ taken = <<>>
       /\ built = [op |-> "", operands |-> <<>>]
       /\ outcome = "json"
BothNext ==
    \/ json.at = "off" /\ Next /\ UNCHANGED json
    \/ json.at # "off" /\ JsonNext /\ UNCHANGED parserVars
BothSpec == BothInit /\ [][BothNext]_bothVars /\ WF_bothVars(BothNext)

(* Both parsers end, whatever they read: programs, templates and JSON that *)
(* break off in the middle of a comment, a string or a block included.     *)
ParsersEnd == <>(outcome # "running" /\ json.at \in {"off", "done", "refused"})
=============================================================================
