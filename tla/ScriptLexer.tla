------------------------------ MODULE ScriptLexer -----------------------------
(***************************************************************************)
(* Runes and tokens: core/parser.cc and ScriptParser::ReadToken() of       *)
(* script/parser.cc.                                                       *)
(*                                                                         *)
(* The parser reads runes from a stream and can push runes back behind     *)
(* those that wait to be read again, and it reads tokens and can leave one *)
(* in a buffer of tokens.  Text between tags is read rune by rune from     *)
(* below that buffer (module ScriptParser).                                *)
(*                                                                         *)
(* A rune is a string; a keyword stands for its letters and is a single    *)
(* rune.  Runes that are waiting are identified by their position in the   *)
(* source, which tells apart equal runes.  ReadToken() is a machine that   *)
(* reads one rune a step.                                                  *)
(*                                                                         *)
(* Texts contain no null character (SourcesAssumption): what is to be      *)
(* pushed back is compared with 0, so that a null character that is not    *)
(* the rune a caller looks for is dropped (core/parser.cc:112, 122).       *)
(***************************************************************************)
EXTENDS Naturals, Sequences, TLC

CONSTANT Sources      \* the source texts, sequences of runes

VARIABLES source,     \* what m_stream contains
          pos,        \* position of the rune m_stream delivers next
          runes,      \* m_pushback_runes, as positions
          tokens,     \* m_pushback_tokens
          lex,        \* where ReadToken() is
          message,    \* is m_error_message set?
          odd         \* ways in which the parser has departed from its comments

lexerVars == <<source, pos, runes, tokens, lex, message, odd>>

EOF    == "EOF"
NUL    == "NUL"
ASSUME SourcesAssumption == Sources \subseteq Seq(STRING \ {EOF, NUL})

(* Kinds of tokens; one that consists of a rune is that rune.              *)
LBRACE    == "{"
RBRACE    == "}"
COMMA     == ","
SEMICOLON == ";"
CLOSE_TAG == "%}"
QUOTE     == "\""

Blank  == {" ", "\t", "CR", "LF", "\f"}
Octal  == {"0", "1", "2", "3", "4", "5", "6", "7"}
Digit  == Octal \cup {"8", "9"}
Hex    == Digit \cup {"a", "b", "c", "d", "e", "f", "A", "B", "C", "D", "E", "F"}
Keyword == {"break", "catch", "continue", "do", "else", "end", "false", "finally",
            "for", "function", "if", "null", "return", "throw", "true", "try", "while"}
Letter == Keyword \cup (Hex \ Digit) \cup {"x", "X", "o", "O", "u", "n", "r", "t", "v", "_"}

Idle  == [at |-> "idle", op |-> "none", tries |-> <<>>, n |-> 0, word |-> <<>>]
Start == [Idle EXCEPT !.at = "next"]

LexerInit ==
    /\ source \in Sources
    /\ pos = 1
    /\ runes = <<>> /\ tokens = <<>>
    /\ lex = Idle
    /\ message = FALSE
    /\ odd = {}

-----------------------------------------------------------------------------
(* RUNES *)

RuneAt(i) == IF i \in DOMAIN source THEN source[i] ELSE EOF

(* The position ReadRune() delivers, and what it delivers. *)
Here == IF runes = <<>> THEN pos ELSE Head(runes)
Rune == RuneAt(Here)

Advanced == IF runes = <<>> /\ pos <= Len(source) THEN pos + 1 ELSE pos

(* What waits after a rune was read. *)
Waiting == IF runes = <<>> THEN runes ELSE Tail(runes)

(* A rune is pushed back, behind those that wait. *)
Behind(w, i) == /\ runes' = Append(w, i)
                /\ odd' = IF w = <<>> THEN odd ELSE odd \cup {"swapped"}

(* Mutant: the stream is read even if a rune waits. *)
ReadPast == /\ pos' = IF pos <= Len(source) THEN pos + 1 ELSE pos
            /\ runes' = Waiting /\ UNCHANGED odd

(* ReadRune(): a rune is read and used. *)
ReadRune == pos' = Advanced /\ runes' = Waiting /\ UNCHANGED odd

(* PeekRune(): it stays, or becomes, the next to be read. *)
PeekRune == /\ pos' = Advanced
            /\ runes' = IF runes = <<>> /\ Rune # EOF THEN <<pos>> ELSE runes
            /\ UNCHANGED odd

(* UnreadRune(ReadRune()): it is read and pushed back, even the end.       *)
UnreadRune == pos' = Advanced /\ Behind(Waiting, Here)

(* ReadRune(expected) of another rune: as before, but the end is dropped.  *)
MissRune == IF Rune = EOF THEN ReadRune ELSE UnreadRune

-----------------------------------------------------------------------------
(* TOKENS *)

Goto(at)  == lex' = [lex EXCEPT !.at = at] /\ UNCHANGED <<tokens, message>>
Yield(kind) == tokens' = Append(tokens, kind) /\ lex' = Idle /\ UNCHANGED message
LexError  == tokens' = Append(tokens, "error") /\ lex' = Idle /\ message' = TRUE

(* The runes ReadToken() tries one after the other once it has read an     *)
(* operator or a part of one, and what each of them makes of it.           *)
Tries(op) ==
    CASE op = "+"  -> << <<"+", "++">>, <<"=", "+=">> >>
      [] op = "-"  -> << <<"-", "--">>, <<"=", "-=">> >>
      [] op = "*"  -> << <<"=", "*=">> >>
      [] op = "%"  -> << <<"=", "%=">>, <<RBRACE, CLOSE_TAG>> >>
      [] op = "/"  -> << <<"/", "//">>, <<"*", "/*">>, <<"=", "/=">> >>
      [] op = "&"  -> << <<"&", "&&">>, <<"=", "&=">> >>
      [] op = "&&" -> << <<"=", "&&=">> >>
      [] op = "|"  -> << <<"|", "||">>, <<"=", "|=">> >>
      [] op = "||" -> << <<"=", "||=">> >>
      [] op = "^"  -> << <<"=", "^=">> >>
      [] op = "<"  -> << <<"<", "<<">>, <<"=", "<=">> >>
      [] op = "<<" -> << <<"=", "<<=">> >>
      [] op = ">"  -> << <<">", ">>">>, <<"=", ">=">> >>
      [] op = ">>" -> << <<"=", ">>=">> >>
      [] op = "!"  -> << <<"=", "!=">>, <<"~", "!~">> >>
      [] op = "="  -> << <<"=", "==">>, <<"~", "=~">>, <<">", "=>">> >>
      [] op = "."  -> << <<".", "..">> >>
      [] op = ".." -> << <<".", "...">> >>
      [] op = "?"  -> << <<".", "?.">> >>
      [] OTHER     -> <<>>

Operator  == {"+", "-", "*", "%", "/", "&", "|", "^", "<", ">", "!", "=", ".", "?"}

Try(op) == lex' = [lex EXCEPT !.at = "operator", !.op = op, !.tries = Tries(op)]
           /\ UNCHANGED <<tokens, message>>

(* READ_NEXT_CHAR: the first rune of a token, or one to skip.              *)
NextChar ==
    /\ lex.at = "next"
    /\ ReadRune
    /\ \/ Rune \in {EOF, "^D", "^Z"} /\ Yield("end_of_input")
       \/ Rune \in Blank /\ Goto("next")
       \/ Rune = "#" /\ Goto("line_comment")
       \/ Rune \in {"(", ")", "[", "]", LBRACE, RBRACE, ":", SEMICOLON, COMMA, "~"} /\ Yield(Rune)
       \/ Rune \in Operator /\ Try(Rune)
       \/ Rune \in {"'", QUOTE} /\ lex' = [lex EXCEPT !.at = "string", !.op = Rune]
                              /\ UNCHANGED <<tokens, message>>
       \/ Rune = "0" /\ Goto("zero")
       \/ Rune \in Digit \ {"0"} /\ Goto("digits")
       \/ Rune \in Letter /\ lex' = [lex EXCEPT !.at = "word", !.word = <<Rune>>]
                          /\ UNCHANGED <<tokens, message>>
       \/ Rune \in {"malformed", "$", "\\"} /\ LexError

(* A rune that may make an operator longer is tried.                       *)
ReadOperator ==
    /\ lex.at = "operator" /\ lex.tries # <<>>
    /\ IF Rune = Head(lex.tries)[1]
       THEN ReadRune /\ Try(Head(lex.tries)[2])
       ELSE MissRune /\ lex' = [lex EXCEPT !.tries = Tail(@)] /\ UNCHANGED <<tokens, message>>

(* No rune makes it longer: it is a token, or the start of a comment.      *)
EndOperator ==
    /\ lex.at = "operator" /\ lex.tries = <<>>
    /\ \/ lex.op = "//" /\ Goto("line_comment")
       \/ lex.op = "/*" /\ lex' = [lex EXCEPT !.at = "comment", !.n = 1]
                        /\ UNCHANGED <<tokens, message>>
       \/ lex.op = CLOSE_TAG /\ Goto("CR")
       \/ lex.op \notin {"//", "/*", CLOSE_TAG} /\ Yield(lex.op)
    /\ UNCHANGED <<pos, runes, odd>>

(* A new line that follows a close tag belongs to the tag.                 *)
EatNewLine ==
    /\ lex.at \in {"CR", "LF"}
    /\ IF Rune = lex.at THEN ReadRune ELSE MissRune
    /\ IF lex.at = "CR" THEN Goto("LF") ELSE Yield(CLOSE_TAG)

LineComment ==
    /\ lex.at = "line_comment"
    /\ ReadRune
    /\ \/ Rune = EOF /\ Yield("end_of_input")
       \/ Rune \in {"CR", "LF"} /\ Goto("next")
       \/ Rune \notin {EOF, "CR", "LF"} /\ UNCHANGED <<tokens, lex, message>>

(* Mutant: the end of the input does not end a comment. *)
CommentForever ==
    /\ lex.at = "comment"
    /\ ReadRune
    /\ \/ Rune \in {"*", "/"} /\ Goto(IF Rune = "*" THEN "comment*" ELSE "comment/")
       \/ Rune \notin {"*", "/"} /\ UNCHANGED <<tokens, lex, message>>

(* Multi-line comments nest.  The rune behind an asterisk or a slash is    *)
(* read with it, whatever it is.                                           *)
Comment ==
    /\ lex.at = "comment"
    /\ ReadRune
    /\ \/ Rune = EOF /\ LexError
       \/ Rune \in {"*", "/"} /\ Goto(IF Rune = "*" THEN "comment*" ELSE "comment/")
       \/ Rune \notin {EOF, "*", "/"} /\ UNCHANGED <<tokens, lex, message>>

CommentMark ==
    /\ lex.at \in {"comment*", "comment/"}
    /\ ReadRune
    /\ LET depth == CASE lex.at = "comment*" /\ Rune = "/" -> lex.n - 1
                      [] lex.at = "comment/" /\ Rune = "*" -> lex.n + 1
                      [] OTHER -> lex.n
       IN  lex' = IF depth = 0 THEN Start ELSE [lex EXCEPT !.at = "comment", !.n = depth]
    /\ UNCHANGED <<tokens, message>>

ReadString ==
    /\ lex.at = "string"
    /\ ReadRune
    /\ \/ Rune = EOF /\ LexError
       \/ Rune = lex.op /\ Yield("string")
       \/ Rune = "\\" /\ Goto("escape")
       \/ Rune \notin {EOF, lex.op, "\\"} /\ UNCHANGED <<tokens, lex, message>>

Escapable == {"\\", QUOTE, "'", "LF", "a", "b", "f", "n", "r", "t", "v"}

parse_escape_sequence ==
    /\ lex.at \in {"escape", "escape_CR", "escape_u"}
    /\ \/ /\ lex.at = "escape"
          /\ ReadRune
          /\ \/ Rune \in Escapable /\ Goto("string")
             \/ Rune = "CR" /\ Goto("escape_CR")
             \/ Rune = "u" /\ lex' = [lex EXCEPT !.at = "escape_u", !.n = 4]
                           /\ UNCHANGED <<tokens, message>>
             \/ Rune \notin Escapable \cup {"CR", "u"} /\ LexError
       \/ /\ lex.at = "escape_CR"
          /\ IF Rune = "LF" THEN ReadRune ELSE MissRune
          /\ Goto("string")
       \/ /\ lex.at = "escape_u"
          /\ ReadRune
          /\ IF Rune \notin Hex THEN LexError
             ELSE lex' = [lex EXCEPT !.n = @ - 1, !.at = IF lex.n = 1 THEN "string" ELSE @]
                  /\ UNCHANGED <<tokens, message>>

-----------------------------------------------------------------------------
(* NUMBERS AND WORDS *)

Point == lex' = [lex EXCEPT !.at = "point", !.n = Here] /\ UNCHANGED <<tokens, message>>

(* The rune behind a leading zero says what follows.                       *)
ReadZero ==
    /\ lex.at = "zero"
    /\ \/ ReadRune /\ \/ Rune \in {"b", "B"} /\ Goto("binary")
                      \/ Rune \in {"x", "X"} /\ Goto("hex")
                      \/ Rune \in Octal \cup {"o", "O"} /\ Goto("octal")
                      \/ Rune \in {"8", "9"} /\ LexError
                      \/ Rune \in {"e", "E"} /\ Goto("exponent")
                      \/ Rune = "." /\ Point
                      \/ Rune \in {"f", "F"} /\ Yield("float")
       \/ /\ Rune \notin Digit \cup {"b", "B", "x", "X", "o", "O", "e", "E", ".", "f", "F"}
          /\ UnreadRune /\ Yield("int")

(* Digits and underscores.  Binary and octal literals take any digit and   *)
(* then complain.                                                          *)
ReadDigits ==
    /\ lex.at \in {"binary", "octal", "hex", "digits", "fraction", "power"}
    /\ LET legal == CASE lex.at = "binary" -> {"0", "1"}
                      [] lex.at = "octal"  -> Octal
                      [] lex.at = "hex"    -> Hex
                      [] OTHER -> Digit
           more == Digit \cup (IF lex.at = "hex" THEN Hex ELSE {})
                         \cup (IF lex.at = "power" THEN {} ELSE {"_"})
       IN  \/ Rune \in more /\ ReadRune /\ IF Rune \in legal \cup {"_"}
                                           THEN UNCHANGED <<tokens, lex, message>>
                                           ELSE LexError
           \/ Rune \notin more /\ PeekRune
              /\ \/ lex.at \in {"binary", "octal", "hex"} /\ Yield("int")
                 \/ lex.at = "power" /\ Yield("float")
                 \/ lex.at \in {"digits", "fraction"}
                    /\ lex' = [lex EXCEPT !.at = "suffix", !.op = lex.at,
                                          !.tries = IF lex.at = "digits" THEN <<"e", "E", "f", "F">>
                                                                         ELSE <<"e", "E">>]
                    /\ UNCHANGED <<tokens, message>>

(* Behind the digits: a point, an exponent, an f or nothing of these.      *)
ReadSuffix ==
    /\ lex.at = "suffix"
    /\ \/ /\ lex.op = "digits" /\ Len(lex.tries) = 4 /\ Rune = "."
          /\ ReadRune /\ Point
       \/ /\ ~(lex.op = "digits" /\ Len(lex.tries) = 4 /\ Rune = ".")
          /\ \/ /\ lex.tries = <<>>
                /\ Yield(IF lex.op = "digits" THEN "int" ELSE "float")
                /\ UNCHANGED <<pos, runes, odd>>
             \/ /\ lex.tries # <<>> /\ Rune = Head(lex.tries)
                /\ ReadRune
                /\ IF Rune \in {"e", "E"} THEN Goto("exponent") ELSE Yield("float")
             \/ /\ lex.tries # <<>> /\ Rune # Head(lex.tries)
                /\ MissRune
                /\ lex' = [lex EXCEPT !.tries = Tail(@)] /\ UNCHANGED <<tokens, message>>

(* A point without a digit behind it is pushed back, but so was the rune   *)
(* behind it, which is now in front of it.                                 *)
ReadPoint ==
    /\ lex.at = "point"
    /\ \/ Rune \in Digit /\ PeekRune /\ Goto("fraction")
       \/ /\ Rune \notin Digit
          /\ pos' = Advanced
          /\ LET w == IF runes = <<>> /\ Rune # EOF THEN <<pos>> ELSE runes
             IN  Behind(w, lex.n)
          /\ Yield("int")

ReadExponent ==
    /\ lex.at \in {"exponent", "sign"}
    /\ IF lex.at = "exponent" /\ Rune \notin Digit \cup {"+", "-"}
       THEN PeekRune /\ LexError
       ELSE /\ ReadRune
            /\ \/ lex.at = "exponent" /\ Rune \in {"+", "-"} /\ Goto("sign")
               \/ Rune \in Digit /\ Goto("power")
               \/ lex.at = "sign" /\ Rune \notin Digit /\ LexError

ReadWord ==
    /\ lex.at = "word"
    /\ IF Rune \in Letter \cup Digit
       THEN ReadRune /\ lex' = [lex EXCEPT !.word = Append(@, Rune)] /\ UNCHANGED <<tokens, message>>
       ELSE UnreadRune /\ Yield(IF lex.word \in {<<k>> : k \in Keyword} THEN lex.word[1]
                                                                         ELSE "identifier")

(* A step of ReadToken().                                                  *)
ReadToken ==
    \/ NextChar \/ ReadOperator \/ EndOperator \/ EatNewLine
    \/ LineComment \/ Comment \/ CommentMark \/ ReadString \/ parse_escape_sequence
    \/ ReadZero \/ ReadDigits \/ ReadSuffix \/ ReadPoint \/ ReadExponent \/ ReadWord

-----------------------------------------------------------------------------
(* PROPERTIES *)

(* parser.h: PeekRune() "Returns next rune from the input stream without   *)
(* advancing forwards".  Whatever is peeked at, tried and pushed back, a   *)
(* step goes on by one rune at most and back by no more than one: no rune  *)
(* is passed over and none but the last is read again.  A rune that is     *)
(* pushed back behind others that are waiting ends this.                   *)
RuneByRune == [][("swapped" \notin odd') => Here' \in {Here - 1, Here, Here + 1}]_lexerVars
=============================================================================
