------------------------- MODULE ScriptParserProofs -------------------------
(***************************************************************************)
(* Proofs about the lexer and the parser of scripts (src/src/script/).     *)
(*                                                                         *)
(* The text between two pieces of code must be output once and in order,   *)
(* whatever the lexer has pushed back in the meantime.  What makes it so   *)
(* is spread over both classes: Lexer::ReadRune() and UnreadRune() keep a  *)
(* stack of runes, Parser::ParseText() reads past a token that may still   *)
(* be in ITS stack, and it is the order in which the productions peek and  *)
(* accept that keeps either stack empty where the text begins.  So the     *)
(* invariant VerbatimInv below has five parts:                             *)
(*   LexInv       where the waiting runes come from;                       *)
(*   OperatorInv  an operator being read ends in the rune read last;       *)
(*   Stacked      which production may wait under which other;             *)
(*   TokenInv     which token may wait under which production;             *)
(*   TextInv      the text delivered so far lies before the next rune.     *)
(* One lemma per kind of production shows that what it pushes is Stacked,  *)
(* one per step of the lexer that it keeps LexInv and the text, and        *)
(* NextKeepsVerbatim puts them together.                                   *)
(*                                                                         *)
(* The second invariant, GroupInv, is about the nodes.  Whether an operand *)
(* holds together tightly enough is settled by functions that have not     *)
(* returned when it is made: so each item of todo is given the nodes it    *)
(* takes, how tightly the last of them has to hold together and how        *)
(* tightly the one it leaves does, and GroupInv says that every item will  *)
(* find what it takes (Balanced, a path of such states along the stack).   *)
(* One lemma per production shows that the items it pushes keep what their *)
(* own item promised, GrammarGroups puts them together, and a failure is a *)
(* path to the function that does not notice it: the nodes it had are      *)
(* still there, because no item in between takes them.                     *)
(***************************************************************************)
EXTENDS ScriptParser, SequenceTheorems, WellFoundedInduction, TLAPS

-----------------------------------------------------------------------------
(* RUNES *)

(* While nothing has been pushed back out of order, at most one rune waits,*)
(* the last one that was read, or the end of the text.                     *)
Waits ==
    \/ runes = <<>>
    \/ /\ runes = <<Here>>
       /\ \/ Here = pos - 1 /\ Here \in 1 .. Len(source)
          \/ Here = pos /\ pos = Len(source) + 1

LexFields == {"at", "op", "tries", "n", "word"}

LexInv ==
    /\ source \in Seq(STRING \ {EOF})
    /\ pos \in 1 .. Len(source) + 1
    /\ DOMAIN lex = LexFields
    /\ "swapped" \notin odd => Waits /\ (lex.at = "point" => lex.n = Here - 1 /\ lex.n \in 1 .. Len(source))

(* The next rune is the one at Here, and reading it moves Here by one or   *)
(* leaves it at the end.                                                   *)
LEMMA RuneIsHere ==
    ASSUME LexInv, "swapped" \notin odd
    PROVE  /\ Here \in 1 .. Len(source) + 1 /\ Len(source) \in Nat
           /\ Rune # EOF <=> Here \in 1 .. Len(source)
           /\ Waiting = <<>>
           /\ runes = <<>> => Here = pos
           /\ Advanced = (IF Here = Len(source) + 1 THEN Here ELSE Here + 1)
<1>1. Len(source) \in Nat /\ DOMAIN source = 1 .. Len(source) /\ \A i \in 1 .. Len(source) : source[i] # EOF
  BY DEF LexInv
<1>2. CASE runes = <<>>
  <2>1. Here = pos /\ Waiting = <<>> /\ Advanced = IF pos <= Len(source) THEN pos + 1 ELSE pos
    BY <1>2 DEF Here, Waiting, Advanced
  <2> QED
    BY <1>1, <1>2, <2>1 DEF Rune, RuneAt, LexInv
<1>3. CASE runes # <<>>
  <2>1. /\ runes = <<Here>>
        /\ \/ Here = pos - 1 /\ Here \in 1 .. Len(source)
           \/ Here = pos /\ pos = Len(source) + 1
    BY <1>3 DEF LexInv, Waits
  <2>2. Tail(runes) = <<>> /\ Advanced = pos /\ Waiting = Tail(runes)
    BY <1>3, <2>1 DEF Advanced, Waiting
  <2> QED
    BY <1>1, <1>3, <2>1, <2>2 DEF Rune, RuneAt, LexInv
<1> QED
  BY <1>2, <1>3

(* What one step may do to the runes: they stay, the next one is read,     *)
(* peeked at or read and pushed back, or runes get out of order.           *)
Stay   == UNCHANGED <<pos, runes>>
Reads  == pos' = Advanced /\ runes' = Waiting
Peeks1 == pos' = Advanced /\ runes' = (IF runes = <<>> /\ Rune # EOF THEN <<pos>> ELSE runes)
Unread == pos' = Advanced /\ runes' = Append(Waiting, Here)

Glides == Here' \in {Here - 1, Here, Here + 1}

(* Here after a step that leaves one rune waiting.                         *)
LEMMA HereNext ==
    ASSUME NEW x, runes' = <<x>>
    PROVE  Here' = x
<1>1. runes' # <<>> /\ Head(runes') = x
  BY SMT
<1> QED
  BY <1>1 DEF Here

(* Staying, reading, peeking and unreading keep the runes in order.        *)
LEMMA StepGlides ==
    ASSUME LexInv, "swapped" \notin odd, UNCHANGED source, Stay \/ Reads \/ Peeks1 \/ Unread
    PROVE  /\ Waits' /\ pos' \in 1 .. Len(source) + 1
           /\ Stay \/ Peeks1 \/ Unread => Here' = Here
           /\ Reads => Here' = (IF Here = Len(source) + 1 THEN Here ELSE Here + 1)
<1>1. /\ Here \in 1 .. Len(source) + 1 /\ Len(source) \in Nat
      /\ Rune # EOF <=> Here \in 1 .. Len(source)
      /\ Waiting = <<>> /\ (runes = <<>> => Here = pos)
      /\ Advanced = (IF Here = Len(source) + 1 THEN Here ELSE Here + 1)
  BY RuneIsHere
<1>2. pos \in 1 .. Len(source) + 1 /\ Waits
  BY DEF LexInv
<1>3. ASSUME Stay PROVE Waits' /\ Here' = Here /\ pos' = pos
  BY <1>2, <1>3 DEF Stay, Waits, Here
<1>4. ASSUME Reads PROVE Waits' /\ Here' = Advanced /\ pos' = Advanced
  BY <1>1, <1>4 DEF Reads, Waits, Here
<1>5. ASSUME Unread PROVE Waits' /\ Here' = Here /\ pos' = Advanced
  <2>1. runes' = <<Here>>
    BY <1>1, <1>5 DEF Unread
  <2>2. Here' = Here /\ pos' = Advanced
    BY <1>5, <2>1, HereNext DEF Unread
  <2> QED
    BY <1>1, <1>5, <2>1, <2>2 DEF Waits
<1>6. ASSUME Peeks1 PROVE Waits' /\ Here' = Here /\ pos' = Advanced
  <2>1. CASE runes = <<>> /\ Rune # EOF
    <3>1. runes' = <<Here>> /\ pos' = Advanced
      BY <1>1, <1>6, <2>1 DEF Peeks1
    <3>2. Here' = Here
      BY <3>1, HereNext
    <3> QED
      BY <1>1, <2>1, <3>1, <3>2 DEF Waits
  <2>2. CASE runes = <<>> /\ Rune = EOF
    <3>1. runes' = <<>> /\ pos' = Advanced /\ Here = pos
      BY <1>1, <1>6, <2>2 DEF Peeks1
    <3>2. Here = Len(source) + 1
      BY <1>1, <2>2
    <3> QED
      BY <1>1, <3>1, <3>2 DEF Waits, Here
  <2>3. CASE runes # <<>>
    <3>1. runes' = runes /\ runes = <<Here>> /\ pos' = Advanced /\ Advanced = pos
      BY <1>2, <1>6, <2>3 DEF Peeks1, Waits, Advanced
    <3>2. Here' = Here
      BY <3>1, HereNext
    <3> QED
      BY <1>2, <3>1, <3>2 DEF Waits
  <2> QED
    BY <2>1, <2>2, <2>3
<1> QED
  BY <1>1, <1>2, <1>3, <1>4, <1>5, <1>6

(* What a step of the lexer, or of the text of a template, does to runes.  *)
InOrder == odd' = odd /\ (Stay \/ Reads \/ Peeks1 \/ Unread)
ToPoint == /\ lex.at = "point" /\ odd' = odd /\ runes = <<>> /\ Rune = EOF
           /\ pos' = Advanced /\ runes' = <<lex.n>>
Moves   == pos' \in {pos, Advanced} /\ odd' \in {odd, odd \cup {"swapped"}}
           /\ ("swapped" \in odd' \/ InOrder \/ ToPoint)

(* What the operations of core/parser.cc do is one of those moves.         *)
LEMMA RunesMove ==
    /\ ReadRune => Moves /\ InOrder /\ Reads
    /\ PeekRune => Moves /\ InOrder
    /\ UnreadRune => Moves
    /\ MissRune => Moves
    /\ UNCHANGED <<pos, runes, odd>> => Moves /\ InOrder
<1>1. ReadRune => Moves /\ InOrder /\ Reads
  BY DEF ReadRune, Moves, InOrder, Reads
<1>2. PeekRune => Moves /\ InOrder
  BY DEF PeekRune, Moves, InOrder, Peeks1
<1>3. UnreadRune => Moves
  BY DEF UnreadRune, Behind, Moves, InOrder, Unread
<1>4. UNCHANGED <<pos, runes, odd>> => Moves /\ InOrder
  BY DEF Moves, InOrder, Stay
<1> QED
  BY <1>1, <1>2, <1>3, <1>4 DEF MissRune

(* Where the lexer is afterwards.                                          *)
Lexes == /\ DOMAIN lex' = LexFields
         /\ lex'.at = "point" => Reads /\ Rune # EOF /\ lex'.n = Here

(* A change of the state of ReadToken() only.                              *)
LEMMA GoesTo ==
    ASSUME DOMAIN lex = LexFields
    PROVE  /\ \A at : Goto(at) => DOMAIN lex' = LexFields /\ lex'.at = at
           /\ \A k : Yield(k) => DOMAIN lex' = LexFields /\ lex'.at = "idle"
           /\ LexError => DOMAIN lex' = LexFields /\ lex'.at = "idle"
           /\ \A op : Try(op) => DOMAIN lex' = LexFields /\ lex'.at = "operator"
           /\ Point => DOMAIN lex' = LexFields /\ lex'.n = Here
           /\ DOMAIN Idle = LexFields /\ Idle.at = "idle"
           /\ DOMAIN Start = LexFields /\ Start.at = "next"
<1>1. DOMAIN Idle = LexFields /\ Idle.at = "idle"
  BY DEF Idle, LexFields
<1>2. DOMAIN Start = LexFields /\ Start.at = "next"
  BY DEF Idle, Start, LexFields
<1>3. \A at : Goto(at) => DOMAIN lex' = LexFields /\ lex'.at = at
  BY DEF Goto, LexFields
<1>4. \A op : Try(op) => DOMAIN lex' = LexFields /\ lex'.at = "operator"
  <2>1. \A op, x : lex' = [lex EXCEPT !.at = "operator", !.op = op, !.tries = x]
                  => DOMAIN lex' = LexFields /\ lex'.at = "operator"
    BY DEF LexFields
  <2> QED
    BY <2>1 DEF Try
<1>5. Point => DOMAIN lex' = LexFields /\ lex'.n = Here
  BY DEF Point, LexFields
<1> QED
  BY <1>1, <1>2, <1>3, <1>4, <1>5 DEF Yield, LexError

(* The steps of ReadToken(), one kind after the other, move that way.      *)
LEMMA NextCharMoves ==
    ASSUME LexInv, NextChar PROVE Moves /\ Lexes
<1>1. Moves
  BY RunesMove DEF NextChar
<1>2. DOMAIN lex = LexFields
  BY DEF LexInv
<1>3. lex' = [lex EXCEPT !.at = "string", !.op = Rune] \/ lex' = [lex EXCEPT !.at = "word", !.word = <<Rune>>]
      => DOMAIN lex' = LexFields /\ lex'.at # "point"
  BY <1>2 DEF LexFields
<1>4. DOMAIN lex' = LexFields /\ lex'.at # "point"
  BY <1>2, <1>3, GoesTo DEF NextChar
<1> QED
  BY <1>1, <1>4 DEF Lexes

(* Operators.                                                              *)
LEMMA OperatorMoves ==
    ASSUME LexInv, ReadOperator \/ EndOperator \/ EatNewLine PROVE Moves /\ Lexes
<1>1. Moves
  BY RunesMove DEF ReadOperator, EndOperator, EatNewLine
<1>2. DOMAIN lex = LexFields
  BY DEF LexInv
<1>3. ReadOperator => DOMAIN lex' = LexFields /\ lex'.at # "point"
  <2>1. lex.at = "operator" /\ lex' = [lex EXCEPT !.tries = Tail(@)] => DOMAIN lex' = LexFields /\ lex'.at = "operator"
    BY <1>2 DEF LexFields
  <2> QED
    BY <1>2, <2>1, GoesTo DEF ReadOperator
<1>4. EndOperator => DOMAIN lex' = LexFields /\ lex'.at # "point"
  <2>1. lex' = [lex EXCEPT !.at = "comment", !.n = 1] => DOMAIN lex' = LexFields /\ lex'.at = "comment"
    BY <1>2 DEF LexFields
  <2> QED
    BY <1>2, <2>1, GoesTo DEF EndOperator
<1>5. EatNewLine => DOMAIN lex' = LexFields /\ lex'.at # "point"
  BY <1>2, GoesTo DEF EatNewLine
<1> QED
  BY <1>1, <1>3, <1>4, <1>5 DEF Lexes

(* Comments and strings.                                                   *)
LEMMA CommentMoves ==
    ASSUME LexInv, LineComment \/ Comment \/ CommentMark \/ ReadString PROVE Moves /\ Lexes
<1>1. Moves
  BY RunesMove DEF LineComment, Comment, CommentMark, ReadString
<1>2. DOMAIN lex = LexFields
  BY DEF LexInv
<1>3. LineComment \/ Comment \/ ReadString => DOMAIN lex' = LexFields /\ lex'.at # "point"
  BY <1>2, GoesTo DEF LineComment, Comment, ReadString
<1>4. CommentMark => DOMAIN lex' = LexFields /\ lex'.at # "point"
  <2>1. \A d : lex' = [lex EXCEPT !.at = "comment", !.n = d] => DOMAIN lex' = LexFields /\ lex'.at = "comment"
    BY <1>2 DEF LexFields
  <2> QED
    BY <1>2, <2>1, GoesTo DEF CommentMark
<1> QED
  BY <1>1, <1>3, <1>4 DEF Lexes

(* Escape sequences.                                                       *)
LEMMA EscapeMoves ==
    ASSUME LexInv, parse_escape_sequence PROVE Moves /\ Lexes
<1>1. Moves
  BY RunesMove DEF parse_escape_sequence
<1>2. DOMAIN lex = LexFields
  BY DEF LexInv
<1>3. lex' = [lex EXCEPT !.at = "escape_u", !.n = 4] => DOMAIN lex' = LexFields /\ lex'.at # "point"
  BY <1>2 DEF LexFields
<1>4. lex.at = "escape_u" /\ lex' = [lex EXCEPT !.n = @ - 1, !.at = IF lex.n = 1 THEN "string" ELSE @]
      => DOMAIN lex' = LexFields /\ lex'.at # "point"
  BY <1>2 DEF LexFields
<1>5. DOMAIN lex' = LexFields /\ lex'.at # "point"
  BY <1>2, <1>3, <1>4, GoesTo DEF parse_escape_sequence
<1> QED
  BY <1>1, <1>5 DEF Lexes

(* Numbers that begin with 0.                                              *)
LEMMA ZeroMoves ==
    ASSUME LexInv, ReadZero PROVE Moves /\ Lexes
<1>1. Moves
  BY RunesMove DEF ReadZero
<1>2. DOMAIN lex = LexFields
  BY DEF LexInv
<1>3. CASE Rune = "." /\ ReadRune /\ Point
  BY <1>1, <1>2, <1>3, GoesTo, RunesMove DEF Lexes, EOF
<1>4. CASE ~(Rune = "." /\ ReadRune /\ Point)
  <2>1. DOMAIN lex' = LexFields /\ lex'.at # "point"
    BY <1>2, <1>4, GoesTo DEF ReadZero
  <2> QED
    BY <1>1, <2>1 DEF Lexes
<1> QED
  BY <1>3, <1>4

(* Digits.                                                                 *)
LEMMA DigitsMove ==
    ASSUME LexInv, ReadDigits PROVE Moves /\ Lexes
<1>1. Moves
  BY RunesMove DEF ReadDigits
<1>2. DOMAIN lex = LexFields
  BY DEF LexInv
<1>3. \A op, tries : lex' = [lex EXCEPT !.at = "suffix", !.op = op, !.tries = tries]
                     => DOMAIN lex' = LexFields /\ lex'.at # "point"
  BY <1>2 DEF LexFields
<1>4. DOMAIN lex' = LexFields /\ lex'.at # "point"
  BY <1>2, <1>3, GoesTo DEF ReadDigits
<1> QED
  BY <1>1, <1>4 DEF Lexes

(* What follows the digits of a number.                                    *)
LEMMA SuffixMoves ==
    ASSUME LexInv, ReadSuffix PROVE Moves /\ Lexes
<1>1. Moves
  BY RunesMove DEF ReadSuffix
<1>2. DOMAIN lex = LexFields /\ lex.at = "suffix"
  BY DEF LexInv, ReadSuffix
<1>3. CASE Rune = "." /\ ReadRune /\ Point
  BY <1>1, <1>2, <1>3, GoesTo, RunesMove DEF Lexes, EOF
<1>4. CASE ~(Rune = "." /\ ReadRune /\ Point)
  <2>1. lex' = [lex EXCEPT !.tries = Tail(@)] => DOMAIN lex' = LexFields /\ lex'.at # "point"
    BY <1>2 DEF LexFields
  <2>2. DOMAIN lex' = LexFields /\ lex'.at # "point"
    BY <1>2, <1>4, <2>1, GoesTo DEF ReadSuffix
  <2> QED
    BY <1>1, <2>2 DEF Lexes
<1> QED
  BY <1>3, <1>4

(* The point of a number, behind which two runes may be pushed back.       *)
LEMMA PointMoves ==
    ASSUME LexInv, ReadPoint PROVE Moves /\ Lexes
<1>1. DOMAIN lex = LexFields /\ lex.at = "point"
  BY DEF LexInv, ReadPoint
<1>2. DOMAIN lex' = LexFields /\ lex'.at # "point"
  BY <1>1, GoesTo DEF ReadPoint
<1>3. CASE PeekRune
  BY <1>2, <1>3, RunesMove DEF Lexes
<1>4. CASE ~PeekRune
  <2> DEFINE w == IF runes = <<>> /\ Rune # EOF THEN <<pos>> ELSE runes
  <2>1. pos' = Advanced /\ Behind(w, lex.n)
    BY <1>4 DEF ReadPoint
  <2>2. CASE w = <<>>
    <3>1. runes = <<>> /\ Rune = EOF
      BY <2>2
    <3>2. runes' = <<lex.n>> /\ odd' = odd
      <4> HIDE DEF w
      <4>1. runes' = Append(w, lex.n) /\ odd' = odd
        BY <2>1, <2>2 DEF Behind
      <4> QED
        BY <2>2, <4>1
    <3> QED
      BY <1>1, <1>2, <2>1, <3>1, <3>2 DEF Lexes, Moves, ToPoint
  <2>3. CASE w # <<>>
    BY <1>2, <2>1, <2>3 DEF Lexes, Moves, Behind
  <2> QED
    BY <2>2, <2>3
<1> QED
  BY <1>3, <1>4

(* Exponents and words.                                                    *)
LEMMA ExponentMoves ==
    ASSUME LexInv, ReadExponent \/ ReadWord PROVE Moves /\ Lexes
<1>1. Moves
  BY RunesMove DEF ReadExponent, ReadWord
<1>2. DOMAIN lex = LexFields
  BY DEF LexInv
<1>3. lex.at = "word" /\ lex' = [lex EXCEPT !.word = Append(@, Rune)]
      => DOMAIN lex' = LexFields /\ lex'.at # "point"
  BY <1>2 DEF LexFields
<1>4. DOMAIN lex' = LexFields /\ lex'.at # "point"
  BY <1>2, <1>3, GoesTo DEF ReadExponent, ReadWord
<1> QED
  BY <1>1, <1>4 DEF Lexes

(* All steps of ReadToken().                                               *)
LEMMA TokenMoves ==
    ASSUME LexInv, ReadToken PROVE Moves /\ Lexes
  BY NextCharMoves, OperatorMoves, CommentMoves, EscapeMoves, ZeroMoves, DigitsMove, SuffixMoves,
     PointMoves, ExponentMoves DEF ReadToken

(* WHAT THE LEXER READS *)

(* The kinds of tokens with a name are neither errors nor the end of       *)
(* input.                                                                  *)
LEMMA KindsDiffer ==
    /\ LBRACE # "error" /\ RBRACE # "error" /\ COMMA # "error" /\ SEMICOLON # "error" /\ CLOSE_TAG # "error"
    /\ LBRACE # "end_of_input" /\ RBRACE # "end_of_input" /\ COMMA # "end_of_input"
    /\ SEMICOLON # "end_of_input" /\ CLOSE_TAG # "end_of_input"
  BY Zenon DEF LBRACE, RBRACE, COMMA, SEMICOLON, CLOSE_TAG

(* No operator that is tried is the mark of an error.                      *)
Sound == {"!", "!=", "!~", "%", "%=", "&", "&&", "&&=", "&=", "*", "*=", "+", "++", "+=",
          "-", "--", "-=", ".", "..", "...", "/", "/*", "//", "/=", "<", "<<", "<<=",
          "<=", "=", "==", "=>", "=~", ">", ">=", ">>", ">>=", "?", "?.", "^", "^=", "|",
          "|=", "||", "||=", "~", RBRACE, CLOSE_TAG}
Proper(tries) == tries \in Seq([{1, 2} -> Sound])

(* Every table of longer operators is one of pairs.                        *)
LEMMA TriesAreProper == \A op : Proper(Tries(op))
<1> DEFINE P == [{1, 2} -> Sound]
           T == Seq(P)
<1>1. \A x, y \in Sound : <<x, y>> \in P
  BY SMT
<1> HIDE DEF P
<1>2. /\ \A x \in P : <<x>> \in T
      /\ \A x, y \in P : <<x, y>> \in T
      /\ \A x, y, z \in P : <<x, y, z>> \in T
      /\ <<>> \in T
  <2>1. ASSUME NEW x \in P, NEW y \in P, NEW z \in P PROVE <<x, y, z>> \in Seq(P)
    OBVIOUS
  <2> QED
    BY <2>1
<1> HIDE DEF T
<1>5. ASSUME NEW op \in {"+", "-", "*"} PROVE Tries(op) \in T
  BY <1>1, <1>2 DEF Tries, Sound
<1>6. ASSUME NEW op \in {"%", "/", "&"} PROVE Tries(op) \in T
  BY <1>1, <1>2 DEF Tries, Sound
<1>7. ASSUME NEW op \in {"&&", "|", "||"} PROVE Tries(op) \in T
  BY <1>1, <1>2 DEF Tries, Sound
<1>8. ASSUME NEW op \in {"^", "<", "<<"} PROVE Tries(op) \in T
  BY <1>1, <1>2 DEF Tries, Sound
<1>9. ASSUME NEW op \in {">", ">>", "!"} PROVE Tries(op) \in T
  BY <1>1, <1>2 DEF Tries, Sound
<1>10. ASSUME NEW op \in {"=", ".", ".."} PROVE Tries(op) \in T
  BY <1>1, <1>2 DEF Tries, Sound
<1>11. ASSUME NEW op \in {"?"} PROVE Tries(op) \in T
  BY <1>1, <1>2 DEF Tries, Sound
<1>12. ASSUME NEW op, op \notin {"+", "-", "*", "%", "/", "&", "&&", "|", "||", "^", "<", "<<", ">", ">>", "!", "=", ".", "..", "?"} PROVE Tries(op) = <<>>
  BY <1>12 DEF Tries
<1>13. \A op : Tries(op) \in T
  BY <1>2, <1>5, <1>6, <1>7, <1>8, <1>9, <1>10, <1>11, <1>12
<1> QED
  BY <1>13 DEF Proper, T, P

(* An operator is no error, either.                                        *)
OperatorInv == lex.at = "operator" => lex.op # "error" /\ Proper(lex.tries)

(* A token is read, or an error is, with a message, or none yet.           *)
NoToken == UNCHANGED <<tokens, message>>
NewToken(k) == lex' = Idle /\ tokens' = Append(tokens, k) /\ (message' <=> message \/ k = "error")
TokenRead == OperatorInv' /\ (NoToken \/ \E k : NewToken(k))

(* A token that is complete is appended, and an error leaves a message.    *)
LEMMA Yields ==
    /\ \A k : k # "error" /\ Yield(k) => TokenRead
    /\ LexError => TokenRead
    /\ \A at : at # "operator" /\ DOMAIN lex = LexFields /\ Goto(at) => TokenRead
    /\ lex.at # "operator" /\ UNCHANGED <<tokens, lex, message>> => TokenRead
<1>1. Idle.at # "operator"
  BY DEF Idle
<1>2. ASSUME NEW k, k # "error", Yield(k) PROVE TokenRead
  BY <1>1, <1>2 DEF Yield, TokenRead, NewToken, OperatorInv
<1>3. ASSUME LexError PROVE TokenRead
  BY <1>1, <1>3 DEF LexError, TokenRead, NewToken, OperatorInv
<1>4. ASSUME NEW at, at # "operator", DOMAIN lex = LexFields, Goto(at) PROVE TokenRead
  <2>1. lex'.at = at
    BY <1>4, GoesTo
  <2> QED
    BY <1>4, <2>1 DEF Goto, TokenRead, NoToken, OperatorInv
<1>5. ASSUME lex.at # "operator", UNCHANGED <<tokens, lex, message>> PROVE TokenRead
  BY <1>5 DEF TokenRead, NoToken, OperatorInv
<1> QED
  BY <1>2, <1>3, <1>4, <1>5

(* Trying a longer operator.                                               *)
LEMMA TriesRead ==
    ASSUME DOMAIN lex = LexFields, NEW op, op # "error", Try(op)
    PROVE  TokenRead
<1>1. lex'.op = op /\ lex'.tries = Tries(op)
  BY DEF Try, LexFields
<1>2. Proper(lex'.tries)
  BY <1>1, TriesAreProper
<1> QED
  BY <1>1, <1>2 DEF TokenRead, NoToken, OperatorInv, Try

(* Entering another state of ReadToken() appends nothing.                  *)
LEMMA ChangesRead ==
    ASSUME lex'.at # "operator", UNCHANGED <<tokens, message>>
    PROVE  TokenRead
  BY DEF TokenRead, NoToken, OperatorInv

(* What the steps of ReadToken() append, one kind after the other.         *)
LEMMA NextCharReads ==
    ASSUME LexInv, OperatorInv, NextChar PROVE TokenRead
<1>1. DOMAIN lex = LexFields /\ lex.at = "next"
  BY DEF LexInv, NextChar
<1>2. lex' = [lex EXCEPT !.at = "string", !.op = Rune] \/ lex' = [lex EXCEPT !.at = "word", !.word = <<Rune>>]
      => lex'.at # "operator"
  BY <1>1 DEF LexFields
<1>3. Rune \in Operator => Rune # "error"
  BY DEF Operator
<1>4. Rune \in {"(", ")", "[", "]", LBRACE, RBRACE, ":", SEMICOLON, COMMA, "~"} => Rune # "error"
  BY KindsDiffer
<1> QED
  BY <1>1, <1>2, <1>3, <1>4, Yields, TriesRead, ChangesRead DEF NextChar

(* Operators.                                                              *)
LEMMA OperatorReads ==
    ASSUME LexInv, OperatorInv, ReadOperator \/ EndOperator \/ EatNewLine PROVE TokenRead
<1>1. DOMAIN lex = LexFields
  BY DEF LexInv
<1>2. CASE ReadOperator
  <2>1. lex.tries # <<>> /\ lex.at = "operator" /\ lex.op # "error"
    BY <1>2 DEF ReadOperator, OperatorInv
  <2>2. /\ lex.tries \in Seq([{1, 2} -> Sound])
    BY <2>1 DEF OperatorInv, Proper
  <2>3. Head(lex.tries) \in [{1, 2} -> Sound] /\ Tail(lex.tries) \in Seq([{1, 2} -> Sound])
    BY <2>1, <2>2
  <2>4. Head(lex.tries)[2] # "error"
    BY <2>3, KindsDiffer DEF Sound
  <2>5. ASSUME lex' = [lex EXCEPT !.tries = Tail(@)], UNCHANGED <<tokens, message>> PROVE TokenRead
    <3>1. lex'.tries = Tail(lex.tries) /\ lex'.op = lex.op
      BY <1>1, <2>5 DEF LexFields
    <3> QED
      BY <2>1, <2>3, <2>5, <3>1 DEF TokenRead, NoToken, OperatorInv, Proper
  <2> QED
    BY <1>1, <1>2, <2>4, <2>5, TriesRead DEF ReadOperator
<1>3. CASE EndOperator
  <2>1. lex' = [lex EXCEPT !.at = "comment", !.n = 1] => lex'.at # "operator"
    BY <1>1 DEF LexFields
  <2>2. lex.op # "error"
    BY <1>3 DEF EndOperator, OperatorInv
  <2> QED
    BY <1>1, <1>3, <2>1, <2>2, Yields, ChangesRead DEF EndOperator
<1>4. CASE EatNewLine
  BY <1>1, <1>4, Yields, KindsDiffer DEF EatNewLine
<1> QED
  BY <1>2, <1>3, <1>4

(* Comments and strings.                                                   *)
LEMMA CommentReads ==
    ASSUME LexInv, OperatorInv, LineComment \/ Comment \/ CommentMark \/ ReadString PROVE TokenRead
<1>1. DOMAIN lex = LexFields
  BY DEF LexInv
<1>2. CASE LineComment \/ Comment \/ ReadString
  BY <1>1, <1>2, Yields DEF LineComment, Comment, ReadString
<1>3. CASE CommentMark
  <2>1. \A d : lex' = [lex EXCEPT !.at = "comment", !.n = d] => lex'.at # "operator"
    BY <1>1 DEF LexFields
  <2>2. lex'.at # "operator" /\ UNCHANGED <<tokens, message>>
    BY <1>1, <1>3, <2>1, GoesTo DEF CommentMark
  <2> QED
    BY <2>2, ChangesRead
<1> QED
  BY <1>2, <1>3

(* Escape sequences.                                                       *)
LEMMA EscapeReads ==
    ASSUME LexInv, OperatorInv, parse_escape_sequence PROVE TokenRead
<1>1. DOMAIN lex = LexFields
  BY DEF LexInv
<1>2. lex' = [lex EXCEPT !.at = "escape_u", !.n = 4] => lex'.at # "operator"
  BY <1>1 DEF LexFields
<1>3. lex.at = "escape_u" /\ lex' = [lex EXCEPT !.n = @ - 1, !.at = IF lex.n = 1 THEN "string" ELSE @]
      => lex'.at # "operator"
  BY <1>1 DEF LexFields
<1> QED
  BY <1>1, <1>2, <1>3, Yields, ChangesRead DEF parse_escape_sequence

(* Numbers.                                                                *)
LEMMA NumberReads ==
    ASSUME LexInv, OperatorInv, ReadZero \/ ReadDigits \/ ReadSuffix \/ ReadPoint \/ ReadExponent
    PROVE  TokenRead
<1>1. DOMAIN lex = LexFields
  BY DEF LexInv
<1>2. Point => lex'.at # "operator" /\ UNCHANGED <<tokens, message>>
  BY <1>1 DEF Point, LexFields
<1>3. CASE ReadZero
  BY <1>1, <1>2, <1>3, Yields, ChangesRead DEF ReadZero
<1>4. CASE ReadDigits
  <2>1. \A op, tries : lex' = [lex EXCEPT !.at = "suffix", !.op = op, !.tries = tries]
                       => lex'.at # "operator"
    BY <1>1 DEF LexFields
  <2>2. lex.at # "operator"
    BY <1>4 DEF ReadDigits
  <2> QED
    BY <1>1, <1>4, <2>1, <2>2, Yields, ChangesRead DEF ReadDigits
<1>5. CASE ReadSuffix
  <2>1. lex.at = "suffix" /\ lex' = [lex EXCEPT !.tries = Tail(@)] => lex'.at # "operator"
    BY <1>1 DEF LexFields
  <2> QED
    BY <1>1, <1>2, <1>5, <2>1, Yields, ChangesRead DEF ReadSuffix
<1>6. CASE ReadPoint
  BY <1>1, <1>6, Yields DEF ReadPoint
<1>7. CASE ReadExponent
  BY <1>1, <1>7, Yields DEF ReadExponent
<1> QED
  BY <1>3, <1>4, <1>5, <1>6, <1>7

(* Words.                                                                  *)
LEMMA WordReads ==
    ASSUME LexInv, OperatorInv, ReadWord PROVE TokenRead
<1>1. DOMAIN lex = LexFields /\ lex.at = "word"
  BY DEF LexInv, ReadWord
<1>2. lex' = [lex EXCEPT !.word = Append(@, Rune)] => lex'.at # "operator"
  BY <1>1 DEF LexFields
<1>3. lex.word \in {<<k>> : k \in Keyword} => lex.word[1] # "error"
  <2>1. ASSUME NEW k \in Keyword, lex.word = <<k>> PROVE lex.word[1] # "error"
    BY <2>1 DEF Keyword
  <2> QED
    BY <2>1
<1> QED
  BY <1>1, <1>2, <1>3, Yields, ChangesRead DEF ReadWord

(* All steps of ReadToken().                                               *)
LEMMA TokenReads ==
    ASSUME LexInv, OperatorInv, ReadToken PROVE TokenRead
  BY NextCharReads, OperatorReads, CommentReads, EscapeReads, NumberReads, WordReads DEF ReadToken

(* WHAT IS LEFT TO DO *)

RuleNames == {"multiplicative", "additive", "shift", "bit_and", "bit_xor", "bit_or", "relational",
              "equality", "logical_and", "logical_or"}

Plain == {"block", "stmt", "value", "if", "if_else", "else_if", "while", "for", "for_else", "catch",
          "catch_type", "catch_variable", "try", "typehint", "more_typehints", "parameters",
          "parameter", "name", "type", "default", "function", "body", "block_body", "arrow",
          "primary", "selection", "selected", "postfix", "postfix_operator", "unary", "range",
          "range_operator", "ternary", "ternary_operator", "expr", "assignment"}
Others == {"statements", "template", "script", "clauses", "finally", "first", "row", "next",
           "operators", "close_tag"}
Tokened == {"expect", "optional"}

Kinds == Plain \cup RuleNames \cup Others \cup Tokened \cup Instant

(* A function, or what is left of one, with the arguments it can have.     *)
Lists == {"list", "map", "call"}
IsItem(i) ==
    /\ i[1] \in Kinds \ {"statement"}
    /\ i[1] \in {"first", "row"} => i[2] \in Lists /\ i[3] \in Nat
    /\ i[1] = "operators" => i[2] \in RuleNames
    /\ i[1] \in {"statements", "template", "script"} => "error" \notin i[2]
    /\ i[1] = "fail" => i[2] = TRUE

(* What is read rune by rune: text, which begins behind a token that is    *)
(* used, and the closing of an expression in it.                           *)
IsEntry(i) == i = ReadText \/ i = <<"close", TRUE, RBRACE>>
IsHead(i)  == i[1] \in RuneKind
Reader(i)  == i[1] = "read" => i[2] \in {"text", "comment"}

(* Behind the mark of a statement stands what its semicolon is read by.    *)
Fits(s, j) == \/ IsItem(s[j])
              \/ s[j] # FailQuietly /\ s[j][1] = "statement" /\ j < Len(s) /\ s[j + 1][1] = "expect"

IsSeq(s) == \E S : s \in Seq(S)
ItemsFrom(n, s) == IsSeq(s) /\ \A j \in n .. Len(s) : Fits(s, j)
AllItems(s) == ItemsFrom(1, s)

(* A token is used at the head only; runes are read there, or once that    *)
(* token has been used; a failure without a message is the next to be      *)
(* returned or follows such a token.                                       *)
HeadFits(s)   == Fits(s, 1) \/ (IsHead(s[1]) /\ Reader(s[1])) \/ s[1] = Skip \/ s[1] = FailQuietly
SecondFits(s) == \/ Fits(s, 2)
                 \/ (s[1] = Skip /\ IsEntry(s[2]))
                 \/ (s[1][1] \in {"skip", "expect"} /\ s[2] = FailQuietly)
Stacked(s) ==
    /\ ItemsFrom(3, s)
    /\ (Len(s) >= 1 => HeadFits(s))
    /\ (Len(s) >= 2 => SecondFits(s))

(* The rules of left associative operators.                                *)
LEMMA RuleIs == DOMAIN Rule = RuleNames
  BY DEF Rule, RuleNames

(* Grammar by kinds of productions.                                        *)
LEMMA GrammarIs ==
    ASSUME NEW i, NEW t
    PROVE  /\ i[1] = "block" => Grammar(i, t) = parse_block(t)
           /\ i[1] = "statements" => Grammar(i, t) = statements(i[2], t)
           /\ i[1] = "template" => Grammar(i, t) = template(i[2], t)
           /\ i[1] = "script" => Grammar(i, t) = parse_script_block(i[2], t)
           /\ i[1] = "stmt" => Grammar(i, t) = parse_stmt(t)
           /\ i[1] = "value" => Grammar(i, t) = optional_value(t)
           /\ i[1] = "if" => Grammar(i, t) = parse_if
           /\ i[1] = "if_else" => Grammar(i, t) = if_else(t)
           /\ i[1] = "else_if" => Grammar(i, t) = else_if(t)
           /\ i[1] = "while" => Grammar(i, t) = parse_while
           /\ i[1] = "for" => Grammar(i, t) = parse_for
           /\ i[1] = "for_else" => Grammar(i, t) = for_else(t)
           /\ i[1] = "catch" => Grammar(i, t) = parse_catch
           /\ i[1] = "catch_type" => Grammar(i, t) = catch_type(t)
           /\ i[1] = "catch_variable" => Grammar(i, t) = catch_variable(t)
           /\ i[1] = "try" => Grammar(i, t) = parse_try
           /\ i[1] = "clauses" => Grammar(i, t) = clauses(i[2], t)
           /\ i[1] = "finally" => Grammar(i, t) = try_finally(i[2], t)
           /\ i[1] = "first" => Grammar(i, t) = first(i[2], i[3], t)
           /\ i[1] = "row" => Grammar(i, t) = row(i[2], i[3], t)
           /\ i[1] = "typehint" => Grammar(i, t) = parse_typehint
           /\ i[1] = "more_typehints" => Grammar(i, t) = more_typehints(t)
           /\ i[1] = "parameters" => Grammar(i, t) = parameters(t)
           /\ i[1] = "parameter" => Grammar(i, t) = parameter(t)
           /\ i[1] = "name" => Grammar(i, t) = name(t)
           /\ i[1] = "type" => Grammar(i, t) = type(t)
           /\ i[1] = "default" => Grammar(i, t) = default(t)
           /\ i[1] = "next" => Grammar(i, t) = next_parameter(i[2], t)
           /\ i[1] = "function" => Grammar(i, t) = parse_function(t)
           /\ i[1] = "body" => Grammar(i, t) = body(t)
           /\ i[1] = "block_body" => Grammar(i, t) = block_body(t)
           /\ i[1] = "arrow" => Grammar(i, t) = arrow(t)
           /\ i[1] = "primary" => Grammar(i, t) = parse_primary(t)
           /\ i[1] = "selection" => Grammar(i, t) = parse_selection(t)
           /\ i[1] = "selected" => Grammar(i, t) = selected(t)
           /\ i[1] = "postfix" => Grammar(i, t) = parse_postfix
           /\ i[1] = "postfix_operator" => Grammar(i, t) = postfix_operator(t)
           /\ i[1] = "unary" => Grammar(i, t) = parse_unary(t)
           /\ i[1] \in RuleNames => Grammar(i, t) = << <<Rule[i[1]].operand>>, <<"operators", i[1]>> >>
           /\ i[1] = "operators" => Grammar(i, t) = operators(i[2], t)
           /\ i[1] = "range" => Grammar(i, t) = parse_range
           /\ i[1] = "range_operator" => Grammar(i, t) = range_operator(t)
           /\ i[1] = "ternary" => Grammar(i, t) = parse_ternary
           /\ i[1] = "ternary_operator" => Grammar(i, t) = ternary_operator(t)
           /\ i[1] = "expr" => Grammar(i, t) = parse_expr
           /\ i[1] = "assignment" => Grammar(i, t) = assignment(t)
           /\ i[1] = "close_tag" => Grammar(i, t) = close_tag(i[2], t)
<1>1. DOMAIN Rule = RuleNames
  BY RuleIs
<1> QED
  BY <1>1 DEF Grammar, RuleNames

(* Sequences, whatever their elements are.                                 *)
LEMMA SequencesAre ==
    /\ IsSeq(<<>>) /\ Len(<<>>) = 0
    /\ \A a : IsSeq(<<a>>) /\ Len(<<a>>) = 1 /\ <<a>>[1] = a
    /\ \A s : IsSeq(s) => /\ Len(s) \in Nat
                          /\ s # <<>> => /\ IsSeq(Tail(s)) /\ Len(Tail(s)) = Len(s) - 1 /\ Len(s) >= 1
                                         /\ Head(s) = s[1]
                                         /\ \A j \in 1 .. Len(s) - 1 : Tail(s)[j] = s[j + 1]
<1>1. IsSeq(<<>>)
  BY DEF IsSeq
<1>2. ASSUME NEW a PROVE IsSeq(<<a>>)
  <2>1. <<a>> \in Seq({a})
    OBVIOUS
  <2> QED
    BY <2>1 DEF IsSeq
<1>3. ASSUME NEW s, IsSeq(s) PROVE Len(s) \in Nat
  BY <1>3 DEF IsSeq
<1>4. ASSUME NEW s, IsSeq(s), s # <<>>
      PROVE  /\ IsSeq(Tail(s)) /\ Len(Tail(s)) = Len(s) - 1 /\ Len(s) >= 1
             /\ Head(s) = s[1]
             /\ \A j \in 1 .. Len(s) - 1 : Tail(s)[j] = s[j + 1]
  <2>1. PICK S : s \in Seq(S)
    BY <1>4 DEF IsSeq
  <2>2. /\ Tail(s) \in Seq(S) /\ Len(Tail(s)) = Len(s) - 1 /\ Len(s) >= 1
        /\ Head(s) = s[1] /\ \A j \in 1 .. Len(s) - 1 : Tail(s)[j] = s[j + 1]
    BY <1>4, <2>1
  <2> QED
    BY <2>2 DEF IsSeq
<1> QED
  BY <1>1, <1>2, <1>3, <1>4

(* The elements of a concatenation.                                        *)
LEMMA Joined ==
    ASSUME NEW g, NEW r, IsSeq(g), IsSeq(r)
    PROVE  /\ IsSeq(g \o r) /\ Len(g \o r) = Len(g) + Len(r)
           /\ \A j \in 1 .. Len(g) : (g \o r)[j] = g[j]
           /\ \A j \in Len(g) + 1 .. Len(g) + Len(r) : (g \o r)[j] = r[j - Len(g)]
           /\ \A j \in 1 .. Len(r) : (g \o r)[j + Len(g)] = r[j]
<1>1. PICK S : g \in Seq(S)
  BY DEF IsSeq
<1>2. PICK T : r \in Seq(T)
  BY DEF IsSeq
<1> DEFINE U == S \cup T
<1>3. g \in Seq(U) /\ r \in Seq(U)
  BY <1>1, <1>2
<1> HIDE DEF U
<1>4. /\ g \o r \in Seq(U) /\ Len(g \o r) = Len(g) + Len(r)
      /\ \A j \in 1 .. Len(g) + Len(r) : (g \o r)[j] = IF j <= Len(g) THEN g[j] ELSE r[j - Len(g)]
  BY <1>3, ConcatProperties
<1>5. Len(g) \in Nat /\ Len(r) \in Nat
  BY <1>3
<1>6. IsSeq(g \o r)
  BY <1>4 DEF IsSeq
<1>7. ASSUME NEW j \in 1 .. Len(r) PROVE (g \o r)[j + Len(g)] = r[j]
  <2>1. j + Len(g) \in 1 .. Len(g) + Len(r) /\ ~(j + Len(g) <= Len(g)) /\ j + Len(g) - Len(g) = j
    BY <1>5
  <2> QED
    BY <1>4, <2>1
<1> QED
  BY <1>4, <1>5, <1>6, <1>7

(* Short literal sequences of items.                                       *)
LEMMA ItemsAre ==
    /\ \A k \in Plain \cup RuleNames : IsItem(<<k>>)
    /\ \A k : IsItem(Expect(k)) /\ IsItem(Optional(k))
    /\ IsItem(Drop) /\ IsItem(Fail) /\ IsItem(<<"number">>)
    /\ IsItem(Unchecked)
    /\ \A op, n : IsItem(Make(op, n))
    /\ \A n : IsItem(Variable(n))
    /\ \A stop : "error" \notin stop => /\ IsItem(<<"statements", stop>>) /\ IsItem(<<"template", stop>>)
                                       /\ IsItem(<<"script", stop>>)
    /\ \A b : IsItem(<<"clauses", b>>) /\ IsItem(<<"finally", b>>) /\ IsItem(<<"next", b>>)
    /\ \A kind \in Lists, n \in Nat : IsItem(<<"first", kind, n>>) /\ IsItem(<<"row", kind, n>>)
    /\ \A r \in RuleNames : IsItem(<<"operators", r>>)
    /\ \A m : IsItem(<<"close_tag", m>>)
<1> DEFINE Args == {"first", "row", "operators", "statements", "template", "script", "fail"}
<1>1. ASSUME NEW i, i[1] \in Kinds \ {"statement"}, i[1] \notin Args PROVE IsItem(i)
  BY <1>1 DEF IsItem
<1>2. /\ \A k \in Plain \cup RuleNames : k \in Kinds \ {"statement"} /\ k \notin Args
      /\ \A k \in (Tokened \cup Instant \cup {"clauses", "finally", "next", "close_tag"}) \ {"fail", "statement"} : k \in Kinds \ {"statement"} /\ k \notin Args
      /\ \A k \in Args : k \in Kinds \ {"statement"}
  BY DEF Kinds, Plain, RuleNames, Tokened, Instant, Others
<1>3. \A k \in Plain \cup RuleNames : IsItem(<<k>>)
  BY <1>1, <1>2
<1>4. /\ \A k : IsItem(Expect(k)) /\ IsItem(Optional(k))
      /\ IsItem(Drop) /\ IsItem(<<"number">>)
      /\ IsItem(Unchecked)
      /\ \A op, n : IsItem(Make(op, n))
      /\ \A n : IsItem(Variable(n))
  <2>1. \A k \in {"expect", "optional", "drop", "number", "unchecked", "make", "variable"} :
           k \in Kinds \ {"statement"} /\ k \notin Args
    BY <1>2 DEF Tokened, Instant
  <2> HIDE DEF Args
  <2> QED
    BY <1>1, <2>1 DEF Expect, Optional, Drop, Unchecked, Make, Variable
<1>5. \A b : /\ IsItem(<<"clauses", b>>) /\ IsItem(<<"finally", b>>) /\ IsItem(<<"next", b>>)
             /\ IsItem(<<"close_tag", b>>)
  BY <1>1, <1>2
<1>6. \A stop : "error" \notin stop => /\ IsItem(<<"statements", stop>>) /\ IsItem(<<"template", stop>>)
                                       /\ IsItem(<<"script", stop>>)
  BY <1>2 DEF IsItem
<1>7. \A kind \in Lists, n \in Nat : IsItem(<<"first", kind, n>>) /\ IsItem(<<"row", kind, n>>)
  BY <1>2 DEF IsItem
<1>8. \A r \in RuleNames : IsItem(<<"operators", r>>)
  BY <1>2 DEF IsItem
<1>9. IsItem(Fail)
  BY <1>2 DEF IsItem, Fail
<1> QED
  BY <1>9, <1>3, <1>4, <1>5, <1>6, <1>7, <1>8

(* Sequences of items.                                                     *)
LEMMA AllFromSecond ==
    /\ AllItems(<<>>) /\ Stacked(<<>>)
    /\ \A s : ItemsFrom(2, s) /\ s # <<>> => (IsItem(s[1]) => AllItems(s))
<1>1. AllItems(<<>>) /\ Stacked(<<>>)
  BY SequencesAre DEF AllItems, ItemsFrom, Stacked
<1>2. ASSUME NEW s, ItemsFrom(2, s), s # <<>> PROVE IsItem(s[1]) => AllItems(s)
  BY <1>2, SequencesAre DEF AllItems, ItemsFrom, Fits
<1> QED
  BY <1>1, <1>2

(* Pairs that are items.                                                   *)
LEMMA Tuples ==
    /\ \A a : TRUE
          => ItemsFrom(2, <<a>>) /\ <<a>> # <<>> /\ <<a>>[1] = a
    /\ \A a, b : IsItem(b)
          => ItemsFrom(2, <<a, b>>) /\ <<a, b>> # <<>> /\ <<a, b>>[1] = a
    /\ \A a, b, d : IsItem(b) /\ IsItem(d)
          => ItemsFrom(2, <<a, b, d>>) /\ <<a, b, d>> # <<>> /\ <<a, b, d>>[1] = a
    /\ \A a, b, d, e : IsItem(b) /\ IsItem(d) /\ IsItem(e)
          => ItemsFrom(2, <<a, b, d, e>>) /\ <<a, b, d, e>> # <<>> /\ <<a, b, d, e>>[1] = a
    /\ \A a, b, d, e, f : IsItem(b) /\ IsItem(d) /\ IsItem(e) /\ IsItem(f)
          => ItemsFrom(2, <<a, b, d, e, f>>) /\ <<a, b, d, e, f>> # <<>> /\ <<a, b, d, e, f>>[1] = a
    /\ \A a, b, d, e, f, g : IsItem(b) /\ IsItem(d) /\ IsItem(e) /\ IsItem(f) /\ IsItem(g)
          => ItemsFrom(2, <<a, b, d, e, f, g>>) /\ <<a, b, d, e, f, g>> # <<>> /\ <<a, b, d, e, f, g>>[1] = a
    /\ \A a, b, d, e, f, g, h, i : IsItem(b) /\ IsItem(d) /\ IsItem(e) /\ IsItem(f) /\ IsItem(g) /\ IsItem(h) /\ IsItem(i)
          => ItemsFrom(2, <<a, b, d, e, f, g, h, i>>) /\ <<a, b, d, e, f, g, h, i>> # <<>> /\ <<a, b, d, e, f, g, h, i>>[1] = a
    /\ \A a, b, d, e, f, g, h, i, j, k : IsItem(b) /\ IsItem(d) /\ IsItem(e) /\ IsItem(f) /\ IsItem(g) /\ IsItem(h) /\ IsItem(i) /\ IsItem(j) /\ IsItem(k)
          => ItemsFrom(2, <<a, b, d, e, f, g, h, i, j, k>>) /\ <<a, b, d, e, f, g, h, i, j, k>> # <<>> /\ <<a, b, d, e, f, g, h, i, j, k>>[1] = a
<1>1. ASSUME NEW a PROVE ItemsFrom(2, <<a>>) /\ <<a>> # <<>> /\ <<a>>[1] = a
  <2> DEFINE s == <<a>>
  <2>1. s \in Seq({a}) /\ Len(s) = 1 /\ s # <<>> /\ s[1] = a
    OBVIOUS
  <2> HIDE DEF s
  <2>3. 2 .. Len(s) = {}
    BY <2>1
  <2>4. ItemsFrom(2, s)
    BY <2>1, <2>3 DEF ItemsFrom, IsSeq, Fits
  <2> QED
    BY <2>1, <2>4 DEF s
<1>2. ASSUME NEW a, NEW b, IsItem(b) PROVE ItemsFrom(2, <<a, b>>) /\ <<a, b>> # <<>> /\ <<a, b>>[1] = a
  <2> DEFINE s == <<a, b>>
  <2>1. s \in Seq({a, b}) /\ Len(s) = 2 /\ s # <<>> /\ s[1] = a
    OBVIOUS
  <2>2. s[1] = a /\ s[2] = b
    OBVIOUS
  <2> HIDE DEF s
  <2>3. ASSUME NEW m \in 2 .. Len(s) PROVE IsItem(s[m])
    <3>1. m = 2
      BY <2>1
    <3> QED
      BY <1>2, <2>2, <3>1
  <2>4. ItemsFrom(2, s)
    BY <2>1, <2>3 DEF ItemsFrom, IsSeq, Fits
  <2> QED
    BY <2>1, <2>4 DEF s
<1>3. ASSUME NEW a, NEW b, NEW d, IsItem(b), IsItem(d) PROVE ItemsFrom(2, <<a, b, d>>) /\ <<a, b, d>> # <<>> /\ <<a, b, d>>[1] = a
  <2> DEFINE s == <<a, b, d>>
  <2>1. s \in Seq({a, b, d}) /\ Len(s) = 3 /\ s # <<>> /\ s[1] = a
    OBVIOUS
  <2>2. s[1] = a /\ s[2] = b /\ s[3] = d
    OBVIOUS
  <2> HIDE DEF s
  <2>3. ASSUME NEW m \in 2 .. Len(s) PROVE IsItem(s[m])
    <3>1. m = 2 \/ m = 3
      BY <2>1
    <3> QED
      BY <1>3, <2>2, <3>1
  <2>4. ItemsFrom(2, s)
    BY <2>1, <2>3 DEF ItemsFrom, IsSeq, Fits
  <2> QED
    BY <2>1, <2>4 DEF s
<1>4. ASSUME NEW a, NEW b, NEW d, NEW e, IsItem(b), IsItem(d), IsItem(e) PROVE ItemsFrom(2, <<a, b, d, e>>) /\ <<a, b, d, e>> # <<>> /\ <<a, b, d, e>>[1] = a
  <2> DEFINE s == <<a, b, d, e>>
  <2>1. s \in Seq({a, b, d, e}) /\ Len(s) = 4 /\ s # <<>> /\ s[1] = a
    OBVIOUS
  <2>2. s[1] = a /\ s[2] = b /\ s[3] = d /\ s[4] = e
    OBVIOUS
  <2> HIDE DEF s
  <2>3. ASSUME NEW m \in 2 .. Len(s) PROVE IsItem(s[m])
    <3>1. m = 2 \/ m = 3 \/ m = 4
      BY <2>1
    <3> QED
      BY <1>4, <2>2, <3>1
  <2>4. ItemsFrom(2, s)
    BY <2>1, <2>3 DEF ItemsFrom, IsSeq, Fits
  <2> QED
    BY <2>1, <2>4 DEF s
<1>5. ASSUME NEW a, NEW b, NEW d, NEW e, NEW f, IsItem(b), IsItem(d), IsItem(e), IsItem(f) PROVE ItemsFrom(2, <<a, b, d, e, f>>) /\ <<a, b, d, e, f>> # <<>> /\ <<a, b, d, e, f>>[1] = a
  <2> DEFINE s == <<a, b, d, e, f>>
  <2>1. s \in Seq({a, b, d, e, f}) /\ Len(s) = 5 /\ s # <<>> /\ s[1] = a
    OBVIOUS
  <2>2. s[1] = a /\ s[2] = b /\ s[3] = d /\ s[4] = e /\ s[5] = f
    OBVIOUS
  <2> HIDE DEF s
  <2>3. ASSUME NEW m \in 2 .. Len(s) PROVE IsItem(s[m])
    <3>1. m = 2 \/ m = 3 \/ m = 4 \/ m = 5
      BY <2>1
    <3> QED
      BY <1>5, <2>2, <3>1
  <2>4. ItemsFrom(2, s)
    BY <2>1, <2>3 DEF ItemsFrom, IsSeq, Fits
  <2> QED
    BY <2>1, <2>4 DEF s
<1>6. ASSUME NEW a, NEW b, NEW d, NEW e, NEW f, NEW g, IsItem(b), IsItem(d), IsItem(e), IsItem(f), IsItem(g) PROVE ItemsFrom(2, <<a, b, d, e, f, g>>) /\ <<a, b, d, e, f, g>> # <<>> /\ <<a, b, d, e, f, g>>[1] = a
  <2> DEFINE s == <<a, b, d, e, f, g>>
  <2>1. s \in Seq({a, b, d, e, f, g}) /\ Len(s) = 6 /\ s # <<>> /\ s[1] = a
    OBVIOUS
  <2>2. s[1] = a /\ s[2] = b /\ s[3] = d /\ s[4] = e /\ s[5] = f /\ s[6] = g
    OBVIOUS
  <2> HIDE DEF s
  <2>3. ASSUME NEW m \in 2 .. Len(s) PROVE IsItem(s[m])
    <3>1. m = 2 \/ m = 3 \/ m = 4 \/ m = 5 \/ m = 6
      BY <2>1
    <3> QED
      BY <1>6, <2>2, <3>1
  <2>4. ItemsFrom(2, s)
    BY <2>1, <2>3 DEF ItemsFrom, IsSeq, Fits
  <2> QED
    BY <2>1, <2>4 DEF s
<1>8. ASSUME NEW a, NEW b, NEW d, NEW e, NEW f, NEW g, NEW h, NEW i, IsItem(b), IsItem(d), IsItem(e), IsItem(f), IsItem(g), IsItem(h), IsItem(i) PROVE ItemsFrom(2, <<a, b, d, e, f, g, h, i>>) /\ <<a, b, d, e, f, g, h, i>> # <<>> /\ <<a, b, d, e, f, g, h, i>>[1] = a
  <2> DEFINE s == <<a, b, d, e, f, g, h, i>>
  <2>1. s \in Seq({a, b, d, e, f, g, h, i}) /\ Len(s) = 8 /\ s # <<>> /\ s[1] = a
    OBVIOUS
  <2>2. s[1] = a /\ s[2] = b /\ s[3] = d /\ s[4] = e /\ s[5] = f /\ s[6] = g /\ s[7] = h /\ s[8] = i
    OBVIOUS
  <2> HIDE DEF s
  <2>3. ASSUME NEW m \in 2 .. Len(s) PROVE IsItem(s[m])
    <3>1. m = 2 \/ m = 3 \/ m = 4 \/ m = 5 \/ m = 6 \/ m = 7 \/ m = 8
      BY <2>1
    <3> QED
      BY <1>8, <2>2, <3>1
  <2>4. ItemsFrom(2, s)
    BY <2>1, <2>3 DEF ItemsFrom, IsSeq, Fits
  <2> QED
    BY <2>1, <2>4 DEF s
<1>10. ASSUME NEW a, NEW b, NEW d, NEW e, NEW f, NEW g, NEW h, NEW i, NEW j, NEW k, IsItem(b), IsItem(d), IsItem(e), IsItem(f), IsItem(g), IsItem(h), IsItem(i), IsItem(j), IsItem(k) PROVE ItemsFrom(2, <<a, b, d, e, f, g, h, i, j, k>>) /\ <<a, b, d, e, f, g, h, i, j, k>> # <<>> /\ <<a, b, d, e, f, g, h, i, j, k>>[1] = a
  <2> DEFINE s == <<a, b, d, e, f, g, h, i, j, k>>
  <2>1. s \in Seq({a, b, d, e, f, g, h, i, j, k}) /\ Len(s) = 10 /\ s # <<>> /\ s[1] = a
    OBVIOUS
  <2>2. s[1] = a /\ s[2] = b /\ s[3] = d /\ s[4] = e /\ s[5] = f /\ s[6] = g /\ s[7] = h /\ s[8] = i /\ s[9] = j /\ s[10] = k
    OBVIOUS
  <2> HIDE DEF s
  <2>3. ASSUME NEW m \in 2 .. Len(s) PROVE IsItem(s[m])
    <3>1. m = 2 \/ m = 3 \/ m = 4 \/ m = 5 \/ m = 6 \/ m = 7 \/ m = 8 \/ m = 9 \/ m = 10
      BY <2>1
    <3> QED
      BY <1>10, <2>2, <3>1
  <2>4. ItemsFrom(2, s)
    BY <2>1, <2>3 DEF ItemsFrom, IsSeq, Fits
  <2> QED
    BY <2>1, <2>4 DEF s
<1> QED
  BY <1>1, <1>2, <1>3, <1>4, <1>5, <1>6, <1>8, <1>10

(* Items in front of items.                                                *)
LEMMA ItemsJoin ==
    ASSUME NEW n \in Nat \ {0}, NEW g, NEW r, ItemsFrom(n, g), AllItems(r)
    PROVE  ItemsFrom(n, g \o r)
<1>1. /\ IsSeq(g \o r) /\ Len(g \o r) = Len(g) + Len(r)
      /\ \A j \in 1 .. Len(g) : (g \o r)[j] = g[j]
      /\ \A j \in Len(g) + 1 .. Len(g) + Len(r) : (g \o r)[j] = r[j - Len(g)]
  BY Joined DEF AllItems, ItemsFrom
<1>2. Len(g) \in Nat /\ Len(r) \in Nat
  BY SequencesAre DEF AllItems, ItemsFrom
<1> DEFINE s == g \o r
<1> HIDE DEF s
<1>3. ASSUME NEW j \in n .. Len(s), j >= 1 PROVE Fits(s, j)
  <2>1. CASE j \in 1 .. Len(g)
    <3>1. Fits(g, j) /\ s[j] = g[j] /\ (j < Len(g) => s[j + 1] = g[j + 1] /\ j < Len(s))
      BY <1>1, <1>2, <1>3, <2>1 DEF ItemsFrom, s
    <3> QED
      BY <3>1 DEF Fits
  <2>2. CASE j \in Len(g) + 1 .. Len(g) + Len(r)
    <3>1. j - Len(g) \in 1 .. Len(r)
      BY <1>2, <2>2
    <3>2. Fits(r, j - Len(g)) /\ s[j] = r[j - Len(g)]
      BY <1>1, <2>2, <3>1 DEF AllItems, ItemsFrom, s
    <3>3. j - Len(g) < Len(r) => s[j + 1] = r[j - Len(g) + 1] /\ j < Len(s)
      <4> SUFFICES ASSUME j - Len(g) < Len(r) PROVE s[j + 1] = r[j - Len(g) + 1] /\ j < Len(s)
        OBVIOUS
      <4>1. j + 1 \in Len(g) + 1 .. Len(g) + Len(r) /\ j + 1 - Len(g) = j - Len(g) + 1
        BY <1>2, <2>2
      <4> QED
        BY <1>1, <1>2, <2>2, <4>1 DEF s
    <3> QED
      BY <3>2, <3>3 DEF Fits
  <2> QED
    BY <1>1, <1>2, <1>3, <2>1, <2>2 DEF s
<1> QED
  BY <1>1, <1>3 DEF ItemsFrom, s

(* What productions without an argument push.                              *)
LEMMA PlainAre ==
    /\ IsItem(<<"block">>)
    /\ IsItem(<<"stmt">>)
    /\ IsItem(<<"value">>)
    /\ IsItem(<<"if">>)
    /\ IsItem(<<"if_else">>)
    /\ IsItem(<<"else_if">>)
    /\ IsItem(<<"while">>)
    /\ IsItem(<<"for">>)
    /\ IsItem(<<"for_else">>)
    /\ IsItem(<<"catch">>)
    /\ IsItem(<<"catch_type">>)
    /\ IsItem(<<"catch_variable">>)
    /\ IsItem(<<"try">>)
    /\ IsItem(<<"typehint">>)
    /\ IsItem(<<"more_typehints">>)
    /\ IsItem(<<"parameters">>)
    /\ IsItem(<<"parameter">>)
    /\ IsItem(<<"name">>)
    /\ IsItem(<<"type">>)
    /\ IsItem(<<"default">>)
    /\ IsItem(<<"function">>)
    /\ IsItem(<<"body">>)
    /\ IsItem(<<"block_body">>)
    /\ IsItem(<<"arrow">>)
    /\ IsItem(<<"primary">>)
    /\ IsItem(<<"selection">>)
    /\ IsItem(<<"selected">>)
    /\ IsItem(<<"postfix">>)
    /\ IsItem(<<"postfix_operator">>)
    /\ IsItem(<<"unary">>)
    /\ IsItem(<<"range">>)
    /\ IsItem(<<"range_operator">>)
    /\ IsItem(<<"ternary">>)
    /\ IsItem(<<"ternary_operator">>)
    /\ IsItem(<<"expr">>)
    /\ IsItem(<<"assignment">>)
    /\ IsItem(<<"logical_or">>)
<1>1. \A k \in Plain \cup RuleNames : IsItem(<<k>>)
  BY ItemsAre
<1> QED
  BY <1>1 DEF Plain, RuleNames

Loud(g) == /\ Len(g) >= 1 => g[1] # FailQuietly
           /\ Len(g) >= 2 => g[2] # FailQuietly

(* It reads no rune but behind the expression of a text.                   *)
Closed(g) == g # <<>> /\ IsHead(g[1]) => g[1][1] = "close" /\ g[1][2] = FALSE

Grows(g) == Stacked(g) /\ Loud(g) /\ Closed(g)

(* What may wait in a stack reads no runes.                                *)
LEMMA KindsAreNoRunes ==
    /\ \A k \in Kinds : k \notin RuneKind
    /\ "statement" \notin RuneKind /\ "skip" \notin RuneKind /\ "fail" \notin RuneKind
    /\ \A s, j : Fits(s, j) => s[j][1] \notin RuneKind
<1>1. /\ \A k \in Kinds : k \notin RuneKind
      /\ "statement" \notin RuneKind /\ "skip" \notin RuneKind /\ "fail" \notin RuneKind
  BY DEF Kinds, Plain, RuleNames, Others, Tokened, Instant, RuneKind
<1> QED
  BY <1>1 DEF Fits, IsItem

(* Sequences that may be pushed.                                           *)
LEMMA GrownAre ==
    /\ \A g : AllItems(g) => Grows(g)
    /\ \A g : ItemsFrom(2, g) /\ g # <<>> /\ g[1] = Skip => Grows(g)
    /\ Stacked(<<FailQuietly>>) /\ Closed(<<FailQuietly>>)
    /\ \A stop : "error" \notin stop => Grows(<<Skip, ReadText, <<"template", stop>> >>)
    /\ Grows(<<Skip, <<"close", TRUE, RBRACE>> >>)
    /\ \A mark : Grows(<< <<"close", FALSE, mark>> >>)
<1>1. ASSUME NEW s, NEW j, Fits(s, j) PROVE s[j] # FailQuietly
  <2>1. FailQuietly[1] = "fail" /\ FailQuietly[2] = FALSE
    BY DEF FailQuietly
  <2>2. CASE IsItem(s[j])
    <3>1. s[j][1] = "fail" => s[j][2] = TRUE
      BY <2>2 DEF IsItem
    <3> HIDE DEF FailQuietly
    <3> QED
      BY <2>1, <3>1, Zenon
  <2> QED
    BY <1>1, <2>2 DEF Fits
<1>2. Skip # FailQuietly /\ ReadText # FailQuietly /\ Skip[1] = "skip"
  BY DEF Skip, FailQuietly, ReadText
<1>3. ASSUME NEW g, AllItems(g) PROVE Grows(g)
  <2>1. IsSeq(g) /\ Len(g) \in Nat /\ \A j \in 1 .. Len(g) : Fits(g, j)
    BY <1>3, SequencesAre DEF AllItems, ItemsFrom
  <2>2. g # <<>> => ~IsHead(g[1])
    BY <2>1, SequencesAre, KindsAreNoRunes DEF IsHead
  <2> QED
    BY <1>1, <2>1, <2>2 DEF Grows, Stacked, HeadFits, SecondFits, Loud, ItemsFrom, Closed
<1>4. ASSUME NEW g, ItemsFrom(2, g), g # <<>>, g[1] = Skip PROVE Grows(g)
  <2>1. IsSeq(g) /\ Len(g) \in Nat /\ \A j \in 2 .. Len(g) : Fits(g, j)
    BY <1>4, SequencesAre DEF ItemsFrom
  <2>2. ~IsHead(g[1])
    BY <1>2, <1>4, KindsAreNoRunes DEF IsHead
  <2> QED
    BY <1>1, <1>2, <1>4, <2>1, <2>2 DEF Grows, Stacked, HeadFits, SecondFits, Loud, ItemsFrom, Closed
<1>5. \A a, b, d : /\ IsSeq(<<a>>) /\ Len(<<a>>) = 1 /\ <<a>>[1] = a
                  /\ IsSeq(<<a, b>>) /\ Len(<<a, b>>) = 2 /\ <<a, b>>[1] = a /\ <<a, b>>[2] = b
                  /\ IsSeq(<<a, b, d>>) /\ Len(<<a, b, d>>) = 3 /\ <<a, b, d>>[1] = a /\ <<a, b, d>>[2] = b
                  /\ <<a, b, d>>[3] = d
  <2>1. ASSUME NEW a, NEW b, NEW d PROVE <<a>> \in Seq({a}) /\ <<a, b>> \in Seq({a, b}) /\ <<a, b, d>> \in Seq({a, b, d})
    OBVIOUS
  <2> QED
    BY <2>1 DEF IsSeq
<1>0. ASSUME NEW g, g[1] = Skip \/ g[1] = FailQuietly PROVE Closed(g)
  <2>1. Skip[1] = "skip" /\ FailQuietly[1] = "fail"
    BY DEF Skip, FailQuietly
  <2>2. ~IsHead(g[1])
    BY <1>0, <2>1, KindsAreNoRunes DEF IsHead
  <2> QED
    BY <2>2 DEF Closed
<1>6. ASSUME NEW a, a = FailQuietly \/ (IsHead(a) /\ Reader(a)) PROVE Stacked(<<a>>)
  <2> DEFINE s == <<a>>
  <2>1. IsSeq(s) /\ Len(s) = 1 /\ s[1] = a
    BY <1>5
  <2> HIDE DEF s
  <2>2. Stacked(s)
    BY <1>6, <2>1 DEF Stacked, HeadFits, SecondFits, ItemsFrom
  <2> QED
    BY <2>2 DEF s
<1>7. ASSUME NEW b, b = FailQuietly \/ IsEntry(b) PROVE Stacked(<<Skip, b>>)
  <2> DEFINE s == <<Skip, b>>
  <2>1. IsSeq(s) /\ Len(s) = 2 /\ s[1] = Skip /\ s[2] = b
    BY <1>5
  <2> HIDE DEF s
  <2>2. Stacked(s)
    BY <1>2, <1>7, <2>1 DEF Stacked, HeadFits, SecondFits, ItemsFrom
  <2> QED
    BY <2>2 DEF s
<1>8. ASSUME NEW stop, "error" \notin stop PROVE Grows(<<Skip, ReadText, <<"template", stop>> >>)
  <2> DEFINE i == <<"template", stop>>
             s == <<Skip, ReadText, i>>
  <2>1. IsSeq(s) /\ Len(s) = 3 /\ s[1] = Skip /\ s[2] = ReadText /\ s[3] = i
    BY <1>5
  <2>2. IsItem(i)
    BY <1>8, ItemsAre
  <2> HIDE DEF s, i
  <2>3. Grows(s)
    BY <1>0, <1>2, <2>1, <2>2 DEF Stacked, HeadFits, SecondFits, ItemsFrom, Fits, Grows, Loud, IsEntry
  <2> QED
    BY <2>3 DEF s, i
<1>9. Grows(<<Skip, <<"close", TRUE, RBRACE>> >>)
  <2> DEFINE e == <<"close", TRUE, RBRACE>>
             s == <<Skip, e>>
  <2>1. IsEntry(e) /\ e # FailQuietly
    BY DEF IsEntry, FailQuietly
  <2>2. Stacked(s)
    BY <1>7, <2>1
  <2>3. Len(s) = 2 /\ s[1] = Skip /\ s[2] = e
    BY <1>5
  <2> HIDE DEF s, e
  <2>4. Grows(s)
    BY <1>0, <1>2, <2>1, <2>2, <2>3 DEF Grows, Loud
  <2> QED
    BY <2>4 DEF s, e
<1>10. ASSUME NEW mark PROVE Grows(<< <<"close", FALSE, mark>> >>)
  <2> DEFINE e == <<"close", FALSE, mark>>
             s == <<e>>
  <2>1. IsHead(e) /\ Reader(e) /\ e # FailQuietly /\ e[1] = "close" /\ e[2] = FALSE
    BY DEF IsHead, Reader, FailQuietly, RuneKind
  <2>2. Stacked(s)
    BY <1>6, <2>1
  <2>3. Len(s) = 1 /\ s[1] = e
    BY <1>5
  <2> HIDE DEF s, e
  <2>4. Grows(s)
    BY <2>1, <2>2, <2>3 DEF Grows, Loud, Closed
  <2> QED
    BY <2>4 DEF s, e
<1>11. Closed(<<FailQuietly>>)
  BY <1>0, <1>5
<1> QED
  BY <1>3, <1>4, <1>6, <1>8, <1>9, <1>10, <1>11

(* What a function pushes.                                                 *)
Pushes(t, g) == Stacked(g) /\ Closed(g) /\ (t # "error" => Loud(g))

(* What statements push.                                                   *)
LEMMA StatementsPush ==
    ASSUME NEW t
    PROVE  /\ Pushes(t, parse_block(t))
           /\ \A stop : "error" \notin stop => /\ Pushes(t, statements(stop, t)) /\ Pushes(t, template(stop, t))
                                              /\ Pushes(t, parse_script_block(stop, t))
           /\ Pushes(t, parse_if) /\ Pushes(t, if_else(t)) /\ Pushes(t, else_if(t))
           /\ Pushes(t, parse_while) /\ Pushes(t, parse_for) /\ Pushes(t, for_else(t))
           /\ Pushes(t, parse_catch) /\ Pushes(t, catch_type(t)) /\ Pushes(t, catch_variable(t))
           /\ Pushes(t, parse_try)
           /\ \A b : Pushes(t, clauses(b, t)) /\ Pushes(t, try_finally(b, t))
           /\ Pushes(t, parse_stmt(t)) /\ Pushes(t, optional_value(t))
<1> USE DEF Pushes
<1>0. /\ \A g : Grows(g) => Stacked(g) /\ Loud(g) /\ Closed(g)
      /\ "error" \notin BlockEnd
  BY DEF Grows, BlockEnd
<1>1. Pushes(t, parse_block(t))
  BY <1>0, PlainAre, ItemsAre, Tuples, AllFromSecond, GrownAre DEF parse_block
<1>2. ASSUME NEW stop, "error" \notin stop
      PROVE  /\ Pushes(t, statements(stop, t)) /\ Pushes(t, template(stop, t))
             /\ Pushes(t, parse_script_block(stop, t))
  BY <1>0, <1>2, PlainAre, ItemsAre, Tuples, AllFromSecond, GrownAre DEF statements, template, parse_script_block
<1>3. Pushes(t, parse_if)
  BY <1>0, PlainAre, ItemsAre, Tuples, AllFromSecond, GrownAre DEF parse_if
<1>4. Pushes(t, if_else(t))
  BY <1>0, PlainAre, ItemsAre, Tuples, AllFromSecond, GrownAre DEF if_else
<1>5. Pushes(t, else_if(t))
  BY <1>0, PlainAre, ItemsAre, Tuples, AllFromSecond, GrownAre DEF else_if
<1>6. Pushes(t, parse_while)
  BY <1>0, PlainAre, ItemsAre, Tuples, AllFromSecond, GrownAre DEF parse_while
<1>7. Pushes(t, parse_for)
  BY <1>0, PlainAre, ItemsAre, Tuples, AllFromSecond, GrownAre DEF parse_for
<1>8. /\ \A g, r : (AllItems(r) /\ AllItems(g)) => AllItems(g \o r)
      /\ \A g, r : (AllItems(r) /\ ItemsFrom(2, g) /\ g # <<>>)
                    => (ItemsFrom(2, g \o r) /\ g \o r # <<>> /\ (g \o r)[1] = g[1])
  <2>1. ASSUME NEW g, NEW r, AllItems(r), AllItems(g) PROVE AllItems(g \o r)
    BY <2>1, ItemsJoin DEF AllItems
  <2>2. ASSUME NEW g, NEW r, AllItems(r), ItemsFrom(2, g), g # <<>>
        PROVE ItemsFrom(2, g \o r) /\ g \o r # <<>> /\ (g \o r)[1] = g[1]
    <3>1. ItemsFrom(2, g \o r)
      BY <2>2, ItemsJoin
    <3>2. Len(g \o r) = Len(g) + Len(r) /\ Len(g) >= 1 /\ Len(r) \in Nat /\ Len(g) \in Nat
      BY <2>2, SequencesAre, Joined DEF AllItems, ItemsFrom
    <3>3. (g \o r)[1] = g[1]
      BY <2>2, <3>2, Joined DEF AllItems, ItemsFrom
    <3> QED
      BY <3>1, <3>2, <3>3, SequencesAre
  <2> QED
    BY <2>1, <2>2
<1>9. Pushes(t, for_else(t))
  <2> DEFINE a == <<Skip, Expect(":"), <<"block">> >>
             b == <<Expect("end"), Expect("for"), Optional(SEMICOLON)>>
  <2>1. AllItems(b) /\ ItemsFrom(2, a) /\ a # <<>> /\ a[1] = Skip
    BY PlainAre, ItemsAre, Tuples, AllFromSecond
  <2>2. for_else(t) = a \o b \/ for_else(t) = <<>> \o b
    BY DEF for_else
  <2> HIDE DEF a, b
  <2>3. Grows(a \o b)
    <3>1. ItemsFrom(2, a \o b) /\ a \o b # <<>> /\ (a \o b)[1] = Skip
      BY <1>8, <2>1
    <3> QED
      BY <3>1, GrownAre
  <2>4. Grows(<<>> \o b)
    <3>1. AllItems(<<>> \o b)
      BY <1>8, <2>1, AllFromSecond
    <3> QED
      BY <3>1, GrownAre
  <2> QED
    BY <1>0, <2>2, <2>3, <2>4
<1>10. Pushes(t, parse_catch) /\ Pushes(t, catch_type(t)) /\ Pushes(t, catch_variable(t))
  BY <1>0, PlainAre, ItemsAre, Tuples, AllFromSecond, GrownAre DEF parse_catch, catch_type, catch_variable
<1>11. Pushes(t, parse_try) /\ \A b : Pushes(t, clauses(b, t))
  BY <1>0, PlainAre, ItemsAre, Tuples, AllFromSecond, GrownAre DEF parse_try, clauses
<1>12. ASSUME NEW some PROVE Pushes(t, try_finally(some, t))
  <2> DEFINE a == <<Skip, Expect(":"), <<"block">> >>
             b == <<Expect("end"), Expect("try"), Optional(SEMICOLON)>>
             d == IF some \/ t = "finally" THEN <<>> ELSE <<Fail>>
             e == IF t = "finally" THEN a ELSE <<>>
  <2>1. AllItems(b) /\ ItemsFrom(2, a) /\ a # <<>> /\ a[1] = Skip /\ AllItems(d)
    BY PlainAre, ItemsAre, Tuples, AllFromSecond
  <2>2. try_finally(some, t) = e \o b \o d
    BY DEF try_finally
  <2>3. e = a \/ e = <<>>
    OBVIOUS
  <2> HIDE DEF a, b, d, e
  <2>4. Grows(a \o b \o d)
    <3> DEFINE f == a \o b
    <3>1. ItemsFrom(2, f) /\ f # <<>> /\ f[1] = Skip
      BY <1>8, <2>1
    <3> HIDE DEF f
    <3>2. ItemsFrom(2, f \o d) /\ f \o d # <<>> /\ (f \o d)[1] = Skip
      BY <1>8, <2>1, <3>1
    <3>3. Grows(f \o d)
      BY <3>2, GrownAre
    <3> QED
      BY <3>3 DEF f
  <2>5. Grows(<<>> \o b \o d)
    <3> DEFINE f == <<>> \o b
    <3>1. AllItems(f)
      BY <1>8, <2>1, AllFromSecond
    <3> HIDE DEF f
    <3>2. AllItems(f \o d)
      BY <1>8, <2>1, <3>1
    <3>3. Grows(f \o d)
      BY <3>2, GrownAre
    <3> QED
      BY <3>3 DEF f
  <2> QED
    BY <1>0, <2>2, <2>3, <2>4, <2>5
<1>13. Pushes(t, optional_value(t))
  BY <1>0, PlainAre, ItemsAre, Tuples, AllFromSecond, GrownAre DEF optional_value
<1>14. Pushes(t, parse_stmt(t))
  <2> DEFINE e == <<"expr">>
             m == Statement
             x == Expect(SEMICOLON)
             s == <<e, Drop, m, x>>
  <2>1. s \in Seq({e, Drop, m, x}) /\ Len(s) = 4 /\ s[1] = e /\ s[2] = Drop /\ s[3] = m /\ s[4] = x
    OBVIOUS
  <2>2. IsItem(e) /\ IsItem(Drop) /\ IsItem(x) /\ x[1] = "expect" /\ m[1] = "statement" /\ m # FailQuietly
    <3>1. x[1] = "expect" /\ m[1] = "statement" /\ FailQuietly[1] = "fail"
      BY DEF Expect, Statement, FailQuietly
    <3> QED
      BY <3>1, PlainAre, ItemsAre
  <2> HIDE DEF e, m, x, s
  <2>3. Fits(s, 1) /\ Fits(s, 2) /\ Fits(s, 3) /\ Fits(s, 4)
    BY <2>1, <2>2 DEF Fits
  <2>4. AllItems(s)
    BY <2>1, <2>3 DEF AllItems, ItemsFrom, IsSeq
  <2>5. Grows(<< <<"expr">>, Drop, Statement, Expect(SEMICOLON)>>)
    BY <2>4, GrownAre DEF s, e, m, x
  <2> QED
    BY <1>0, <2>5, PlainAre, ItemsAre, Tuples, AllFromSecond, GrownAre DEF parse_stmt
<1> QED
  BY <1>1, <1>2, <1>3, <1>4, <1>5, <1>6, <1>7, <1>9, <1>10, <1>11, <1>12, <1>13, <1>14

(* Sequences that may be pushed, in front of others.                       *)
LEMMA GrowthJoins ==
    /\ \A s, r : (AllItems(s) /\ AllItems(r)) => AllItems(s \o r)
    /\ \A s : AllItems(s) => Grows(<<Skip>> \o s)
    /\ Stacked(<<Skip>> \o <<FailQuietly>>) /\ Closed(<<Skip>> \o <<FailQuietly>>)
<1>1. ASSUME NEW s, NEW r, AllItems(s), AllItems(r) PROVE AllItems(s \o r)
  BY <1>1, ItemsJoin DEF AllItems
<1> DEFINE k == <<Skip>>
           q == <<FailQuietly>>
<1>2. IsSeq(k) /\ Len(k) = 1 /\ k[1] = Skip /\ IsSeq(q) /\ Len(q) = 1 /\ q[1] = FailQuietly /\ Skip[1] = "skip"
  BY SequencesAre DEF Skip
<1>3. ItemsFrom(2, k)
  BY Tuples
<1> HIDE DEF k, q
<1>4. ASSUME NEW s, AllItems(s) PROVE Grows(k \o s)
  <2>1. IsSeq(s) /\ Len(s) \in Nat
    BY <1>4, SequencesAre DEF AllItems, ItemsFrom
  <2>2. ItemsFrom(2, k \o s)
    BY <1>3, <1>4, ItemsJoin
  <2> DEFINE z == k \o s
  <2>3. Len(z) = 1 + Len(s) /\ z[1] = Skip
    <3>1. /\ Len(k \o s) = Len(k) + Len(s)
          /\ \A j \in 1 .. Len(k) : (k \o s)[j] = k[j]
      BY <1>2, <2>1, Joined
    <3> QED
      BY <1>2, <3>1
  <2> HIDE DEF z
  <2>4. z # <<>>
    BY <2>1, <2>3, SequencesAre
  <2>5. ItemsFrom(2, z) => Grows(z)
    BY <2>3, <2>4, GrownAre
  <2> QED
    BY <2>2, <2>5 DEF z
<1>5. Stacked(k \o q) /\ Closed(k \o q)
  <2> DEFINE s == k \o q
  <2>1. IsSeq(s) /\ Len(s) = 2 /\ s[1] = Skip /\ s[2] = FailQuietly
    <3>1. /\ IsSeq(k \o q) /\ Len(k \o q) = Len(k) + Len(q)
          /\ \A j \in 1 .. Len(k) : (k \o q)[j] = k[j]
          /\ \A j \in 1 .. Len(q) : (k \o q)[j + Len(k)] = q[j]
      <4>1. IsSeq(k) /\ IsSeq(q)
        BY <1>2
      <4> QED
        BY <4>1, Joined
    <3>2. IsSeq(s) /\ Len(s) = 2 /\ s[1] = k[1] /\ s[1 + 1] = q[1]
      BY <1>2, <3>1
    <3> HIDE DEF s
    <3> QED
      BY <1>2, <3>2
  <2> HIDE DEF s
  <2>2. Stacked(s)
    BY <1>2, <2>1 DEF Stacked, HeadFits, SecondFits, ItemsFrom
  <2>3. Closed(s)
    <3>1. ~IsHead(Skip)
      BY <1>2, KindsAreNoRunes DEF IsHead
    <3> QED
      BY <2>1, <3>1 DEF Closed
  <2> QED
    BY <2>2, <2>3 DEF s
<1> QED
  BY <1>1, <1>4, <1>5 DEF k, q

(* What lists, maps and arguments push.                                    *)
LEMMA ListsPush ==
    ASSUME NEW t, NEW kind \in Lists, NEW n \in Nat
    PROVE  Pushes(t, first(kind, n, t)) /\ Pushes(t, row(kind, n, t))
<1>1. \A g : Grows(g) => Pushes(t, g)
  BY DEF Grows, Pushes
<1>2. AllItems(element(kind, n))
  <2>1. n + 1 \in Nat /\ n + 2 \in Nat
    OBVIOUS
  <2>2. IsItem(<<"row", kind, n + 1>>) /\ IsItem(<<"row", kind, n + 2>>)
    BY <2>1, ItemsAre
  <2> QED
    BY <2>2, PlainAre, ItemsAre, Tuples, AllFromSecond DEF element
<1>3. Grows(<<Skip, Make(kind, n)>>) /\ Grows(<<Fail>>)
  BY ItemsAre, Tuples, AllFromSecond, GrownAre
<1>4. Grows(element(kind, n)) /\ Grows(<<Skip>> \o element(kind, n))
  BY <1>2, GrowthJoins, GrownAre
<1> QED
  BY <1>1, <1>3, <1>4 DEF first, row

(* What functions and parameters push.                                     *)
LEMMA FunctionsPush ==
    ASSUME NEW t
    PROVE  /\ Pushes(t, parse_typehint) /\ Pushes(t, more_typehints(t))
           /\ Pushes(t, parse_parameters) /\ Pushes(t, parameters(t)) /\ Pushes(t, parameter(t))
           /\ Pushes(t, name(t)) /\ Pushes(t, type(t)) /\ Pushes(t, default(t))
           /\ \A rest : Pushes(t, next_parameter(rest, t))
           /\ Pushes(t, parse_function(t)) /\ Pushes(t, body(t)) /\ Pushes(t, block_body(t)) /\ Pushes(t, arrow(t))
<1>1. \A g : Grows(g) => Pushes(t, g)
  BY DEF Grows, Pushes
<1>2. Pushes(t, parse_typehint) /\ Pushes(t, more_typehints(t))
  BY <1>1, PlainAre, ItemsAre, Tuples, AllFromSecond, GrownAre DEF parse_typehint, more_typehints
<1>3. Pushes(t, parse_parameters) /\ Pushes(t, parameters(t)) /\ Pushes(t, parameter(t))
  BY <1>1, PlainAre, ItemsAre, Tuples, AllFromSecond, GrownAre DEF parse_parameters, parameters, parameter
<1>4. Pushes(t, name(t)) /\ Pushes(t, type(t)) /\ Pushes(t, default(t))
  BY <1>1, PlainAre, ItemsAre, Tuples, AllFromSecond, GrownAre DEF name, type, default
<1>5. ASSUME NEW rest PROVE Pushes(t, next_parameter(rest, t))
  BY <1>1, PlainAre, ItemsAre, Tuples, AllFromSecond, GrownAre DEF next_parameter
<1>6. Pushes(t, parse_function(t))
  <2>1. AllItems(parse_parameters) /\ AllItems(<< <<"body">> >>)
    BY PlainAre, ItemsAre, Tuples, AllFromSecond DEF parse_parameters
  <2>2. AllItems(parse_parameters \o << <<"body">> >>)
    BY <2>1, GrowthJoins
  <2> QED
    BY <1>1, <2>1, <2>2, GrownAre DEF parse_function
<1>7. Pushes(t, body(t)) /\ Pushes(t, arrow(t))
  BY <1>1, PlainAre, ItemsAre, Tuples, AllFromSecond, GrownAre DEF body, arrow
<1>8. Pushes(t, block_body(t))
  <2>1. "error" \notin {"end", "else"} /\ "error" \notin {"end"}
    OBVIOUS
  <2> QED
    BY <1>1, <2>1, ItemsAre, Tuples, AllFromSecond, GrownAre DEF block_body
<1> QED
  BY <1>2, <1>3, <1>4, <1>5, <1>6, <1>7, <1>8

(* What operands push.                                                     *)
LEMMA OperandsPush ==
    ASSUME NEW t
    PROVE  /\ Pushes(t, parse_primary(t)) /\ Pushes(t, parse_selection(t)) /\ Pushes(t, selected(t))
           /\ Pushes(t, parse_postfix) /\ Pushes(t, postfix_operator(t)) /\ Pushes(t, parse_unary(t))
<1>1. \A g : Grows(g) => Pushes(t, g)
  BY DEF Grows, Pushes
<1>2. AllItems(parse_args)
  BY ItemsAre, Tuples, AllFromSecond DEF parse_args, Lists
<1>3. Pushes(t, parse_selection(t)) /\ Pushes(t, selected(t)) /\ Pushes(t, parse_postfix)
  BY <1>1, <1>2, PlainAre, ItemsAre, Tuples, AllFromSecond, GrownAre DEF parse_selection, selected, parse_postfix
<1>4. Pushes(t, parse_unary(t))
  BY <1>1, PlainAre, ItemsAre, Tuples, AllFromSecond, GrownAre DEF parse_unary
<1>5. Pushes(t, postfix_operator(t))
  <2>1. AllItems(parse_args \o << <<"postfix_operator">> >>)
    <3>1. AllItems(<< <<"postfix_operator">> >>)
      BY PlainAre, Tuples, AllFromSecond
    <3> QED
      BY <1>2, <3>1, GrowthJoins
  <2>2. Grows(parse_args \o << <<"postfix_operator">> >>)
    BY <2>1, GrownAre
  <2> QED
    BY <1>1, <2>2, PlainAre, ItemsAre, Tuples, AllFromSecond, GrownAre DEF postfix_operator
<1>6. Pushes(t, parse_primary(t))
  <2> DEFINE p == CASE t \in {"true", "false", "null", "string"} -> <<Make("value", 0)>>
                    [] t \in {"int", "float"} -> << <<"number">> >>
                    [] t = "("          -> << <<"expr">>, Expect(")"), Make("group", 1)>>
                    [] t = "["          -> parse_list
                    [] t = LBRACE       -> parse_map
                    [] t = "identifier" -> <<Make("identifier", 0)>>
                    [] t = "function"   -> << <<"function">> >>
                    [] t = "error"      -> <<FailQuietly>>
                    [] OTHER            -> <<Fail>>
  <2>1. AllItems(parse_list) /\ AllItems(parse_map)
    BY ItemsAre, Tuples, AllFromSecond DEF parse_list, parse_map, Lists
  <2>2. AllItems(p) \/ (t = "error" /\ p = <<FailQuietly>>)
    <3>1. /\ AllItems(<<Make("value", 0)>>) /\ AllItems(<< <<"number">> >>)
          /\ AllItems(<< <<"expr">>, Expect(")"), Make("group", 1)>>)
          /\ AllItems(<<Make("identifier", 0)>>) /\ AllItems(<< <<"function">> >>)
          /\ AllItems(<<Fail>>)
      BY PlainAre, ItemsAre, Tuples, AllFromSecond
    <3>2. CASE t = "error"
      BY <3>2, KindsDiffer
    <3>3. CASE t # "error"
      BY <2>1, <3>1, <3>3
    <3> QED
      BY <3>2, <3>3
  <2>3. parse_primary(t) = <<Skip>> \o p
    BY DEF parse_primary
  <2> HIDE DEF p
  <2> QED
    BY <1>1, <2>2, <2>3, GrowthJoins DEF Pushes
<1> QED
  BY <1>3, <1>4, <1>5, <1>6

(* What binary operators push.                                             *)
LEMMA OperatorsPush ==
    ASSUME NEW t
    PROVE  /\ \A r \in RuleNames : /\ Pushes(t, << <<Rule[r].operand>>, <<"operators", r>> >>)
                                   /\ Pushes(t, operators(r, t))
           /\ Pushes(t, parse_range) /\ Pushes(t, range_operator(t))
           /\ Pushes(t, parse_ternary) /\ Pushes(t, ternary_operator(t))
           /\ Pushes(t, parse_expr) /\ Pushes(t, assignment(t))
           /\ \A mark : Pushes(t, close_tag(mark, t))
<1>1. \A g : Grows(g) => Pushes(t, g)
  BY DEF Grows, Pushes
<1>2. ASSUME NEW r \in RuleNames
      PROVE  Pushes(t, << <<Rule[r].operand>>, <<"operators", r>> >>) /\ Pushes(t, operators(r, t))
  <2>1. Rule[r].operand \in RuleNames \cup {"unary"}
    BY DEF Rule, RuleNames, parse_multiplicative, parse_additive, parse_shift, parse_bit_and, parse_bit_xor,
           parse_bit_or, parse_relational, parse_equality, parse_logical_and, parse_logical_or
  <2>2. IsItem(<<Rule[r].operand>>) /\ IsItem(<<"operators", r>>)
    BY <2>1, ItemsAre DEF Plain
  <2> QED
    BY <1>1, <2>2, ItemsAre, Tuples, AllFromSecond, GrownAre DEF operators
<1>3. Pushes(t, parse_range) /\ Pushes(t, range_operator(t))
  BY <1>1, PlainAre, ItemsAre, Tuples, AllFromSecond, GrownAre DEF parse_range, range_operator
<1>4. Pushes(t, parse_ternary) /\ Pushes(t, ternary_operator(t))
  BY <1>1, PlainAre, ItemsAre, Tuples, AllFromSecond, GrownAre DEF parse_ternary, ternary_operator
<1>5. Pushes(t, parse_expr)
  BY <1>1, PlainAre, ItemsAre, Tuples, AllFromSecond, GrownAre DEF parse_expr
<1>6. Pushes(t, assignment(t))
  <2>1. Grows(<<>>) /\ Grows(<<Skip, <<"expr">>, Variable(2), Make("=", 2)>>)
    BY PlainAre, ItemsAre, Tuples, AllFromSecond, GrownAre
  <2>2. t = "error" => Pushes(t, <<FailQuietly>>)
    BY GrownAre DEF Pushes
  <2> QED
    BY <1>1, <2>1, <2>2 DEF assignment
<1>7. ASSUME NEW mark PROVE Pushes(t, close_tag(mark, t))
  BY <1>1, GrownAre DEF close_tag
<1> QED
  BY <1>2, <1>3, <1>4, <1>5, <1>6, <1>7

(* What the functions of the grammar push on items.                        *)
LEMMA GrammarPushes ==
    ASSUME NEW i, NEW t, IsItem(i), i[1] \notin Instant \cup Tokened
    PROVE  Pushes(t, Grammar(i, t))
<1>1. i[1] \in Plain \cup RuleNames \cup Others
  BY DEF IsItem, Kinds
<1>2. CASE i[1] \in {"block", "stmt", "value", "if", "if_else", "else_if", "while", "for", "for_else",
                     "catch", "catch_type", "catch_variable", "try", "clauses", "finally"}
  BY <1>2, GrammarIs, StatementsPush
<1>3. CASE i[1] \in {"statements", "template", "script"}
  BY <1>3, GrammarIs, StatementsPush DEF IsItem
<1>4. CASE i[1] \in {"first", "row"}
  BY <1>4, GrammarIs, ListsPush DEF IsItem
<1>5. CASE i[1] \in {"typehint", "more_typehints", "parameters", "parameter", "name", "type", "default", "next",
                     "function", "body", "block_body", "arrow"}
  BY <1>5, GrammarIs, FunctionsPush
<1>6. CASE i[1] \in {"primary", "selection", "selected", "postfix", "postfix_operator", "unary"}
  BY <1>6, GrammarIs, OperandsPush
<1>7. CASE i[1] \in {"range", "range_operator", "ternary", "ternary_operator", "expr", "assignment", "close_tag"}
  BY <1>7, GrammarIs, OperatorsPush
<1>8. CASE i[1] = "operators"
  BY <1>8, GrammarIs, OperatorsPush DEF IsItem
<1>9. CASE i[1] \in RuleNames
  BY <1>9, GrammarIs, OperatorsPush
<1> QED
  BY <1>1, <1>2, <1>3, <1>4, <1>5, <1>6, <1>7, <1>8, <1>9 DEF Plain, Others

(* What a step does to the runes, whoever takes it: they are read, peeked  *)
(* at or pushed back, the last one before the end goes back to be the next *)
(* to be read, or they get out of order.                                   *)
Back == /\ Rune = EOF /\ pos' = Advanced
        /\ runes' = <<Here - 1>> /\ Here - 1 \in 1 .. Len(source)
InLine == Stay \/ Reads \/ Peeks1 \/ Unread
Order == /\ pos' \in {pos, Advanced}
         /\ "swapped" \in odd => "swapped" \in odd'
         /\ "swapped" \in odd' \/ InLine \/ Back

(* A step in order keeps the invariant of runes.                           *)
LEMMA Ordered ==
    ASSUME LexInv, UNCHANGED source, Order
    PROVE  /\ pos' \in 1 .. Len(source) + 1
           /\ "swapped" \notin odd' =>
                 /\ "swapped" \notin odd /\ Waits'
                 /\ Reads => Here' = (IF Here = Len(source) + 1 THEN Here ELSE Here + 1)
                 /\ Stay \/ Peeks1 \/ Unread => Here' = Here
                 /\ ~InLine => Here' = Here - 1 /\ Here = Len(source) + 1
<1>1. pos' \in 1 .. Len(source) + 1
  BY DEF LexInv, Order, Advanced
<1>2. ASSUME "swapped" \notin odd'
      PROVE  /\ "swapped" \notin odd /\ Waits'
             /\ Reads => Here' = (IF Here = Len(source) + 1 THEN Here ELSE Here + 1)
             /\ Stay \/ Peeks1 \/ Unread => Here' = Here
             /\ ~InLine => Here' = Here - 1 /\ Here = Len(source) + 1
  <2>1. "swapped" \notin odd
    BY <1>2 DEF Order
  <2>2. CASE InLine
    BY <2>1, <2>2, StepGlides DEF InLine
  <2>3. CASE ~InLine
    <3>1. Back
      BY <1>2, <2>3 DEF Order
    <3>2. Here' = Here - 1
      BY <3>1, HereNext DEF Back
    <3>3. /\ Here \in 1 .. Len(source) + 1 /\ Len(source) \in Nat
          /\ Rune # EOF <=> Here \in 1 .. Len(source)
          /\ Advanced = (IF Here = Len(source) + 1 THEN Here ELSE Here + 1)
      BY <2>1, RuneIsHere
    <3>4. Here = Len(source) + 1 /\ pos' = Here /\ runes' = <<Here - 1>> /\ Here - 1 \in 1 .. Len(source)
      BY <3>1, <3>3 DEF Back
    <3>5. Waits'
      BY <3>2, <3>4 DEF Waits
    <3> QED
      BY <2>1, <2>3, <3>2, <3>4, <3>5 DEF InLine
  <2> QED
    BY <2>2, <2>3
<1> QED
  BY <1>1, <1>2

(* A step in order moves Here by at most one.                              *)
LEMMA OrderGlides ==
    ASSUME LexInv, UNCHANGED source, Order, "swapped" \notin odd'
    PROVE  Glides
<1>1. /\ Reads => Here' = (IF Here = Len(source) + 1 THEN Here ELSE Here + 1)
      /\ Stay \/ Peeks1 \/ Unread => Here' = Here
      /\ ~InLine => Here' = Here - 1
  BY Ordered
<1> QED
  BY <1>1 DEF Glides, InLine

(* Moves of the lexer are steps in order.                                  *)
LEMMA MovesAreOrder ==
    ASSUME LexInv, Moves
    PROVE  Order
<1>1. CASE "swapped" \in odd' \/ InOrder
  BY <1>1 DEF Moves, Order, InOrder, InLine
<1>2. CASE ToPoint /\ ~("swapped" \in odd' \/ InOrder)
  <2>1. odd' = odd /\ lex.at = "point" /\ Rune = EOF /\ pos' = Advanced /\ runes' = <<lex.n>>
    BY <1>2 DEF ToPoint
  <2>2. lex.n = Here - 1 /\ lex.n \in 1 .. Len(source)
    BY <1>2, <2>1 DEF LexInv
  <2> QED
    BY <2>1, <2>2 DEF Order, Back
<1> QED
  BY <1>1, <1>2 DEF Moves

(* A step of the lexer.                                                    *)
LEMMA TokenKeepsLex ==
    ASSUME LexInv, ReadToken, UNCHANGED source
    PROVE  LexInv' /\ Order
<1>1. Moves /\ Lexes
  BY TokenMoves
<1>2. Order
  BY <1>1, MovesAreOrder
<1>3. /\ pos' \in 1 .. Len(source) + 1
      /\ "swapped" \notin odd' =>
                 /\ "swapped" \notin odd /\ Waits'
                 /\ Reads => Here' = (IF Here = Len(source) + 1 THEN Here ELSE Here + 1)
  BY <1>2, Ordered
<1>4. "swapped" \notin odd' /\ lex'.at = "point" => lex'.n = Here' - 1 /\ lex'.n \in 1 .. Len(source)
  <2> SUFFICES ASSUME "swapped" \notin odd', lex'.at = "point"
               PROVE lex'.n = Here' - 1 /\ lex'.n \in 1 .. Len(source)
    OBVIOUS
  <2>1. Reads /\ Rune # EOF /\ lex'.n = Here
    BY <1>1 DEF Lexes
  <2>2. Here \in 1 .. Len(source) /\ Len(source) \in Nat
    BY <1>3, <2>1, RuneIsHere
  <2> QED
    BY <1>3, <2>1, <2>2
<1>5. DOMAIN lex' = LexFields
  BY <1>1 DEF Lexes
<1> QED
  BY <1>2, <1>3, <1>4, <1>5 DEF LexInv

(* A step of the parser leaves the lexer alone, or starts it.              *)
LEMMA OrderKeepsLex ==
    ASSUME LexInv, Order, UNCHANGED source, lex' = Idle \/ lex' = Start
    PROVE  LexInv'
<1>1. DOMAIN lex' = LexFields /\ lex'.at # "point"
  BY DEF Idle, Start, LexFields
<1>2. pos' \in 1 .. Len(source) + 1 /\ ("swapped" \notin odd' => Waits')
  BY Ordered
<1> QED
  BY <1>1, <1>2 DEF LexInv

(* An item in front of a stack fits.                                       *)
LEMMA FitsJoins ==
    ASSUME NEW g, NEW r, IsSeq(g), IsSeq(r)
    PROVE  /\ \A j \in 1 .. Len(g) : Fits(g, j) => Fits(g \o r, j)
           /\ \A j \in 1 .. Len(r) : Fits(r, j) => Fits(g \o r, j + Len(g))
<1> DEFINE s == g \o r
<1>1. /\ IsSeq(s) /\ Len(s) = Len(g) + Len(r)
      /\ \A j \in 1 .. Len(g) : s[j] = g[j]
      /\ \A j \in 1 .. Len(r) : s[j + Len(g)] = r[j]
  BY Joined
<1>2. Len(g) \in Nat /\ Len(r) \in Nat
  BY SequencesAre
<1> HIDE DEF s
<1>3. ASSUME NEW j \in 1 .. Len(g), Fits(g, j) PROVE Fits(s, j)
  <2>1. s[j] = g[j] /\ (j < Len(g) => s[j + 1] = g[j + 1] /\ j < Len(s))
    BY <1>1, <1>2
  <2> QED
    BY <1>3, <2>1 DEF Fits
<1>4. ASSUME NEW j \in 1 .. Len(r), Fits(r, j) PROVE Fits(s, j + Len(g))
  <2>1. s[j + Len(g)] = r[j]
    BY <1>1, <1>2
  <2>2. j < Len(r) => s[j + Len(g) + 1] = r[j + 1] /\ j + Len(g) < Len(s)
    <3> SUFFICES ASSUME j < Len(r) PROVE s[j + Len(g) + 1] = r[j + 1] /\ j + Len(g) < Len(s)
      OBVIOUS
    <3>1. j + 1 \in 1 .. Len(r) /\ j + 1 + Len(g) = j + Len(g) + 1
      BY <1>2
    <3> QED
      BY <1>1, <1>2, <3>1
  <2> QED
    BY <1>4, <2>1, <2>2 DEF Fits
<1> QED
  BY <1>3, <1>4 DEF s

(* A stack stays Stacked when a production is replaced with what it        *)
(* pushes.                                                                 *)
LEMMA Pushed ==
    ASSUME NEW g, NEW r, Stacked(g), AllItems(r)
    PROVE  Stacked(g \o r)
<1>1. IsSeq(g) /\ IsSeq(r) /\ Len(g) \in Nat /\ Len(r) \in Nat /\ ItemsFrom(3, g)
      /\ \A j \in 1 .. Len(r) : Fits(r, j)
  BY SequencesAre DEF AllItems, ItemsFrom, Stacked
<1> DEFINE s == g \o r
<1>2. ItemsFrom(3, s)
  BY <1>1, ItemsJoin
<1>3. /\ IsSeq(s) /\ Len(s) = Len(g) + Len(r)
      /\ \A j \in 1 .. Len(g) : s[j] = g[j]
      /\ \A j \in 1 .. Len(r) : s[j + Len(g)] = r[j]
  BY <1>1, Joined
<1>4. /\ \A j \in 1 .. Len(g) : Fits(g, j) => Fits(s, j)
      /\ \A j \in 1 .. Len(r) : Fits(r, j) => Fits(s, j + Len(g))
  BY <1>1, FitsJoins
<1> HIDE DEF s
<1>5. \A j \in 1 .. Len(r) : Fits(s, j + Len(g))
  BY <1>1, <1>4
<1>6. ASSUME Len(g) = 0 PROVE Stacked(s)
  <2>1. \A j \in 1 .. Len(s) : Fits(s, j)
    BY <1>1, <1>3, <1>5, <1>6
  <2>2. (Len(s) >= 1 => Fits(s, 1)) /\ (Len(s) >= 2 => Fits(s, 2)) /\ Len(s) \in Nat
    BY <1>1, <1>3, <1>6, <2>1
  <2> QED
    BY <1>2, <2>2 DEF Stacked, HeadFits, SecondFits
<1>7. ASSUME Len(g) = 1 PROVE Stacked(s)
  <2>1. Len(s) >= 2 => Fits(s, 2)
    <3> SUFFICES ASSUME Len(s) >= 2 PROVE Fits(s, 2)
      OBVIOUS
    <3>1. 1 \in 1 .. Len(r) /\ 1 + Len(g) = 2
      BY <1>1, <1>3, <1>7
    <3> QED
      BY <1>5, <3>1
  <2>2. HeadFits(s)
    BY <1>3, <1>4, <1>7 DEF Stacked, HeadFits
  <2> QED
    BY <1>1, <1>2, <1>3, <1>7, <2>1, <2>2 DEF Stacked, SecondFits
<1>8. ASSUME Len(g) >= 2 PROVE Stacked(s)
  <2>1. HeadFits(s)
    BY <1>1, <1>3, <1>4, <1>8 DEF Stacked, HeadFits
  <2>2. s[1] = g[1] /\ s[2] = g[2]
    BY <1>1, <1>3, <1>8
  <2>3. SecondFits(s)
    BY <1>1, <1>4, <1>8, <2>2 DEF Stacked, SecondFits
  <2> QED
    BY <1>2, <2>1, <2>3 DEF Stacked
<1>9. \A n \in Nat : (n = 0 \/ n = 1 \/ n >= 2)
  OBVIOUS
<1>11. Len(g) \in Nat
  BY <1>1
<1>10. Stacked(s)
  BY <1>6, <1>7, <1>8, <1>9, <1>11
<1> QED
  BY <1>10 DEF s

(* So does the rest of one, below a place that a null node returns to.     *)
LEMMA Suffix ==
    ASSUME NEW s, NEW n \in Nat \ {0}, ItemsFrom(n, s)
    PROVE  AllItems(SubSeq(s, n, Len(s)))
<1>1. PICK S : s \in Seq(S)
  BY DEF ItemsFrom, IsSeq
<1> DEFINE r == SubSeq(s, n, Len(s))
<1>2. CASE n > Len(s)
  <2>1. r = <<>>
    BY <1>1, <1>2
  <2> QED
    BY <2>1, AllFromSecond
<1>3. CASE n <= Len(s)
  <2>1. Len(s) \in Nat
    BY <1>1
  <2>2. r \in Seq(S) /\ Len(r) = Len(s) - n + 1 /\ \A j \in 1 .. Len(s) - n + 1 : r[j] = s[n + j - 1]
    <3>1. n \in 1 .. Len(s) + 1 /\ Len(s) \in n - 1 .. Len(s)
      BY <1>3, <2>1
    <3>2. /\ SubSeq(s, n, Len(s)) \in Seq(S)
          /\ Len(SubSeq(s, n, Len(s))) = Len(s) - n + 1
          /\ \A j \in 1 .. Len(s) - n + 1 : SubSeq(s, n, Len(s))[j] = s[n + j - 1]
      BY <1>1, <3>1, SubSeqProperties
    <3> QED
      BY <3>2
  <2> HIDE DEF r
  <2>3. ASSUME NEW j \in 1 .. Len(r) PROVE Fits(r, j)
    <3> DEFINE m == n + j - 1
    <3>1. m \in n .. Len(s) /\ r[j] = s[m] /\ (j < Len(r) <=> m < Len(s)) /\ (j < Len(r) => r[j + 1] = s[m + 1])
      <4>1. n + j - 1 \in n .. Len(s) /\ (j < Len(r) <=> n + j - 1 < Len(s))
        BY <1>3, <2>1, <2>2
      <4>2. j < Len(r) => j + 1 \in 1 .. Len(s) - n + 1 /\ n + (j + 1) - 1 = n + j - 1 + 1
        BY <2>1, <2>2
      <4> QED
        BY <2>2, <4>1, <4>2
    <3> HIDE DEF m
    <3>2. Fits(s, m)
      BY <3>1 DEF ItemsFrom
    <3> QED
      BY <3>1, <3>2 DEF Fits
  <2> QED
    BY <2>2, <2>3 DEF r, AllItems, ItemsFrom, IsSeq
<1> QED
  BY <1>1, <1>2, <1>3

(* The item at the head is done.                                           *)
LEMMA Popped ==
    ASSUME NEW s, Stacked(s), s # <<>>
    PROVE  /\ Stacked(Tail(s)) /\ IsSeq(s) /\ Head(s) = s[1]
           /\ s[1] # Skip /\ s[1][1] # "expect" => AllItems(Tail(s))
           /\ s[1][1] = "expect" => (Tail(s) # <<>> => ~IsHead(Tail(s)[1]))
           /\ ItemsFrom(3, s)
<1>1. IsSeq(s) /\ Len(s) \in Nat /\ Len(s) >= 1 /\ Head(s) = s[1] /\ ItemsFrom(3, s)
  BY SequencesAre DEF Stacked, ItemsFrom
<1> DEFINE r == Tail(s)
<1>2. IsSeq(r) /\ Len(r) = Len(s) - 1 /\ \A j \in 1 .. Len(s) - 1 : r[j] = s[j + 1]
  BY <1>1, SequencesAre
<1> HIDE DEF r
<1>3. ASSUME NEW j \in 1 .. Len(r), Fits(s, j + 1) PROVE Fits(r, j)
  <2>1. r[j] = s[j + 1] /\ (j < Len(r) <=> j + 1 < Len(s)) /\ (j < Len(r) => r[j + 1] = s[j + 1 + 1])
    BY <1>1, <1>2
  <2> QED
    BY <1>3, <2>1 DEF Fits
<1>4. ASSUME NEW j \in 2 .. Len(r) PROVE Fits(r, j)
  <2>1. j + 1 \in 3 .. Len(s)
    BY <1>1, <1>2
  <2> QED
    BY <1>1, <1>3, <2>1 DEF ItemsFrom
<1>5. Len(r) >= 1 => r[1] = s[2] /\ Len(s) >= 2 /\ (Fits(s, 2) => Fits(r, 1))
  <2> SUFFICES ASSUME Len(r) >= 1 PROVE r[1] = s[2] /\ Len(s) >= 2 /\ (Fits(s, 2) => Fits(r, 1))
    OBVIOUS
  <2>1. 1 \in 1 .. Len(r) /\ 1 + 1 = 2 /\ Len(s) >= 2
    BY <1>1, <1>2
  <2> QED
    BY <1>2, <1>3, <2>1
<1>6. Len(s) >= 2 => \/ Fits(s, 2)
                     \/ (s[1] = Skip /\ IsEntry(s[2]))
                     \/ (s[1][1] \in {"skip", "expect"} /\ s[2] = FailQuietly)
  BY DEF Stacked, SecondFits
<1>7. \A e : IsEntry(e) => IsHead(e) /\ Reader(e)
  <2>1. ReadText[1] = "read" /\ ReadText[2] = "text" /\ <<"close", TRUE, RBRACE>>[1] = "close"
    BY DEF ReadText
  <2>2. ASSUME NEW e, IsEntry(e) PROVE (e[1] = "read" /\ e[2] = "text") \/ e[1] = "close"
    <3>1. e = ReadText \/ e = <<"close", TRUE, RBRACE>>
      BY <2>2 DEF IsEntry
    <3> QED
      BY <2>1, <3>1
  <2> QED
    BY <2>2 DEF IsHead, RuneKind, Reader
<1>8. Stacked(r)
  <2>1. Len(r) >= 1 => Fits(r, 1) \/ (IsHead(r[1]) /\ Reader(r[1])) \/ r[1] = FailQuietly
    BY <1>5, <1>6, <1>7
  <2>2. ItemsFrom(3, r)
    BY <1>1, <1>2, <1>4 DEF ItemsFrom
  <2>3. Len(r) >= 2 => Fits(r, 2)
    BY <1>1, <1>2, <1>4
  <2> QED
    BY <2>1, <2>2, <2>3 DEF Stacked, HeadFits, SecondFits
<1>9. s[1] # Skip /\ s[1][1] # "expect" => AllItems(r)
  <2> SUFFICES ASSUME s[1] # Skip, s[1][1] # "expect" PROVE AllItems(r)
    OBVIOUS
  <2>1. Len(s) >= 2 => Fits(s, 2)
    <3>1. s[1][1] = "skip" /\ Len(s) >= 2 => Fits(s, 2)
      <4>1. Len(s) >= 1 => Fits(s, 1) \/ IsHead(s[1]) \/ s[1] = Skip \/ s[1] = FailQuietly
        BY DEF Stacked, HeadFits
      <4>0. FailQuietly[1] = "fail"
        BY DEF FailQuietly
      <4>2. s[1][1] = "skip" => ~IsHead(s[1]) /\ s[1] # FailQuietly
        BY <4>0 DEF IsHead, RuneKind
      <4>3. s[1][1] = "skip" => ~Fits(s, 1)
        BY DEF Fits, IsItem, Kinds, Plain, RuleNames, Others, Tokened, Instant
      <4> QED
        BY <1>1, <4>1, <4>2, <4>3
    <3> QED
      BY <1>6, <3>1
  <2>2. \A j \in 1 .. Len(r) : Fits(r, j)
    <3> TAKE j \in 1 .. Len(r)
    <3>1. CASE j = 1
      BY <1>5, <2>1, <3>1
    <3>2. CASE j # 1
      BY <1>1, <1>2, <1>4, <3>2
    <3> QED
      BY <3>1, <3>2
  <2> QED
    BY <1>2, <2>2 DEF AllItems, ItemsFrom
<1>10. s[1][1] = "expect" => (r # <<>> => ~IsHead(r[1]))
  <2> SUFFICES ASSUME s[1][1] = "expect", r # <<>> PROVE ~IsHead(r[1])
    OBVIOUS
  <2>1. Len(r) >= 1
    BY <1>2, SequencesAre
  <2>2. Fits(r, 1) \/ r[1] = FailQuietly
    <3>1. s[1] # Skip
      BY DEF Skip
    <3> QED
      BY <1>5, <1>6, <2>1, <3>1
  <2>3. FailQuietly[1] = "fail"
    BY DEF FailQuietly
  <2> QED
    BY <2>2, <2>3, KindsAreNoRunes DEF IsHead
<1> QED
  BY <1>1, <1>8, <1>9, <1>10 DEF r

(* A set of natural numbers that is not empty has a least element.         *)
LEMMA LeastExists ==
    ASSUME NEW T \in SUBSET Nat, T # {}
    PROVE  \E x \in T : \A y \in T : x <= y
<1>1. \E x \in T : \A y \in T : ~(<<y, x>> \in OpToRel(<, Nat))
  BY NatLessThanWellFounded, WFMin
<1>2. \A x, y \in T : y < x => <<y, x>> \in OpToRel(<, Nat)
  BY DEF OpToRel
<1>3. PICK x \in T : \A y \in T : ~(<<y, x>> \in OpToRel(<, Nat))
  BY <1>1
<1>4. \A y \in T : ~(y < x)
  BY <1>2, <1>3
<1> QED
  BY <1>4

(* What a failure leaves of the stack: nothing, or what follows the mark   *)
(* of the function that goes on.                                           *)
Returned(n) == SubSeq(todo, n + 1, Len(todo))

Unnoticed(n) == /\ todo[n][1] = "unchecked" /\ odd' = odd \cup {"unchecked"} /\ UNCHANGED outcome
                /\ vals' = SubSeq(vals, 1, todo[n][2]) /\ todo' = Returned(n)
Noticed(n)   == /\ todo[n][1] = "statement" /\ UNCHANGED <<odd, outcome>>
                /\ vals' = SubSeq(vals, 1, todo[n][2])
                /\ todo' = <<Head(Returned(n)), FailQuietly>> \o Tail(Returned(n))
Ended        == todo' = <<>> /\ outcome' = "null" /\ UNCHANGED <<vals, odd>>

(* What a null node does to the stack.                                     *)
LEMMA FailingIs ==
    ASSUME NEW x, Failing(x), Stacked(todo)
    PROVE  Ended \/ (\E n \in 1 .. Len(todo) : Unnoticed(n) \/ Noticed(n))
<1> DEFINE deaf == {i \in DOMAIN todo : todo[i][1] \in {"unchecked", "statement"}}
           i == CHOOSE j \in deaf : \A k \in deaf : j <= k
<1>1. DOMAIN todo = 1 .. Len(todo) /\ Len(todo) \in Nat
  BY DEF Stacked, ItemsFrom, IsSeq
<1>2. deaf # {} => i \in 1 .. Len(todo) /\ todo[i][1] \in {"unchecked", "statement"}
  <2> SUFFICES ASSUME deaf # {} PROVE i \in deaf
    BY <1>1
  <2>1. deaf \in SUBSET Nat
    BY <1>1
  <2> HIDE DEF deaf
  <2>2. \E j \in deaf : \A k \in deaf : j <= k
    BY <2>1, LeastExists
  <2> QED
    BY <2>2
<1>3. \/ deaf = {} /\ todo' = <<>> /\ outcome' = "null" /\ UNCHANGED <<vals, odd>>
      \/ /\ deaf # {}
         /\ vals' = SubSeq(vals, 1, todo[i][2])
         /\ \/ todo[i][1] = "unchecked" /\ todo' = Returned(i) /\ odd' = odd \cup {"unchecked"}
            \/ /\ todo[i][1] = "statement"
               /\ todo' = <<Head(Returned(i)), FailQuietly>> \o Tail(Returned(i))
               /\ UNCHANGED odd
         /\ UNCHANGED outcome
  BY DEF Failing, Returned
<1> HIDE DEF deaf, i
<1> QED
  BY <1>2, <1>3 DEF Ended, Unnoticed, Noticed

Marked == /\ Len(todo') >= 2 /\ todo'[1][1] = "expect" /\ todo'[2] = FailQuietly

(* The stack it returns to.                                                *)
LEMMA ReturnedIs ==
    ASSUME Stacked(todo), NEW n \in 1 .. Len(todo), todo[n][1] \in {"unchecked", "statement"}
    PROVE  /\ AllItems(Returned(n)) /\ Len(Returned(n)) = Len(todo) - n
           /\ \A j \in 1 .. Len(todo) - n : Returned(n)[j] = todo[n + j]
           /\ todo[n][1] = "statement" => /\ Returned(n) # <<>> /\ Returned(n)[1][1] = "expect"
                                          /\ IsItem(Returned(n)[1])
<1>1. IsSeq(todo) /\ Len(todo) \in Nat /\ ItemsFrom(3, todo)
  BY SequencesAre DEF Stacked, ItemsFrom
<1>2. todo[n] # FailQuietly /\ todo[n] # Skip /\ ~IsHead(todo[n])
  <2>1. FailQuietly[1] = "fail" /\ Skip[1] = "skip"
    BY DEF FailQuietly, Skip
  <2> QED
    BY <2>1 DEF IsHead, RuneKind
<1>3. ItemsFrom(n + 1, todo)
  <2>1. CASE n >= 2
    BY <1>1, <2>1 DEF ItemsFrom
  <2>2. CASE n = 1
    <3>1. Len(todo) >= 2 => SecondFits(todo)
      BY DEF Stacked
    <3>2. Len(todo) >= 2 => Fits(todo, 2)
      BY <1>2, <2>2, <3>1 DEF SecondFits
    <3> QED
      BY <1>1, <2>2, <3>2 DEF ItemsFrom
  <2> QED
    BY <2>1, <2>2
<1>4. AllItems(Returned(n))
  BY <1>3, Suffix DEF Returned
<1>5. Len(Returned(n)) = Len(todo) - n /\ \A j \in 1 .. Len(todo) - n : Returned(n)[j] = todo[n + j]
  <2>1. PICK S : todo \in Seq(S)
    BY <1>1 DEF IsSeq
  <2>2. n + 1 \in 1 .. Len(todo) + 1 /\ Len(todo) \in n .. Len(todo)
    BY <1>1
  <2> DEFINE m == n + 1
  <2>3. m \in 1 .. Len(todo) + 1 /\ Len(todo) \in m - 1 .. Len(todo)
    BY <1>1
  <2> HIDE DEF m
  <2>4. /\ Len(SubSeq(todo, m, Len(todo))) = Len(todo) - m + 1
        /\ \A j \in 1 .. Len(todo) - m + 1 : SubSeq(todo, m, Len(todo))[j] = todo[m + j - 1]
    BY <2>1, <2>3, SubSeqProperties
  <2>5. m = n + 1 /\ Returned(n) = SubSeq(todo, m, Len(todo)) /\ \A j \in Int : m + j - 1 = n + j
    BY <1>1 DEF m, Returned
  <2>6. Len(todo) - m + 1 = Len(todo) - n
    BY <1>1, <2>5
  <2>7. ASSUME NEW j \in 1 .. Len(todo) - n PROVE Returned(n)[j] = todo[n + j]
    <3>1. m + j - 1 = n + j /\ j \in 1 .. Len(todo) - m + 1
      BY <1>1, <2>5, <2>6
    <3> QED
      BY <2>4, <2>5, <3>1
  <2> QED
    BY <2>4, <2>5, <2>6, <2>7
<1>6. todo[n][1] = "statement" => n < Len(todo) /\ todo[n + 1][1] = "expect"
  <2>1. Fits(todo, n)
    <3>1. CASE n = 1
      BY <1>1, <1>2, <3>1 DEF Stacked, HeadFits
    <3>2. CASE n = 2
      <4>1. ~IsEntry(todo[2])
        <5>1. ReadText[1] = "read" /\ <<"close", TRUE, RBRACE>>[1] = "close"
          BY DEF ReadText
        <5> QED
          BY <3>2, <5>1 DEF IsEntry
      <4>2. SecondFits(todo)
        BY <1>1, <3>2 DEF Stacked
      <4> QED
        BY <1>2, <3>2, <4>1, <4>2 DEF SecondFits
    <3>3. CASE n >= 3
      BY <1>1, <3>3 DEF ItemsFrom
    <3> QED
      BY <1>1, <3>1, <3>2, <3>3
  <2>2. todo[n][1] = "statement" => ~IsItem(todo[n])
    BY DEF IsItem
  <2> QED
    BY <2>1, <2>2 DEF Fits
<1>7. ASSUME todo[n][1] = "statement"
      PROVE  /\ Returned(n) # <<>> /\ Returned(n)[1][1] = "expect"
             /\ IsItem(Returned(n)[1])
  <2>1. 1 \in 1 .. Len(todo) - n
    BY <1>1, <1>6, <1>7
  <2>2. Returned(n)[1][1] = "expect" /\ Len(Returned(n)) >= 1
    BY <1>1, <1>5, <1>6, <1>7, <2>1
  <2>3. Fits(Returned(n), 1)
    BY <1>4, <1>5, <2>1 DEF AllItems, ItemsFrom
  <2> QED
    BY <2>2, <2>3, SequencesAre DEF Fits
<1> QED
  BY <1>4, <1>5, <1>7

(* A null node leaves a stack that is Stacked.                             *)
LEMMA FailingStacks ==
    ASSUME NEW x, Failing(x), Stacked(todo)
    PROVE  /\ Stacked(todo')
           /\ todo' # <<>> => ~IsHead(todo'[1])
           /\ odd' = odd \/ odd' = odd \cup {"unchecked"}
           /\ Ended \/ "unchecked" \in odd' \/ (UNCHANGED <<odd, outcome>> /\ Marked)
<1>1. CASE Ended
  BY <1>1, AllFromSecond DEF Ended
<1>2. ASSUME NEW n \in 1 .. Len(todo), Unnoticed(n)
      PROVE  /\ Stacked(todo') /\ (todo' # <<>> => ~IsHead(todo'[1]))
             /\ odd' = odd \cup {"unchecked"}
  <2>1. AllItems(Returned(n))
    BY <1>2, ReturnedIs DEF Unnoticed
  <2>2. Stacked(Returned(n))
    BY <2>1, GrownAre DEF Grows
  <2>3. Returned(n) # <<>> => Fits(Returned(n), 1)
    BY <2>1, SequencesAre DEF AllItems, ItemsFrom
  <2> QED
    BY <1>2, <2>2, <2>3, KindsAreNoRunes DEF Unnoticed, IsHead
<1>3. ASSUME NEW n \in 1 .. Len(todo), Noticed(n)
      PROVE  /\ Stacked(todo') /\ ~IsHead(todo'[1]) /\ odd' = odd /\ Marked
  <2> DEFINE r == Returned(n)
             h == Head(r)
             g == <<h, FailQuietly>>
             t == Tail(r)
  <2>1. AllItems(r) /\ r # <<>> /\ r[1][1] = "expect" /\ IsItem(r[1])
    BY <1>3, ReturnedIs DEF Noticed
  <2>2. Stacked(r)
    BY <2>1, GrownAre DEF Grows
  <2> HIDE DEF r
  <2>3. h = r[1] /\ IsSeq(r)
    BY <2>1, SequencesAre DEF AllItems, ItemsFrom
  <2>4. AllItems(t)
    <3>1. \A j \in 2 .. Len(r) : Fits(r, j)
      BY <2>1 DEF AllItems, ItemsFrom
    <3>2. IsSeq(t) /\ Len(t) = Len(r) - 1 /\ Len(r) \in Nat /\ \A j \in 1 .. Len(r) - 1 : t[j] = r[j + 1]
      BY <2>1, <2>3, SequencesAre
    <3> HIDE DEF t
    <3>3. ASSUME NEW j \in 1 .. Len(t) PROVE Fits(t, j)
      <4>1. Fits(r, j + 1) /\ t[j] = r[j + 1] /\ (j < Len(t) <=> j + 1 < Len(r))
            /\ (j < Len(t) => t[j + 1] = r[j + 1 + 1])
        BY <3>1, <3>2
      <4> QED
        BY <4>1 DEF Fits
    <3> QED
      BY <3>2, <3>3 DEF AllItems, ItemsFrom
  <2>5. IsSeq(g) /\ Len(g) = 2 /\ g[1] = h /\ g[2] = FailQuietly
    <3>1. g \in Seq({h, FailQuietly})
      OBVIOUS
    <3> QED
      BY <3>1 DEF IsSeq
  <2>6. todo' = g \o t
    BY <1>3 DEF Noticed, r
  <2> HIDE DEF h, g, t
  <2>7. Stacked(g)
    BY <2>1, <2>3, <2>5 DEF Stacked, ItemsFrom, HeadFits, SecondFits, Fits
  <2>8. Stacked(g \o t)
    BY <2>4, <2>7, Pushed
  <2>9. Len(g \o t) >= 2 /\ (g \o t)[1] = h /\ (g \o t)[2] = FailQuietly
    <3>1. Len(g \o t) = Len(g) + Len(t) /\ (\A j \in 1 .. Len(g) : (g \o t)[j] = g[j]) /\ Len(t) \in Nat
      <4>1. IsSeq(g) /\ IsSeq(t)
        BY <2>4, <2>5 DEF AllItems, ItemsFrom
      <4> QED
        BY <4>1, Joined, SequencesAre
    <3> QED
      BY <2>5, <3>1
  <2>10. ~IsHead(h)
    BY <2>1, <2>3 DEF IsHead, RuneKind
  <2> QED
    BY <1>3, <2>1, <2>3, <2>6, <2>8, <2>9, <2>10 DEF Noticed, Marked
<1> QED
  <2>1. Ended => odd' = odd /\ todo' = <<>>
    BY DEF Ended
  <2>2. \A n : Noticed(n) => UNCHANGED <<odd, outcome>>
    BY DEF Noticed
  <2> QED
    BY <1>1, <1>2, <1>3, <2>1, <2>2, FailingIs

(* TEXT *)

Texts == {"text", "comment"}
Firsts == {"shebang", "shebang!", "shebang_line"}

(* The runes of the text come before the one that is looked at: the one    *)
(* that was read last as text, the point behind a number, or the next.     *)
Mark == IF todo # <<>> /\ todo[1][1] \in Texts THEN todo[1][2]
        ELSE IF lex.at = "point" THEN lex.n ELSE Here
Rising(s, m) == /\ \A i \in 1 .. Len(s) - 1 : s[i] < s[i + 1]
                /\ \A i \in 1 .. Len(s) : s[i] < m

(* Text is being read, or is about to be.                                  *)
InText == todo # <<>> /\ IsHead(todo[1]) /\ ~(todo[1][1] = "close" /\ todo[1][2] = FALSE)

TokenInv ==
    /\ IsSeq(tokens) /\ Len(tokens) <= 1
    /\ lex # Idle => tokens = <<>> /\ outcome = "running" /\ todo # <<>> /\ ~IsHead(todo[1])
    /\ InText /\ "unterminated" \notin odd => tokens = <<>>

LastRead == "swapped" \notin odd /\ todo # <<>> =>
    /\ todo[1][1] \in Texts => /\ todo[1][2] \in 1 .. Len(source) + 1
                               /\ Here = IF todo[1][2] = Len(source) + 1 THEN todo[1][2] ELSE todo[1][2] + 1
    /\ todo[1][1] = "shebang!" => todo[1][2] = Here - 1 /\ todo[1][2] \in 1 .. Len(source)

TextInv ==
    /\ LastRead
    /\ "swapped" \notin odd => text \in Seq(Nat)
    /\ todo # <<>> /\ todo[1][1] \in Firsts => text = <<>>
    /\ odd \cap {"swapped", "repeated"} = {} => Rising(text, Mark)

VerbatimInv == LexInv /\ OperatorInv /\ Stacked(todo) /\ TokenInv /\ TextInv

(* The text stays in order with one more rune.                             *)
LEMMA RisingGoesOn ==
    ASSUME NEW s \in Seq(Nat)
    PROVE  /\ \A m, n \in Int : Rising(s, m) /\ m <= n => Rising(s, n)
           /\ \A p \in Nat, m, n \in Int : Rising(s, m) /\ m <= p /\ p < n => Rising(s \o <<p>>, n)
           /\ \A p \in Nat : s \o <<p>> \in Seq(Nat)
           /\ \A m : Rising(<<>>, m)
<1>1. \A m, n \in Int : Rising(s, m) /\ m <= n => Rising(s, n)
  BY DEF Rising
<1>2. ASSUME NEW p \in Nat
      PROVE  /\ s \o <<p>> \in Seq(Nat) /\ Len(s \o <<p>>) = Len(s) + 1
             /\ \A i \in 1 .. Len(s) : (s \o <<p>>)[i] = s[i]
             /\ (s \o <<p>>)[Len(s) + 1] = p
  OBVIOUS
<1>3. ASSUME NEW p \in Nat, NEW m \in Int, NEW n \in Int, Rising(s, m), m <= p, p < n
      PROVE  Rising(s \o <<p>>, n)
  <2> DEFINE z == s \o <<p>>
  <2>1. z \in Seq(Nat) /\ Len(z) = Len(s) + 1 /\ (\A i \in 1 .. Len(s) : z[i] = s[i]) /\ z[Len(s) + 1] = p
    BY <1>2
  <2> HIDE DEF z
  <2>2. (\A i \in 1 .. Len(s) - 1 : s[i] < s[i + 1]) /\ (\A i \in 1 .. Len(s) : s[i] < m)
        /\ Len(s) \in Nat /\ (\A i \in 1 .. Len(s) : s[i] \in Nat)
    BY <1>3 DEF Rising
  <2>3. ASSUME NEW i \in 1 .. Len(z) - 1 PROVE z[i] < z[i + 1]
    <3>1. CASE i = Len(s)
      <4>1. z[i] = s[i] /\ z[i + 1] = p /\ s[i] < m /\ s[i] \in Nat
        BY <2>1, <2>2, <3>1
      <4> QED
        BY <1>3, <4>1
    <3>2. CASE i # Len(s)
      <4>1. i \in 1 .. Len(s) - 1 /\ i \in 1 .. Len(s) /\ i + 1 \in 1 .. Len(s)
        BY <2>1, <2>2, <3>2
      <4> QED
        BY <2>1, <2>2, <4>1
    <3> QED
      BY <3>1, <3>2
  <2>4. ASSUME NEW i \in 1 .. Len(z) PROVE z[i] < n
    <3>1. CASE i = Len(s) + 1
      BY <1>3, <2>1, <3>1
    <3>2. CASE i # Len(s) + 1
      <4>1. i \in 1 .. Len(s)
        BY <2>1, <2>2, <3>2
      <4>2. z[i] = s[i] /\ s[i] < m /\ s[i] \in Nat
        BY <2>1, <2>2, <4>1
      <4> QED
        BY <1>3, <4>2
    <3> QED
      BY <3>1, <3>2
  <2>5. Rising(z, n)
    BY <2>3, <2>4 DEF Rising
  <2> QED
    BY <2>5 DEF z
<1>4. \A m : Rising(<<>>, m)
  BY DEF Rising
<1> QED
  BY <1>1, <1>2, <1>3, <1>4

(* Where the text ends is not behind the next rune.                        *)
LEMMA MarkIsThere ==
    ASSUME LexInv, LastRead, "swapped" \notin odd
    PROVE  Mark \in Nat /\ Here \in Nat /\ Mark <= Here
<1>1. Here \in 1 .. Len(source) + 1 /\ Len(source) \in Nat
  BY RuneIsHere
<1>2. CASE todo # <<>> /\ todo[1][1] \in Texts
  <2> DEFINE p == todo[1][2]
  <2>1. p \in 1 .. Len(source) + 1 /\ Here = IF p = Len(source) + 1 THEN p ELSE p + 1
    BY <1>2 DEF LastRead
  <2>2. Mark = p
    BY <1>2 DEF Mark
  <2> HIDE DEF p
  <2> QED
    BY <1>1, <2>1, <2>2
<1>3. CASE ~(todo # <<>> /\ todo[1][1] \in Texts)
  BY <1>1, <1>3 DEF Mark, LexInv
<1> QED
  BY <1>2, <1>3

(* Steps that leave the runes alone and read no text.                      *)
Elsewhere(s) == s # <<>> => s[1][1] \notin Texts \cup Firsts

(* A step that reads no rune and delivers nothing keeps the text.          *)
LEMMA QuietStep ==
    ASSUME VerbatimInv, UNCHANGED <<source, pos, runes, text>>, lex = Idle, lex' = Idle \/ lex' = Start,
           odd' = odd \/ odd' = odd \cup {"unchecked"}, Elsewhere(todo), Elsewhere(todo')
    PROVE  LexInv' /\ OperatorInv' /\ TextInv' /\ Order /\ ("unterminated" \in odd => "unterminated" \in odd')
<1>1. Order
  BY DEF Order, InLine, Stay
<1>2. LexInv'
  BY <1>1, OrderKeepsLex DEF VerbatimInv
<1>3. OperatorInv'
  <2>1. Idle.at # "operator" /\ Start.at # "operator" /\ Idle.at # "point" /\ Start.at # "point"
    BY DEF Idle, Start
  <2> QED
    BY <2>1 DEF OperatorInv
<1>4. Mark = Here /\ Mark' = Here /\ Here' = Here
  <2>1. Idle.at # "operator" /\ Start.at # "operator" /\ Idle.at # "point" /\ Start.at # "point"
    BY DEF Idle, Start
  <2>2. Here' = Here
    BY DEF Here
  <2> QED
    BY <2>1, <2>2 DEF Mark, Elsewhere
<1>5. LastRead'
  BY DEF LastRead, Elsewhere, Firsts
<1>6. odd' \cap {"swapped", "repeated"} = {} => odd \cap {"swapped", "repeated"} = {}
  OBVIOUS
<1>7. TextInv'
  BY <1>4, <1>5, <1>6 DEF TextInv, VerbatimInv, Elsewhere
<1> QED
  BY <1>1, <1>2, <1>3, <1>7

(* A step of the lexer.                                                    *)
LEMMA TokenStep ==
    ASSUME VerbatimInv, ReadToken, lex # Idle, UNCHANGED <<source, parserVars>>
    PROVE  VerbatimInv' /\ Order
<1>1. LexInv' /\ Order
  BY TokenKeepsLex DEF VerbatimInv
<1>2. TokenRead
  BY TokenReads DEF VerbatimInv
<1>3. UNCHANGED <<source, todo, vals, built, text, taken, outcome>>
  BY DEF parserVars
<1>4. tokens = <<>> /\ outcome = "running" /\ todo # <<>> /\ ~IsHead(todo[1])
  BY DEF VerbatimInv, TokenInv
<1>5. TokenInv'
  <2>1. CASE NoToken
    BY <1>3, <1>4, <2>1, SequencesAre DEF NoToken, TokenInv, InText
  <2>2. ASSUME NEW k, NewToken(k) PROVE TokenInv'
    <3>1. lex' = Idle /\ tokens' = <<k>>
      BY <1>4, <2>2 DEF NewToken
    <3> QED
      BY <1>3, <1>4, <3>1, SequencesAre DEF TokenInv, InText
  <2> QED
    BY <1>2, <2>1, <2>2 DEF TokenRead
<1>6. todo[1][1] \notin Texts /\ todo[1][1] # "shebang!" /\ todo[1][1] \notin Firsts
  BY <1>4 DEF IsHead, RuneKind, Texts, Firsts
<1>7. LastRead'
  BY <1>3, <1>6 DEF LastRead
<1>8. ASSUME odd' \cap {"swapped", "repeated"} = {} PROVE Rising(text', Mark')
  <2>1. "swapped" \notin odd' /\ "repeated" \notin odd'
    BY <1>8
  <2>2. Moves /\ Lexes
    BY TokenMoves DEF VerbatimInv
  <2>3. InOrder \/ ToPoint
    BY <2>1, <2>2 DEF Moves
  <2>4. odd' = odd
    BY <2>3 DEF InOrder, ToPoint
  <2>5. Rising(text, Mark)
    BY <1>8, <2>4 DEF VerbatimInv, TextInv
  <2>6. Mark = (IF lex.at = "point" THEN lex.n ELSE Here) /\ Mark' = (IF lex'.at = "point" THEN lex'.n ELSE Here')
    BY <1>3, <1>6 DEF Mark
  <2>7. /\ Reads => Here' = (IF Here = Len(source) + 1 THEN Here ELSE Here + 1)
        /\ (Stay \/ Peeks1 \/ Unread) => Here' = Here
        /\ ~InLine => Here' = Here - 1
    BY <1>1, <2>1, <1>3, Ordered DEF VerbatimInv
  <2>8. Here \in Nat /\ Len(source) \in Nat /\ Here >= 1 /\ Here <= Len(source) + 1
    BY <2>1, <2>4, RuneIsHere DEF VerbatimInv
  <2>9. lex.at = "point" => lex.n = Here - 1
    BY <2>1, <2>4 DEF VerbatimInv, LexInv
  <2>10. Mark' \in Int /\ Mark \in Int /\ Mark <= Mark'
    <3>1. lex'.at = "point" => lex'.n = Here
      BY <2>2 DEF Lexes
    <3>2. ToPoint => lex.at = "point"
      BY DEF ToPoint
    <3>3. InOrder => InLine
      BY DEF InOrder, InLine
    <3>4. Here' \in Int /\ (Here' = Here - 1 \/ Here' = Here \/ Here' = Here + 1)
      BY <2>7, <2>8 DEF InLine
    <3>5. InLine => Here <= Here'
      BY <2>7, <2>8 DEF InLine
    <3> QED
      BY <2>3, <2>6, <2>8, <2>9, <3>1, <3>2, <3>3, <3>4, <3>5
  <2>11. text \in Seq(Nat)
    BY <2>1, <2>4 DEF VerbatimInv, TextInv
  <2> QED
    BY <1>3, <2>5, <2>10, <2>11, RisingGoesOn
<1>9. TextInv'
  BY <1>1, <1>3, <1>6, <1>7, <1>8 DEF TextInv, VerbatimInv, Order
<1>10. OperatorInv' /\ Stacked(todo)'
  BY <1>2, <1>3 DEF TokenRead, VerbatimInv
<1> QED
  BY <1>1, <1>5, <1>9, <1>10 DEF VerbatimInv

(* What stays as it was, or what a failure adds.                           *)
OddAsEver == odd' = odd \/ odd' = odd \cup {"unchecked"}

(* The same with the other parts of the invariant.                         *)
LEMMA QuietKeeps ==
    ASSUME VerbatimInv, UNCHANGED <<source, pos, runes, text>>, lex = Idle, lex' = Idle,
           OddAsEver, Elsewhere(todo), Elsewhere(todo'), Stacked(todo'), IsSeq(tokens'), Len(tokens') <= 1,
           (todo' # <<>> /\ IsHead(todo'[1]) => ~InText' \/ tokens' = <<>>)
    PROVE  VerbatimInv' /\ Order
<1>1. LexInv' /\ OperatorInv' /\ TextInv' /\ Order
  BY QuietStep DEF OddAsEver
<1>2. TokenInv'
  BY DEF TokenInv, InText
<1>3. Stacked(todo)'
  OBVIOUS
<1> QED
  BY <1>1, <1>2, <1>3 DEF VerbatimInv

(* A stack whose head reads no runes is neither at text nor at the first   *)
(* line.                                                                   *)
LEMMA NoHead ==
    ASSUME NEW s, s # <<>> => ~IsHead(s[1])
    PROVE  Elsewhere(s)
BY DEF Elsewhere, IsHead, RuneKind, Texts, Firsts

(* What may stand behind the end of a block of text.                       *)
LEMMA EntriesAre ==
    \A e : IsEntry(e) => e[1] \in {"read", "close"}
<1>1. ReadText[1] = "read" /\ <<"close", TRUE, RBRACE>>[1] = "close"
  BY DEF ReadText
<1> SUFFICES ASSUME NEW e, IsEntry(e) PROVE e[1] \in {"read", "close"}
  OBVIOUS
<1>2. e = ReadText \/ e = <<"close", TRUE, RBRACE>>
  BY DEF IsEntry
<1> QED
  BY <1>1, <1>2

(* The item at the head of the stack, and what stands behind it.           *)
LEMMA NextHead ==
    ASSUME Stacked(todo), todo # <<>>
    PROVE  /\ Stacked(Tail(todo)) /\ Head(todo) = todo[1]
           /\ todo[1] # Skip /\ todo[1][1] # "expect" => AllItems(Tail(todo))
           /\ todo[1] # Skip /\ Tail(todo) # <<>> => ~IsHead(Tail(todo)[1])
           /\ Elsewhere(Tail(todo))
<1>1. /\ Stacked(Tail(todo)) /\ IsSeq(todo) /\ Head(todo) = todo[1]
      /\ todo[1] # Skip /\ todo[1][1] # "expect" => AllItems(Tail(todo))
      /\ todo[1][1] = "expect" => (Tail(todo) # <<>> => ~IsHead(Tail(todo)[1]))
  BY Popped
<1>2. ASSUME todo[1] # Skip, Tail(todo) # <<>> PROVE ~IsHead(Tail(todo)[1])
  <2>1. CASE todo[1][1] = "expect"
    BY <1>1, <1>2, <2>1
  <2>2. CASE todo[1][1] # "expect"
    <3>1. AllItems(Tail(todo)) /\ Len(Tail(todo)) \in Nat /\ Len(Tail(todo)) >= 1
      BY <1>1, <1>2, <2>2, SequencesAre DEF AllItems, ItemsFrom
    <3>2. Fits(Tail(todo), 1)
      BY <3>1 DEF AllItems, ItemsFrom
    <3> QED
      BY <3>2, KindsAreNoRunes DEF IsHead
  <2> QED
    BY <2>1, <2>2
<1>3. ASSUME todo[1] = Skip, Tail(todo) # <<>> PROVE Tail(todo)[1][1] \notin Texts \cup Firsts
  <2>1. Len(todo) >= 2 /\ Tail(todo)[1] = todo[2]
    <3>1. IsSeq(Tail(todo)) /\ Len(Tail(todo)) = Len(todo) - 1 /\ Len(todo) \in Nat
          /\ \A j \in 1 .. Len(todo) - 1 : Tail(todo)[j] = todo[j + 1]
      BY <1>1, SequencesAre
    <3>2. Len(Tail(todo)) >= 1
      BY <1>3, <3>1, SequencesAre
    <3>3. 1 \in 1 .. Len(todo) - 1 /\ 1 + 1 = 2
      BY <3>1, <3>2
    <3> QED
      BY <3>1, <3>3
  <2>2. Fits(todo, 2) \/ IsEntry(todo[2]) \/ todo[2] = FailQuietly
    BY <2>1 DEF Stacked, SecondFits
  <2>3. FailQuietly[1] = "fail"
    BY DEF FailQuietly
  <2>4. Fits(todo, 2) => todo[2][1] \notin Texts \cup Firsts
    BY KindsAreNoRunes DEF Texts, Firsts, RuneKind
  <2>5. IsEntry(todo[2]) => todo[2][1] \notin Texts \cup Firsts
    BY EntriesAre DEF Texts, Firsts
  <2> QED
    BY <2>1, <2>2, <2>3, <2>4, <2>5 DEF Texts, Firsts
<1> QED
  BY <1>1, <1>2, <1>3, NoHead DEF Elsewhere

(* At most one token waits.                                                *)
LEMMA TokensAre ==
    ASSUME VerbatimInv
    PROVE  /\ IsSeq(tokens) /\ Len(tokens) <= 1 /\ IsSeq(<<>>) /\ Len(<<>>) <= 1
           /\ tokens # <<>> => Tail(tokens) = <<>>
<1>1. IsSeq(tokens) /\ Len(tokens) <= 1
  BY DEF VerbatimInv, TokenInv
<1>2. ASSUME tokens # <<>> PROVE Tail(tokens) = <<>>
  <2>1. PICK S : tokens \in Seq(S)
    BY <1>1 DEF IsSeq
  <2> QED
    BY <1>1, <1>2, <2>1
<1> QED
  BY <1>1, <1>2, SequencesAre

(* PeekToken() begins to read a token.                                     *)
LEMMA PeekStarts ==
    ASSUME VerbatimInv, Peeks, tokens = <<>>, lex' = Start,
           UNCHANGED <<source, pos, runes, tokens, message, odd, parserVars>>
    PROVE  VerbatimInv' /\ Order
<1>1. UNCHANGED <<todo, text, outcome>>
  BY DEF parserVars
<1>2. lex = Idle /\ outcome = "running" /\ todo # <<>> /\ ~IsHead(todo[1])
  <2>1. IsSeq(todo)
    BY DEF VerbatimInv, Stacked, ItemsFrom
  <2> QED
    BY <2>1, SequencesAre DEF Peeks, IsHead
<1>3. Elsewhere(todo) /\ Elsewhere(todo')
  BY <1>1, <1>2, NoHead
<1>4. LexInv' /\ OperatorInv' /\ TextInv' /\ Order
  BY <1>1, <1>2, <1>3, QuietStep
<1>5. TokenInv'
  BY <1>1, <1>2, SequencesAre DEF TokenInv, InText
<1>6. Stacked(todo)'
  BY <1>1 DEF VerbatimInv
<1> QED
  BY <1>4, <1>5, <1>6 DEF VerbatimInv

(* expect_token() keeps the invariant.                                     *)
LEMMA ExpectKeeps ==
    ASSUME VerbatimInv, expect_token
    PROVE  VerbatimInv' /\ Order
<1>1. /\ lex = Idle /\ lex' = Idle /\ todo # <<>> /\ Head(todo)[1] = "expect" /\ tokens # <<>>
      /\ UNCHANGED <<source, pos, runes, text>> /\ tokens' = Tail(tokens)
      /\ \/ todo' = Tail(todo) /\ odd' = odd
         \/ Failing(Token # "error")
  BY DEF expect_token, Running, UseToken
<1>2. Stacked(todo)
  BY DEF VerbatimInv
<1>3. Head(todo) = todo[1]
  BY <1>1, <1>2, NextHead
<1>4. ~IsHead(todo[1]) /\ todo[1] # Skip
  <2>1. Skip[1] = "skip"
    BY DEF Skip
  <2> QED
    BY <1>1, <1>3, <2>1 DEF IsHead, RuneKind
<1>5. IsSeq(tokens') /\ Len(tokens') <= 1 /\ tokens' = <<>>
  BY <1>1, TokensAre
<1>6. CASE todo' = Tail(todo) /\ odd' = odd
  <2>1. Stacked(todo') /\ (todo' # <<>> => ~IsHead(todo'[1]))
    BY <1>1, <1>2, <1>4, <1>6, NextHead
  <2>2. OddAsEver /\ Elsewhere(todo) /\ Elsewhere(todo')
    BY <1>4, <1>6, <2>1, NoHead DEF OddAsEver
  <2> QED
    BY <1>1, <1>5, <2>1, <2>2, QuietKeeps
<1>7. CASE Failing(Token # "error")
  <2>1. Stacked(todo') /\ (todo' # <<>> => ~IsHead(todo'[1])) /\ OddAsEver
    BY <1>2, <1>7, FailingStacks DEF OddAsEver
  <2>2. Elsewhere(todo) /\ Elsewhere(todo')
    BY <1>4, <2>1, NoHead
  <2> QED
    BY <1>1, <1>5, <2>1, <2>2, QuietKeeps
<1> QED
  BY <1>1, <1>6, <1>7

(* Nothing in front of a stack.                                            *)
LEMMA EmptyJoins ==
    ASSUME NEW r, IsSeq(r)
    PROVE  <<>> \o r = r
<1>1. PICK S : r \in Seq(S)
  BY DEF IsSeq
<1> QED
  BY <1>1, ConcatEmptySeq

(* The head of a stack with something pushed.                              *)
LEMMA HeadIs ==
    ASSUME Stacked(todo), Peeks
    PROVE  /\ todo # <<>> /\ Head(todo) = todo[1] /\ ~IsHead(todo[1])
           /\ todo[1][1] \notin Instant
           /\ todo[1] = Skip \/ (IsItem(todo[1]) /\ todo[1] # Skip /\ todo[1][1] # "skip")
<1>1. todo # <<>> /\ IsSeq(todo) /\ Head(todo) = todo[1] /\ Len(todo) >= 1
  BY SequencesAre DEF Peeks, Stacked, ItemsFrom
<1>2. todo[1][1] \notin Instant \cup RuneKind
  BY <1>1 DEF Peeks
<1>3. Fits(todo, 1) \/ IsHead(todo[1]) \/ todo[1] = Skip \/ todo[1] = FailQuietly
  BY <1>1 DEF Stacked, HeadFits
<1>4. FailQuietly[1] = "fail" /\ Skip[1] = "skip"
  BY DEF FailQuietly, Skip
<1>5. Fits(todo, 1) \/ todo[1] = Skip
  BY <1>2, <1>3, <1>4 DEF IsHead, Instant
<1>6. Fits(todo, 1) => IsItem(todo[1])
  BY <1>2 DEF Fits, Instant
<1>7. IsItem(todo[1]) => todo[1][1] # "skip"
  BY DEF IsItem, Kinds, Plain, RuleNames, Others, Tokened, Instant
<1> QED
  BY <1>1, <1>2, <1>4, <1>5, <1>6, <1>7 DEF IsHead

(* Productions keep the invariant.                                         *)
LEMMA GrammarKeeps ==
    ASSUME VerbatimInv, Peeks, Head(todo)[1] \notin {"expect", "skip", "optional"}, tokens' = tokens,
           todo' = Grammar(Head(todo), Token) \o Tail(todo),
           lex' = lex, odd' = odd, UNCHANGED <<source, pos, runes, text>>
    PROVE  VerbatimInv' /\ Order
<1> DEFINE g == Grammar(Head(todo), Token)
           r == Tail(todo)
<1>1. Stacked(todo) /\ lex = Idle /\ lex' = Idle
  BY DEF VerbatimInv, Peeks
<1>2. todo # <<>> /\ Head(todo) = todo[1] /\ ~IsHead(todo[1]) /\ IsItem(todo[1]) /\ todo[1] # Skip
      /\ todo[1][1] \notin Instant /\ todo[1][1] # "expect"
  <2>1. Skip[1] = "skip"
    BY DEF Skip
  <2> QED
    BY <1>1, <2>1, HeadIs
<1>3. AllItems(r) /\ (r # <<>> => ~IsHead(r[1]))
  BY <1>1, <1>2, NextHead
<1>4. Head(todo)[1] \notin Instant \cup Tokened
  BY <1>2 DEF Tokened
<1>5. Stacked(g) /\ Closed(g)
  BY <1>2, <1>4, GrammarPushes DEF Pushes
<1> HIDE DEF g
<1>6. todo' = g \o r
  BY DEF g
<1> HIDE DEF r
<1>7. Stacked(g \o r)
  BY <1>3, <1>5, Pushed
<1>8. IsSeq(g) /\ IsSeq(r)
  BY <1>3, <1>5 DEF AllItems, ItemsFrom, Stacked
<1>9. todo' # <<>> /\ IsHead(todo'[1]) => todo'[1][1] = "close" /\ todo'[1][2] = FALSE
  <2>1. CASE g = <<>>
    BY <1>3, <1>6, <1>8, <2>1, EmptyJoins
  <2>2. CASE g # <<>>
    <3>1. Len(g) >= 1 /\ Len(g) \in Nat
      BY <1>8, <2>2, SequencesAre
    <3>2. (g \o r)[1] = g[1]
      BY <1>8, <3>1, Joined
    <3> QED
      BY <1>5, <1>6, <2>2, <3>2 DEF Closed
  <2> QED
    BY <2>1, <2>2
<1>10. Elsewhere(todo) /\ Elsewhere(todo')
  <2>1. todo' # <<>> => ~IsHead(todo'[1]) \/ todo'[1][1] = "close"
    BY <1>9
  <2>2. todo' # <<>> => todo'[1][1] \notin Texts \cup Firsts
    BY <2>1 DEF IsHead, RuneKind, Texts, Firsts
  <2> QED
    BY <1>2, <2>2, NoHead DEF Elsewhere
<1>11. ~InText'
  BY <1>9 DEF InText
<1>12. Stacked(todo')
  BY <1>6, <1>7
<1>13. OddAsEver /\ IsSeq(tokens') /\ Len(tokens') <= 1
  BY TokensAre DEF OddAsEver
<1> QED
  BY <1>1, <1>10, <1>11, <1>12, <1>13, QuietKeeps

(* So does leaving one that is done,                                       *)
LEMMA TailKeeps ==
    ASSUME VerbatimInv, lex = Idle, lex' = Idle, UNCHANGED <<source, pos, runes, text, odd>>,
           todo # <<>>, Elsewhere(todo), todo' = Tail(todo),
           tokens' = tokens \/ (tokens # <<>> /\ tokens' = Tail(tokens)),
           todo[1] = Skip => tokens # <<>> /\ tokens' = Tail(tokens)
    PROVE  VerbatimInv' /\ Order
<1>1. Stacked(todo)
  BY DEF VerbatimInv
<1>2. Stacked(todo') /\ Elsewhere(todo') /\ (todo[1] # Skip /\ todo' # <<>> => ~IsHead(todo'[1]))
  BY <1>1, NextHead
<1>3. OddAsEver /\ IsSeq(tokens') /\ Len(tokens') <= 1
  BY TokensAre DEF OddAsEver
<1>4. todo' # <<>> /\ IsHead(todo'[1]) => tokens' = <<>>
  BY <1>2, TokensAre
<1> QED
  BY <1>2, <1>3, <1>4, QuietKeeps

(* and what looks at a token,                                              *)
LEMMA ParseKeeps ==
    ASSUME VerbatimInv, Parse
    PROVE  VerbatimInv' /\ Order
<1>1. /\ Peeks /\ Head(todo)[1] # "expect" /\ tokens # <<>> /\ lex = Idle /\ lex' = lex
      /\ UNCHANGED <<source, pos, runes, text, odd>>
      /\ \/ Head(todo)[1] \in {"skip", "optional"} /\ todo' = <<>> \o Tail(todo)
         \/ Head(todo)[1] \notin {"skip", "optional"} /\ todo' = Grammar(Head(todo), Token) \o Tail(todo)
      /\ \/ tokens' = Tail(tokens)
         \/ Head(todo)[1] # "skip" /\ tokens' = tokens
      /\ Head(todo)[1] \notin {"skip", "optional"} => tokens' = tokens
  BY DEF Parse, Peeks, UseToken
<1>2. Stacked(todo)
  BY DEF VerbatimInv
<1>3. todo # <<>> /\ Head(todo) = todo[1] /\ ~IsHead(todo[1]) /\ Skip[1] = "skip"
  BY <1>1, <1>2, HeadIs DEF Skip
<1>4. CASE Head(todo)[1] \in {"skip", "optional"}
  <2>1. IsSeq(Tail(todo))
    BY <1>2, <1>3, NextHead DEF Stacked, ItemsFrom
  <2>2. todo' = Tail(todo)
    BY <1>1, <1>4, <2>1, EmptyJoins
  <2>3. Elsewhere(todo)
    BY <1>3, NoHead
  <2>4. todo[1] = Skip => tokens' = Tail(tokens)
    BY <1>1, <1>3
  <2> QED
    BY <1>1, <1>3, <2>2, <2>3, <2>4, TailKeeps
<1>5. CASE Head(todo)[1] \notin {"skip", "optional"}
  <2>1. Head(todo)[1] \notin {"expect", "skip", "optional"} /\ tokens' = tokens
        /\ todo' = Grammar(Head(todo), Token) \o Tail(todo)
    BY <1>1, <1>5
  <2> QED
    BY <1>1, <2>1, GrammarKeeps
<1> QED
  BY <1>4, <1>5

(* A step at an item that needs no token.                                  *)
LEMMA InstantKeeps ==
    ASSUME VerbatimInv, Running(Instant), (todo' = Tail(todo) /\ odd' = odd) \/ (\E x : Failing(x)),
           UNCHANGED <<source, pos, runes, tokens, lex, text>>
    PROVE  VerbatimInv' /\ Order
<1>1. Stacked(todo) /\ lex = Idle /\ lex' = Idle /\ todo # <<>> /\ Head(todo)[1] \in Instant
  BY DEF VerbatimInv, Running
<1>2. Head(todo) = todo[1]
  BY <1>1, NextHead
<1>3. ~IsHead(todo[1]) /\ todo[1] # Skip
  <2>1. Skip[1] = "skip"
    BY DEF Skip
  <2> QED
    BY <1>1, <1>2, <2>1 DEF IsHead, RuneKind, Instant
<1>4. Elsewhere(todo)
  BY <1>3, NoHead
<1>5. CASE todo' = Tail(todo) /\ odd' = odd
  BY <1>1, <1>3, <1>4, <1>5, TailKeeps
<1>6. ASSUME NEW x, Failing(x) PROVE VerbatimInv' /\ Order
  <2>1. Stacked(todo') /\ (todo' # <<>> => ~IsHead(todo'[1])) /\ OddAsEver
    BY <1>1, <1>6, FailingStacks DEF OddAsEver
  <2>2. Elsewhere(todo') /\ IsSeq(tokens') /\ Len(tokens') <= 1
    BY <2>1, NoHead, TokensAre
  <2> QED
    BY <1>1, <1>4, <2>1, <2>2, QuietKeeps
<1> QED
  BY <1>5, <1>6

(* and what looks at none,                                                 *)
LEMMA InstantsKeep ==
    ASSUME VerbatimInv, MakeNode \/ Overflow \/ Decide
    PROVE  VerbatimInv' /\ Order
<1>1. CASE MakeNode
  <2>1. Running(Instant) /\ todo' = Tail(todo) /\ UNCHANGED <<source, pos, runes, tokens, lex, text, odd>>
    BY <1>1 DEF MakeNode, Running, Instant, lexerVars
  <2> QED
    BY <2>1, InstantKeeps
<1>2. CASE Overflow
  <2>1. Running(Instant) /\ Failing(TRUE) /\ UNCHANGED <<source, pos, runes, tokens, lex, text>>
    BY <1>2 DEF Overflow, Running, Instant
  <2> QED
    BY <2>1, InstantKeeps
<1>3. CASE Decide
  <2>1. Running(Instant) /\ UNCHANGED <<source, pos, runes, tokens, lex, text>>
    BY <1>3 DEF Decide, Running, Instant
  <2>2. (todo' = Tail(todo) /\ odd' = odd) \/ Failing(Head(todo)[2]) \/ Failing(TRUE)
    BY <1>3 DEF Decide
  <2> QED
    BY <2>1, <2>2, InstantKeeps
<1> QED
  BY <1>1, <1>2, <1>3

(* and the end.                                                            *)
LEMMA ReturnKeeps ==
    ASSUME VerbatimInv, Return
    PROVE  VerbatimInv' /\ Order
<1>1. /\ UNCHANGED <<source, pos, runes, text, odd, tokens>> /\ lex = Idle /\ lex' = Idle
      /\ todo = <<>> /\ todo' = <<>>
  BY DEF Return, lexerVars
<1>2. Elsewhere(todo) /\ Elsewhere(todo') /\ OddAsEver /\ Stacked(todo')
  BY <1>1, AllFromSecond DEF Elsewhere, OddAsEver
<1> QED
  BY <1>1, <1>2, TokensAre, QuietKeeps

(* STEPS THAT READ TEXT *)

(* Where runes are read, a production that does so is at the head.         *)
LEMMA AtText ==
    ASSUME VerbatimInv, NEW K, K \subseteq RuneKind, Running(K)
    PROVE  /\ lex = Idle /\ todo # <<>> /\ Head(todo) = todo[1] /\ todo[1][1] \in K /\ IsHead(todo[1])
           /\ AllItems(Tail(todo)) /\ Stacked(todo)
<1>1. lex = Idle /\ todo # <<>> /\ Head(todo)[1] \in K /\ Stacked(todo)
  BY DEF Running, VerbatimInv
<1>2. Head(todo) = todo[1]
  BY <1>1, NextHead
<1>3. Skip[1] = "skip"
  BY DEF Skip
<1>4. todo[1][1] \in RuneKind
  BY <1>1, <1>2
<1>5. todo[1] # Skip /\ todo[1][1] # "expect"
  BY <1>3, <1>4 DEF RuneKind
<1> QED
  BY <1>1, <1>2, <1>4, <1>5, NextHead DEF IsHead

(* The head and the second of a stack with one item pushed.                *)
LEMMA HeadPushed ==
    ASSUME NEW h, IsHead(h), Reader(h), NEW r, AllItems(r)
    PROVE  /\ Stacked(<<h>> \o r) /\ <<h>> \o r # <<>> /\ (<<h>> \o r)[1] = h
           /\ Stacked(<<h>>)
<1> DEFINE g == <<h>>
<1>1. IsSeq(g) /\ Len(g) = 1 /\ g[1] = h
  BY SequencesAre
<1> HIDE DEF g
<1>2. Stacked(g)
  BY <1>1 DEF Stacked, HeadFits, SecondFits, ItemsFrom
<1>3. IsSeq(r) /\ Len(r) \in Nat
  BY SequencesAre DEF AllItems, ItemsFrom
<1>4. IsSeq(g \o r) /\ Len(g \o r) = Len(g) + Len(r) /\ \A j \in 1 .. Len(g) : (g \o r)[j] = g[j]
  BY <1>1, <1>3, Joined
<1>5. (g \o r)[1] = h /\ Len(g \o r) >= 1
  BY <1>1, <1>3, <1>4
<1>6. Stacked(g \o r)
  BY <1>2, Pushed
<1> QED
  BY <1>2, <1>5, <1>6, SequencesAre DEF g

Persists == /\ "unterminated" \in odd => "unterminated" \in odd'
            /\ "repeated" \in odd => "repeated" \in odd'

(* A step of text that stays in text.                                      *)
LEMMA TextKeeps ==
    ASSUME VerbatimInv, Order, UNCHANGED <<source, tokens>>, lex = Idle, lex' = Idle, Persists,
           Stacked(todo'), InText \/ "unterminated" \in odd' \/ ~InText', TextInv'
    PROVE  VerbatimInv' /\ Order
<1>1. LexInv'
  BY OrderKeepsLex DEF VerbatimInv
<1>2. OperatorInv'
  BY DEF OperatorInv, Idle
<1>3. TokenInv'
  BY DEF TokenInv, VerbatimInv, Persists
<1>4. Stacked(todo)'
  OBVIOUS
<1> QED
  BY <1>1, <1>2, <1>3, <1>4 DEF VerbatimInv

(* The next rune and the end of the text, before and after a step.         *)
LEMMA MarkMoves ==
    ASSUME VerbatimInv, Order, InLine, UNCHANGED source, "swapped" \notin odd'
    PROVE  /\ "swapped" \notin odd /\ text \in Seq(Nat) /\ Len(source) \in Nat
           /\ Mark \in Nat /\ Here \in 1 .. Len(source) + 1 /\ Mark <= Here
           /\ Here' \in Nat /\ Here <= Here'
           /\ Reads => Here' = (IF Here = Len(source) + 1 THEN Here ELSE Here + 1)
           /\ Rune # EOF <=> Here \in 1 .. Len(source)
<1>1. LexInv /\ TextInv
  BY DEF VerbatimInv
<1>2. /\ "swapped" \notin odd
      /\ Reads => Here' = (IF Here = Len(source) + 1 THEN Here ELSE Here + 1)
      /\ Stay \/ Peeks1 \/ Unread => Here' = Here
  BY <1>1, Ordered
<1>3. /\ Here \in 1 .. Len(source) + 1 /\ Len(source) \in Nat
      /\ Rune # EOF <=> Here \in 1 .. Len(source)
  BY <1>1, <1>2, RuneIsHere
<1>4. Mark \in Nat /\ Mark <= Here
  BY <1>1, <1>2, MarkIsThere DEF TextInv
<1>5. Here' \in Nat /\ Here <= Here'
  BY <1>2, <1>3 DEF InLine
<1> QED
  BY <1>1, <1>2, <1>3, <1>4, <1>5 DEF TextInv

(* The place of a text that is being read is the next rune.                *)
LEMMA MarkIsHere ==
    ASSUME lex' = Idle, Elsewhere(todo')
    PROVE  Mark' = Here'
<1>1. Idle.at # "point"
  BY DEF Idle
<1> QED
  BY <1>1 DEF Mark, Elsewhere

(* Nothing is added to the text, and no rune is looked at.                 *)
LEMMA TextRests ==
    ASSUME VerbatimInv, Order, InLine, UNCHANGED <<source, text>>, lex' = Idle, Persists, Elsewhere(todo')
    PROVE  TextInv'
<1>1. Mark' = Here'
  BY MarkIsHere
<1>2. LastRead'
  BY DEF LastRead, Elsewhere, Firsts
<1>3. ASSUME "swapped" \notin odd'
      PROVE  text' \in Seq(Nat) /\ ("repeated" \notin odd' => Rising(text', Mark'))
  <2>1. text \in Seq(Nat) /\ Mark \in Nat /\ Here \in Nat /\ Here' \in Nat /\ Mark <= Here' /\ "swapped" \notin odd
    BY <1>3, MarkMoves
  <2>2. "repeated" \notin odd' => Rising(text, Mark)
    BY <2>1 DEF VerbatimInv, TextInv, Persists
  <2>3. "repeated" \notin odd' => Rising(text, Here')
    BY <2>1, <2>2, RisingGoesOn
  <2> QED
    BY <1>1, <2>1, <2>3
<1> QED
  BY <1>2, <1>3 DEF TextInv, Elsewhere

(* A rune is looked at, and the one before it may have become text.        *)
LEMMA TextLooks ==
    ASSUME VerbatimInv, Order, Reads, UNCHANGED source, lex' = Idle, Persists,
           todo' # <<>>, NEW k \in Texts, todo'[1] = <<k, Here>>,
           \/ text' = text
           \/ todo # <<>> /\ todo[1][1] \in Texts /\ RuneAt(todo[1][2]) # EOF /\ text' = text \o <<todo[1][2]>>
           \/ "repeated" \in odd' /\ text' = text \o <<Here>>
    PROVE  TextInv'
<1>1. todo'[1][1] = k /\ todo'[1][2] = Here /\ k # "shebang!" /\ k \notin Firsts
  BY DEF Texts, Firsts
<1>2. Mark' = Here
  BY <1>1 DEF Mark
<1>3. ASSUME "swapped" \notin odd'
      PROVE  /\ text' \in Seq(Nat) /\ ("repeated" \notin odd' => Rising(text', Mark'))
             /\ Here \in 1 .. Len(source) + 1
             /\ Here' = (IF Here = Len(source) + 1 THEN Here ELSE Here + 1)
  <2>1. /\ "swapped" \notin odd /\ text \in Seq(Nat) /\ Len(source) \in Nat
        /\ Mark \in Nat /\ Here \in 1 .. Len(source) + 1 /\ Mark <= Here
        /\ Here' = (IF Here = Len(source) + 1 THEN Here ELSE Here + 1)
    BY <1>3, MarkMoves DEF InLine
  <2>2. "repeated" \notin odd' => Rising(text, Mark)
    BY <2>1 DEF VerbatimInv, TextInv, Persists
  <2>3. CASE text' = text
    <3>1. "repeated" \notin odd' => Rising(text, Here)
      BY <2>1, <2>2, RisingGoesOn
    <3> QED
      BY <1>2, <2>1, <2>3, <3>1
  <2>4. CASE todo # <<>> /\ todo[1][1] \in Texts /\ RuneAt(todo[1][2]) # EOF /\ text' = text \o <<todo[1][2]>>
    <3> DEFINE p == todo[1][2]
    <3>1. Mark = p
      BY <2>4 DEF Mark
    <3>2. p \in DOMAIN source /\ DOMAIN source = 1 .. Len(source)
      BY <2>4 DEF RuneAt, VerbatimInv, LexInv
    <3>3. Here = IF p = Len(source) + 1 THEN p ELSE p + 1
      BY <2>1, <2>4 DEF VerbatimInv, TextInv, LastRead
    <3>4. text' = text \o <<p>>
      BY <2>4
    <3> HIDE DEF p
    <3>5. p \in Nat /\ Mark <= p /\ p < Here
      BY <2>1, <3>1, <3>2, <3>3
    <3>6. "repeated" \notin odd' => Rising(text \o <<p>>, Here)
      BY <2>1, <2>2, <3>5, RisingGoesOn
    <3>7. text \o <<p>> \in Seq(Nat)
      BY <2>1, <3>5, RisingGoesOn
    <3> QED
      BY <1>2, <2>1, <3>4, <3>6, <3>7
  <2>5. CASE "repeated" \in odd' /\ text' = text \o <<Here>>
    <3>1. text \o <<Here>> \in Seq(Nat)
      BY <2>1, RisingGoesOn
    <3> QED
      BY <2>1, <2>5, <3>1
  <2> QED
    BY <2>3, <2>4, <2>5
<1>4. LastRead'
  BY <1>1, <1>3 DEF LastRead
<1> QED
  BY <1>1, <1>3, <1>4 DEF TextInv

(* The brace behind a backslash becomes text.                              *)
LEMMA TextHides ==
    ASSUME VerbatimInv, Order, Reads, Rune # EOF, UNCHANGED source, lex' = Idle, Persists, Elsewhere(todo'),
           text' = text \o <<Here>>
    PROVE  TextInv'
<1>1. Mark' = Here'
  BY MarkIsHere
<1>2. LastRead'
  BY DEF LastRead, Elsewhere, Firsts
<1>3. ASSUME "swapped" \notin odd'
      PROVE  text' \in Seq(Nat) /\ ("repeated" \notin odd' => Rising(text', Mark'))
  <2>1. /\ "swapped" \notin odd /\ text \in Seq(Nat) /\ Len(source) \in Nat
        /\ Mark \in Nat /\ Here \in 1 .. Len(source) /\ Mark <= Here
        /\ Here' = Here + 1
    <3>1. /\ "swapped" \notin odd /\ text \in Seq(Nat) /\ Len(source) \in Nat
          /\ Mark \in Nat /\ Here \in 1 .. Len(source) /\ Mark <= Here
          /\ Here' = (IF Here = Len(source) + 1 THEN Here ELSE Here + 1)
      BY <1>3, MarkMoves DEF InLine
    <3> QED
      BY <3>1
  <2>2. "repeated" \notin odd' => Rising(text, Mark)
    BY <2>1 DEF VerbatimInv, TextInv, Persists
  <2>3. Here \in Nat /\ Here < Here' /\ Here' \in Int
    BY <2>1
  <2>4. "repeated" \notin odd' => Rising(text \o <<Here>>, Here')
    BY <2>1, <2>2, <2>3, RisingGoesOn
  <2>5. text \o <<Here>> \in Seq(Nat)
    BY <2>1, <2>3, RisingGoesOn
  <2> QED
    BY <1>1, <2>4, <2>5
<1> QED
  BY <1>2, <1>3 DEF TextInv, Elsewhere

(* The state in which a rune of text is read.                              *)
Texting == /\ VerbatimInv /\ lex = Idle /\ lex' = Idle /\ UNCHANGED <<source, tokens>>
           /\ todo # <<>> /\ Head(todo) = todo[1] /\ AllItems(Tail(todo)) /\ Stacked(todo)

OddGrows == odd' = odd \/ (\E e : odd' = odd \cup {e})

(* Steps of text read in order.                                            *)
LEMMA ReadsAreOrder ==
    ASSUME Reads, OddGrows
    PROVE  Order /\ InLine /\ Persists
<1>1. Order /\ InLine
  BY DEF Order, InLine, Reads, OddGrows
<1>2. Persists
  BY DEF Persists, OddGrows
<1> QED
  BY <1>1, <1>2

(* A rune is read and looked at.                                           *)
LEMMA LooksKeep ==
    ASSUME Texting, InText, Reads, NEW k \in Texts, todo' = << <<k, Here>> >> \o Tail(todo),
           odd' = odd \/ odd' = odd \cup {"repeated"},
           \/ text' = text
           \/ todo[1][1] \in Texts /\ RuneAt(todo[1][2]) # EOF /\ text' = text \o <<todo[1][2]>>
           \/ odd' = odd \cup {"repeated"} /\ text' = text \o <<Here>>
    PROVE  VerbatimInv' /\ Order
<1> DEFINE h == <<k, Here>>
<1>1. IsHead(h) /\ Reader(h)
  BY DEF IsHead, Reader, Texts, RuneKind
<1>2. h[1] = k /\ h[2] = Here
  OBVIOUS
<1> HIDE DEF h
<1>3. Stacked(todo') /\ todo' # <<>> /\ todo'[1] = h
  BY <1>1, HeadPushed DEF Texting, h
<1>4. Order /\ InLine /\ Persists
  <2>1. OddGrows
    BY DEF OddGrows
  <2> QED
    BY <2>1, ReadsAreOrder
<1>5. TextInv'
  <2>1. todo'[1] = <<k, Here>>
    BY <1>3 DEF h
  <2>2. odd' = odd \cup {"repeated"} => "repeated" \in odd'
    OBVIOUS
  <2>3. VerbatimInv /\ UNCHANGED source /\ lex' = Idle /\ todo # <<>>
    BY DEF Texting
  <2>4. \/ text' = text
        \/ todo # <<>> /\ todo[1][1] \in Texts /\ RuneAt(todo[1][2]) # EOF /\ text' = text \o <<todo[1][2]>>
        \/ "repeated" \in odd' /\ text' = text \o <<Here>>
    BY <2>2, <2>3
  <2> QED
    BY <1>3, <1>4, <2>1, <2>3, <2>4, TextLooks
<1> QED
  BY <1>3, <1>4, <1>5, TextKeeps DEF Texting

(* The text rests, or a rune is hidden.                                    *)
LEMMA RestsKeep ==
    ASSUME Texting, Order, InLine, Persists, Stacked(todo'), Elsewhere(todo'),
           InText \/ "unterminated" \in odd' \/ ~InText',
           text' = text \/ (Reads /\ Rune # EOF /\ text' = text \o <<Here>>)
    PROVE  VerbatimInv' /\ Order
<1>1. TextInv'
  <2>1. VerbatimInv /\ UNCHANGED source /\ lex' = Idle
    BY DEF Texting
  <2>2. CASE text' = text
    BY <2>1, <2>2, TextRests
  <2>3. CASE Reads /\ Rune # EOF /\ text' = text \o <<Here>>
    BY <2>1, <2>3, TextHides
  <2> QED
    BY <2>2, <2>3
<1> QED
  BY <1>1, TextKeeps DEF Texting

(* A head that is no text.                                                 *)
LEMMA HeadRests ==
    ASSUME NEW h, h[1] \in {"read", "text_CR"}, Reader(h), NEW r, AllItems(r)
    PROVE  Stacked(<<h>> \o r) /\ Elsewhere(<<h>> \o r)
<1>1. IsHead(h)
  BY DEF IsHead, RuneKind
<1>2. Stacked(<<h>> \o r) /\ <<h>> \o r # <<>> /\ (<<h>> \o r)[1] = h
  BY <1>1, HeadPushed
<1> QED
  BY <1>2 DEF Elsewhere, Texts, Firsts

(* Text at the head.                                                       *)
LEMMA ReadHead ==
    /\ ReadText[1] = "read" /\ Reader(ReadText)
    /\ <<"read", "comment">>[1] = "read" /\ Reader(<<"read", "comment">>)
    /\ <<"text_CR">>[1] = "text_CR" /\ Reader(<<"text_CR">>)
BY DEF ReadText, Reader

(* The steps of parse_text_block(): braces,                                *)
LEMMA TextBraceKeeps ==
    ASSUME Texting, Running({"text"}), TextBrace
    PROVE  VerbatimInv' /\ Order
<1>1. todo[1][1] = "text" /\ InText /\ "text" \in Texts /\ "comment" \in Texts /\ c = RuneAt(todo[1][2])
  BY DEF Running, Texting, InText, IsHead, RuneKind, Texts, c
<1>2. Reads /\ odd' = odd /\ RuneAt(todo[1][2]) # EOF
  <2>1. ReadRune /\ c = LBRACE
    BY DEF TextBrace, TextGoesOn
  <2>2. LBRACE # EOF
    BY DEF LBRACE, EOF
  <2> QED
    BY <1>1, <2>1, <2>2 DEF ReadRune, Reads
<1>3. Order /\ InLine /\ Persists
  BY <1>2, ReadsAreOrder DEF OddGrows
<1>4. AllItems(Tail(todo))
  BY DEF Texting
<1>5. CASE Rune = "%" /\ TextGoesOn(<<>>) /\ UNCHANGED text
  <2>1. todo' = Tail(todo)
    <3>1. todo' = <<>> \o Tail(todo) /\ IsSeq(Tail(todo))
      BY <1>4, <1>5 DEF TextGoesOn, AllItems, ItemsFrom
    <3> QED
      BY <3>1, EmptyJoins
  <2>2. Stacked(todo') /\ Elsewhere(todo')
    BY <2>1, NextHead DEF Texting
  <2> QED
    BY <1>1, <1>3, <1>5, <2>2, RestsKeep
<1>6. ASSUME NEW m, TextGoesOn(<< <<"expr">>, Drop, <<"close_tag", m>> >>), UNCHANGED text
      PROVE  VerbatimInv' /\ Order
  <2> DEFINE g == << <<"expr">>, Drop, <<"close_tag", m>> >>
  <2>1. IsItem(<<"expr">>) /\ IsItem(Drop) /\ IsItem(<<"close_tag", m>>)
    BY PlainAre, ItemsAre
  <2>2. AllItems(g)
    BY <2>1, Tuples, AllFromSecond
  <2> HIDE DEF g
  <2>3. todo' = g \o Tail(todo)
    BY <1>6 DEF TextGoesOn, g
  <2>4. AllItems(g \o Tail(todo))
    BY <1>4, <2>2, ItemsJoin DEF AllItems
  <2>5. Stacked(todo') /\ (todo' # <<>> => ~IsHead(todo'[1]))
    <3>1. Stacked(todo')
      BY <2>3, <2>4, GrownAre DEF Grows
    <3>2. todo' # <<>> => Fits(todo', 1)
      BY <2>3, <2>4, SequencesAre DEF AllItems, ItemsFrom
    <3> QED
      BY <3>1, <3>2, KindsAreNoRunes DEF IsHead
  <2> QED
    BY <1>1, <1>3, <1>6, <2>5, NoHead, RestsKeep
<1>7. CASE TextGoesOn(<< <<"read", "comment">> >>) /\ UNCHANGED text
  <2>1. todo' = << <<"read", "comment">> >> \o Tail(todo) /\ <<"read", "comment">>[1] = "read"
    BY <1>7 DEF TextGoesOn
  <2>2. Stacked(todo') /\ Elsewhere(todo')
    BY <1>4, <2>1, ReadHead, HeadRests
  <2> QED
    BY <1>1, <1>3, <1>7, <2>2, RestsKeep
<1>8. CASE TextGoesOn(<< <<"text", Here>> >>) /\ Write(<<Head(todo)[2]>>)
  <2>1. todo' = << <<"text", Here>> >> \o Tail(todo) /\ text' = text \o <<todo[1][2]>>
    BY <1>8 DEF TextGoesOn, Write, Texting
  <2> QED
    BY <1>1, <1>2, <2>1, LooksKeep
<1> QED
  BY <1>5, <1>6, <1>7, <1>8 DEF TextBrace

(* backslashes,                                                            *)
LEMMA TextBackslashKeeps ==
    ASSUME Texting, Running({"text"}), TextBackslash
    PROVE  VerbatimInv' /\ Order
<1>1. todo[1][1] = "text" /\ InText /\ "text" \in Texts /\ c = RuneAt(todo[1][2])
  BY DEF Running, Texting, InText, IsHead, RuneKind, Texts, c
<1>2. Reads /\ odd' = odd /\ RuneAt(todo[1][2]) # EOF
  <2>1. ReadRune /\ c = "\\"
    BY DEF TextBackslash, TextGoesOn
  <2>2. "\\" # EOF
    BY DEF EOF
  <2> QED
    BY <1>1, <2>1, <2>2 DEF ReadRune, Reads
<1>3. Order /\ InLine /\ Persists
  BY <1>2, ReadsAreOrder DEF OddGrows
<1>4. AllItems(Tail(todo)) /\ <<"text_CR">>[1] = "text_CR" /\ ReadText[1] = "read"
        /\ Reader(<<"text_CR">>) /\ Reader(ReadText)
  BY ReadHead DEF Texting
<1>5. CASE TextGoesOn(<< <<"text_CR">> >>) /\ UNCHANGED text
  <2>1. Stacked(todo') /\ Elsewhere(todo')
    BY <1>4, <1>5, HeadRests DEF TextGoesOn
  <2> QED
    BY <1>1, <1>3, <1>5, <2>1, RestsKeep
<1>6. ASSUME TextGoesOn(<<ReadText>>), UNCHANGED text \/ (Rune = LBRACE /\ Write(<<Here>>))
      PROVE  VerbatimInv' /\ Order
  <2>1. Stacked(todo') /\ Elsewhere(todo')
    BY <1>4, <1>6, HeadRests DEF TextGoesOn
  <2>2. LBRACE # EOF
    BY DEF LBRACE, EOF
  <2>3. text' = text \/ (Reads /\ Rune # EOF /\ text' = text \o <<Here>>)
    BY <1>2, <1>6, <2>2 DEF Write
  <2> QED
    BY <1>1, <1>3, <2>1, <2>3, RestsKeep
<1>7. CASE TextGoesOn(<< <<"text", Here>> >>) /\ Write(<<Head(todo)[2]>>)
  <2>1. todo' = << <<"text", Here>> >> \o Tail(todo) /\ text' = text \o <<todo[1][2]>>
    BY <1>7 DEF TextGoesOn, Write, Texting
  <2> QED
    BY <1>1, <1>2, <2>1, LooksKeep
<1> QED
  <2>1. \/ TextGoesOn(<< <<"text_CR">> >>) /\ UNCHANGED text
        \/ TextGoesOn(<<ReadText>>) /\ UNCHANGED text
        \/ TextGoesOn(<<ReadText>>) /\ Rune = LBRACE /\ Write(<<Here>>)
        \/ TextGoesOn(<< <<"text", Here>> >>) /\ Write(<<Head(todo)[2]>>)
    BY DEF TextBackslash
  <2>2. CASE TextGoesOn(<< <<"text_CR">> >>) /\ UNCHANGED text
    BY <1>5, <2>2
  <2>3. CASE TextGoesOn(<<ReadText>>) /\ UNCHANGED text
    BY <1>6, <2>3
  <2>4. CASE TextGoesOn(<<ReadText>>) /\ Rune = LBRACE /\ Write(<<Here>>)
    BY <1>6, <2>4
  <2>5. CASE TextGoesOn(<< <<"text", Here>> >>) /\ Write(<<Head(todo)[2]>>)
    BY <1>7, <2>5
  <2> QED
    BY <2>1, <2>2, <2>3, <2>4, <2>5

(* (the production of text is at the head)                                 *)
LEMMA TextAt ==
    ASSUME Texting, NEW K, K \subseteq RuneKind, Running(K)
    PROVE  /\ todo[1][1] \in K
           /\ "close" \notin K => InText
BY DEF Running, Texting, InText, IsHead

(* any other rune,                                                         *)
LEMMA ReadTextRuneKeeps ==
    ASSUME Texting, ReadTextRune, todo[1][2] \in Texts
    PROVE  VerbatimInv' /\ Order
<1>1. Running({"read"}) /\ ReadRune /\ UNCHANGED text /\ todo' = << <<todo[1][2], Here>> >> \o Tail(todo)
  BY DEF ReadTextRune, TextGoesOn, Texting
<1>2. {"read"} \subseteq RuneKind /\ "close" \notin {"read"}
  BY DEF RuneKind
<1>3. InText
  BY <1>1, <1>2, TextAt
<1>4. Reads /\ odd' = odd
  BY <1>1 DEF ReadRune, Reads
<1> QED
  BY <1>1, <1>3, <1>4, LooksKeep

(* the rune behind a carriage return,                                      *)
LEMMA TextAfterCRKeeps ==
    ASSUME Texting, TextAfterCR
    PROVE  VerbatimInv' /\ Order
<1>1. /\ Running({"text_CR"}) /\ Reads /\ todo' = << <<"text", Here>> >> \o Tail(todo)
      /\ \/ UNCHANGED <<text, odd>>
         \/ odd' = odd \cup {"repeated"} /\ text' = text \o <<Here>>
  BY DEF TextAfterCR, Reads, Write
<1>2. {"text_CR"} \subseteq RuneKind /\ "close" \notin {"text_CR"} /\ "text" \in Texts
  BY DEF RuneKind, Texts
<1>3. InText
  BY <1>1, <1>2, TextAt
<1>4. CASE UNCHANGED <<text, odd>>
  <2>1. text' = text /\ odd' = odd
    BY <1>4
  <2> QED
    BY <1>1, <1>2, <1>3, <2>1, LooksKeep
<1>5. CASE odd' = odd \cup {"repeated"} /\ text' = text \o <<Here>>
  BY <1>1, <1>2, <1>3, <1>5, LooksKeep
<1> QED
  BY <1>1, <1>4, <1>5

(* (a step that moves no rune is in order)                                 *)
LEMMA StaysAreOrder ==
    ASSUME Stay, OddGrows
    PROVE  Order /\ InLine /\ Persists
<1>1. Order /\ InLine
  BY DEF Order, InLine, Stay, OddGrows
<1>2. Persists
  BY DEF Persists, OddGrows
<1> QED
  BY <1>1, <1>2

(* a rune that is output,                                                  *)
LEMMA TextRuneKeeps ==
    ASSUME Texting, TextRune
    PROVE  VerbatimInv' /\ Order
<1>1. Running({"text"}) /\ c = RuneAt(todo[1][2])
  BY DEF TextRune, c, Texting
<1>2. {"text"} \subseteq RuneKind /\ "close" \notin {"text"} /\ "text" \in Texts
  BY DEF RuneKind, Texts
<1>3. InText /\ todo[1][1] = "text"
  BY <1>1, <1>2, TextAt
<1>4. CASE todo' = SubSeq(todo, 3, Len(todo)) /\ UNCHANGED <<pos, runes, odd, text>>
  <2>1. AllItems(todo')
    <3>1. ItemsFrom(3, todo)
      BY DEF Texting, Stacked
    <3> QED
      BY <1>4, <3>1, Suffix
  <2>2. Stacked(todo') /\ (todo' # <<>> => ~IsHead(todo'[1]))
    <3>1. Stacked(todo')
      BY <2>1, GrownAre DEF Grows
    <3>2. todo' # <<>> => Fits(todo', 1)
      BY <2>1, SequencesAre DEF AllItems, ItemsFrom
    <3> QED
      BY <3>1, <3>2, KindsAreNoRunes DEF IsHead
  <2>3. Stay /\ odd' = odd /\ text' = text
    BY <1>4 DEF Stay
  <2>4. Order /\ InLine /\ Persists
    BY <2>3, StaysAreOrder DEF OddGrows
  <2> QED
    BY <1>3, <2>2, <2>3, <2>4, NoHead, RestsKeep
<1>5. CASE c # EOF /\ TextGoesOn(<< <<"text", Here>> >>) /\ Write(<<Head(todo)[2]>>)
  <2>1. todo' = << <<"text", Here>> >> \o Tail(todo) /\ text' = text \o <<todo[1][2]>> /\ Reads /\ odd' = odd
    BY <1>5 DEF TextGoesOn, Write, Texting, ReadRune, Reads
  <2>2. RuneAt(todo[1][2]) # EOF /\ todo[1][1] \in Texts
    BY <1>1, <1>2, <1>3, <1>5
  <2> QED
    BY <1>2, <1>3, <2>1, <2>2, LooksKeep
<1> QED
  <2>1. \/ todo' = SubSeq(todo, 3, Len(todo)) /\ UNCHANGED <<pos, runes, odd, text>>
        \/ c # EOF /\ TextGoesOn(<< <<"text", Here>> >>) /\ Write(<<Head(todo)[2]>>)
    BY DEF TextRune
  <2> QED
    BY <1>4, <1>5, <2>1

(* A failure in text.                                                      *)
LEMMA FailingInText ==
    ASSUME Texting, NEW x, Failing(x), Reads \/ Stay, text' = text
    PROVE  VerbatimInv' /\ Order
<1>1. Stacked(todo') /\ (todo' # <<>> => ~IsHead(todo'[1])) /\ (odd' = odd \/ odd' = odd \cup {"unchecked"})
  BY FailingStacks DEF Texting
<1>2. Order /\ InLine /\ Persists
  BY <1>1, ReadsAreOrder, StaysAreOrder DEF OddGrows
<1>3. ~InText'
  BY <1>1 DEF InText
<1>4. Elsewhere(todo')
  BY <1>1, NoHead
<1> QED
  BY <1>1, <1>2, <1>3, <1>4, RestsKeep

(* comments,                                                               *)
LEMMA TextCommentKeeps ==
    ASSUME Texting, TextComment
    PROVE  VerbatimInv' /\ Order
<1>1. Running({"comment"})
  BY DEF TextComment
<1>2. {"comment"} \subseteq RuneKind /\ "close" \notin {"comment"} /\ "comment" \in Texts
  BY DEF RuneKind, Texts
<1>3. InText /\ todo[1][1] = "comment"
  BY <1>1, <1>2, TextAt
<1>4. CASE Failing(TRUE) /\ UNCHANGED <<pos, runes>> /\ text' = text
  <2>1. Stay
    BY <1>4 DEF Stay
  <2> QED
    BY <1>4, <2>1, FailingInText
<1>5. CASE TextGoesOn(<<ReadText>>) /\ text' = text
  <2>1. todo' = <<ReadText>> \o Tail(todo) /\ Reads /\ odd' = odd /\ AllItems(Tail(todo))
    BY <1>5 DEF TextGoesOn, Texting, ReadRune, Reads
  <2>2. Stacked(todo') /\ Elsewhere(todo')
    BY <2>1, ReadHead, HeadRests
  <2>3. Order /\ InLine /\ Persists
    BY <2>1, ReadsAreOrder DEF OddGrows
  <2> QED
    BY <1>3, <1>5, <2>2, <2>3, RestsKeep
<1>6. CASE TextGoesOn(<< <<"comment", Here>> >>) /\ text' = text
  <2>1. todo' = << <<"comment", Here>> >> \o Tail(todo) /\ Reads /\ odd' = odd
    BY <1>6 DEF TextGoesOn, ReadRune, Reads
  <2> QED
    BY <1>2, <1>3, <1>6, <2>1, LooksKeep
<1> QED
  <2>1. \/ Failing(TRUE) /\ UNCHANGED <<pos, runes>> /\ text' = text
        \/ TextGoesOn(<<ReadText>>) /\ text' = text
        \/ TextGoesOn(<< <<"comment", Here>> >>) /\ text' = text
    BY DEF TextComment
  <2> QED
    BY <1>4, <1>5, <1>6, <2>1

(* and the end of a block of text.                                         *)
LEMMA CloseTagKeeps ==
    ASSUME Texting, CloseTag
    PROVE  VerbatimInv' /\ Order
<1>1. /\ Running({"close"}) /\ Reads /\ text' = text
      /\ \/ Failing(TRUE)
         \/ /\ odd' = (IF Head(todo)[2] THEN odd ELSE odd \cup {"unterminated"})
            /\ todo' = <<ReadText>> \o Tail(todo)
  BY DEF CloseTag, Reads
<1>2. CASE Failing(TRUE)
  BY <1>1, <1>2, FailingInText
<1>3. CASE /\ odd' = (IF Head(todo)[2] THEN odd ELSE odd \cup {"unterminated"})
           /\ todo' = <<ReadText>> \o Tail(todo)
  <2>1. Stacked(todo') /\ Elsewhere(todo')
    BY <1>3, ReadHead, HeadRests DEF Texting
  <2>2. OddGrows
    BY <1>3 DEF OddGrows
  <2>3. Order /\ InLine /\ Persists
    BY <1>1, <2>2, ReadsAreOrder
  <2>4. "unterminated" \notin odd' => InText
    <3> SUFFICES ASSUME "unterminated" \notin odd' PROVE InText
      OBVIOUS
    <3>1. Head(todo) = todo[1] /\ todo # <<>>
      BY DEF Texting
    <3>2. ~(todo[1][2] = FALSE)
      BY <1>3, <3>1
    <3>3. {"close"} \subseteq RuneKind
      BY DEF RuneKind
    <3>4. todo[1][1] = "close"
      BY <1>1, <3>3, TextAt
    <3> QED
      BY <3>1, <3>2, <3>4 DEF InText, IsHead, RuneKind
  <2> QED
    BY <1>1, <2>1, <2>3, <2>4, RestsKeep
<1> QED
  BY <1>1, <1>2, <1>3

(* What a template begins with is Stacked.                                 *)
LEMMA TemplateStacks == Stacked(Template) /\ Elsewhere(Template)
<1> DEFINE i == <<"template", {}>>
           s == <<ReadText, i>>
<1>1. IsSeq(s) /\ Len(s) = 2 /\ s[1] = ReadText /\ s[2] = i
  <2>1. s \in Seq({ReadText, i})
    OBVIOUS
  <2> QED
    BY <2>1 DEF IsSeq
<1>2. IsItem(i)
  BY ItemsAre
<1>3. Template = s
  BY DEF Template
<1> HIDE DEF s, i
<1>4. IsHead(s[1]) /\ Reader(s[1]) /\ s[1][1] \notin Texts \cup Firsts
  BY <1>1, ReadHead DEF IsHead, RuneKind, Texts, Firsts
<1>5. Fits(s, 2)
  BY <1>1, <1>2 DEF Fits
<1>6. Stacked(s)
  BY <1>1, <1>4, <1>5 DEF Stacked, HeadFits, SecondFits, ItemsFrom
<1> QED
  BY <1>3, <1>4, <1>6 DEF Elsewhere

(* No text is in order.                                                    *)
LEMMA NothingRises == <<>> \in Seq(Nat) /\ \A m : Rising(<<>>, m)
BY DEF Rising

(* Before the text begins.                                                 *)
LEMMA BlankKeeps ==
    ASSUME Texting, InText, Order, Persists, Stacked(todo'), text' = text, text = <<>>, LastRead'
    PROVE  VerbatimInv' /\ Order
<1>1. text' \in Seq(Nat) /\ text' = <<>> /\ Rising(text', Mark')
  BY NothingRises
<1>2. TextInv'
  BY <1>1 DEF TextInv
<1> QED
  BY <1>2, TextKeeps DEF Texting

(* Reading the first rune.                                                 *)
LEMMA FirstRead ==
    ASSUME Elsewhere(todo') PROVE LastRead'
BY DEF LastRead, Elsewhere, Firsts

(* The line that names the interpreter.                                    *)
LEMMA SkipShebangKeeps ==
    ASSUME Texting, SkipShebang, text' = text
    PROVE  VerbatimInv' /\ Order
<1>1. Running({"shebang"}) \/ Running({"shebang!"}) \/ Running({"shebang_line"})
  BY DEF SkipShebang
<1>2. InText /\ text = <<>> /\ todo[1][1] \in Firsts
  <2>1. Running(Firsts) /\ Firsts \subseteq RuneKind /\ "close" \notin Firsts
    BY <1>1 DEF Running, Firsts, RuneKind
  <2> QED
    BY <2>1, TextAt DEF Texting, VerbatimInv, TextInv
<1>3. Stacked(<<>>) /\ Elsewhere(<<>>) /\ Stacked(Template) /\ Elsewhere(Template)
  BY TemplateStacks, AllFromSecond DEF Elsewhere
<1>4. ASSUME NEW h, h[1] \in {"shebang!", "shebang_line"}, todo' = <<h>>
      PROVE  Stacked(todo') /\ todo'[1] = h /\ IsHead(h)
  <2>1. IsHead(h) /\ Reader(h)
    BY <1>4 DEF IsHead, Reader, RuneKind
  <2> QED
    BY <1>4, <2>1, HeadPushed, AllFromSecond, SequencesAre
<1>5. ASSUME Reads, odd' = odd, Stacked(todo'), Elsewhere(todo') \/ LastRead' PROVE VerbatimInv' /\ Order
  <2>1. Order /\ InLine /\ Persists
    BY <1>5, ReadsAreOrder DEF OddGrows
  <2> QED
    BY <1>2, <1>5, <2>1, FirstRead, BlankKeeps
<1>6. CASE Running({"shebang"}) /\ (IF Rune = "#" THEN ReadRune /\ todo' = << <<"shebang!", Here>> >>
                                                  ELSE MissRune /\ todo' = Template)
  <2>1. CASE Rune = "#"
    <3> DEFINE h == <<"shebang!", Here>>
    <3>1. h[1] = "shebang!" /\ h[2] = Here /\ todo' = <<h>> /\ Reads /\ odd' = odd
      BY <1>6, <2>1 DEF ReadRune, Reads
    <3> HIDE DEF h
    <3>2. Stacked(todo') /\ todo'[1] = h
      BY <1>4, <3>1
    <3>3. Order /\ InLine /\ Persists
      BY <3>1, ReadsAreOrder DEF OddGrows
    <3>4. "swapped" \notin odd' => Here \in 1 .. Len(source) /\ Here' = Here + 1 /\ Len(source) \in Nat
                                   /\ source' = source
      <4> SUFFICES ASSUME "swapped" \notin odd' PROVE Here \in 1 .. Len(source) /\ Here' = Here + 1
                                                      /\ Len(source) \in Nat /\ source' = source
        OBVIOUS
      <4>1. VerbatimInv /\ UNCHANGED source
        BY DEF Texting
      <4>2. "#" # EOF
        BY DEF EOF
      <4> QED
        BY <2>1, <3>1, <3>3, <4>1, <4>2, MarkMoves
    <3>5. LastRead'
      BY <3>1, <3>2, <3>4 DEF LastRead, Texts
    <3> QED
      BY <1>5, <3>1, <3>2, <3>5
  <2>2. CASE Rune # "#"
    <3>1. MissRune /\ todo' = Template
      BY <1>6, <2>2
    <3>2. (Reads \/ Unread) /\ (odd' = odd \/ odd' = odd \cup {"swapped"})
      BY <3>1 DEF MissRune, ReadRune, UnreadRune, Behind, Reads, Unread
    <3>3. Order /\ Persists
      BY <3>2 DEF Order, Persists, InLine, Reads, Unread
    <3> QED
      BY <1>2, <1>3, <3>1, <3>3, FirstRead, BlankKeeps
  <2> QED
    BY <2>1, <2>2
<1>7. CASE Running({"shebang!"})
           /\ (IF Rune = "!" THEN ReadRune /\ todo' = << <<"shebang_line">> >>
               ELSE /\ pos' = Advanced
                    /\ Behind(IF Rune = EOF THEN Waiting ELSE Append(Waiting, Here), Head(todo)[2])
                    /\ todo' = Template)
  <2>1. CASE Rune = "!"
    <3>1. <<"shebang_line">>[1] = "shebang_line" /\ todo' = << <<"shebang_line">> >> /\ Reads /\ odd' = odd
      BY <1>7, <2>1 DEF ReadRune, Reads
    <3>2. Stacked(todo') /\ todo'[1][1] = "shebang_line"
      BY <1>4, <3>1
    <3>3. LastRead'
      BY <3>2 DEF LastRead, Texts
    <3> QED
      BY <1>5, <3>1, <3>2, <3>3
  <2>2. CASE Rune # "!"
    <3> DEFINE w == IF Rune = EOF THEN Waiting ELSE Append(Waiting, Here)
               p == Head(todo)[2]
    <3>1. pos' = Advanced /\ runes' = Append(w, p) /\ (odd' = IF w = <<>> THEN odd ELSE odd \cup {"swapped"})
          /\ todo' = Template
      BY <1>7, <2>2 DEF Behind
    <3>2. odd' = odd \/ odd' = odd \cup {"swapped"}
      BY <3>1
    <3>3. Persists
      BY <3>2 DEF Persists
    <3>4. "swapped" \notin odd' => Back
      <4> SUFFICES ASSUME "swapped" \notin odd' PROVE Back
        OBVIOUS
      <4>1. w = <<>> /\ odd' = odd
        BY <3>1
      <4>2. Waiting = <<>> /\ LexInv
        BY <4>1, RuneIsHere DEF Texting, VerbatimInv
      <4>3. Rune = EOF
        <5>1. Append(Waiting, Here) # <<>>
          BY <4>2
        <5> QED
          BY <4>1, <5>1
      <4>4. todo[1][1] = "shebang!" /\ p = todo[1][2]
        BY <1>7 DEF Running, Texting
      <4>5. p = Here - 1 /\ p \in 1 .. Len(source)
        BY <4>1, <4>4 DEF Texting, VerbatimInv, TextInv, LastRead
      <4>6. runes' = <<p>>
        <5>1. \A x : Append(<<>>, x) = <<x>>
          OBVIOUS
        <5> HIDE DEF w, p
        <5> QED
          BY <3>1, <4>1, <5>1
      <4> HIDE DEF p
      <4> QED
        BY <3>1, <4>3, <4>5, <4>6 DEF Back
    <3>5. Order
      BY <3>1, <3>2, <3>4 DEF Order
    <3> QED
      BY <1>2, <1>3, <3>1, <3>3, <3>5, FirstRead, BlankKeeps
  <2> QED
    BY <2>1, <2>2
<1>8. CASE Running({"shebang_line"}) /\ ReadRune /\ (todo' = <<>> \/ todo' = Template \/ todo' = todo)
  <2>1. Reads /\ odd' = odd /\ Stacked(todo)
    BY <1>8 DEF ReadRune, Reads, Texting
  <2>2. todo[1][1] = "shebang_line"
    BY <1>8 DEF Running, Texting
  <2>3. todo' = todo => LastRead'
    BY <2>2 DEF LastRead, Texts
  <2> QED
    BY <1>3, <1>5, <1>8, <2>1, <2>3
<1> QED
  BY <1>6, <1>7, <1>8 DEF SkipShebang

(* All steps of text.                                                      *)
LEMMA ParseTextKeeps ==
    ASSUME VerbatimInv, ParseText
    PROVE  VerbatimInv' /\ Order
<1>1. Running(RuneKind)
  BY DEF ParseText, ReadTextRune, TextBrace, TextBackslash, TextAfterCR, TextRune, TextComment, CloseTag,
         SkipShebang, Running, RuneKind
<1>2. Texting
  <2>1. /\ lex = Idle /\ todo # <<>> /\ Head(todo) = todo[1] /\ AllItems(Tail(todo)) /\ Stacked(todo)
    BY <1>1, AtText
  <2>2. UNCHANGED <<source, tokens, lex>>
    BY DEF ParseText
  <2> QED
    BY <2>1, <2>2 DEF Texting
<1>3. ASSUME ReadTextRune PROVE VerbatimInv' /\ Order
  <2>1. todo[1][1] = "read" /\ todo # <<>> /\ Stacked(todo)
    BY <1>2, <1>3 DEF ReadTextRune, Running, Texting
  <2>2. todo[1] # Skip /\ todo[1] # FailQuietly /\ ~Fits(todo, 1)
    <3>1. Skip[1] = "skip" /\ FailQuietly[1] = "fail"
      BY DEF Skip, FailQuietly
    <3> QED
      BY <2>1, <3>1, KindsAreNoRunes DEF RuneKind
  <2>3. Len(todo) >= 1
    BY <2>1, SequencesAre DEF Stacked, ItemsFrom
  <2>4. Reader(todo[1])
    BY <2>1, <2>2, <2>3 DEF Stacked, HeadFits
  <2> QED
    BY <1>2, <1>3, <2>1, <2>4, ReadTextRuneKeeps DEF Reader, Texts
<1>4. ASSUME TextBrace PROVE VerbatimInv' /\ Order
  BY <1>2, <1>4, TextBraceKeeps DEF TextBrace
<1>5. ASSUME TextBackslash PROVE VerbatimInv' /\ Order
  BY <1>2, <1>5, TextBackslashKeeps DEF TextBackslash
<1>6. ASSUME SkipShebang, UNCHANGED text PROVE VerbatimInv' /\ Order
  BY <1>2, <1>6, SkipShebangKeeps
<1> QED
  BY <1>2, <1>3, <1>4, <1>5, <1>6, TextAfterCRKeeps, TextRuneKeeps, TextCommentKeeps, CloseTagKeeps DEF ParseText

(* The invariant holds in the beginning,                                   *)
LEMMA InitIsVerbatim == Init => VerbatimInv
<1> SUFFICES ASSUME Init PROVE VerbatimInv
  OBVIOUS
<1>1. LexerInit /\ text = <<>> /\ (todo = << <<"shebang">> >> \/ todo = << <<"expr">>, Drop>>) /\ outcome = "running"
  BY DEF Init
<1>2. LexInv /\ OperatorInv
  <2>1. source \in Seq(STRING \ {EOF}) /\ pos = 1 /\ runes = <<>> /\ lex = Idle
    <3>1. source \in Seq(STRING \ {EOF, NUL})
      BY <1>1, SourcesAssumption DEF LexerInit
    <3>2. Seq(STRING \ {EOF, NUL}) \subseteq Seq(STRING \ {EOF})
      OBVIOUS
    <3> QED
      BY <1>1, <3>1, <3>2 DEF LexerInit
  <2>2. pos \in 1 .. Len(source) + 1 /\ Waits
    BY <2>1 DEF Waits
  <2>3. DOMAIN Idle = LexFields /\ Idle.at = "idle"
    BY DEF Idle, LexFields
  <2> QED
    BY <2>1, <2>2, <2>3 DEF LexInv, OperatorInv
<1>3. Stacked(todo)
  <2>1. CASE todo = << <<"shebang">> >>
    <3>1. IsHead(<<"shebang">>) /\ Reader(<<"shebang">>)
      BY DEF IsHead, Reader, RuneKind
    <3> QED
      BY <2>1, <3>1, HeadPushed, AllFromSecond
  <2>2. CASE todo = << <<"expr">>, Drop>>
    <3>1. AllItems(<< <<"expr">>, Drop>>)
      BY PlainAre, ItemsAre, Tuples, AllFromSecond
    <3> QED
      BY <2>2, <3>1, GrownAre DEF Grows
  <2> QED
    BY <1>1, <2>1, <2>2
<1>4. TokenInv
  BY <1>1, SequencesAre DEF TokenInv, LexerInit
<1>5. LastRead
  <2>1. todo[1] = <<"shebang">> \/ todo[1] = <<"expr">>
    BY <1>1
  <2>2. todo[1][1] = "shebang" \/ todo[1][1] = "expr"
    BY <2>1
  <2> QED
    BY <2>2 DEF LastRead, Texts
<1>6. TextInv
  BY <1>1, <1>5, NothingRises DEF TextInv
<1> QED
  BY <1>2, <1>3, <1>4, <1>6 DEF VerbatimInv

(* and every step keeps it.                                                *)
LEMMA NextKeepsVerbatim ==
    ASSUME VerbatimInv, [Next]_vars
    PROVE  VerbatimInv' /\ Order
<1>1. CASE PeekToken
  <2>1. CASE outcome = "running" /\ lex # Idle /\ ReadToken
    BY <1>1, <2>1, TokenStep DEF PeekToken
  <2>2. CASE Peeks /\ tokens = <<>> /\ lex' = Start /\ UNCHANGED <<pos, runes, tokens, message, odd>>
    BY <1>1, <2>2, PeekStarts DEF PeekToken
  <2> QED
    BY <1>1, <2>1, <2>2 DEF PeekToken
<1>2. CASE UNCHANGED vars
  <2>1. UNCHANGED <<source, pos, runes, tokens, lex, message, odd, todo, vals, built, text, taken, outcome>>
    BY <1>2 DEF vars, lexerVars, parserVars
  <2>2. Order
    BY <2>1 DEF Order, InLine, Stay
  <2>3. VerbatimInv'
    BY <2>1 DEF VerbatimInv, LexInv, Waits, Here, OperatorInv, TokenInv, InText, TextInv, LastRead, Mark
  <2> QED
    BY <2>2, <2>3
<1> QED
  BY <1>1, <1>2, ExpectKeeps, ParseKeeps, InstantsKeep, ParseTextKeeps, ReturnKeeps DEF Next

(* No step changes the source.                                             *)
LEMMA SourceStays ==
    ASSUME [Next]_vars PROVE UNCHANGED source
<1>1. PeekToken \/ expect_token \/ Parse \/ Overflow \/ Decide \/ ParseText => UNCHANGED source
  BY DEF PeekToken, expect_token, Parse, Overflow, Decide, ParseText
<1>2. MakeNode \/ Return \/ UNCHANGED vars => UNCHANGED source
  BY DEF MakeNode, Return, vars, lexerVars
<1> QED
  BY <1>1, <1>2 DEF Next

-----------------------------------------------------------------------------
(* HOW OPERATORS GROUP *)

(* Each left associative rule by the level of its operators.               *)
RuleLevel == [logical_or |-> 4, logical_and |-> 5, equality |-> 6, relational |-> 7, bit_or |-> 8,
              bit_xor |-> 9, bit_and |-> 10, shift |-> 11, additive |-> 12, multiplicative |-> 13]

(* The nodes an item takes from vals and those it gives back.              *)
Makers == {"make", "first", "row"}
Enders == {"postfix_operator", "operators", "range_operator", "ternary_operator", "assignment",
           "selection", "selected"}
Givers == {"expr", "range", "ternary", "unary", "postfix", "primary", "function", "body", "arrow",
           "number"}
Takes(i) == IF i[1] \in Makers THEN i[3] ELSE IF i[1] \in Enders \cup {"drop"} THEN 1 ELSE 0
Gives(i) == IF i[1] \in Makers \cup Enders \cup Givers \cup RuleNames THEN 1 ELSE 0

(* The node of a binary operator groups; of its operands the right one is  *)
(* made by the item in front of it.                                        *)
Groups(l) == 4 <= l /\ l <= 13
IsBinary(i) == i[1] = "make" /\ Groups(Level(i[2]))
Fresh(i) == IF IsBinary(i) THEN 1 ELSE Takes(i)

(* How tightly the last node has to hold together where an item begins,    *)
(* and how tightly it does where the item is done.                         *)
Wants(i) == IF IsBinary(i) THEN Level(i[2]) + 1
            ELSE IF i[1] = "operators" THEN RuleLevel[i[2]]
            ELSE IF i[1] = "postfix_operator" THEN 15 ELSE 1
Atoms == {"postfix", "primary", "function", "body", "arrow", "number", "postfix_operator",
          "selection", "selected", "first", "row"}
Promises(i) == IF i[1] = "make" THEN Level(i[2])
               ELSE IF i[1] = "operators" THEN RuleLevel[i[2]]
               ELSE IF i[1] \in RuleNames THEN RuleLevel[i[1]]
               ELSE IF i[1] = "unary" THEN 14
               ELSE IF i[1] \in Atoms THEN 15
               ELSE IF i[1] = "fail" THEN 16 ELSE 1

IsDeaf(i)  == i[1] \in {"unchecked", "statement"}
Counts(i)  == Takes(i) > 0 \/ IsDeaf(i)
Texty(i)   == i[1] \in {"read", "text", "text_CR", "comment", "close", "close_tag"}

(* Every operator has one level.                                           *)
LEMMA BindingIs ==
    /\ Len(Binding) = 14 /\ DOMAIN Binding = 1 .. 14
    /\ Binding[1] = {"="} /\ Binding[2] = {"?"} /\ Binding[3] = {".."}
    /\ Binding[4] = {"||"} /\ Binding[5] = {"&&"} /\ Binding[6] = {"==", "!=", "=~", "!~"}
    /\ Binding[7] = {"<", ">", "<=", ">="} /\ Binding[8] = {"|"} /\ Binding[9] = {"^"}
    /\ Binding[10] = {"&"} /\ Binding[11] = {"<<", ">>"} /\ Binding[12] = {"+", "-"}
    /\ Binding[13] = {"*", "/", "%"} /\ Binding[14] = {"unary"}
  BY DEF Binding

(* The operators of one level are not those of another.                     *)
LEMMA BindingsDiffer ==
    ASSUME NEW k \in 1 .. 14, NEW l \in 1 .. 14, NEW op, op \in Binding[k], op \in Binding[l]
    PROVE  k = l
  BY BindingIs

(* Level() finds the level of an operator, and 15 for what is none.         *)
LEMMA LevelIs ==
    /\ \A op : Level(op) \in 1 .. 15
    /\ \A op : \A l \in 1 .. 14 : op \in Binding[l] => Level(op) = l
    /\ \A op : (\A l \in 1 .. 14 : op \notin Binding[l]) => Level(op) = 15
<1>1. ASSUME NEW l \in 1 .. 14, NEW op, op \in Binding[l] PROVE Level(op) = l
  <2>1. \E k \in DOMAIN Binding : op \in Binding[k]
    BY <1>1, BindingIs
  <2>2. Level(op) = CHOOSE k \in DOMAIN Binding : op \in Binding[k]
    BY <2>1 DEF Level
  <2>3. Level(op) \in 1 .. 14 /\ op \in Binding[Level(op)]
    BY <2>1, <2>2, BindingIs
  <2> QED
    BY <1>1, <2>3, BindingsDiffer
<1>2. ASSUME NEW op, \A l \in 1 .. 14 : op \notin Binding[l] PROVE Level(op) = 15
  BY <1>2, BindingIs DEF Level
<1>3. ASSUME NEW op PROVE Level(op) \in 1 .. 15
  <2>1. CASE \E l \in 1 .. 14 : op \in Binding[l]
    BY <1>1, <2>1
  <2>2. CASE \A l \in 1 .. 14 : op \notin Binding[l]
    BY <1>2, <2>2
  <2> QED
    BY <2>1, <2>2
<1> QED
  BY <1>1, <1>2, <1>3

(* The levels of what is no left associative operator.                      *)
LEMMA LevelsAre ==
    /\ Level("unary") = 14 /\ Level("?") = 2 /\ Level("=") = 1 /\ Level("..") = 3
    /\ \A op \in {"value", "identifier", "group", "list", "map", "call", "attribute", "subscript",
                  "postfix", "throw", "function", "none"} : Level(op) = 15
<1>1. Level("unary") = 14 /\ Level("?") = 2 /\ Level("=") = 1 /\ Level("..") = 3
  BY LevelIs, BindingIs
<1>2. ASSUME NEW op \in {"value", "identifier", "group", "list", "map", "call", "attribute", "subscript",
                         "postfix", "throw", "function", "none"}
      PROVE Level(op) = 15
  <2>1. ASSUME NEW l \in 1 .. 14 PROVE op \notin Binding[l]
    BY BindingIs
  <2> QED
    BY <2>1, LevelIs
<1> QED
  BY <1>1, <1>2

(* The rules in the comments of parser.cc are the ones the code has.       *)
LEMMA RulesAre ==
    ASSUME NEW r \in RuleNames
    PROVE  /\ RuleLevel[r] \in 4 .. 13
           /\ \A t \in Rule[r].operators : Level(t) = RuleLevel[r]
           /\ r # "multiplicative" => /\ Rule[r].operand \in RuleNames
                                      /\ RuleLevel[Rule[r].operand] = RuleLevel[r] + 1
           /\ r = "multiplicative" => Rule[r].operand = "unary"
<1>1. RuleLevel[r] \in 4 .. 13
  BY DEF RuleLevel, RuleNames
<1>2. /\ r # "multiplicative" => /\ Rule[r].operand \in RuleNames
                                 /\ RuleLevel[Rule[r].operand] = RuleLevel[r] + 1
      /\ r = "multiplicative" => Rule[r].operand = "unary"
  <2>1. /\ Rule["multiplicative"].operand = "unary" /\ Rule["additive"].operand = "multiplicative"
        /\ Rule["shift"].operand = "additive" /\ Rule["bit_and"].operand = "shift"
        /\ Rule["bit_xor"].operand = "bit_and" /\ Rule["bit_or"].operand = "bit_xor"
        /\ Rule["relational"].operand = "bit_or" /\ Rule["equality"].operand = "relational"
        /\ Rule["logical_and"].operand = "equality" /\ Rule["logical_or"].operand = "logical_and"
    <3>1. /\ Rule["multiplicative"] = parse_multiplicative /\ Rule["additive"] = parse_additive
          /\ Rule["shift"] = parse_shift /\ Rule["bit_and"] = parse_bit_and
          /\ Rule["bit_xor"] = parse_bit_xor /\ Rule["bit_or"] = parse_bit_or
          /\ Rule["relational"] = parse_relational /\ Rule["equality"] = parse_equality
          /\ Rule["logical_and"] = parse_logical_and /\ Rule["logical_or"] = parse_logical_or
      BY DEF Rule
    <3>2. /\ parse_multiplicative.operand = "unary" /\ parse_additive.operand = "multiplicative"
          /\ parse_shift.operand = "additive" /\ parse_bit_and.operand = "shift"
          /\ parse_bit_xor.operand = "bit_and" /\ parse_bit_or.operand = "bit_xor"
          /\ parse_relational.operand = "bit_or" /\ parse_equality.operand = "relational"
          /\ parse_logical_and.operand = "equality" /\ parse_logical_or.operand = "logical_and"
      BY DEF parse_multiplicative, parse_additive, parse_shift, parse_bit_and, parse_bit_xor, parse_bit_or,
             parse_relational, parse_equality, parse_logical_and, parse_logical_or
    <3> QED
      BY <3>1, <3>2
  <2>2. /\ RuleLevel["multiplicative"] = 13 /\ RuleLevel["additive"] = 12 /\ RuleLevel["shift"] = 11
        /\ RuleLevel["bit_and"] = 10 /\ RuleLevel["bit_xor"] = 9 /\ RuleLevel["bit_or"] = 8
        /\ RuleLevel["relational"] = 7 /\ RuleLevel["equality"] = 6 /\ RuleLevel["logical_and"] = 5
        /\ RuleLevel["logical_or"] = 4
    BY DEF RuleLevel
  <2> QED
    BY <2>1, <2>2 DEF RuleNames
<1>3. Rule[r].operators = Binding[RuleLevel[r]]
  <2>1. /\ Rule["multiplicative"] = parse_multiplicative /\ Rule["additive"] = parse_additive
        /\ Rule["shift"] = parse_shift /\ Rule["bit_and"] = parse_bit_and
        /\ Rule["bit_xor"] = parse_bit_xor /\ Rule["bit_or"] = parse_bit_or
        /\ Rule["relational"] = parse_relational /\ Rule["equality"] = parse_equality
        /\ Rule["logical_and"] = parse_logical_and /\ Rule["logical_or"] = parse_logical_or
    BY DEF Rule
  <2>2. /\ parse_multiplicative.operators = Binding[13] /\ parse_additive.operators = Binding[12]
        /\ parse_shift.operators = Binding[11] /\ parse_bit_and.operators = Binding[10]
        /\ parse_bit_xor.operators = Binding[9] /\ parse_bit_or.operators = Binding[8]
        /\ parse_relational.operators = Binding[7] /\ parse_equality.operators = Binding[6]
        /\ parse_logical_and.operators = Binding[5] /\ parse_logical_or.operators = Binding[4]
    BY BindingIs DEF parse_multiplicative, parse_additive, parse_shift, parse_bit_and, parse_bit_xor, parse_bit_or,
       parse_relational, parse_equality, parse_logical_and, parse_logical_or
  <2>3. /\ RuleLevel["multiplicative"] = 13 /\ RuleLevel["additive"] = 12 /\ RuleLevel["shift"] = 11
        /\ RuleLevel["bit_and"] = 10 /\ RuleLevel["bit_xor"] = 9 /\ RuleLevel["bit_or"] = 8
        /\ RuleLevel["relational"] = 7 /\ RuleLevel["equality"] = 6 /\ RuleLevel["logical_and"] = 5
        /\ RuleLevel["logical_or"] = 4
    BY DEF RuleLevel
  <2> QED
    BY <2>1, <2>2, <2>3 DEF RuleNames
<1> QED
  BY <1>1, <1>2, <1>3, LevelIs

(* What is known before an item: how many nodes there are, the least       *)
(* number of them the items so far have left alone, how tightly the last   *)
(* one holds together, and whether the item has to be a template.          *)
States == [height : Nat, floor : Int, top : Int, text : BOOLEAN]

(* A state with as many nodes that promises less.                          *)
Below(b, a) == b.height = a.height /\ b.floor <= a.floor /\ b.top <= a.top /\ b.text = a.text

(* An item finds the nodes it takes, and those that are promised to later  *)
(* items stay; the left operand of a binary operator is there already.     *)
Passes(v, a, x, b) ==
    /\ Takes(x) \in Nat /\ Wants(x) \in Nat /\ Promises(x) \in Nat
    /\ Takes(x) <= a.height
    /\ (Counts(x) => a.height - Fresh(x) <= a.floor)
    /\ b.floor <= a.floor /\ b.floor <= a.height - Takes(x)
    /\ Wants(x) <= a.top /\ b.top <= Promises(x)
    /\ (x[1] # "fail" => b.height = a.height + Gives(x) - Takes(x))
    /\ (IsDeaf(x) => x[2] = a.height)
    /\ (IsBinary(x) => x[3] = 2 /\ Level(x[2]) <= v[a.height - 1].level)
    /\ (a.text => x[1] = "template")
    /\ (b.text <=> Texty(x))

Passing(v, z, s) ==
    /\ z \in [1 .. Len(s) + 1 -> States]
    /\ \A j \in 1 .. Len(s) : Passes(v, z[j], s[j], z[j + 1])
    /\ \A j, k \in 1 .. Len(s) + 1 : j <= k => z[k].floor <= z[j].floor

Balanced(v, a, s, e) ==
    /\ IsSeq(s) /\ a \in States /\ e \in States
    /\ \E z : Passing(v, z, s) /\ Below(z[1], a) /\ Below(e, z[Len(s) + 1])

(* Numbers of nodes are natural numbers.                                   *)
LEMMA TakesAre ==
    /\ \A x : Gives(x) \in {0, 1}
    /\ \A x : IsBinary(x) => /\ Takes(x) = x[3] /\ Fresh(x) = 1 /\ Level(x[2]) \in 4 .. 13
                             /\ Wants(x) = Level(x[2]) + 1 /\ x[1] # "fail"
    /\ \A x : ~IsBinary(x) => Fresh(x) = Takes(x)
    /\ \A x : IsDeaf(x) => /\ Takes(x) = 0 /\ Gives(x) = 0 /\ Fresh(x) = 0 /\ Wants(x) = 1 /\ Promises(x) = 1
                           /\ ~Texty(x) /\ x[1] # "fail" /\ ~IsBinary(x) /\ Counts(x)
<1>1. \A x : Gives(x) \in {0, 1}
  BY DEF Gives
<1>2. \A x : IsBinary(x) => /\ Takes(x) = x[3] /\ Fresh(x) = 1 /\ Level(x[2]) \in 4 .. 13
                            /\ Wants(x) = Level(x[2]) + 1 /\ x[1] # "fail"
  BY LevelIs DEF IsBinary, Takes, Fresh, Wants, Groups, Makers
<1>3. \A x : ~IsBinary(x) => Fresh(x) = Takes(x)
  BY DEF Fresh
<1>4. ASSUME NEW x, IsDeaf(x)
      PROVE  /\ Takes(x) = 0 /\ Gives(x) = 0 /\ Fresh(x) = 0 /\ Wants(x) = 1 /\ Promises(x) = 1
             /\ ~Texty(x) /\ x[1] # "fail" /\ ~IsBinary(x) /\ Counts(x)
  <2>1. /\ x[1] \notin Makers \cup Enders \cup Givers \cup RuleNames \cup Atoms \cup {"drop"}
        /\ x[1] \notin {"make", "operators", "postfix_operator", "unary", "fail"}
    BY <1>4 DEF IsDeaf, Makers, Enders, Givers, RuleNames, Atoms
  <2>2. ~IsBinary(x) /\ Takes(x) = 0 /\ Gives(x) = 0 /\ Wants(x) = 1 /\ Promises(x) = 1
    BY <2>1 DEF IsBinary, Takes, Gives, Wants, Promises
  <2>3. ~Texty(x)
    BY <1>4 DEF Texty, IsDeaf
  <2> QED
    BY <1>4, <2>1, <2>2, <2>3 DEF Fresh, Counts
<1> QED
  BY <1>1, <1>2, <1>3, <1>4

(* Less may be promised afterwards, and more before.                       *)
LEMMA PassesBelow ==
    ASSUME NEW v, NEW x, NEW a \in States, NEW b \in States, NEW a1 \in States, NEW b1 \in States,
           Passes(v, a, x, b), Below(a, a1), Below(b1, b)
    PROVE  Passes(v, a1, x, b1)
<1>1. /\ a.height \in Nat /\ a.floor \in Int /\ a.top \in Int /\ b.height \in Nat /\ b.floor \in Int
      /\ b.top \in Int
      /\ a1.height \in Nat /\ a1.floor \in Int /\ a1.top \in Int /\ b1.height \in Nat /\ b1.floor \in Int
      /\ b1.top \in Int
  BY DEF States
<1>2. Takes(x) \in Nat /\ Fresh(x) \in Nat /\ Wants(x) \in Nat /\ Promises(x) \in Nat
  BY DEF Passes, Fresh
<1> QED
  BY <1>1, <1>2 DEF Passes, Below

(* Nothing, and one item.                                                  *)
LEMMA BalancedOne ==
    ASSUME NEW v, NEW a \in States, NEW b \in States
    PROVE  /\ Below(b, a) => Balanced(v, a, <<>>, b)
           /\ \A x : Passes(v, a, x, b) => Balanced(v, a, <<x>>, b)
<1>0. \A s \in States : s.floor \in Int /\ s.top \in Int /\ Below(s, s)
  BY DEF States, Below
<1>1. ASSUME Below(b, a) PROVE Balanced(v, a, <<>>, b)
  <2> DEFINE z == [j \in 1 .. 1 |-> a]
  <2>1. z \in [1 .. 0 + 1 -> States] /\ z[1] = a
    OBVIOUS
  <2>2. \A j, k \in 1 .. 0 + 1 : j <= k => z[k].floor <= z[j].floor
    BY <1>0
  <2>3. Len(<<>>) = 0
    BY SequencesAre
  <2> HIDE DEF z
  <2>4. Passing(v, z, <<>>)
    BY <2>1, <2>2, <2>3 DEF Passing
  <2> QED
    BY <1>0, <1>1, <2>1, <2>3, <2>4, SequencesAre DEF Balanced
<1>2. ASSUME NEW x, Passes(v, a, x, b) PROVE Balanced(v, a, <<x>>, b)
  <2> DEFINE z == [j \in 1 .. 2 |-> IF j = 1 THEN a ELSE b]
  <2>1. z \in [1 .. 1 + 1 -> States] /\ z[1] = a /\ z[2] = b
    OBVIOUS
  <2>2. \A j, k \in 1 .. 1 + 1 : j <= k => z[k].floor <= z[j].floor
    <3>1. b.floor <= a.floor
      BY <1>2 DEF Passes
    <3> QED
      BY <1>0, <3>1
  <2>3. Len(<<x>>) = 1 /\ <<x>>[1] = x /\ IsSeq(<<x>>)
    BY SequencesAre
  <2> HIDE DEF z
  <2>4. Passing(v, z, <<x>>)
    BY <1>2, <2>1, <2>2, <2>3 DEF Passing
  <2> QED
    BY <1>0, <2>1, <2>3, <2>4 DEF Balanced
<1> QED
  BY <1>1, <1>2

(* More may be promised before and less afterwards.                        *)
LEMMA BalancedBelow ==
    ASSUME NEW v, NEW a, NEW s, NEW e, Balanced(v, a, s, e), NEW a1 \in States, NEW e1 \in States,
           Below(a, a1), Below(e1, e)
    PROVE  Balanced(v, a1, s, e1)
<1>1. \A b, d, f \in States : Below(b, d) /\ Below(d, f) => Below(b, f)
  BY DEF States, Below
<1>2. PICK z : Passing(v, z, s) /\ Below(z[1], a) /\ Below(e, z[Len(s) + 1])
  BY DEF Balanced
<1>3. a \in States /\ e \in States /\ IsSeq(s)
  BY DEF Balanced
<1>4. z[1] \in States /\ z[Len(s) + 1] \in States
  BY <1>2, <1>3, SequencesAre DEF Passing
<1>5. Below(z[1], a1) /\ Below(e1, z[Len(s) + 1])
  BY <1>1, <1>2, <1>3, <1>4
<1> QED
  BY <1>2, <1>3, <1>5 DEF Balanced

(* One stack in front of another.                                          *)
LEMMA BalancedJoin ==
    ASSUME NEW v, NEW a, NEW m, NEW e, NEW s, NEW r, Balanced(v, a, s, m), Balanced(v, m, r, e)
    PROVE  Balanced(v, a, s \o r, e)
<1>1. /\ IsSeq(s) /\ IsSeq(r) /\ Len(s) \in Nat /\ Len(r) \in Nat
      /\ a \in States /\ m \in States /\ e \in States
  BY SequencesAre DEF Balanced
<1>2. PICK y : Passing(v, y, s) /\ Below(y[1], a) /\ Below(m, y[Len(s) + 1])
  BY DEF Balanced
<1>3. PICK w : Passing(v, w, r) /\ Below(w[1], m) /\ Below(e, w[Len(r) + 1])
  BY DEF Balanced
<1>4. /\ IsSeq(s \o r) /\ Len(s \o r) = Len(s) + Len(r)
      /\ \A j \in 1 .. Len(s) : (s \o r)[j] = s[j]
      /\ \A j \in Len(s) + 1 .. Len(s) + Len(r) : (s \o r)[j] = r[j - Len(s)]
  BY <1>1, Joined
<1> DEFINE n == Len(s)
           z == [j \in 1 .. n + Len(r) + 1 |-> IF j <= n THEN y[j] ELSE w[j - n]]
<1>5. z \in [1 .. n + Len(r) + 1 -> States]
  BY <1>1, <1>2, <1>3 DEF Passing
<1>6. /\ \A j \in 1 .. n : z[j] = y[j]
      /\ \A j \in n + 1 .. n + Len(r) + 1 : z[j] = w[j - n] /\ j - n \in 1 .. Len(r) + 1
  BY <1>1
<1> HIDE DEF z
<1>7. /\ \A j \in 1 .. n + 1 : y[j] \in States
      /\ \A j \in 1 .. Len(r) + 1 : w[j] \in States
  BY <1>2, <1>3 DEF Passing
<1>8. Below(w[1], y[n + 1])
  <2>1. \A b, d, f \in States : Below(b, d) /\ Below(d, f) => Below(b, f)
    BY DEF States, Below
  <2> QED
    BY <1>1, <1>2, <1>3, <1>7, <2>1
<1>9. ASSUME NEW j \in 1 .. n + Len(r) PROVE Passes(v, z[j], (s \o r)[j], z[j + 1])
  <2>1. CASE j < n
    <3>1. j \in 1 .. n /\ j + 1 \in 1 .. n
      BY <1>1, <2>1
    <3> QED
      BY <1>2, <1>4, <1>6, <3>1 DEF Passing
  <2>2. CASE j = n
    <3>1. j \in 1 .. n /\ n + 1 \in n + 1 .. n + Len(r) + 1 /\ n + 1 - n = 1 /\ 1 \in 1 .. Len(r) + 1
          /\ n + 1 \in 1 .. n + 1
      BY <1>1, <2>2
    <3>2. Passes(v, y[n], s[n], y[n + 1])
      BY <1>2, <2>2, <3>1 DEF Passing
    <3>3. y[n] \in States /\ y[n + 1] \in States /\ w[1] \in States
      BY <1>1, <1>7, <2>2, <3>1
    <3>4. Below(y[n], y[n])
      BY <3>3 DEF States, Below
    <3>5. Passes(v, y[n], s[n], w[1])
      BY <1>8, <3>2, <3>3, <3>4, PassesBelow
    <3> QED
      BY <1>4, <1>6, <2>2, <3>1, <3>5
  <2>3. CASE j > n
    <3>1. /\ j \in n + 1 .. n + Len(r) + 1 /\ j + 1 \in n + 1 .. n + Len(r) + 1
          /\ j - n \in 1 .. Len(r) /\ j + 1 - n = (j - n) + 1 /\ j \in n + 1 .. n + Len(r)
      BY <1>1, <2>3
    <3>2. Passes(v, w[j - n], r[j - n], w[(j - n) + 1])
      BY <1>3, <3>1 DEF Passing
    <3> QED
      BY <1>4, <1>6, <3>1, <3>2
  <2> QED
    BY <1>1, <2>1, <2>2, <2>3
<1>10. ASSUME NEW j \in 1 .. n + Len(r) + 1, NEW k \in 1 .. n + Len(r) + 1, j <= k
       PROVE  z[k].floor <= z[j].floor
  <2>1. CASE k <= n
    <3>1. j \in 1 .. n /\ k \in 1 .. n /\ j \in 1 .. n + 1 /\ k \in 1 .. n + 1
      BY <1>1, <1>10, <2>1
    <3> QED
      BY <1>2, <1>6, <1>10, <3>1 DEF Passing
  <2>2. CASE j <= n /\ k > n
    <3>1. /\ j \in 1 .. n /\ j \in 1 .. n + 1 /\ n + 1 \in 1 .. n + 1 /\ j <= n + 1
          /\ k \in n + 1 .. n + Len(r) + 1 /\ k - n \in 1 .. Len(r) + 1 /\ 1 \in 1 .. Len(r) + 1 /\ 1 <= k - n
      BY <1>1, <2>2
    <3>2. y[n + 1].floor <= y[j].floor /\ w[k - n].floor <= w[1].floor
      BY <1>2, <1>3, <3>1 DEF Passing
    <3>3. w[1].floor <= y[n + 1].floor
      BY <1>8 DEF Below
    <3>4. /\ y[j].floor \in Int /\ y[n + 1].floor \in Int
          /\ w[1].floor \in Int /\ w[k - n].floor \in Int
      BY <1>7, <3>1 DEF States
    <3>5. w[k - n].floor <= y[j].floor
      BY <3>2, <3>3, <3>4
    <3> QED
      BY <1>6, <3>1, <3>5
  <2>3. CASE j > n
    <3>1. /\ j \in n + 1 .. n + Len(r) + 1 /\ k \in n + 1 .. n + Len(r) + 1
          /\ j - n \in 1 .. Len(r) + 1 /\ k - n \in 1 .. Len(r) + 1 /\ j - n <= k - n
      BY <1>1, <1>10, <2>3
    <3> QED
      BY <1>3, <1>6, <3>1 DEF Passing
  <2> QED
    BY <1>1, <2>1, <2>2, <2>3
<1>11. Passing(v, z, s \o r)
  <2>1. Len(s \o r) = n + Len(r)
    BY <1>4
  <2> QED
    BY <1>5, <1>9, <1>10, <2>1 DEF Passing
<1>12. Below(z[1], a) /\ Below(e, z[n + Len(r) + 1])
  <2>1. z[n + Len(r) + 1] = w[Len(r) + 1]
    <3>1. n + Len(r) + 1 \in n + 1 .. n + Len(r) + 1 /\ n + Len(r) + 1 - n = Len(r) + 1
      BY <1>1
    <3> QED
      BY <1>6, <3>1
  <2>2. CASE n > 0
    <3>1. 1 \in 1 .. n
      BY <1>1, <2>2
    <3> QED
      BY <1>2, <1>3, <1>6, <2>1, <3>1
  <2>3. CASE n = 0
    <3>1. 1 \in n + 1 .. n + Len(r) + 1 /\ 1 - n = 1 /\ n + 1 = 1 /\ 1 \in 1 .. Len(r) + 1 /\ 1 \in 1 .. n + 1
      BY <1>1, <2>3
    <3>2. z[1] = w[1] /\ Below(w[1], y[1])
      BY <1>6, <1>8, <3>1
    <3>3. Below(w[1], a)
      <4>1. \A b, d, f \in States : Below(b, d) /\ Below(d, f) => Below(b, f)
        BY DEF States, Below
      <4> QED
        BY <1>1, <1>2, <1>7, <3>1, <3>2, <4>1
    <3> QED
      BY <1>3, <2>1, <3>2, <3>3
  <2> QED
    BY <1>1, <2>2, <2>3
<1>13. \E q : Passing(v, q, s \o r) /\ Below(q[1], a) /\ Below(e, q[Len(s \o r) + 1])
  BY <1>4, <1>11, <1>12
<1> QED
  BY <1>1, <1>4, <1>13 DEF Balanced

(* What a stack goes on with behind its n-th item.                         *)
LEMMA BalancedFrom ==
    ASSUME NEW v, NEW a, NEW s, NEW e, Balanced(v, a, s, e), NEW n \in 1 .. Len(s)
    PROVE  \E d, m \in States : /\ Passes(v, d, s[n], m) /\ Balanced(v, m, SubSeq(s, n + 1, Len(s)), e)
                                /\ d.floor <= a.floor
                                /\ (n = 1 => Passes(v, a, s[n], m))
<1>1. IsSeq(s) /\ Len(s) \in Nat /\ a \in States /\ e \in States
  BY SequencesAre DEF Balanced
<1>2. PICK z : Passing(v, z, s) /\ Below(z[1], a) /\ Below(e, z[Len(s) + 1])
  BY DEF Balanced
<1>3. PICK S : s \in Seq(S)
  BY <1>1 DEF IsSeq
<1> DEFINE l == Len(s)
           r == SubSeq(s, n + 1, l)
           y == [j \in 1 .. l - n + 1 |-> z[n + j]]
<1>4. Len(r) = l - n /\ IsSeq(r) /\ \A j \in 1 .. l - n : r[j] = s[n + j]
  <2> DEFINE m == n + 1
  <2>1. m \in 1 .. l + 1 /\ l \in m - 1 .. l
    BY <1>1
  <2> HIDE DEF m
  <2>2. /\ SubSeq(s, m, l) \in Seq(S) /\ Len(SubSeq(s, m, l)) = l - m + 1
        /\ \A j \in 1 .. l - m + 1 : SubSeq(s, m, l)[j] = s[m + j - 1]
    BY <1>3, <2>1, SubSeqProperties
  <2>3. m = n + 1
    BY DEF m
  <2>4. l - m + 1 = l - n /\ \A j \in Int : m + j - 1 = n + j
    BY <1>1, <2>3
  <2>5. IsSeq(r) /\ Len(r) = l - n
    BY <2>2, <2>3, <2>4 DEF IsSeq
  <2>6. ASSUME NEW j \in 1 .. l - n PROVE r[j] = s[n + j]
    <3>1. m + j - 1 = n + j /\ j \in 1 .. l - m + 1
      BY <1>1, <2>4
    <3> QED
      BY <2>2, <2>3, <3>1
  <2> QED
    BY <2>5, <2>6
<1>5. \A j \in 1 .. l + 1 : z[j] \in States
  BY <1>2 DEF Passing
<1>6. /\ y \in [1 .. l - n + 1 -> States]
      /\ \A j \in 1 .. l - n + 1 : y[j] = z[n + j] /\ n + j \in 1 .. l + 1
  BY <1>1, <1>5
<1> HIDE DEF y, r
<1>7. Passing(v, y, r)
  <2>1. ASSUME NEW j \in 1 .. l - n PROVE Passes(v, y[j], r[j], y[j + 1])
    <3>1. j \in 1 .. l - n + 1 /\ j + 1 \in 1 .. l - n + 1 /\ n + j \in 1 .. l /\ n + (j + 1) = n + j + 1
      BY <1>1
    <3>2. Passes(v, z[n + j], s[n + j], z[n + j + 1])
      BY <1>2, <3>1 DEF Passing
    <3> QED
      BY <1>4, <1>6, <3>1, <3>2
  <2>2. ASSUME NEW j \in 1 .. l - n + 1, NEW k \in 1 .. l - n + 1, j <= k PROVE y[k].floor <= y[j].floor
    <3>1. n + j \in 1 .. l + 1 /\ n + k \in 1 .. l + 1 /\ n + j <= n + k
      BY <1>1, <2>2
    <3> QED
      BY <1>2, <1>6, <3>1 DEF Passing
  <2> QED
    BY <1>4, <1>6, <2>1, <2>2 DEF Passing
<1>8. n \in 1 .. l + 1 /\ n + 1 \in 1 .. l + 1 /\ 1 \in 1 .. l - n + 1 /\ l - n + 1 \in 1 .. l - n + 1
      /\ n + (l - n + 1) = l + 1
      /\ 1 \in 1 .. l + 1 /\ 1 <= n
  BY <1>1
<1>9. Balanced(v, z[n + 1], r, e)
  <2>1. y[1] = z[n + 1] /\ y[Len(r) + 1] = z[l + 1]
    BY <1>4, <1>6, <1>8
  <2>2. Below(y[1], z[n + 1])
    BY <1>5, <1>8, <2>1 DEF Below, States
  <2> QED
    BY <1>1, <1>2, <1>4, <1>5, <1>7, <1>8, <2>1, <2>2 DEF Balanced
<1>10. Passes(v, z[n], s[n], z[n + 1]) /\ z[n].floor <= z[1].floor
  BY <1>2, <1>8 DEF Passing
<1>11. z[n].floor <= a.floor
  <2>1. z[n].floor \in Int /\ z[1].floor \in Int /\ a.floor \in Int /\ z[1].floor <= a.floor
    BY <1>1, <1>2, <1>5, <1>8 DEF States, Below
  <2> QED
    BY <1>10, <2>1
<1>12. n = 1 => Passes(v, a, s[n], z[n + 1])
  <2> SUFFICES ASSUME n = 1 PROVE Passes(v, a, s[n], z[n + 1])
    OBVIOUS
  <2>1. z[n + 1] \in States /\ z[n] \in States
    BY <1>5, <1>8
  <2>2. Below(z[n + 1], z[n + 1])
    BY <2>1 DEF Below, States
  <2> QED
    BY <1>1, <1>2, <1>10, <2>1, <2>2, PassesBelow
<1> QED
  BY <1>5, <1>8, <1>9, <1>10, <1>11, <1>12 DEF r

(* Nodes above the floor may change.                                       *)
LEMMA BalancedSame ==
    ASSUME NEW v, NEW a, NEW s, NEW e, Balanced(v, a, s, e), NEW w,
           \A k \in 1 .. a.floor : w[k] = v[k]
    PROVE  Balanced(w, a, s, e)
<1>1. IsSeq(s) /\ Len(s) \in Nat /\ a \in States /\ e \in States
  BY SequencesAre DEF Balanced
<1>2. PICK z : Passing(v, z, s) /\ Below(z[1], a) /\ Below(e, z[Len(s) + 1])
  BY DEF Balanced
<1>3. ASSUME NEW j \in 1 .. Len(s) PROVE Passes(w, z[j], s[j], z[j + 1])
  <2>1. Passes(v, z[j], s[j], z[j + 1])
    BY <1>2 DEF Passing
  <2>2. CASE ~IsBinary(s[j])
    BY <2>1, <2>2 DEF Passes
  <2>3. CASE IsBinary(s[j])
    <3>1. /\ z[j].floor <= z[1].floor /\ z[1].floor <= a.floor /\ z[j] \in States /\ z[1] \in States
      BY <1>1, <1>2 DEF Passing, Below
    <3>2. /\ z[j].height \in Nat /\ z[j].floor \in Int /\ z[1].floor \in Int /\ a.floor \in Int
      BY <1>1, <3>1 DEF States
    <3>3. Fresh(s[j]) = 1 /\ Takes(s[j]) = s[j][3] /\ s[j][3] = 2 /\ Takes(s[j]) <= z[j].height
      BY <2>1, <2>3, TakesAre DEF Passes
    <3>4. z[j].height - 1 <= z[j].floor
      BY <2>1, <3>3 DEF Passes, Counts
    <3>5. z[j].height - 1 \in 1 .. a.floor
      BY <3>1, <3>2, <3>3, <3>4
    <3>6. w[z[j].height - 1] = v[z[j].height - 1]
      BY <3>5
    <3> QED
      BY <2>1, <3>6 DEF Passes
  <2> QED
    BY <2>2, <2>3
<1>4. Passing(w, z, s)
  BY <1>2, <1>3 DEF Passing
<1> QED
  BY <1>1, <1>2, <1>4 DEF Balanced

(* Short literal sequences, item by item.                                  *)
LEMMA Equal ==
    ASSUME NEW s, NEW r, IsSeq(s), IsSeq(r), Len(s) = Len(r), \A j \in 1 .. Len(s) : s[j] = r[j]
    PROVE  s = r
<1>1. PICK S : s \in Seq(S)
  BY DEF IsSeq
<1>2. PICK R : r \in Seq(R)
  BY DEF IsSeq
<1>3. s \in [1 .. Len(s) -> S] /\ r \in [1 .. Len(r) -> R]
  BY <1>1, <1>2
<1> QED
  BY <1>3

(* A sequence is its first element and the others.                          *)
LEMMA Consed ==
    ASSUME NEW g, NEW x, NEW r, IsSeq(g), IsSeq(r), Len(g) = Len(r) + 1, g[1] = x,
           \A j \in 1 .. Len(r) : g[j + 1] = r[j]
    PROVE  g = <<x>> \o r
<1> DEFINE h == <<x>>
           q == h \o r
<1>1. IsSeq(h) /\ Len(h) = 1 /\ h[1] = x /\ Len(r) \in Nat
  BY SequencesAre
<1> HIDE DEF h
<1> HIDE DEF q
<1>2. /\ IsSeq(q) /\ Len(q) = Len(r) + 1
      /\ \A j \in 1 .. 1 : q[j] = h[j]
      /\ \A j \in 1 + 1 .. 1 + Len(r) : q[j] = r[j - 1]
  <2>1. /\ IsSeq(h \o r) /\ Len(h \o r) = Len(h) + Len(r)
        /\ \A j \in 1 .. Len(h) : (h \o r)[j] = h[j]
        /\ \A j \in Len(h) + 1 .. Len(h) + Len(r) : (h \o r)[j] = r[j - Len(h)]
    BY <1>1, Joined
  <2>2. /\ IsSeq(q) /\ Len(q) = Len(h) + Len(r)
        /\ \A j \in 1 .. Len(h) : q[j] = h[j]
        /\ \A j \in Len(h) + 1 .. Len(h) + Len(r) : q[j] = r[j - Len(h)]
    BY <2>1 DEF q
  <2> QED
    BY <1>1, <2>2
<1>3. ASSUME NEW j \in 1 .. Len(g) PROVE g[j] = q[j]
  <2>1. CASE j = 1
    <3>1. 1 \in 1 .. 1
      OBVIOUS
    <3>2. q[1] = h[1]
      BY <1>2, <3>1
    <3> QED
      BY <1>1, <2>1, <3>2
  <2>2. CASE j > 1
    <3>1. j - 1 \in 1 .. Len(r) /\ (j - 1) + 1 = j /\ j \in 1 + 1 .. 1 + Len(r)
      BY <1>1, <2>2
    <3> QED
      BY <1>2, <3>1
  <2> QED
    BY <2>1, <2>2
<1>4. IsSeq(g) /\ IsSeq(q) /\ Len(g) = Len(q)
  BY <1>2
<1>5. g = q
  BY <1>3, <1>4, Equal
<1> QED
  BY <1>5 DEF q, h

(* Literal sequences are put together item by item.                         *)
LEMMA Consing ==
    /\ \A a, b : <<a, b>> = <<a>> \o <<b>>
    /\ \A a, b, d : <<a, b, d>> = <<a>> \o <<b, d>>
    /\ \A a, b, d, e : <<a, b, d, e>> = <<a>> \o <<b, d, e>>
    /\ \A a, b, d, e, f : <<a, b, d, e, f>> = <<a>> \o <<b, d, e, f>>
    /\ \A a, b, d, e, f, g : <<a, b, d, e, f, g>> = <<a>> \o <<b, d, e, f, g>>
<1>1. ASSUME NEW a, NEW b PROVE <<a, b>> = <<a>> \o <<b>>
  <2> DEFINE s == <<a, b>>
             r == <<b>>
  <2>1. s \in Seq({a, b}) /\ r \in Seq({b}) /\ Len(s) = 2 /\ Len(r) = 1
    OBVIOUS
  <2>2. s[1] = a /\ s[2] = b
    OBVIOUS
  <2>3. r[1] = b
    OBVIOUS
  <2> HIDE DEF s, r
  <2>4. ASSUME NEW j \in 1 .. Len(r) PROVE s[j + 1] = r[j]
    <3>1. j = 1
      BY <2>1
    <3> QED
      BY <2>2, <2>3, <3>1
  <2>5. IsSeq(s) /\ IsSeq(r) /\ Len(s) = Len(r) + 1 /\ s[1] = a
    BY <2>1, <2>2 DEF IsSeq
  <2>6. s = <<a>> \o r
    BY <2>4, <2>5, Consed
  <2> QED
    BY <2>6 DEF s, r
<1>2. ASSUME NEW a, NEW b, NEW d PROVE <<a, b, d>> = <<a>> \o <<b, d>>
  <2> DEFINE s == <<a, b, d>>
             r == <<b, d>>
  <2>1. s \in Seq({a, b, d}) /\ r \in Seq({b, d}) /\ Len(s) = 3 /\ Len(r) = 2
    OBVIOUS
  <2>2. s[1] = a /\ s[2] = b /\ s[3] = d
    OBVIOUS
  <2>3. r[1] = b /\ r[2] = d
    OBVIOUS
  <2> HIDE DEF s, r
  <2>4. ASSUME NEW j \in 1 .. Len(r) PROVE s[j + 1] = r[j]
    <3>1. j = 1 \/ j = 2
      BY <2>1
    <3> QED
      BY <2>2, <2>3, <3>1
  <2>5. IsSeq(s) /\ IsSeq(r) /\ Len(s) = Len(r) + 1 /\ s[1] = a
    BY <2>1, <2>2 DEF IsSeq
  <2>6. s = <<a>> \o r
    BY <2>4, <2>5, Consed
  <2> QED
    BY <2>6 DEF s, r
<1>3. ASSUME NEW a, NEW b, NEW d, NEW e PROVE <<a, b, d, e>> = <<a>> \o <<b, d, e>>
  <2> DEFINE s == <<a, b, d, e>>
             r == <<b, d, e>>
  <2>1. s \in Seq({a, b, d, e}) /\ r \in Seq({b, d, e}) /\ Len(s) = 4 /\ Len(r) = 3
    OBVIOUS
  <2>2. s[1] = a /\ s[2] = b /\ s[3] = d /\ s[4] = e
    OBVIOUS
  <2>3. r[1] = b /\ r[2] = d /\ r[3] = e
    OBVIOUS
  <2> HIDE DEF s, r
  <2>4. ASSUME NEW j \in 1 .. Len(r) PROVE s[j + 1] = r[j]
    <3>1. j = 1 \/ j = 2 \/ j = 3
      BY <2>1
    <3> QED
      BY <2>2, <2>3, <3>1
  <2>5. IsSeq(s) /\ IsSeq(r) /\ Len(s) = Len(r) + 1 /\ s[1] = a
    BY <2>1, <2>2 DEF IsSeq
  <2>6. s = <<a>> \o r
    BY <2>4, <2>5, Consed
  <2> QED
    BY <2>6 DEF s, r
<1>4. ASSUME NEW a, NEW b, NEW d, NEW e, NEW f PROVE <<a, b, d, e, f>> = <<a>> \o <<b, d, e, f>>
  <2> DEFINE s == <<a, b, d, e, f>>
             r == <<b, d, e, f>>
  <2>1. s \in Seq({a, b, d, e, f}) /\ r \in Seq({b, d, e, f}) /\ Len(s) = 5 /\ Len(r) = 4
    OBVIOUS
  <2>2. s[1] = a /\ s[2] = b /\ s[3] = d /\ s[4] = e /\ s[5] = f
    OBVIOUS
  <2>3. r[1] = b /\ r[2] = d /\ r[3] = e /\ r[4] = f
    OBVIOUS
  <2> HIDE DEF s, r
  <2>4. ASSUME NEW j \in 1 .. Len(r) PROVE s[j + 1] = r[j]
    <3>1. j = 1 \/ j = 2 \/ j = 3 \/ j = 4
      BY <2>1
    <3> QED
      BY <2>2, <2>3, <3>1
  <2>5. IsSeq(s) /\ IsSeq(r) /\ Len(s) = Len(r) + 1 /\ s[1] = a
    BY <2>1, <2>2 DEF IsSeq
  <2>6. s = <<a>> \o r
    BY <2>4, <2>5, Consed
  <2> QED
    BY <2>6 DEF s, r
<1>5. ASSUME NEW a, NEW b, NEW d, NEW e, NEW f, NEW g PROVE <<a, b, d, e, f, g>> = <<a>> \o <<b, d, e, f, g>>
  <2> DEFINE s == <<a, b, d, e, f, g>>
             r == <<b, d, e, f, g>>
  <2>1. s \in Seq({a, b, d, e, f, g}) /\ r \in Seq({b, d, e, f, g}) /\ Len(s) = 6 /\ Len(r) = 5
    OBVIOUS
  <2>2. s[1] = a /\ s[2] = b /\ s[3] = d /\ s[4] = e /\ s[5] = f /\ s[6] = g
    OBVIOUS
  <2>3. r[1] = b /\ r[2] = d /\ r[3] = e /\ r[4] = f /\ r[5] = g
    OBVIOUS
  <2> HIDE DEF s, r
  <2>4. ASSUME NEW j \in 1 .. Len(r) PROVE s[j + 1] = r[j]
    <3>1. j = 1 \/ j = 2 \/ j = 3 \/ j = 4 \/ j = 5
      BY <2>1
    <3> QED
      BY <2>2, <2>3, <3>1
  <2>5. IsSeq(s) /\ IsSeq(r) /\ Len(s) = Len(r) + 1 /\ s[1] = a
    BY <2>1, <2>2 DEF IsSeq
  <2>6. s = <<a>> \o r
    BY <2>4, <2>5, Consed
  <2> QED
    BY <2>6 DEF s, r
<1> QED
  BY <1>1, <1>2, <1>3, <1>4, <1>5

(* What is known among tags and where a text has been begun, which a        *)
(* template has to follow.                                                  *)
Code(h, f, l) == [height |-> h, floor |-> f, top |-> l, text |-> FALSE]
Text(h, f, l) == [height |-> h, floor |-> f, top |-> l, text |-> TRUE]

(* Passes, spelled out for the states among tags and behind a text.         *)
LEMMA PassesAre ==
    ASSUME NEW v, NEW x, NEW h \in Nat, NEW f \in Int, NEW l \in Int, NEW k \in Nat, NEW g \in Int, NEW m \in Int,
           Takes(x) \in Nat, Wants(x) \in Nat, Promises(x) \in Nat, Takes(x) <= h, Counts(x) => h - Fresh(x) <= f,
           g <= f, g <= h - Takes(x), Wants(x) <= l, m <= Promises(x),
           x[1] # "fail" => k = h + Gives(x) - Takes(x), IsDeaf(x) => x[2] = h,
           IsBinary(x) => x[3] = 2 /\ Level(x[2]) <= v[h - 1].level
    PROVE  /\ ~Texty(x) => Passes(v, Code(h, f, l), x, Code(k, g, m))
           /\ Texty(x) => Passes(v, Code(h, f, l), x, Text(k, g, m))
           /\ x[1] = "template" => Passes(v, Text(h, f, l), x, Code(k, g, m))
<1>1. /\ Code(h, f, l).height = h /\ Code(h, f, l).floor = f /\ Code(h, f, l).top = l /\ ~Code(h, f, l).text
      /\ Text(h, f, l).height = h /\ Text(h, f, l).floor = f /\ Text(h, f, l).top = l
      /\ Code(k, g, m).height = k /\ Code(k, g, m).floor = g /\ Code(k, g, m).top = m /\ ~Code(k, g, m).text
      /\ Text(k, g, m).height = k /\ Text(k, g, m).floor = g /\ Text(k, g, m).top = m /\ Text(k, g, m).text
  BY DEF Code, Text
<1>2. x[1] = "template" => ~Texty(x)
  BY DEF Texty
<1>3. ASSUME NEW a, NEW b, a.height = h, a.floor = f, a.top = l, b.height = k, b.floor = g, b.top = m,
             a.text => x[1] = "template", b.text <=> Texty(x)
      PROVE  Passes(v, a, x, b)
  BY <1>3 DEF Passes
<1>4. ~Texty(x) => Passes(v, Code(h, f, l), x, Code(k, g, m))
  BY <1>1, <1>3
<1>5. Texty(x) => Passes(v, Code(h, f, l), x, Text(k, g, m))
  BY <1>1, <1>3
<1>6. x[1] = "template" => Passes(v, Text(h, f, l), x, Code(k, g, m))
  BY <1>1, <1>2, <1>3
<1> QED
  BY <1>4, <1>5, <1>6

(* Items that leave the nodes alone.                                       *)
Neutral(x) ==
    /\ x[1] \notin Makers \cup Enders \cup Givers \cup RuleNames \cup Atoms
    /\ x[1] \notin {"make", "operators", "drop", "fail", "unchecked", "statement"}

(* Such an item takes no nodes, gives none and wants nothing of the last    *)
(* one.                                                                     *)
LEMMA NeutralIs ==
    ASSUME NEW x, Neutral(x)
    PROVE  /\ Takes(x) = 0 /\ Gives(x) = 0 /\ Wants(x) = 1 /\ Promises(x) = 1
           /\ ~IsBinary(x) /\ ~IsDeaf(x) /\ ~Counts(x) /\ x[1] # "fail"
<1>1. /\ x[1] \notin Makers \cup Enders \cup {"drop"} /\ x[1] \notin Makers /\ x[1] \notin Givers
      /\ x[1] \notin Enders
      /\ x[1] \notin Atoms /\ x[1] \notin RuleNames
      /\ x[1] \notin {"make", "operators", "postfix_operator", "unary", "fail", "unchecked", "statement"}
  BY DEF Neutral, Enders, Givers
<1>2. ~IsBinary(x) /\ Takes(x) = 0 /\ Gives(x) = 0 /\ Wants(x) = 1 /\ Promises(x) = 1
  BY <1>1 DEF IsBinary, Takes, Gives, Wants, Promises
<1> QED
  BY <1>1, <1>2 DEF IsDeaf, Counts

(* It passes wherever its nodes are there.                                  *)
LEMMA NeutralPasses ==
    ASSUME NEW v, NEW h \in Nat, NEW f \in Int, NEW l \in Int, f <= h, 1 <= l, NEW x, Neutral(x)
    PROVE  /\ ~Texty(x) => Passes(v, Code(h, f, l), x, Code(h, f, 1))
           /\ Texty(x) => Passes(v, Code(h, f, l), x, Text(h, f, 1))
           /\ x[1] = "template" => Passes(v, Text(h, f, l), x, Code(h, f, 1))
<1>1. /\ Takes(x) = 0 /\ Gives(x) = 0 /\ Wants(x) = 1 /\ Promises(x) = 1
      /\ ~IsBinary(x) /\ ~IsDeaf(x) /\ ~Counts(x) /\ x[1] # "fail"
  BY NeutralIs
<1>3. /\ Takes(x) \in Nat /\ Wants(x) \in Nat /\ Promises(x) \in Nat /\ Takes(x) <= h
      /\ (Counts(x) => h - Fresh(x) <= f) /\ f <= f /\ f <= h - Takes(x)
      /\ Wants(x) <= l /\ 1 <= Promises(x) /\ (x[1] # "fail" => h = h + Gives(x) - Takes(x))
      /\ (IsDeaf(x) => x[2] = h)
      /\ (IsBinary(x) => x[3] = 2 /\ Level(x[2]) <= v[h - 1].level)
      /\ h \in Nat /\ h \in Nat /\ f \in Int /\ 1 \in Int
  BY <1>1
<1>4. /\ ~Texty(x) => Passes(v, Code(h, f, l), x, Code(h, f, 1))
      /\ Texty(x) => Passes(v, Code(h, f, l), x, Text(h, f, 1))
      /\ x[1] = "template" => Passes(v, Text(h, f, l), x, Code(h, f, 1))
  BY <1>3, PassesAre
<1> QED
  BY <1>4

(* Items that make a node out of nothing that waits.                       *)
LEMMA GiverPasses ==
    ASSUME NEW v, NEW h \in Nat, NEW f \in Int, NEW l \in Int, f <= h, 1 <= l, NEW x,
           x[1] \in Givers \cup RuleNames
    PROVE  /\ Passes(v, Code(h, f, l), x, Code(h + 1, f, Promises(x))) /\ Promises(x) \in 1 .. 15
           /\ Takes(x) = 0 /\ Gives(x) = 1 /\ Wants(x) = 1 /\ ~Texty(x)
<1>1. /\ x[1] \notin Makers \cup Enders \cup {"drop"} /\ x[1] \notin Makers /\ x[1] \notin Enders
      /\ x[1] \notin {"make", "operators", "postfix_operator", "fail", "unchecked", "statement", "template"}
      /\ ~Texty(x)
  BY DEF Makers, Enders, Givers, RuleNames, Texty
<1>2. ~IsBinary(x) /\ Takes(x) = 0 /\ Gives(x) = 1 /\ Wants(x) = 1 /\ ~IsDeaf(x)
  BY <1>1 DEF IsBinary, Takes, Gives, Wants, IsDeaf
<1>3. Promises(x) \in 1 .. 15
  <2>1. x[1] \in RuleNames => RuleLevel[x[1]] \in 4 .. 13
    BY RulesAre
  <2> QED
    BY <1>1, <2>1 DEF Promises
<1>4. ~Counts(x)
  BY <1>2 DEF Counts
<1>5. /\ Takes(x) \in Nat /\ Wants(x) \in Nat /\ Promises(x) \in Nat /\ Takes(x) <= h
      /\ (Counts(x) => h - Fresh(x) <= f) /\ f <= f /\ f <= h - Takes(x)
      /\ Wants(x) <= l /\ Promises(x) <= Promises(x) /\ (x[1] # "fail" => (h + 1) = h + Gives(x) - Takes(x))
      /\ (IsDeaf(x) => x[2] = h)
      /\ (IsBinary(x) => x[3] = 2 /\ Level(x[2]) <= v[h - 1].level)
      /\ h \in Nat /\ (h + 1) \in Nat /\ f \in Int /\ Promises(x) \in Int
  BY <1>1, <1>2, <1>3, <1>4
<1>6. Passes(v, Code(h, f, l), x, Code(h + 1, f, Promises(x)))
  BY <1>1, <1>5, PassesAre
<1> QED
  BY <1>1, <1>2, <1>3, <1>6

(* Items that put something in the place of the last node.                 *)
LEMMA EnderPasses ==
    ASSUME NEW v, NEW h \in Nat \ {0}, NEW f \in Int, NEW l \in Int, h - 1 <= f, NEW x,
           x[1] \in Enders, x[1] = "operators" => x[2] \in RuleNames
    PROVE  /\ Wants(x) <= l => Passes(v, Code(h, f, l), x, Code(h, h - 1, Promises(x)))
           /\ Promises(x) \in 1 .. 15
           /\ Takes(x) = 1 /\ Gives(x) = 1 /\ Wants(x) \in 1 .. 15 /\ ~Texty(x)
<1>1. /\ x[1] \notin Makers
      /\ x[1] \notin {"make", "fail", "unchecked", "statement", "template", "unary"} /\ x[1] \notin RuleNames
      /\ ~Texty(x)
  BY DEF Makers, Enders, Givers, RuleNames, Texty
<1>2. ~IsBinary(x) /\ Takes(x) = 1 /\ Gives(x) = 1 /\ ~IsDeaf(x)
  BY <1>1 DEF IsBinary, Takes, Gives, IsDeaf
<1>3. x[1] = "operators" => RuleLevel[x[2]] \in 4 .. 13
  BY RulesAre
<1>4. Promises(x) \in 1 .. 15 /\ Wants(x) \in 1 .. 15
  BY <1>1, <1>2, <1>3 DEF Promises, Wants
<1>5. Fresh(x) = 1
  BY <1>2 DEF Fresh
<1>6. ASSUME Wants(x) <= l PROVE Passes(v, Code(h, f, l), x, Code(h, h - 1, Promises(x)))
  <2>1. /\ Takes(x) \in Nat /\ Wants(x) \in Nat /\ Promises(x) \in Nat /\ Takes(x) <= h
        /\ (Counts(x) => h - Fresh(x) <= f) /\ (h - 1) <= f /\ (h - 1) <= h - Takes(x)
        /\ Wants(x) <= l /\ Promises(x) <= Promises(x) /\ (x[1] # "fail" => h = h + Gives(x) - Takes(x))
        /\ (IsDeaf(x) => x[2] = h)
        /\ (IsBinary(x) => x[3] = 2 /\ Level(x[2]) <= v[h - 1].level)
        /\ h \in Nat /\ h \in Nat /\ (h - 1) \in Int /\ Promises(x) \in Int
    BY <1>1, <1>2, <1>4, <1>5, <1>6
  <2> QED
    BY <1>1, <2>1, PassesAre
<1> QED
  BY <1>1, <1>2, <1>4, <1>6

(* A node that becomes part of a statement.                                 *)
LEMMA DropPasses ==
    ASSUME NEW v, NEW h \in Nat, NEW f \in Int, NEW l \in Int, h <= f, 1 <= l
    PROVE  /\ Passes(v, Code(h + 1, f, l), Drop, Code(h, h, 1))
           /\ Takes(Drop) = 1 /\ Gives(Drop) = 0 /\ Wants(Drop) = 1 /\ Promises(Drop) = 1 /\ ~Texty(Drop)
<1> DEFINE x == Drop
<1>0. x[1] = "drop"
  BY DEF Drop
<1> HIDE DEF x
<1>1. /\ x[1] \notin Makers /\ x[1] \notin Givers /\ x[1] \notin RuleNames /\ x[1] \notin Enders
      /\ x[1] \notin Atoms
      /\ x[1] \notin {"make", "operators", "postfix_operator", "fail", "unchecked", "statement", "template",
         "unary"}
      /\ ~Texty(x)
  BY <1>0 DEF Makers, Enders, Givers, RuleNames, Texty, Atoms
<1>2. ~IsBinary(x) /\ Takes(x) = 1 /\ Gives(x) = 0 /\ ~IsDeaf(x)
  BY <1>0, <1>1 DEF IsBinary, Takes, Gives, IsDeaf
<1>3. Promises(x) = 1 /\ Wants(x) = 1
  BY <1>1, <1>2 DEF Promises, Wants
<1>4. Fresh(x) = 1
  BY <1>2 DEF Fresh
<1>6. /\ Takes(x) \in Nat /\ Wants(x) \in Nat /\ Promises(x) \in Nat /\ Takes(x) <= (h + 1)
      /\ (Counts(x) => (h + 1) - Fresh(x) <= f) /\ h <= f /\ h <= (h + 1) - Takes(x)
      /\ Wants(x) <= l /\ 1 <= Promises(x) /\ (x[1] # "fail" => h = (h + 1) + Gives(x) - Takes(x))
      /\ (IsDeaf(x) => x[2] = (h + 1))
      /\ (IsBinary(x) => x[3] = 2 /\ Level(x[2]) <= v[(h + 1) - 1].level)
      /\ (h + 1) \in Nat /\ h \in Nat /\ h \in Int /\ 1 \in Int
  BY <1>1, <1>2, <1>3, <1>4
<1>5. Passes(v, Code(h + 1, f, l), x, Code(h, h, 1))
  BY <1>1, <1>6, PassesAre
<1> QED
  BY <1>1, <1>2, <1>3, <1>5 DEF x

(* A node of the last k nodes, or the end of a list that makes one.        *)
LEMMA MakerPasses ==
    ASSUME NEW v, NEW h \in Nat, NEW f \in Int, NEW l \in Int, NEW x, x[1] \in Makers, ~IsBinary(x),
           x[3] \in Nat, x[3] <= h, h - x[3] <= f, 1 <= l
    PROVE  /\ Passes(v, Code(h, f, l), x, Code(h - x[3] + 1, h - x[3], Promises(x))) /\ Promises(x) \in 1 .. 15
           /\ Takes(x) = x[3] /\ Gives(x) = 1 /\ Wants(x) = 1 /\ ~Texty(x)
           /\ x[1] # "make" => Promises(x) = 15
<1>1. /\ x[1] \notin RuleNames
      /\ x[1] \notin {"operators", "postfix_operator", "fail", "unchecked", "statement", "template", "unary"}
      /\ ~Texty(x)
  BY DEF Makers, RuleNames, Texty
<1>2. Takes(x) = x[3] /\ Gives(x) = 1 /\ ~IsDeaf(x) /\ Wants(x) = 1 /\ Fresh(x) = x[3]
  BY <1>1 DEF Takes, Gives, IsDeaf, Wants, Fresh
<1>3. Promises(x) \in 1 .. 15 /\ (x[1] # "make" => Promises(x) = 15)
  BY <1>1, LevelIs DEF Promises, Makers, Atoms
<1>4. /\ Takes(x) \in Nat /\ Wants(x) \in Nat /\ Promises(x) \in Nat /\ Takes(x) <= h
      /\ (Counts(x) => h - Fresh(x) <= f) /\ (h - x[3]) <= f /\ (h - x[3]) <= h - Takes(x)
      /\ Wants(x) <= l /\ Promises(x) <= Promises(x) /\ (x[1] # "fail" => (h - x[3] + 1) = h + Gives(x) - Takes(x))
      /\ (IsDeaf(x) => x[2] = h)
      /\ (IsBinary(x) => x[3] = 2 /\ Level(x[2]) <= v[h - 1].level)
      /\ h \in Nat /\ (h - x[3] + 1) \in Nat /\ (h - x[3]) \in Int /\ Promises(x) \in Int
  BY <1>1, <1>2, <1>3
<1>5. Passes(v, Code(h, f, l), x, Code(h - x[3] + 1, h - x[3], Promises(x)))
  BY <1>1, <1>4, PassesAre
<1> QED
  BY <1>1, <1>2, <1>3, <1>5

(* A binary node, of two nodes that hold together tightly enough.           *)
LEMMA BinaryPasses ==
    ASSUME NEW v, NEW h \in Nat, NEW f \in Int, NEW l \in Int, NEW x, IsBinary(x), x[3] = 2,
           2 <= h, h - 1 <= f, Level(x[2]) + 1 <= l, Level(x[2]) <= v[h - 1].level
    PROVE  Passes(v, Code(h, f, l), x, Code(h - 1, h - 2, Level(x[2])))
<1>1. x[1] = "make"
  BY DEF IsBinary
<1>2. /\ x[1] # "fail" /\ x[1] # "template" /\ ~Texty(x) /\ ~IsDeaf(x) /\ x[1] \in Makers
  BY <1>1 DEF Makers, Texty, IsDeaf
<1>3. /\ Takes(x) = 2 /\ Gives(x) = 1 /\ Wants(x) = Level(x[2]) + 1 /\ Fresh(x) = 1 /\ Promises(x) = Level(x[2])
      /\ Level(x[2]) \in 1 .. 15
  BY <1>1, <1>2, LevelIs DEF Takes, Gives, Wants, Fresh, Promises
<1>4. /\ Takes(x) \in Nat /\ Wants(x) \in Nat /\ Promises(x) \in Nat /\ Takes(x) <= h
      /\ (Counts(x) => h - Fresh(x) <= f) /\ (h - 2) <= f /\ (h - 2) <= h - Takes(x)
      /\ Wants(x) <= l /\ Level(x[2]) <= Promises(x) /\ (x[1] # "fail" => (h - 1) = h + Gives(x) - Takes(x))
      /\ (IsDeaf(x) => x[2] = h)
      /\ (IsBinary(x) => x[3] = 2 /\ Level(x[2]) <= v[h - 1].level)
      /\ h \in Nat /\ (h - 1) \in Nat /\ (h - 2) \in Int /\ Level(x[2]) \in Int
  BY <1>2, <1>3
<1> QED
  BY <1>2, <1>4, PassesAre

(* Behind a failure anything may follow, since nothing does.               *)
LEMMA FailPasses ==
    ASSUME NEW v, NEW h \in Nat, NEW f \in Int, NEW l \in Int, NEW x, x[1] = "fail", 1 <= l,
           NEW k \in Nat, NEW g \in Int, NEW m \in Int, g <= f, g <= h, m <= 15
    PROVE  Passes(v, Code(h, f, l), x, Code(k, g, m))
<1>1. /\ x[1] \notin Makers /\ x[1] \notin Givers /\ x[1] \notin RuleNames /\ x[1] \notin Enders
      /\ x[1] \notin Atoms
      /\ x[1] \notin {"make", "operators", "postfix_operator", "unchecked", "statement", "template", "unary",
         "drop"}
      /\ ~Texty(x)
  BY DEF Makers, Enders, Givers, RuleNames, Texty, Atoms
<1>2. ~IsBinary(x) /\ Takes(x) = 0 /\ ~IsDeaf(x)
  BY <1>1 DEF IsBinary, Takes, IsDeaf
<1>3. Promises(x) = 16 /\ Wants(x) = 1
  BY <1>1, <1>2 DEF Promises, Wants
<1>4. ~Counts(x)
  BY <1>2 DEF Counts
<1>5. /\ Takes(x) \in Nat /\ Wants(x) \in Nat /\ Promises(x) \in Nat /\ Takes(x) <= h
      /\ (Counts(x) => h - Fresh(x) <= f) /\ g <= f /\ g <= h - Takes(x)
      /\ Wants(x) <= l /\ m <= Promises(x) /\ (x[1] # "fail" => k = h + Gives(x) - Takes(x))
      /\ (IsDeaf(x) => x[2] = h)
      /\ (IsBinary(x) => x[3] = 2 /\ Level(x[2]) <= v[h - 1].level)
      /\ h \in Nat /\ k \in Nat /\ g \in Int /\ m \in Int
  BY <1>1, <1>2, <1>3, <1>4
<1> QED
  BY <1>1, <1>5, PassesAre

(* The mark of a place that a null node returns to.                        *)
LEMMA DeafPasses ==
    ASSUME NEW v, NEW h \in Nat, NEW f \in Int, NEW l \in Int, NEW x, IsDeaf(x), x[2] = h, h <= f, 1 <= l
    PROVE  Passes(v, Code(h, f, l), x, Code(h, h, 1))
<1>1. /\ Takes(x) = 0 /\ Gives(x) = 0 /\ Fresh(x) = 0 /\ Wants(x) = 1 /\ Promises(x) = 1
      /\ ~Texty(x) /\ x[1] # "fail" /\ ~IsBinary(x) /\ Counts(x)
  BY TakesAre
<1>2. /\ Takes(x) \in Nat /\ Wants(x) \in Nat /\ Promises(x) \in Nat /\ Takes(x) <= h
      /\ (Counts(x) => h - Fresh(x) <= f) /\ h <= f /\ h <= h - Takes(x)
      /\ Wants(x) <= l /\ 1 <= Promises(x) /\ (x[1] # "fail" => h = h + Gives(x) - Takes(x))
      /\ (IsDeaf(x) => x[2] = h)
      /\ (IsBinary(x) => x[3] = 2 /\ Level(x[2]) <= v[h - 1].level)
      /\ h \in Nat /\ h \in Nat /\ h \in Int /\ 1 \in Int
  BY <1>1
<1> QED
  BY <1>1, <1>2, PassesAre

(* What the two kinds of states are made of.                                *)
LEMMA StateIs ==
    ASSUME NEW h \in Nat, NEW f \in Int, NEW l \in Int
    PROVE  Code(h, f, l) \in States /\ Text(h, f, l) \in States
  BY DEF Code, Text, States

(* One item between two such states.                                        *)
Leads(v, a, x, b) == a \in States /\ b \in States /\ Passes(v, a, x, b)

(* Items that leave the nodes alone.                                       *)
Silents == {"skip", "expect", "optional", "variable", "block", "statements", "template", "script", "stmt",
            "value", "if", "if_else", "else_if", "while", "for", "for_else", "catch", "catch_type",
            "catch_variable", "try", "clauses", "finally", "typehint", "more_typehints", "parameters",
            "parameter", "name", "type", "default", "next", "block_body"}
Silent(x) == x[1] \in Silents

(* Such items are neutral, and so are those that read text.                 *)
LEMMA SilentIs ==
    ASSUME NEW x
    PROVE  /\ Silent(x) => Neutral(x) /\ ~Texty(x)
           /\ x[1] \in {"read", "text", "text_CR", "comment", "close", "close_tag"} => Neutral(x) /\ Texty(x)
<1>1. ASSUME Silent(x) PROVE Neutral(x) /\ ~Texty(x)
  BY <1>1 DEF Silent, Silents, Neutral, Texty, Makers, Enders, Givers, RuleNames, Atoms
<1>2. ASSUME x[1] \in {"read", "text", "text_CR", "comment", "close", "close_tag"} PROVE Neutral(x) /\ Texty(x)
  BY <1>2 DEF Neutral, Texty, Makers, Enders, Givers, RuleNames, Atoms
<1> QED
  BY <1>1, <1>2

(* Where an item leads that leaves the nodes alone,                         *)
LEMMA SilentLeads ==
    ASSUME NEW v, NEW h \in Nat, NEW f \in Int, NEW l \in Int, f <= h, 1 <= l, NEW x, Silent(x)
    PROVE  /\ Leads(v, Code(h, f, l), x, Code(h, f, 1))
           /\ x[1] = "template" => Leads(v, Text(h, f, l), x, Code(h, f, 1))
<1>1. Neutral(x) /\ ~Texty(x)
  BY SilentIs
<1>2. Code(h, f, l) \in States /\ Text(h, f, l) \in States /\ Code(h, f, 1) \in States
  <2>1. Code(h, f, l) \in States /\ Text(h, f, l) \in States
    BY StateIs
  <2>2. Code(h, f, 1) \in States
    BY StateIs
  <2> QED
    BY <2>1, <2>2
<1>3. /\ Passes(v, Code(h, f, l), x, Code(h, f, 1))
      /\ x[1] = "template" => Passes(v, Text(h, f, l), x, Code(h, f, 1))
  BY <1>1, NeutralPasses
<1> QED
  BY <1>2, <1>3 DEF Leads

(* one that reads text,                                                     *)
LEMMA TextyLeads ==
    ASSUME NEW v, NEW h \in Nat, NEW f \in Int, NEW l \in Int, f <= h, 1 <= l, NEW x,
           x[1] \in {"read", "text", "text_CR", "comment", "close", "close_tag"}
    PROVE  Leads(v, Code(h, f, l), x, Text(h, f, 1))
<1>1. Neutral(x) /\ Texty(x)
  BY SilentIs
<1>2. Code(h, f, l) \in States /\ Text(h, f, 1) \in States
  BY StateIs
<1> QED
  BY <1>1, <1>2, NeutralPasses DEF Leads

(* one that gives a node,                                                   *)
LEMMA GiverLeads ==
    ASSUME NEW v, NEW h \in Nat, NEW f \in Int, NEW l \in Int, f <= h, 1 <= l, NEW x,
           x[1] \in Givers \cup RuleNames, NEW k, k = h + 1, NEW m, m = Promises(x)
    PROVE  Leads(v, Code(h, f, l), x, Code(k, f, m))
<1>3. Passes(v, Code(h, f, l), x, Code(h + 1, f, Promises(x))) /\ Promises(x) \in 1 .. 15
  BY GiverPasses
<1>1. Passes(v, Code(h, f, l), x, Code(k, f, m)) /\ m \in 1 .. 15
  BY <1>3
<1>2. Code(h, f, l) \in States /\ Code(k, f, m) \in States
  <2>1. k \in Nat /\ m \in Int
    BY <1>1
  <2>2. Code(k, f, m) \in States
    BY <2>1, StateIs
  <2>3. Code(h, f, l) \in States
    BY StateIs
  <2> QED
    BY <2>2, <2>3
<1> QED
  BY <1>1, <1>2 DEF Leads

(* one that replaces a node by a larger one,                                *)
LEMMA EnderLeads ==
    ASSUME NEW v, NEW h \in Nat, h > 0, NEW f \in Int, NEW l \in Int, h - 1 <= f, NEW x,
           x[1] \in Enders, x[1] = "operators" => x[2] \in RuleNames, Wants(x) <= l,
           NEW k, k = h - 1, NEW m, m = Promises(x)
    PROVE  Leads(v, Code(h, f, l), x, Code(h, k, m))
<1>1. h \in Nat \ {0}
  OBVIOUS
<1>4. Passes(v, Code(h, f, l), x, Code(h, h - 1, Promises(x))) /\ Promises(x) \in 1 .. 15
  BY <1>1, EnderPasses
<1>2. Passes(v, Code(h, f, l), x, Code(h, k, m)) /\ m \in 1 .. 15 /\ k \in Int
  BY <1>4
<1>3. Code(h, f, l) \in States /\ Code(h, k, m) \in States
  <2>1. m \in Int /\ k \in Int
    BY <1>2
  <2>2. Code(h, k, m) \in States
    BY <2>1, StateIs
  <2>3. Code(h, f, l) \in States
    BY StateIs
  <2> QED
    BY <2>2, <2>3
<1> QED
  BY <1>2, <1>3 DEF Leads

(* the use of a node,                                                       *)
LEMMA DropLeads ==
    ASSUME NEW v, NEW h \in Nat, NEW f \in Int, NEW l \in Int, h <= f, 1 <= l, NEW k, k = h + 1
    PROVE  Leads(v, Code(k, f, l), Drop, Code(h, h, 1))
<1>1. Passes(v, Code(k, f, l), Drop, Code(h, h, 1))
  <2>1. Passes(v, Code(h + 1, f, l), Drop, Code(h, h, 1))
    BY DropPasses
  <2> QED
    BY <2>1
<1>2. Code(k, f, l) \in States /\ Code(h, h, 1) \in States
  <2>1. k \in Nat /\ h \in Int /\ 1 \in Int
    OBVIOUS
  <2>2. Code(k, f, l) \in States
    BY <2>1, StateIs
  <2>3. Code(h, h, 1) \in States
    BY <2>1, StateIs
  <2> QED
    BY <2>2, <2>3
<1> QED
  BY <1>1, <1>2 DEF Leads

(* a node made of others,                                                   *)
LEMMA MakerLeads ==
    ASSUME NEW v, NEW h \in Nat, NEW f \in Int, NEW l \in Int, NEW x, x[1] \in Makers, ~IsBinary(x),
           NEW d \in Nat, x[3] = d, d <= h, h - d <= f, 1 <= l, NEW k, k = h - d + 1, NEW g, g = h - d,
           NEW m, m = Promises(x)
    PROVE  Leads(v, Code(h, f, l), x, Code(k, g, m))
<1>1. Passes(v, Code(h, f, l), x, Code(h - x[3] + 1, h - x[3], Promises(x))) /\ Promises(x) \in 1 .. 15
  BY MakerPasses
<1>2. Passes(v, Code(h, f, l), x, Code(k, g, m)) /\ m \in 1 .. 15
  BY <1>1
<1>3. Code(h, f, l) \in States /\ Code(k, g, m) \in States
  <2>1. m \in Int /\ k \in Nat /\ g \in Int
    BY <1>2
  <2>2. Code(k, g, m) \in States
    BY <2>1, StateIs
  <2>3. Code(h, f, l) \in States
    BY StateIs
  <2> QED
    BY <2>2, <2>3
<1> QED
  BY <1>2, <1>3 DEF Leads

(* the node of a binary operator,                                           *)
LEMMA BinaryLeads ==
    ASSUME NEW v, NEW h \in Nat, NEW f \in Int, NEW l \in Int, NEW x, IsBinary(x), x[3] = 2,
           2 <= h, h - 1 <= f, NEW m, m = Level(x[2]), m + 1 <= l, NEW k, k = h - 1, m <= v[k].level,
           NEW g, g = h - 2
    PROVE  Leads(v, Code(h, f, l), x, Code(k, g, m))
<1>1. Passes(v, Code(h, f, l), x, Code(k, g, m)) /\ m \in 1 .. 15
  BY BinaryPasses, LevelIs
<1>2. Code(h, f, l) \in States /\ Code(k, g, m) \in States
  <2>1. m \in Int /\ k \in Nat /\ g \in Int
    BY <1>1
  <2>2. Code(k, g, m) \in States
    BY <2>1, StateIs
  <2>3. Code(h, f, l) \in States
    BY StateIs
  <2> QED
    BY <2>2, <2>3
<1> QED
  BY <1>1, <1>2 DEF Leads

(* a failure, after which anything may be promised,                         *)
LEMMA FailLeads ==
    ASSUME NEW v, NEW h \in Nat, NEW f \in Int, NEW l \in Int, NEW x, x[1] = "fail", 1 <= l,
           NEW k \in Nat, NEW g \in Int, NEW m \in Int, g <= f, g <= h, m <= 15
    PROVE  Leads(v, Code(h, f, l), x, Code(k, g, m))
<1>1. Passes(v, Code(h, f, l), x, Code(k, g, m))
  BY FailPasses
<1>2. Code(h, f, l) \in States /\ Code(k, g, m) \in States
  BY StateIs
<1> QED
  BY <1>1, <1>2 DEF Leads

(* and the mark of a function that does not notice failures.                *)
LEMMA DeafLeads ==
    ASSUME NEW v, NEW h \in Nat, NEW l \in Int, NEW x, IsDeaf(x), x[2] = h, 1 <= l
    PROVE  Leads(v, Code(h, h, l), x, Code(h, h, 1))
<1>1. Passes(v, Code(h, h, l), x, Code(h, h, 1))
  BY DeafPasses
<1>2. Code(h, h, l) \in States /\ Code(h, h, 1) \in States
  BY StateIs
<1> QED
  BY <1>1, <1>2 DEF Leads

(* Short sequences of items.                                               *)
LEMMA ChainOne ==
    ASSUME NEW v, NEW a, NEW x, NEW b, Leads(v, a, x, b)
    PROVE  Balanced(v, a, <<x>>, b)
  BY BalancedOne DEF Leads

(* One item in front of others.                                             *)
LEMMA ChainGoesOn ==
    ASSUME NEW v, NEW a, NEW x, NEW b, Leads(v, a, x, b), NEW r, NEW e, Balanced(v, b, r, e)
    PROVE  Balanced(v, a, <<x>> \o r, e)
  BY ChainOne, BalancedJoin

(* Two items in a row,                                                      *)
LEMMA ChainTwo ==
    ASSUME NEW v, NEW a, NEW x1, NEW b, NEW x2, NEW e, Leads(v, a, x1, b), Leads(v, b, x2, e)
    PROVE  Balanced(v, a, <<x1, x2>>, e)
<1>1. Balanced(v, b, <<x2>>, e)
  BY ChainOne
<1>2. Balanced(v, a, <<x1>> \o <<x2>>, e)
  BY <1>1, ChainGoesOn
<1>3. <<x1, x2>> = <<x1>> \o <<x2>>
  BY Consing
<1> QED
  BY <1>2, <1>3

(* three,                                                                   *)
LEMMA ChainThree ==
    ASSUME NEW v, NEW a, NEW x1, NEW b, NEW x2, NEW u, NEW x3, NEW e,
           Leads(v, a, x1, b), Leads(v, b, x2, u), Leads(v, u, x3, e)
    PROVE  Balanced(v, a, <<x1, x2, x3>>, e)
<1>1. Balanced(v, b, <<x2, x3>>, e)
  BY ChainTwo
<1>2. Balanced(v, a, <<x1>> \o <<x2, x3>>, e)
  BY <1>1, ChainGoesOn
<1>3. <<x1, x2, x3>> = <<x1>> \o <<x2, x3>>
  BY Consing
<1> QED
  BY <1>2, <1>3

(* four,                                                                    *)
LEMMA ChainFour ==
    ASSUME NEW v, NEW a, NEW x1, NEW b, NEW x2, NEW u, NEW x3, NEW d, NEW x4, NEW e,
           Leads(v, a, x1, b), Leads(v, b, x2, u), Leads(v, u, x3, d), Leads(v, d, x4, e)
    PROVE  Balanced(v, a, <<x1, x2, x3, x4>>, e)
<1>1. Balanced(v, b, <<x2, x3, x4>>, e)
  BY ChainThree
<1>2. Balanced(v, a, <<x1>> \o <<x2, x3, x4>>, e)
  BY <1>1, ChainGoesOn
<1>3. <<x1, x2, x3, x4>> = <<x1>> \o <<x2, x3, x4>>
  BY Consing
<1> QED
  BY <1>2, <1>3

(* five,                                                                    *)
LEMMA ChainFive ==
    ASSUME NEW v, NEW a, NEW x1, NEW b, NEW x2, NEW u, NEW x3, NEW d, NEW x4, NEW f, NEW x5, NEW e,
           Leads(v, a, x1, b), Leads(v, b, x2, u), Leads(v, u, x3, d), Leads(v, d, x4, f), Leads(v, f, x5, e)
    PROVE  Balanced(v, a, <<x1, x2, x3, x4, x5>>, e)
<1>1. Balanced(v, b, <<x2, x3, x4, x5>>, e)
  BY ChainFour
<1>2. Balanced(v, a, <<x1>> \o <<x2, x3, x4, x5>>, e)
  BY <1>1, ChainGoesOn
<1>3. <<x1, x2, x3, x4, x5>> = <<x1>> \o <<x2, x3, x4, x5>>
  BY Consing
<1> QED
  BY <1>2, <1>3

(* and six.                                                                 *)
LEMMA ChainSix ==
    ASSUME NEW v, NEW a, NEW x1, NEW b, NEW x2, NEW u, NEW x3, NEW d, NEW x4, NEW f, NEW x5, NEW g, NEW x6, NEW e,
           Leads(v, a, x1, b), Leads(v, b, x2, u), Leads(v, u, x3, d), Leads(v, d, x4, f), Leads(v, f, x5, g),
           Leads(v, g, x6, e)
    PROVE  Balanced(v, a, <<x1, x2, x3, x4, x5, x6>>, e)
<1>1. Balanced(v, b, <<x2, x3, x4, x5, x6>>, e)
  BY ChainFive
<1>2. Balanced(v, a, <<x1>> \o <<x2, x3, x4, x5, x6>>, e)
  BY <1>1, ChainGoesOn
<1>3. <<x1, x2, x3, x4, x5, x6>> = <<x1>> \o <<x2, x3, x4, x5, x6>>
  BY Consing
<1> QED
  BY <1>2, <1>3

(* What an item of the grammar takes and promises.                         *)
Giver(x, m)    == x[1] \in Givers \cup RuleNames /\ Promises(x) = m
Ender(x, w, m) == x[1] \in Enders /\ (x[1] = "operators" => x[2] \in RuleNames) /\ Wants(x) = w /\ Promises(x) = m
Maker(x, d, m) == x[1] \in Makers /\ ~IsBinary(x) /\ d \in Nat /\ x[3] = d /\ Promises(x) = m

(* Where an item leads that promises a level: a giver,                      *)
LEMMA GiverGives ==
    ASSUME NEW v, NEW h \in Nat, NEW f \in Int, NEW l \in Int, f <= h, 1 <= l, NEW x, NEW m, Giver(x, m),
           NEW k \in Int, k <= h + 1, h + 1 <= k
    PROVE  Leads(v, Code(h, f, l), x, Code(k, f, m))
<1>1. x[1] \in Givers \cup RuleNames /\ m = Promises(x) /\ k = h + 1
  BY DEF Giver
<1> QED
  BY <1>1, GiverLeads

(* an ender,                                                                *)
LEMMA EnderEnds ==
    ASSUME NEW v, NEW h \in Nat, h > 0, NEW f \in Int, NEW l \in Int, h - 1 <= f, NEW x, NEW w, NEW m,
           Ender(x, w, m), w <= l, NEW k \in Int, k <= h - 1, h - 1 <= k
    PROVE  Leads(v, Code(h, f, l), x, Code(h, k, m))
<1>1. /\ x[1] \in Enders /\ (x[1] = "operators" => x[2] \in RuleNames) /\ m = Promises(x)
      /\ Wants(x) <= l /\ k = h - 1
  BY DEF Ender
<1> QED
  BY <1>1, EnderLeads

(* and a maker.                                                             *)
LEMMA MakerMakes ==
    ASSUME NEW v, NEW h \in Nat, NEW f \in Int, NEW l \in Int, NEW x, NEW d, NEW m, Maker(x, d, m),
           d <= h, h - d <= f, 1 <= l, NEW g \in Int, g <= h - d, h - d <= g,
           NEW k \in Int, k <= g + 1, g + 1 <= k
    PROVE  Leads(v, Code(h, f, l), x, Code(k, g, m))
<1>1. x[1] \in Makers /\ ~IsBinary(x) /\ d \in Nat /\ x[3] = d /\ m = Promises(x) /\ g = h - d /\ k = h - d + 1
  BY DEF Maker
<1> QED
  BY <1>1, MakerLeads

(* The items of the grammar that leave the nodes alone,                     *)
LEMMA SilentsAre ==
    ASSUME NEW k
    PROVE  /\ Silent(Skip)
           /\ Silent(Expect(k))
           /\ Silent(Optional(k))
           /\ Silent(Variable(k))
           /\ Silent(<<"block">>)
           /\ Silent(<<"stmt">>)
           /\ Silent(<<"value">>)
           /\ Silent(<<"if">>)
           /\ Silent(<<"if_else">>)
           /\ Silent(<<"else_if">>)
           /\ Silent(<<"while">>)
           /\ Silent(<<"for">>)
           /\ Silent(<<"for_else">>)
           /\ Silent(<<"catch">>)
           /\ Silent(<<"catch_type">>)
           /\ Silent(<<"catch_variable">>)
           /\ Silent(<<"try">>)
           /\ Silent(<<"typehint">>)
           /\ Silent(<<"more_typehints">>)
           /\ Silent(<<"parameters">>)
           /\ Silent(<<"parameter">>)
           /\ Silent(<<"name">>)
           /\ Silent(<<"type">>)
           /\ Silent(<<"default">>)
           /\ Silent(<<"block_body">>)
           /\ Silent(<<"statements", k>>)
           /\ Silent(<<"template", k>>)
           /\ Silent(<<"script", k>>)
           /\ Silent(<<"clauses", k>>)
           /\ Silent(<<"finally", k>>)
           /\ Silent(<<"next", k>>)
           /\ k \in {"if", "while", "for", "try"} => Silent(<<k>>)
           /\ <<"template", k>>[1] = "template"
  BY DEF Silent, Silents, Skip, Expect, Optional, Variable

(* those that give a node,                                                  *)
LEMMA GiversAre ==
    /\ Giver(<<"expr">>, 1) /\ Giver(<<"range">>, 1) /\ Giver(<<"ternary">>, 1) /\ Giver(<<"unary">>, 14)
    /\ Giver(<<"postfix">>, 15) /\ Giver(<<"primary">>, 15) /\ Giver(<<"function">>, 15)
    /\ Giver(<<"body">>, 15) /\ Giver(<<"arrow">>, 15) /\ Giver(<<"number">>, 15)
    /\ Giver(<<"logical_or">>, 4)
    /\ \A r \in RuleNames : Giver(<<r>>, RuleLevel[r])
<1>1. /\ Giver(<<"expr">>, 1) /\ Giver(<<"range">>, 1) /\ Giver(<<"ternary">>, 1) /\ Giver(<<"unary">>, 14)
  BY DEF Giver, Givers, Promises, RuleNames, Atoms
<1>2. /\ Giver(<<"postfix">>, 15) /\ Giver(<<"primary">>, 15) /\ Giver(<<"function">>, 15)
      /\ Giver(<<"body">>, 15) /\ Giver(<<"arrow">>, 15) /\ Giver(<<"number">>, 15)
  BY DEF Giver, Givers, Promises, RuleNames, Atoms
<1>3. ASSUME NEW r \in RuleNames PROVE Giver(<<r>>, RuleLevel[r])
  <2>1. r \notin {"make", "operators"}
    BY DEF RuleNames
  <2>2. <<r>>[1] = r
    OBVIOUS
  <2> QED
    BY <2>1, <2>2 DEF Giver, Promises
<1>4. "logical_or" \in RuleNames /\ RuleLevel["logical_or"] = 4
  BY DEF RuleNames, RuleLevel
<1> QED
  BY <1>1, <1>2, <1>3, <1>4

(* those that replace one,                                                  *)
LEMMA EndersAre ==
    /\ Ender(<<"postfix_operator">>, 15, 15) /\ Ender(<<"range_operator">>, 1, 1)
    /\ Ender(<<"ternary_operator">>, 1, 1) /\ Ender(<<"assignment">>, 1, 1)
    /\ Ender(<<"selection">>, 1, 15) /\ Ender(<<"selected">>, 1, 15)
    /\ \A r \in RuleNames : Ender(<<"operators", r>>, RuleLevel[r], RuleLevel[r])
<1>1. /\ Ender(<<"postfix_operator">>, 15, 15) /\ Ender(<<"range_operator">>, 1, 1)
      /\ Ender(<<"ternary_operator">>, 1, 1) /\ Ender(<<"assignment">>, 1, 1)
  BY DEF Ender, Enders, Wants, Promises, RuleNames, Atoms, IsBinary
<1>2. Ender(<<"selection">>, 1, 15) /\ Ender(<<"selected">>, 1, 15)
  BY DEF Ender, Enders, Wants, Promises, RuleNames, Atoms, IsBinary
<1>3. ASSUME NEW r \in RuleNames PROVE Ender(<<"operators", r>>, RuleLevel[r], RuleLevel[r])
  BY DEF Ender, Enders, Wants, Promises, IsBinary
<1> QED
  BY <1>1, <1>2, <1>3

(* and those that make one of others.                                       *)
LEMMA MakersAre ==
    /\ \A op \in {"value", "identifier", "group", "list", "map", "call", "attribute", "subscript",
                  "postfix", "throw", "function"}, d \in Nat : Maker(Make(op, d), d, 15)
    /\ \A d \in Nat : Maker(Make("unary", d), d, 14) /\ Maker(Make("?", d), d, 2)
                      /\ Maker(Make("=", d), d, 1) /\ Maker(Make("..", d), d, 3)
    /\ \A k, d : d \in Nat => Maker(<<"first", k, d>>, d, 15) /\ Maker(<<"row", k, d>>, d, 15)
    /\ Maker(<<"first", "call", 1>>, 1, 15) /\ Maker(<<"first", "list", 0>>, 0, 15)
    /\ Maker(<<"first", "map", 0>>, 0, 15)
<1>1. ASSUME NEW op, NEW d \in Nat, ~Groups(Level(op)) PROVE Maker(Make(op, d), d, Level(op))
  BY <1>1 DEF Maker, Make, Makers, IsBinary, Promises
<1>2. /\ ~Groups(15) /\ ~Groups(14) /\ ~Groups(1) /\ ~Groups(2) /\ ~Groups(3)
  BY DEF Groups
<1>3. ASSUME NEW k, NEW d \in Nat PROVE Maker(<<"first", k, d>>, d, 15) /\ Maker(<<"row", k, d>>, d, 15)
  <2>1. <<"first", k, d>>[1] = "first" /\ <<"first", k, d>>[3] = d /\ <<"row", k, d>>[1] = "row"
        /\ <<"row", k, d>>[3] = d
    OBVIOUS
  <2>2. ASSUME NEW x, x[1] \in {"first", "row"}, x[3] = d PROVE Maker(x, d, 15)
    BY <2>2 DEF Maker, Makers, IsBinary, Promises, RuleNames, Atoms
  <2> QED
    BY <2>1, <2>2
<1>4. /\ Maker(<<"first", "call", 1>>, 1, 15) /\ Maker(<<"first", "list", 0>>, 0, 15)
      /\ Maker(<<"first", "map", 0>>, 0, 15)
  <2>1. 0 \in Nat /\ 1 \in Nat
    OBVIOUS
  <2>2. Maker(<<"first", "call", 1>>, 1, 15)
    BY <1>3, <2>1
  <2>3. Maker(<<"first", "list", 0>>, 0, 15)
    BY <1>3, <2>1
  <2>4. Maker(<<"first", "map", 0>>, 0, 15)
    BY <1>3, <2>1
  <2> QED
    BY <2>2, <2>3, <2>4
<1>5. \A k, d : d \in Nat => Maker(<<"first", k, d>>, d, 15) /\ Maker(<<"row", k, d>>, d, 15)
  BY <1>3
<1> QED
  BY <1>1, <1>2, <1>4, <1>5, LevelsAre

(* A function that pushes nothing keeps what was there.                     *)
LEMMA Nothing ==
    ASSUME NEW v, NEW n \in Nat, NEW l \in 1 .. 15
    PROVE  /\ Balanced(v, Code(n, n, l), <<>>, Code(n, n, 1))
           /\ \A m \in 1 .. 15 : m <= l => Balanced(v, Code(n, n, l), <<>>, Code(n, n - 1, m))
<1>1. Code(n, n, l) \in States /\ Code(n, n, 1) \in States
  <2>1. Code(n, n, l) \in States
    BY StateIs
  <2>2. Code(n, n, 1) \in States
    BY StateIs
  <2> QED
    BY <2>1, <2>2
<1>2. Below(Code(n, n, 1), Code(n, n, l))
  BY DEF Below, Code
<1>3. ASSUME NEW m \in 1 .. 15, m <= l PROVE Balanced(v, Code(n, n, l), <<>>, Code(n, n - 1, m))
  <2>0. n - 1 \in Int /\ m \in Int
    OBVIOUS
  <2>1. Code(n, n - 1, m) \in States
    BY <2>0, StateIs
  <2>2. Below(Code(n, n - 1, m), Code(n, n, l))
    BY <1>3 DEF Below, Code
  <2> QED
    BY <1>1, <2>1, <2>2, BalancedOne
<1> QED
  BY <1>1, <1>2, <1>3, BalancedOne

(* A promise may be weakened.                                               *)
LEMMA Weaken ==
    ASSUME NEW v, NEW a, NEW s, NEW h \in Nat, NEW f \in Int, NEW l \in Int, Balanced(v, a, s, Code(h, f, l)),
           NEW m \in Int, m <= l
    PROVE  Balanced(v, a, s, Code(h, f, m))
<1>1. Code(h, f, m) \in States /\ a \in States
  BY StateIs DEF Balanced
<1>2. Below(Code(h, f, m), Code(h, f, l)) /\ Below(a, a)
  BY <1>1 DEF Below, Code, States
<1> QED
  BY <1>1, <1>2, BalancedBelow

(* Each production in turn keeps to what its item takes and promises.       *)
(* parse_block(),                                                           *)
LEMMA BlocksPass ==
    ASSUME NEW v, NEW n \in Nat, NEW l \in 1 .. 15, NEW t
    PROVE  Balanced(v, Code(n, n, l), parse_block(t), Code(n, n, 1))
<1>1. CASE t = CLOSE_TAG
  <2>1. Balanced(v, Code(n, n, l), <<Skip, ReadText, <<"template", BlockEnd>> >>, Code(n, n, 1))
    <3>1. Silent(Skip) /\ Silent(<<"template", BlockEnd>>) /\ <<"template", BlockEnd>>[1] = "template"
      BY SilentsAre
    <3>2. Leads(v, Code(n, n, l), Skip, Code(n, n, 1))
      BY <3>1, SilentLeads
    <3>3. Leads(v, Code(n, n, 1), ReadText, Text(n, n, 1))
      BY TextyLeads DEF ReadText
    <3>4. Leads(v, Text(n, n, 1), <<"template", BlockEnd>>, Code(n, n, 1))
      BY <3>1, SilentLeads
    <3> QED
      BY <3>2, <3>3, <3>4, ChainThree
  <2> QED
    BY <1>1, <2>1 DEF parse_block
<1>2. CASE t # CLOSE_TAG
  <2>1. Balanced(v, Code(n, n, l), << <<"statements", BlockEnd>> >>, Code(n, n, 1))
    <3>1. Silent(<<"statements", BlockEnd>>)
      BY SilentsAre
    <3>2. Leads(v, Code(n, n, l), <<"statements", BlockEnd>>, Code(n, n, 1))
      BY <3>1, SilentLeads
    <3> QED
      BY <3>2, ChainOne
  <2> QED
    BY <1>2, <2>1 DEF parse_block
<1> QED
  BY <1>1, <1>2

(* the statements of a block,                                               *)
LEMMA StatementsPass ==
    ASSUME NEW v, NEW n \in Nat, NEW l \in 1 .. 15, NEW k, NEW t
    PROVE  Balanced(v, Code(n, n, l), statements(k, t), Code(n, n, 1))
<1>1. CASE t \in k
  <2>1. Balanced(v, Code(n, n, l), <<>>, Code(n, n, 1))
    BY Nothing
  <2> QED
    BY <1>1, <2>1 DEF statements
<1>2. CASE t \notin k
  <2>1. Balanced(v, Code(n, n, l), << <<"stmt">>, <<"statements", k>> >>, Code(n, n, 1))
    <3>1. Silent(<<"stmt">>) /\ Silent(<<"statements", k>>)
      BY SilentsAre
    <3>2. Leads(v, Code(n, n, l), <<"stmt">>, Code(n, n, 1))
      BY <3>1, SilentLeads
    <3>3. Leads(v, Code(n, n, 1), <<"statements", k>>, Code(n, n, 1))
      BY <3>1, SilentLeads
    <3> QED
      BY <3>2, <3>3, ChainTwo
  <2> QED
    BY <1>2, <2>1 DEF statements
<1> QED
  BY <1>1, <1>2

(* templates,                                                               *)
LEMMA TemplatePasses ==
    ASSUME NEW v, NEW n \in Nat, NEW l \in 1 .. 15, NEW k, NEW t
    PROVE  Balanced(v, Code(n, n, l), template(k, t), Code(n, n, 1))
<1>1. CASE t \in k
  <2>1. Balanced(v, Code(n, n, l), <<>>, Code(n, n, 1))
    BY Nothing
  <2> QED
    BY <1>1, <2>1 DEF template
<1>2. CASE t \notin k
  <2>1. Balanced(v, Code(n, n, l), << <<"script", k>> >>, Code(n, n, 1))
    <3>1. Silent(<<"script", k>>)
      BY SilentsAre
    <3>2. Leads(v, Code(n, n, l), <<"script", k>>, Code(n, n, 1))
      BY <3>1, SilentLeads
    <3> QED
      BY <3>2, ChainOne
  <2> QED
    BY <1>2, <2>1 DEF template
<1> QED
  BY <1>1, <1>2

(* parse_script_block(),                                                    *)
LEMMA ScriptPasses ==
    ASSUME NEW v, NEW n \in Nat, NEW l \in 1 .. 15, NEW k, NEW t
    PROVE  Balanced(v, Code(n, n, l), parse_script_block(k, t), Code(n, n, 1))
<1>1. CASE t = "end_of_input"
  <2>1. Balanced(v, Code(n, n, l), <<>>, Code(n, n, 1))
    BY Nothing
  <2> QED
    BY <1>1, <2>1 DEF parse_script_block, CLOSE_TAG, SEMICOLON
<1>2. CASE t = CLOSE_TAG
  <2>1. Balanced(v, Code(n, n, l), <<Skip, ReadText, <<"template", k>> >>, Code(n, n, 1))
    <3>1. Silent(Skip) /\ Silent(<<"template", k>>) /\ <<"template", k>>[1] = "template"
      BY SilentsAre
    <3>2. Leads(v, Code(n, n, l), Skip, Code(n, n, 1))
      BY <3>1, SilentLeads
    <3>3. Leads(v, Code(n, n, 1), ReadText, Text(n, n, 1))
      BY TextyLeads DEF ReadText
    <3>4. Leads(v, Text(n, n, 1), <<"template", k>>, Code(n, n, 1))
      BY <3>1, SilentLeads
    <3> QED
      BY <3>2, <3>3, <3>4, ChainThree
  <2> QED
    BY <1>2, <2>1 DEF parse_script_block, CLOSE_TAG, SEMICOLON
<1>3. CASE t = SEMICOLON
  <2>1. Balanced(v, Code(n, n, l), <<Skip, <<"script", k>> >>, Code(n, n, 1))
    <3>1. Silent(Skip) /\ Silent(<<"script", k>>)
      BY SilentsAre
    <3>2. Leads(v, Code(n, n, l), Skip, Code(n, n, 1))
      BY <3>1, SilentLeads
    <3>3. Leads(v, Code(n, n, 1), <<"script", k>>, Code(n, n, 1))
      BY <3>1, SilentLeads
    <3> QED
      BY <3>2, <3>3, ChainTwo
  <2> QED
    BY <1>3, <2>1 DEF parse_script_block, CLOSE_TAG, SEMICOLON
<1>4. CASE t \notin {"end_of_input", CLOSE_TAG, SEMICOLON}
  <2>1. Balanced(v, Code(n, n, l), << <<"stmt">>, <<"script", k>> >>, Code(n, n, 1))
    <3>1. Silent(<<"stmt">>) /\ Silent(<<"script", k>>)
      BY SilentsAre
    <3>2. Leads(v, Code(n, n, l), <<"stmt">>, Code(n, n, 1))
      BY <3>1, SilentLeads
    <3>3. Leads(v, Code(n, n, 1), <<"script", k>>, Code(n, n, 1))
      BY <3>1, SilentLeads
    <3> QED
      BY <3>2, <3>3, ChainTwo
  <2> QED
    BY <1>4, <2>1 DEF parse_script_block, CLOSE_TAG, SEMICOLON
<1> QED
  BY <1>1, <1>2, <1>3, <1>4

(* parse_if(),                                                              *)
LEMMA IfPasses ==
    ASSUME NEW v, NEW n \in Nat, NEW l \in 1 .. 15
    PROVE  Balanced(v, Code(n, n, l), parse_if, Code(n, n, 1))
<1>1. Balanced(v, Code(n, n, l), <<Expect("if"), <<"expr">>, Drop, Expect(":"), <<"block">>, <<"if_else">> >>,
               Code(n, n, 1))
  <2>1. Silent(Expect("if")) /\ Silent(Expect(":")) /\ Silent(<<"block">>) /\ Silent(<<"if_else">>)
    BY SilentsAre
  <2>2. Giver(<<"expr">>, 1)
    BY GiversAre
  <2>3. Leads(v, Code(n, n, l), Expect("if"), Code(n, n, 1))
    BY <2>1, SilentLeads
  <2>4. Leads(v, Code(n, n, 1), <<"expr">>, Code(n + 1, n, 1))
    BY <2>2, GiverGives
  <2>5. Leads(v, Code(n + 1, n, 1), Drop, Code(n, n, 1))
    BY DropLeads
  <2>6. Leads(v, Code(n, n, 1), Expect(":"), Code(n, n, 1))
    BY <2>1, SilentLeads
  <2>7. Leads(v, Code(n, n, 1), <<"block">>, Code(n, n, 1))
    BY <2>1, SilentLeads
  <2>8. Leads(v, Code(n, n, 1), <<"if_else">>, Code(n, n, 1))
    BY <2>1, SilentLeads
  <2> QED
    BY <2>3, <2>4, <2>5, <2>6, <2>7, <2>8, ChainSix
<1> QED
  BY <1>1 DEF parse_if

(* its else,                                                                *)
LEMMA IfElsePasses ==
    ASSUME NEW v, NEW n \in Nat, NEW l \in 1 .. 15, NEW t
    PROVE  Balanced(v, Code(n, n, l), if_else(t), Code(n, n, 1))
<1>1. CASE t = "else"
  <2>1. Balanced(v, Code(n, n, l), <<Skip, <<"else_if">> >>, Code(n, n, 1))
    <3>1. Silent(Skip) /\ Silent(<<"else_if">>)
      BY SilentsAre
    <3>2. Leads(v, Code(n, n, l), Skip, Code(n, n, 1))
      BY <3>1, SilentLeads
    <3>3. Leads(v, Code(n, n, 1), <<"else_if">>, Code(n, n, 1))
      BY <3>1, SilentLeads
    <3> QED
      BY <3>2, <3>3, ChainTwo
  <2> QED
    BY <1>1, <2>1 DEF if_else
<1>2. CASE t # "else"
  <2>1. Balanced(v, Code(n, n, l), <<Expect("end"), Expect("if"), Optional(SEMICOLON)>>, Code(n, n, 1))
    <3>1. Silent(Expect("end")) /\ Silent(Expect("if")) /\ Silent(Optional(SEMICOLON))
      BY SilentsAre
    <3>2. Leads(v, Code(n, n, l), Expect("end"), Code(n, n, 1))
      BY <3>1, SilentLeads
    <3>3. Leads(v, Code(n, n, 1), Expect("if"), Code(n, n, 1))
      BY <3>1, SilentLeads
    <3>4. Leads(v, Code(n, n, 1), Optional(SEMICOLON), Code(n, n, 1))
      BY <3>1, SilentLeads
    <3> QED
      BY <3>2, <3>3, <3>4, ChainThree
  <2> QED
    BY <1>2, <2>1 DEF if_else
<1> QED
  BY <1>1, <1>2

(* its else if,                                                             *)
LEMMA ElseIfPasses ==
    ASSUME NEW v, NEW n \in Nat, NEW l \in 1 .. 15, n = Len(vals), NEW t
    PROVE  Balanced(v, Code(n, n, l), else_if(t), Code(n, n, 1))
<1>1. CASE t = "if"
  <2>1. Balanced(v, Code(n, n, l), << <<"if">>, Unchecked, Optional(SEMICOLON)>>, Code(n, n, 1))
    <3>1. Silent(<<"if">>) /\ Silent(Optional(SEMICOLON))
      BY SilentsAre
    <3>2. Leads(v, Code(n, n, l), <<"if">>, Code(n, n, 1))
      BY <3>1, SilentLeads
    <3>3. Leads(v, Code(n, n, 1), Unchecked, Code(n, n, 1))
      BY DeafLeads DEF IsDeaf, Unchecked, Statement
    <3>4. Leads(v, Code(n, n, 1), Optional(SEMICOLON), Code(n, n, 1))
      BY <3>1, SilentLeads
    <3> QED
      BY <3>2, <3>3, <3>4, ChainThree
  <2> QED
    BY <1>1, <2>1 DEF else_if
<1>2. CASE t # "if"
  <2>1. Balanced(v, Code(n, n, l), <<Expect(":"), <<"block">>, Expect("end"), Expect("if"),
                 Optional(SEMICOLON)>>, Code(n, n, 1))
    <3>1. Silent(Expect(":")) /\ Silent(<<"block">>) /\ Silent(Expect("end")) /\ Silent(Expect("if"))
          /\ Silent(Optional(SEMICOLON))
      BY SilentsAre
    <3>2. Leads(v, Code(n, n, l), Expect(":"), Code(n, n, 1))
      BY <3>1, SilentLeads
    <3>3. Leads(v, Code(n, n, 1), <<"block">>, Code(n, n, 1))
      BY <3>1, SilentLeads
    <3>4. Leads(v, Code(n, n, 1), Expect("end"), Code(n, n, 1))
      BY <3>1, SilentLeads
    <3>5. Leads(v, Code(n, n, 1), Expect("if"), Code(n, n, 1))
      BY <3>1, SilentLeads
    <3>6. Leads(v, Code(n, n, 1), Optional(SEMICOLON), Code(n, n, 1))
      BY <3>1, SilentLeads
    <3> QED
      BY <3>2, <3>3, <3>4, <3>5, <3>6, ChainFive
  <2> QED
    BY <1>2, <2>1 DEF else_if
<1> QED
  BY <1>1, <1>2

(* parse_catch(),                                                           *)
LEMMA CatchPasses ==
    ASSUME NEW v, NEW n \in Nat, NEW l \in 1 .. 15
    PROVE  Balanced(v, Code(n, n, l), parse_catch, Code(n, n, 1))
<1>1. Balanced(v, Code(n, n, l), <<Expect("catch"), <<"catch_type">>, Expect(":"), <<"block">> >>, Code(n, n, 1))
  <2>1. Silent(Expect("catch")) /\ Silent(<<"catch_type">>) /\ Silent(Expect(":")) /\ Silent(<<"block">>)
    BY SilentsAre
  <2>2. Leads(v, Code(n, n, l), Expect("catch"), Code(n, n, 1))
    BY <2>1, SilentLeads
  <2>3. Leads(v, Code(n, n, 1), <<"catch_type">>, Code(n, n, 1))
    BY <2>1, SilentLeads
  <2>4. Leads(v, Code(n, n, 1), Expect(":"), Code(n, n, 1))
    BY <2>1, SilentLeads
  <2>5. Leads(v, Code(n, n, 1), <<"block">>, Code(n, n, 1))
    BY <2>1, SilentLeads
  <2> QED
    BY <2>2, <2>3, <2>4, <2>5, ChainFour
<1> QED
  BY <1>1 DEF parse_catch

(* the type that is caught,                                                 *)
LEMMA CatchTypePasses ==
    ASSUME NEW v, NEW n \in Nat, NEW l \in 1 .. 15, NEW t
    PROVE  Balanced(v, Code(n, n, l), catch_type(t), Code(n, n, 1))
<1>1. CASE t = ":"
  <2>1. Balanced(v, Code(n, n, l), <<>>, Code(n, n, 1))
    BY Nothing
  <2> QED
    BY <1>1, <2>1 DEF catch_type
<1>2. CASE t # ":"
  <2>1. Balanced(v, Code(n, n, l), << <<"typehint">>, <<"catch_variable">> >>, Code(n, n, 1))
    <3>1. Silent(<<"typehint">>) /\ Silent(<<"catch_variable">>)
      BY SilentsAre
    <3>2. Leads(v, Code(n, n, l), <<"typehint">>, Code(n, n, 1))
      BY <3>1, SilentLeads
    <3>3. Leads(v, Code(n, n, 1), <<"catch_variable">>, Code(n, n, 1))
      BY <3>1, SilentLeads
    <3> QED
      BY <3>2, <3>3, ChainTwo
  <2> QED
    BY <1>2, <2>1 DEF catch_type
<1> QED
  BY <1>1, <1>2

(* the variable it is caught in,                                            *)
LEMMA CatchVariablePasses ==
    ASSUME NEW v, NEW n \in Nat, NEW l \in 1 .. 15, NEW t
    PROVE  Balanced(v, Code(n, n, l), catch_variable(t), Code(n, n, 1))
<1>1. CASE t = ":"
  <2>1. Balanced(v, Code(n, n, l), <<>>, Code(n, n, 1))
    BY Nothing
  <2> QED
    BY <1>1, <2>1 DEF catch_variable
<1>2. CASE t # ":"
  <2>1. Balanced(v, Code(n, n, l), << <<"expr">>, Variable(1), Drop>>, Code(n, n, 1))
    <3>1. Giver(<<"expr">>, 1)
      BY GiversAre
    <3>2. Silent(Variable(1))
      BY SilentsAre
    <3>3. Leads(v, Code(n, n, l), <<"expr">>, Code(n + 1, n, 1))
      BY <3>1, GiverGives
    <3>4. Leads(v, Code(n + 1, n, 1), Variable(1), Code(n + 1, n, 1))
      BY <3>2, SilentLeads
    <3>5. Leads(v, Code(n + 1, n, 1), Drop, Code(n, n, 1))
      BY DropLeads
    <3> QED
      BY <3>3, <3>4, <3>5, ChainThree
  <2> QED
    BY <1>2, <2>1 DEF catch_variable
<1> QED
  BY <1>1, <1>2

(* parse_try(),                                                             *)
LEMMA TryPasses ==
    ASSUME NEW v, NEW n \in Nat, NEW l \in 1 .. 15
    PROVE  Balanced(v, Code(n, n, l), parse_try, Code(n, n, 1))
<1>1. Balanced(v, Code(n, n, l), <<Expect("try"), Expect(":"), <<"block">>, <<"clauses", FALSE>> >>, Code(n, n, 1))
  <2>1. Silent(Expect("try")) /\ Silent(Expect(":")) /\ Silent(<<"block">>) /\ Silent(<<"clauses", FALSE>>)
    BY SilentsAre
  <2>2. Leads(v, Code(n, n, l), Expect("try"), Code(n, n, 1))
    BY <2>1, SilentLeads
  <2>3. Leads(v, Code(n, n, 1), Expect(":"), Code(n, n, 1))
    BY <2>1, SilentLeads
  <2>4. Leads(v, Code(n, n, 1), <<"block">>, Code(n, n, 1))
    BY <2>1, SilentLeads
  <2>5. Leads(v, Code(n, n, 1), <<"clauses", FALSE>>, Code(n, n, 1))
    BY <2>1, SilentLeads
  <2> QED
    BY <2>2, <2>3, <2>4, <2>5, ChainFour
<1> QED
  BY <1>1 DEF parse_try

(* its clauses,                                                             *)
LEMMA ClausesPass ==
    ASSUME NEW v, NEW n \in Nat, NEW l \in 1 .. 15, NEW k, NEW t
    PROVE  Balanced(v, Code(n, n, l), clauses(k, t), Code(n, n, 1))
<1>1. CASE t = "catch"
  <2>1. Balanced(v, Code(n, n, l), << <<"catch">>, <<"clauses", TRUE>> >>, Code(n, n, 1))
    <3>1. Silent(<<"catch">>) /\ Silent(<<"clauses", TRUE>>)
      BY SilentsAre
    <3>2. Leads(v, Code(n, n, l), <<"catch">>, Code(n, n, 1))
      BY <3>1, SilentLeads
    <3>3. Leads(v, Code(n, n, 1), <<"clauses", TRUE>>, Code(n, n, 1))
      BY <3>1, SilentLeads
    <3> QED
      BY <3>2, <3>3, ChainTwo
  <2> QED
    BY <1>1, <2>1 DEF clauses
<1>2. CASE t = "else"
  <2>1. Balanced(v, Code(n, n, l), <<Skip, Expect(":"), <<"block">>, <<"finally", TRUE>> >>, Code(n, n, 1))
    <3>1. Silent(Skip) /\ Silent(Expect(":")) /\ Silent(<<"block">>) /\ Silent(<<"finally", TRUE>>)
      BY SilentsAre
    <3>2. Leads(v, Code(n, n, l), Skip, Code(n, n, 1))
      BY <3>1, SilentLeads
    <3>3. Leads(v, Code(n, n, 1), Expect(":"), Code(n, n, 1))
      BY <3>1, SilentLeads
    <3>4. Leads(v, Code(n, n, 1), <<"block">>, Code(n, n, 1))
      BY <3>1, SilentLeads
    <3>5. Leads(v, Code(n, n, 1), <<"finally", TRUE>>, Code(n, n, 1))
      BY <3>1, SilentLeads
    <3> QED
      BY <3>2, <3>3, <3>4, <3>5, ChainFour
  <2> QED
    BY <1>2, <2>1 DEF clauses
<1>3. CASE t \notin {"catch", "else"}
  <2>1. Balanced(v, Code(n, n, l), << <<"finally", k>> >>, Code(n, n, 1))
    <3>1. Silent(<<"finally", k>>)
      BY SilentsAre
    <3>2. Leads(v, Code(n, n, l), <<"finally", k>>, Code(n, n, 1))
      BY <3>1, SilentLeads
    <3> QED
      BY <3>2, ChainOne
  <2> QED
    BY <1>3, <2>1 DEF clauses
<1> QED
  BY <1>1, <1>2, <1>3

(* parse_stmt(),                                                            *)
LEMMA StmtPasses ==
    ASSUME NEW v, NEW n \in Nat, NEW l \in 1 .. 15, n = Len(vals), NEW t
    PROVE  Balanced(v, Code(n, n, l), parse_stmt(t), Code(n, n, 1))
<1>1. CASE t = "error"
  <2>1. Balanced(v, Code(n, n, l), <<FailQuietly>>, Code(n, n, 1))
    <3>1. Leads(v, Code(n, n, l), FailQuietly, Code(n, n, 1))
      BY FailLeads DEF Fail, FailQuietly
    <3> QED
      BY <3>1, ChainOne
  <2> QED
    BY <1>1, <2>1 DEF parse_stmt, SEMICOLON
<1>2. CASE t = "end_of_input"
  <2>1. Balanced(v, Code(n, n, l), <<Fail>>, Code(n, n, 1))
    <3>1. Leads(v, Code(n, n, l), Fail, Code(n, n, 1))
      BY FailLeads DEF Fail, FailQuietly
    <3> QED
      BY <3>1, ChainOne
  <2> QED
    BY <1>2, <2>1 DEF parse_stmt, SEMICOLON
<1>3. CASE t = SEMICOLON
  <2>1. Balanced(v, Code(n, n, l), <<Skip>>, Code(n, n, 1))
    <3>1. Silent(Skip)
      BY SilentsAre
    <3>2. Leads(v, Code(n, n, l), Skip, Code(n, n, 1))
      BY <3>1, SilentLeads
    <3> QED
      BY <3>2, ChainOne
  <2> QED
    BY <1>3, <2>1 DEF parse_stmt, SEMICOLON
<1>4. CASE t \in {"if", "while", "for", "try"}
  <2>1. Balanced(v, Code(n, n, l), << <<t>> >>, Code(n, n, 1))
    <3>1. Silent(<<t>>)
      BY SilentsAre, <1>4
    <3>2. Leads(v, Code(n, n, l), <<t>>, Code(n, n, 1))
      BY <3>1, SilentLeads
    <3> QED
      BY <3>2, ChainOne
  <2> QED
    BY <1>4, <2>1 DEF parse_stmt, SEMICOLON
<1>5. CASE t \in {"break", "continue"}
  <2>1. Balanced(v, Code(n, n, l), <<Expect(SEMICOLON)>>, Code(n, n, 1))
    <3>1. Silent(Expect(SEMICOLON))
      BY SilentsAre
    <3>2. Leads(v, Code(n, n, l), Expect(SEMICOLON), Code(n, n, 1))
      BY <3>1, SilentLeads
    <3> QED
      BY <3>2, ChainOne
  <2> QED
    BY <1>5, <2>1 DEF parse_stmt, SEMICOLON
<1>6. CASE t \in {"return", "throw"}
  <2>1. Balanced(v, Code(n, n, l), <<Skip, <<"value">>, Expect(SEMICOLON)>>, Code(n, n, 1))
    <3>1. Silent(Skip) /\ Silent(<<"value">>) /\ Silent(Expect(SEMICOLON))
      BY SilentsAre
    <3>2. Leads(v, Code(n, n, l), Skip, Code(n, n, 1))
      BY <3>1, SilentLeads
    <3>3. Leads(v, Code(n, n, 1), <<"value">>, Code(n, n, 1))
      BY <3>1, SilentLeads
    <3>4. Leads(v, Code(n, n, 1), Expect(SEMICOLON), Code(n, n, 1))
      BY <3>1, SilentLeads
    <3> QED
      BY <3>2, <3>3, <3>4, ChainThree
  <2> QED
    BY <1>6, <2>1 DEF parse_stmt, SEMICOLON
<1>7. CASE t \notin {"error", "end_of_input", SEMICOLON, "if", "while", "for", "try", "break", "continue",
      "return", "throw"}
  <2>1. Balanced(v, Code(n, n, l), << <<"expr">>, Drop, Statement, Expect(SEMICOLON)>>, Code(n, n, 1))
    <3>1. Giver(<<"expr">>, 1)
      BY GiversAre
    <3>2. Silent(Expect(SEMICOLON))
      BY SilentsAre
    <3>3. Leads(v, Code(n, n, l), <<"expr">>, Code(n + 1, n, 1))
      BY <3>1, GiverGives
    <3>4. Leads(v, Code(n + 1, n, 1), Drop, Code(n, n, 1))
      BY DropLeads
    <3>5. Leads(v, Code(n, n, 1), Statement, Code(n, n, 1))
      BY DeafLeads DEF IsDeaf, Unchecked, Statement
    <3>6. Leads(v, Code(n, n, 1), Expect(SEMICOLON), Code(n, n, 1))
      BY <3>2, SilentLeads
    <3> QED
      BY <3>3, <3>4, <3>5, <3>6, ChainFour
  <2> QED
    BY <1>7, <2>1 DEF parse_stmt, SEMICOLON
<1> QED
  BY <1>1, <1>2, <1>3, <1>4, <1>5, <1>6, <1>7

(* the value of a return or throw,                                          *)
LEMMA ValuePasses ==
    ASSUME NEW v, NEW n \in Nat, NEW l \in 1 .. 15, NEW t
    PROVE  Balanced(v, Code(n, n, l), optional_value(t), Code(n, n, 1))
<1>1. CASE t = SEMICOLON
  <2>1. Balanced(v, Code(n, n, l), <<>>, Code(n, n, 1))
    BY Nothing
  <2> QED
    BY <1>1, <2>1 DEF optional_value
<1>2. CASE t # SEMICOLON
  <2>1. Balanced(v, Code(n, n, l), << <<"expr">>, Drop>>, Code(n, n, 1))
    <3>1. Giver(<<"expr">>, 1)
      BY GiversAre
    <3>2. Leads(v, Code(n, n, l), <<"expr">>, Code(n + 1, n, 1))
      BY <3>1, GiverGives
    <3>3. Leads(v, Code(n + 1, n, 1), Drop, Code(n, n, 1))
      BY DropLeads
    <3> QED
      BY <3>2, <3>3, ChainTwo
  <2> QED
    BY <1>2, <2>1 DEF optional_value
<1> QED
  BY <1>1, <1>2

(* parse_typehint(),                                                        *)
LEMMA TypehintPasses ==
    ASSUME NEW v, NEW n \in Nat, NEW l \in 1 .. 15
    PROVE  Balanced(v, Code(n, n, l), parse_typehint, Code(n, n, 1))
<1>1. Balanced(v, Code(n, n, l), << <<"postfix">>, Drop, Optional("?"), <<"more_typehints">> >>, Code(n, n, 1))
  <2>1. Giver(<<"postfix">>, 15)
    BY GiversAre
  <2>2. Silent(Optional("?")) /\ Silent(<<"more_typehints">>)
    BY SilentsAre
  <2>3. Leads(v, Code(n, n, l), <<"postfix">>, Code(n + 1, n, 15))
    BY <2>1, GiverGives
  <2>4. Leads(v, Code(n + 1, n, 15), Drop, Code(n, n, 1))
    BY DropLeads
  <2>5. Leads(v, Code(n, n, 1), Optional("?"), Code(n, n, 1))
    BY <2>2, SilentLeads
  <2>6. Leads(v, Code(n, n, 1), <<"more_typehints">>, Code(n, n, 1))
    BY <2>2, SilentLeads
  <2> QED
    BY <2>3, <2>4, <2>5, <2>6, ChainFour
<1> QED
  BY <1>1 DEF parse_typehint

(* its alternatives,                                                        *)
LEMMA MoreTypehintsPass ==
    ASSUME NEW v, NEW n \in Nat, NEW l \in 1 .. 15, NEW t
    PROVE  Balanced(v, Code(n, n, l), more_typehints(t), Code(n, n, 1))
<1>1. CASE t \in {"&", "|"}
  <2>1. Balanced(v, Code(n, n, l), <<Skip, <<"typehint">> >>, Code(n, n, 1))
    <3>1. Silent(Skip) /\ Silent(<<"typehint">>)
      BY SilentsAre
    <3>2. Leads(v, Code(n, n, l), Skip, Code(n, n, 1))
      BY <3>1, SilentLeads
    <3>3. Leads(v, Code(n, n, 1), <<"typehint">>, Code(n, n, 1))
      BY <3>1, SilentLeads
    <3> QED
      BY <3>2, <3>3, ChainTwo
  <2> QED
    BY <1>1, <2>1 DEF more_typehints
<1>2. CASE t \notin {"&", "|"}
  <2>1. Balanced(v, Code(n, n, l), <<>>, Code(n, n, 1))
    BY Nothing
  <2> QED
    BY <1>2, <2>1 DEF more_typehints
<1> QED
  BY <1>1, <1>2

(* parse_parameters(),                                                      *)
LEMMA ParametersPass ==
    ASSUME NEW v, NEW n \in Nat, NEW l \in 1 .. 15, NEW t
    PROVE  Balanced(v, Code(n, n, l), parameters(t), Code(n, n, 1))
<1>1. CASE t = ")"
  <2>1. Balanced(v, Code(n, n, l), <<Skip>>, Code(n, n, 1))
    <3>1. Silent(Skip)
      BY SilentsAre
    <3>2. Leads(v, Code(n, n, l), Skip, Code(n, n, 1))
      BY <3>1, SilentLeads
    <3> QED
      BY <3>2, ChainOne
  <2> QED
    BY <1>1, <2>1 DEF parameters
<1>2. CASE t # ")"
  <2>1. Balanced(v, Code(n, n, l), << <<"parameter">> >>, Code(n, n, 1))
    <3>1. Silent(<<"parameter">>)
      BY SilentsAre
    <3>2. Leads(v, Code(n, n, l), <<"parameter">>, Code(n, n, 1))
      BY <3>1, SilentLeads
    <3> QED
      BY <3>2, ChainOne
  <2> QED
    BY <1>2, <2>1 DEF parameters
<1> QED
  BY <1>1, <1>2

(* one parameter,                                                           *)
LEMMA ParameterPasses ==
    ASSUME NEW v, NEW n \in Nat, NEW l \in 1 .. 15, NEW t
    PROVE  Balanced(v, Code(n, n, l), parameter(t), Code(n, n, 1))
<1>1. CASE t = "..."
  <2>1. Balanced(v, Code(n, n, l), <<Skip, <<"name">>, <<"type">>, <<"default">>, <<"next", TRUE>> >>,
                 Code(n, n, 1))
    <3>1. Silent(Skip) /\ Silent(<<"name">>) /\ Silent(<<"type">>) /\ Silent(<<"default">>)
          /\ Silent(<<"next", TRUE>>)
      BY SilentsAre
    <3>2. Leads(v, Code(n, n, l), Skip, Code(n, n, 1))
      BY <3>1, SilentLeads
    <3>3. Leads(v, Code(n, n, 1), <<"name">>, Code(n, n, 1))
      BY <3>1, SilentLeads
    <3>4. Leads(v, Code(n, n, 1), <<"type">>, Code(n, n, 1))
      BY <3>1, SilentLeads
    <3>5. Leads(v, Code(n, n, 1), <<"default">>, Code(n, n, 1))
      BY <3>1, SilentLeads
    <3>6. Leads(v, Code(n, n, 1), <<"next", TRUE>>, Code(n, n, 1))
      BY <3>1, SilentLeads
    <3> QED
      BY <3>2, <3>3, <3>4, <3>5, <3>6, ChainFive
  <2> QED
    BY <1>1, <2>1 DEF parameter
<1>2. CASE t # "..."
  <2>1. Balanced(v, Code(n, n, l), << <<"name">>, <<"type">>, <<"default">>, <<"next", FALSE>> >>, Code(n, n, 1))
    <3>1. Silent(<<"name">>) /\ Silent(<<"type">>) /\ Silent(<<"default">>) /\ Silent(<<"next", FALSE>>)
      BY SilentsAre
    <3>2. Leads(v, Code(n, n, l), <<"name">>, Code(n, n, 1))
      BY <3>1, SilentLeads
    <3>3. Leads(v, Code(n, n, 1), <<"type">>, Code(n, n, 1))
      BY <3>1, SilentLeads
    <3>4. Leads(v, Code(n, n, 1), <<"default">>, Code(n, n, 1))
      BY <3>1, SilentLeads
    <3>5. Leads(v, Code(n, n, 1), <<"next", FALSE>>, Code(n, n, 1))
      BY <3>1, SilentLeads
    <3> QED
      BY <3>2, <3>3, <3>4, <3>5, ChainFour
  <2> QED
    BY <1>2, <2>1 DEF parameter
<1> QED
  BY <1>1, <1>2

(* its name,                                                                *)
LEMMA NamePasses ==
    ASSUME NEW v, NEW n \in Nat, NEW l \in 1 .. 15, NEW t
    PROVE  Balanced(v, Code(n, n, l), name(t), Code(n, n, 1))
<1>1. CASE t = "identifier"
  <2>1. Balanced(v, Code(n, n, l), <<Skip>>, Code(n, n, 1))
    <3>1. Silent(Skip)
      BY SilentsAre
    <3>2. Leads(v, Code(n, n, l), Skip, Code(n, n, 1))
      BY <3>1, SilentLeads
    <3> QED
      BY <3>2, ChainOne
  <2> QED
    BY <1>1, <2>1 DEF name
<1>2. CASE t # "identifier"
  <2>1. Balanced(v, Code(n, n, l), <<Skip, Fail>>, Code(n, n, 1))
    <3>1. Silent(Skip)
      BY SilentsAre
    <3>2. Leads(v, Code(n, n, l), Skip, Code(n, n, 1))
      BY <3>1, SilentLeads
    <3>3. Leads(v, Code(n, n, 1), Fail, Code(n, n, 1))
      BY FailLeads DEF Fail, FailQuietly
    <3> QED
      BY <3>2, <3>3, ChainTwo
  <2> QED
    BY <1>2, <2>1 DEF name
<1> QED
  BY <1>1, <1>2

(* its type,                                                                *)
LEMMA TypePasses ==
    ASSUME NEW v, NEW n \in Nat, NEW l \in 1 .. 15, NEW t
    PROVE  Balanced(v, Code(n, n, l), type(t), Code(n, n, 1))
<1>1. CASE t = ":"
  <2>1. Balanced(v, Code(n, n, l), <<Skip, <<"typehint">> >>, Code(n, n, 1))
    <3>1. Silent(Skip) /\ Silent(<<"typehint">>)
      BY SilentsAre
    <3>2. Leads(v, Code(n, n, l), Skip, Code(n, n, 1))
      BY <3>1, SilentLeads
    <3>3. Leads(v, Code(n, n, 1), <<"typehint">>, Code(n, n, 1))
      BY <3>1, SilentLeads
    <3> QED
      BY <3>2, <3>3, ChainTwo
  <2> QED
    BY <1>1, <2>1 DEF type
<1>2. CASE t # ":"
  <2>1. Balanced(v, Code(n, n, l), <<>>, Code(n, n, 1))
    BY Nothing
  <2> QED
    BY <1>2, <2>1 DEF type
<1> QED
  BY <1>1, <1>2

(* its default value,                                                       *)
LEMMA DefaultPasses ==
    ASSUME NEW v, NEW n \in Nat, NEW l \in 1 .. 15, NEW t
    PROVE  Balanced(v, Code(n, n, l), default(t), Code(n, n, 1))
<1>1. CASE t = "="
  <2>1. Balanced(v, Code(n, n, l), <<Skip, <<"expr">>, Drop>>, Code(n, n, 1))
    <3>1. Silent(Skip)
      BY SilentsAre
    <3>2. Giver(<<"expr">>, 1)
      BY GiversAre
    <3>3. Leads(v, Code(n, n, l), Skip, Code(n, n, 1))
      BY <3>1, SilentLeads
    <3>4. Leads(v, Code(n, n, 1), <<"expr">>, Code(n + 1, n, 1))
      BY <3>2, GiverGives
    <3>5. Leads(v, Code(n + 1, n, 1), Drop, Code(n, n, 1))
      BY DropLeads
    <3> QED
      BY <3>3, <3>4, <3>5, ChainThree
  <2> QED
    BY <1>1, <2>1 DEF default
<1>2. CASE t # "="
  <2>1. Balanced(v, Code(n, n, l), <<>>, Code(n, n, 1))
    BY Nothing
  <2> QED
    BY <1>2, <2>1 DEF default
<1> QED
  BY <1>1, <1>2

(* what follows it,                                                         *)
LEMMA NextPasses ==
    ASSUME NEW v, NEW n \in Nat, NEW l \in 1 .. 15, NEW k, NEW t
    PROVE  Balanced(v, Code(n, n, l), next_parameter(k, t), Code(n, n, 1))
<1>1. CASE t = COMMA /\ ~k
  <2>1. Balanced(v, Code(n, n, l), <<Skip, <<"parameter">> >>, Code(n, n, 1))
    <3>1. Silent(Skip) /\ Silent(<<"parameter">>)
      BY SilentsAre
    <3>2. Leads(v, Code(n, n, l), Skip, Code(n, n, 1))
      BY <3>1, SilentLeads
    <3>3. Leads(v, Code(n, n, 1), <<"parameter">>, Code(n, n, 1))
      BY <3>1, SilentLeads
    <3> QED
      BY <3>2, <3>3, ChainTwo
  <2> QED
    BY <1>1, <2>1 DEF next_parameter, COMMA
<1>2. CASE t = ")"
  <2>1. Balanced(v, Code(n, n, l), <<Skip>>, Code(n, n, 1))
    <3>1. Silent(Skip)
      BY SilentsAre
    <3>2. Leads(v, Code(n, n, l), Skip, Code(n, n, 1))
      BY <3>1, SilentLeads
    <3> QED
      BY <3>2, ChainOne
  <2> QED
    BY <1>2, <2>1 DEF next_parameter, COMMA
<1>3. CASE ~(t = COMMA /\ ~k) /\ t # ")"
  <2>1. Balanced(v, Code(n, n, l), <<Fail>>, Code(n, n, 1))
    <3>1. Leads(v, Code(n, n, l), Fail, Code(n, n, 1))
      BY FailLeads DEF Fail, FailQuietly
    <3> QED
      BY <3>1, ChainOne
  <2> QED
    BY <1>3, <2>1 DEF next_parameter, COMMA
<1> QED
  BY <1>1, <1>2, <1>3

(* the body of a function in a block,                                       *)
LEMMA BlockBodyPasses ==
    ASSUME NEW v, NEW n \in Nat, NEW l \in 1 .. 15, NEW t
    PROVE  Balanced(v, Code(n, n, l), block_body(t), Code(n, n, 1))
<1>1. CASE t = CLOSE_TAG
  <2>1. Balanced(v, Code(n, n, l), <<Skip, ReadText, <<"template", {"end", "else"}>> >>, Code(n, n, 1))
    <3>1. Silent(Skip) /\ Silent(<<"template", {"end", "else"}>>)
          /\ <<"template", {"end", "else"}>>[1] = "template"
      BY SilentsAre
    <3>2. Leads(v, Code(n, n, l), Skip, Code(n, n, 1))
      BY <3>1, SilentLeads
    <3>3. Leads(v, Code(n, n, 1), ReadText, Text(n, n, 1))
      BY TextyLeads DEF ReadText
    <3>4. Leads(v, Text(n, n, 1), <<"template", {"end", "else"}>>, Code(n, n, 1))
      BY <3>1, SilentLeads
    <3> QED
      BY <3>2, <3>3, <3>4, ChainThree
  <2> QED
    BY <1>1, <2>1 DEF block_body
<1>2. CASE t # CLOSE_TAG
  <2>1. Balanced(v, Code(n, n, l), << <<"statements", {"end"}>> >>, Code(n, n, 1))
    <3>1. Silent(<<"statements", {"end"}>>)
      BY SilentsAre
    <3>2. Leads(v, Code(n, n, l), <<"statements", {"end"}>>, Code(n, n, 1))
      BY <3>1, SilentLeads
    <3> QED
      BY <3>2, ChainOne
  <2> QED
    BY <1>2, <2>1 DEF block_body
<1> QED
  BY <1>1, <1>2

(* the end of an expression in a text,                                      *)
LEMMA CloseTagPasses ==
    ASSUME NEW v, NEW n \in Nat, NEW l \in 1 .. 15, NEW k, NEW t
    PROVE  Balanced(v, Code(n, n, l), close_tag(k, t), Text(n, n, 1))
<1>1. CASE t = k
  <2>1. Balanced(v, Code(n, n, l), <<Skip, <<"close", TRUE, RBRACE>> >>, Text(n, n, 1))
    <3>1. Silent(Skip)
      BY SilentsAre
    <3>2. Leads(v, Code(n, n, l), Skip, Code(n, n, 1))
      BY <3>1, SilentLeads
    <3>3. Leads(v, Code(n, n, 1), <<"close", TRUE, RBRACE>>, Text(n, n, 1))
      BY TextyLeads
    <3> QED
      BY <3>2, <3>3, ChainTwo
  <2> QED
    BY <1>1, <2>1 DEF close_tag
<1>2. CASE t # k
  <2>1. Balanced(v, Code(n, n, l), << <<"close", FALSE, k>> >>, Text(n, n, 1))
    <3>1. Leads(v, Code(n, n, l), <<"close", FALSE, k>>, Text(n, n, 1))
      BY TextyLeads
    <3> QED
      BY <3>1, ChainOne
  <2> QED
    BY <1>2, <2>1 DEF close_tag
<1> QED
  BY <1>1, <1>2

(* the body of a function,                                                  *)
LEMMA BodyPasses ==
    ASSUME NEW v, NEW n \in Nat, NEW l \in 1 .. 15, NEW t
    PROVE  Balanced(v, Code(n, n, l), body(t), Code(n + 1, n, 15))
<1>1. CASE t = "=>"
  <2>1. Balanced(v, Code(n, n, l), <<Skip, <<"arrow">> >>, Code(n + 1, n, 15))
    <3>1. Silent(Skip)
      BY SilentsAre
    <3>2. Giver(<<"arrow">>, 15)
      BY GiversAre
    <3>3. Leads(v, Code(n, n, l), Skip, Code(n, n, 1))
      BY <3>1, SilentLeads
    <3>4. Leads(v, Code(n, n, 1), <<"arrow">>, Code(n + 1, n, 15))
      BY <3>2, GiverGives
    <3> QED
      BY <3>3, <3>4, ChainTwo
  <2> QED
    BY <1>1, <2>1 DEF body
<1>2. CASE t # "=>"
  <2>1. Balanced(v, Code(n, n, l), <<Expect(":"), <<"block_body">>, Expect("end"), Expect("function"),
                 Make("function", 0)>>, Code(n + 1, n, 15))
    <3>1. Silent(Expect(":")) /\ Silent(<<"block_body">>) /\ Silent(Expect("end")) /\ Silent(Expect("function"))
      BY SilentsAre
    <3>2. Maker(Make("function", 0), 0, 15)
      BY MakersAre
    <3>3. Leads(v, Code(n, n, l), Expect(":"), Code(n, n, 1))
      BY <3>1, SilentLeads
    <3>4. Leads(v, Code(n, n, 1), <<"block_body">>, Code(n, n, 1))
      BY <3>1, SilentLeads
    <3>5. Leads(v, Code(n, n, 1), Expect("end"), Code(n, n, 1))
      BY <3>1, SilentLeads
    <3>6. Leads(v, Code(n, n, 1), Expect("function"), Code(n, n, 1))
      BY <3>1, SilentLeads
    <3>7. Leads(v, Code(n, n, 1), Make("function", 0), Code(n + 1, n, 15))
      BY <3>2, MakerMakes
    <3> QED
      BY <3>3, <3>4, <3>5, <3>6, <3>7, ChainFive
  <2> QED
    BY <1>2, <2>1 DEF body
<1> QED
  BY <1>1, <1>2

(* a body that is an expression,                                            *)
LEMMA ArrowPasses ==
    ASSUME NEW v, NEW n \in Nat, NEW l \in 1 .. 15, NEW t
    PROVE  Balanced(v, Code(n, n, l), arrow(t), Code(n + 1, n, 15))
<1>1. CASE t = "throw"
  <2>1. Balanced(v, Code(n, n, l), <<Skip, <<"expr">>, Make("throw", 1)>>, Code(n + 1, n, 15))
    <3>1. Silent(Skip)
      BY SilentsAre
    <3>2. Giver(<<"expr">>, 1)
      BY GiversAre
    <3>3. Maker(Make("throw", 1), 1, 15)
      BY MakersAre
    <3>4. Leads(v, Code(n, n, l), Skip, Code(n, n, 1))
      BY <3>1, SilentLeads
    <3>5. Leads(v, Code(n, n, 1), <<"expr">>, Code(n + 1, n, 1))
      BY <3>2, GiverGives
    <3>6. Leads(v, Code(n + 1, n, 1), Make("throw", 1), Code(n + 1, n, 15))
      BY <3>3, MakerMakes
    <3> QED
      BY <3>4, <3>5, <3>6, ChainThree
  <2> QED
    BY <1>1, <2>1 DEF arrow
<1>2. CASE t # "throw"
  <2>1. Balanced(v, Code(n, n, l), << <<"expr">>, Make("function", 1)>>, Code(n + 1, n, 15))
    <3>1. Giver(<<"expr">>, 1)
      BY GiversAre
    <3>2. Maker(Make("function", 1), 1, 15)
      BY MakersAre
    <3>3. Leads(v, Code(n, n, l), <<"expr">>, Code(n + 1, n, 1))
      BY <3>1, GiverGives
    <3>4. Leads(v, Code(n + 1, n, 1), Make("function", 1), Code(n + 1, n, 15))
      BY <3>2, MakerMakes
    <3> QED
      BY <3>3, <3>4, ChainTwo
  <2> QED
    BY <1>2, <2>1 DEF arrow
<1> QED
  BY <1>1, <1>2

(* parse_selection(),                                                       *)
LEMMA SelectionPasses ==
    ASSUME NEW v, NEW n \in Nat, NEW l \in 1 .. 15, n > 0, NEW t
    PROVE  Balanced(v, Code(n, n, l), parse_selection(t), Code(n, n - 1, 15))
<1>1. CASE t = "identifier"
  <2>1. Balanced(v, Code(n, n, l), <<Skip, <<"selected">> >>, Code(n, n - 1, 15))
    <3>1. Silent(Skip)
      BY SilentsAre
    <3>2. Ender(<<"selected">>, 1, 15)
      BY EndersAre
    <3>3. Leads(v, Code(n, n, l), Skip, Code(n, n, 1))
      BY <3>1, SilentLeads
    <3>4. Leads(v, Code(n, n, 1), <<"selected">>, Code(n, n - 1, 15))
      BY <3>2, EnderEnds
    <3> QED
      BY <3>3, <3>4, ChainTwo
  <2> QED
    BY <1>1, <2>1 DEF parse_selection
<1>2. CASE t # "identifier"
  <2>1. Balanced(v, Code(n, n, l), <<Skip, Fail>>, Code(n, n - 1, 15))
    <3>1. Silent(Skip)
      BY SilentsAre
    <3>2. Leads(v, Code(n, n, l), Skip, Code(n, n, 1))
      BY <3>1, SilentLeads
    <3>3. Leads(v, Code(n, n, 1), Fail, Code(n, n - 1, 15))
      BY FailLeads DEF Fail, FailQuietly
    <3> QED
      BY <3>2, <3>3, ChainTwo
  <2> QED
    BY <1>2, <2>1 DEF parse_selection
<1> QED
  BY <1>1, <1>2

(* parse_args(),                                                            *)
LEMMA ArgsPass ==
    ASSUME NEW v, NEW n \in Nat, NEW l \in 1 .. 15, n > 0
    PROVE  Balanced(v, Code(n, n, l), parse_args, Code(n, n - 1, 15))
<1>1. Balanced(v, Code(n, n, l), <<Expect("("), <<"first", "call", 1>> >>, Code(n, n - 1, 15))
  <2>1. Silent(Expect("("))
    BY SilentsAre
  <2>2. Maker(<<"first", "call", 1>>, 1, 15)
    BY MakersAre
  <2>3. Leads(v, Code(n, n, l), Expect("("), Code(n, n, 1))
    BY <2>1, SilentLeads
  <2>4. Leads(v, Code(n, n, 1), <<"first", "call", 1>>, Code(n, n - 1, 15))
    BY <2>2, MakerMakes
  <2> QED
    BY <2>3, <2>4, ChainTwo
<1> QED
  BY <1>1 DEF parse_args

(* parse_postfix(),                                                         *)
LEMMA PostfixPasses ==
    ASSUME NEW v, NEW n \in Nat, NEW l \in 1 .. 15
    PROVE  Balanced(v, Code(n, n, l), parse_postfix, Code(n + 1, n, 15))
<1>1. Balanced(v, Code(n, n, l), << <<"primary">>, <<"postfix_operator">> >>, Code(n + 1, n, 15))
  <2>1. Giver(<<"primary">>, 15)
    BY GiversAre
  <2>2. Ender(<<"postfix_operator">>, 15, 15)
    BY EndersAre
  <2>3. Leads(v, Code(n, n, l), <<"primary">>, Code(n + 1, n, 15))
    BY <2>1, GiverGives
  <2>4. Leads(v, Code(n + 1, n, 15), <<"postfix_operator">>, Code(n + 1, n, 15))
    BY <2>2, EnderEnds
  <2> QED
    BY <2>3, <2>4, ChainTwo
<1> QED
  BY <1>1 DEF parse_postfix

(* parse_unary(),                                                           *)
LEMMA UnaryPasses ==
    ASSUME NEW v, NEW n \in Nat, NEW l \in 1 .. 15, NEW t
    PROVE  Balanced(v, Code(n, n, l), parse_unary(t), Code(n + 1, n, 14))
<1>1. CASE t \in {"+", "-", "~", "!"}
  <2>1. Balanced(v, Code(n, n, l), <<Skip, <<"unary">>, Make("unary", 1)>>, Code(n + 1, n, 14))
    <3>1. Silent(Skip)
      BY SilentsAre
    <3>2. Giver(<<"unary">>, 14)
      BY GiversAre
    <3>3. Maker(Make("unary", 1), 1, 14)
      BY MakersAre
    <3>4. Leads(v, Code(n, n, l), Skip, Code(n, n, 1))
      BY <3>1, SilentLeads
    <3>5. Leads(v, Code(n, n, 1), <<"unary">>, Code(n + 1, n, 14))
      BY <3>2, GiverGives
    <3>6. Leads(v, Code(n + 1, n, 14), Make("unary", 1), Code(n + 1, n, 14))
      BY <3>3, MakerMakes
    <3> QED
      BY <3>4, <3>5, <3>6, ChainThree
  <2> QED
    BY <1>1, <2>1 DEF parse_unary
<1>2. CASE t \in {"++", "--"}
  <2>1. Balanced(v, Code(n, n, l), <<Skip, <<"postfix">>, Variable(1), Make("unary", 1)>>, Code(n + 1, n, 14))
    <3>1. Silent(Skip) /\ Silent(Variable(1))
      BY SilentsAre
    <3>2. Giver(<<"postfix">>, 15)
      BY GiversAre
    <3>3. Maker(Make("unary", 1), 1, 14)
      BY MakersAre
    <3>4. Leads(v, Code(n, n, l), Skip, Code(n, n, 1))
      BY <3>1, SilentLeads
    <3>5. Leads(v, Code(n, n, 1), <<"postfix">>, Code(n + 1, n, 15))
      BY <3>2, GiverGives
    <3>6. Leads(v, Code(n + 1, n, 15), Variable(1), Code(n + 1, n, 1))
      BY <3>1, SilentLeads
    <3>7. Leads(v, Code(n + 1, n, 1), Make("unary", 1), Code(n + 1, n, 14))
      BY <3>3, MakerMakes
    <3> QED
      BY <3>4, <3>5, <3>6, <3>7, ChainFour
  <2> QED
    BY <1>2, <2>1 DEF parse_unary
<1>3. CASE t \notin {"+", "-", "~", "!", "++", "--"}
  <2>1. Balanced(v, Code(n, n, l), << <<"postfix">> >>, Code(n + 1, n, 14))
    <3>1. Giver(<<"postfix">>, 15)
      BY GiversAre
    <3>2. Leads(v, Code(n, n, l), <<"postfix">>, Code(n + 1, n, 15))
      BY <3>1, GiverGives
    <3>3. Balanced(v, Code(n, n, l), << <<"postfix">> >>, Code(n + 1, n, 15))
      BY <3>2, ChainOne
    <3> QED
      BY <3>3, Weaken
  <2> QED
    BY <1>3, <2>1 DEF parse_unary
<1> QED
  BY <1>1, <1>2, <1>3

(* parse_range(),                                                           *)
LEMMA RangePasses ==
    ASSUME NEW v, NEW n \in Nat, NEW l \in 1 .. 15
    PROVE  Balanced(v, Code(n, n, l), parse_range, Code(n + 1, n, 1))
<1>1. Balanced(v, Code(n, n, l), << <<"logical_or">>, <<"range_operator">> >>, Code(n + 1, n, 1))
  <2>1. Giver(<<"logical_or">>, 4)
    BY GiversAre
  <2>2. Ender(<<"range_operator">>, 1, 1)
    BY EndersAre
  <2>3. Leads(v, Code(n, n, l), <<"logical_or">>, Code(n + 1, n, 4))
    BY <2>1, GiverGives
  <2>4. Leads(v, Code(n + 1, n, 4), <<"range_operator">>, Code(n + 1, n, 1))
    BY <2>2, EnderEnds
  <2> QED
    BY <2>3, <2>4, ChainTwo
<1> QED
  BY <1>1 DEF parse_range

(* its operator,                                                            *)
LEMMA RangeOperatorPasses ==
    ASSUME NEW v, NEW n \in Nat, NEW l \in 1 .. 15, n > 0, NEW t
    PROVE  Balanced(v, Code(n, n, l), range_operator(t), Code(n, n - 1, 1))
<1>1. CASE t \in {"..", "..."}
  <2>1. Balanced(v, Code(n, n, l), <<Skip, <<"logical_or">>, Make("..", 2)>>, Code(n, n - 1, 1))
    <3>1. Silent(Skip)
      BY SilentsAre
    <3>2. Giver(<<"logical_or">>, 4)
      BY GiversAre
    <3>3. Maker(Make("..", 2), 2, 3)
      BY MakersAre
    <3>4. Leads(v, Code(n, n, l), Skip, Code(n, n, 1))
      BY <3>1, SilentLeads
    <3>5. Leads(v, Code(n, n, 1), <<"logical_or">>, Code(n + 1, n, 4))
      BY <3>2, GiverGives
    <3>6. Leads(v, Code(n + 1, n, 4), Make("..", 2), Code(n, n - 1, 3))
      BY <3>3, MakerMakes
    <3>7. Balanced(v, Code(n, n, l), <<Skip, <<"logical_or">>, Make("..", 2)>>, Code(n, n - 1, 3))
      BY <3>4, <3>5, <3>6, ChainThree
    <3> QED
      BY <3>7, Weaken
  <2> QED
    BY <1>1, <2>1 DEF range_operator
<1>2. CASE t \notin {"..", "..."}
  <2>1. Balanced(v, Code(n, n, l), <<>>, Code(n, n - 1, 1))
    BY Nothing
  <2> QED
    BY <1>2, <2>1 DEF range_operator
<1> QED
  BY <1>1, <1>2

(* parse_ternary(),                                                         *)
LEMMA TernaryPasses ==
    ASSUME NEW v, NEW n \in Nat, NEW l \in 1 .. 15
    PROVE  Balanced(v, Code(n, n, l), parse_ternary, Code(n + 1, n, 1))
<1>1. Balanced(v, Code(n, n, l), << <<"range">>, <<"ternary_operator">> >>, Code(n + 1, n, 1))
  <2>1. Giver(<<"range">>, 1)
    BY GiversAre
  <2>2. Ender(<<"ternary_operator">>, 1, 1)
    BY EndersAre
  <2>3. Leads(v, Code(n, n, l), <<"range">>, Code(n + 1, n, 1))
    BY <2>1, GiverGives
  <2>4. Leads(v, Code(n + 1, n, 1), <<"ternary_operator">>, Code(n + 1, n, 1))
    BY <2>2, EnderEnds
  <2> QED
    BY <2>3, <2>4, ChainTwo
<1> QED
  BY <1>1 DEF parse_ternary

(* its operator,                                                            *)
LEMMA TernaryOperatorPasses ==
    ASSUME NEW v, NEW n \in Nat, NEW l \in 1 .. 15, n > 0, NEW t
    PROVE  Balanced(v, Code(n, n, l), ternary_operator(t), Code(n, n - 1, 1))
<1>1. CASE t = "?"
  <2>1. Balanced(v, Code(n, n, l), <<Skip, <<"expr">>, Expect(":"), <<"expr">>, Make("?", 3)>>, Code(n, n - 1, 1))
    <3>1. Silent(Skip) /\ Silent(Expect(":"))
      BY SilentsAre
    <3>2. Giver(<<"expr">>, 1)
      BY GiversAre
    <3>3. Maker(Make("?", 3), 3, 2)
      BY MakersAre
    <3>4. Leads(v, Code(n, n, l), Skip, Code(n, n, 1))
      BY <3>1, SilentLeads
    <3>5. Leads(v, Code(n, n, 1), <<"expr">>, Code(n + 1, n, 1))
      BY <3>2, GiverGives
    <3>6. Leads(v, Code(n + 1, n, 1), Expect(":"), Code(n + 1, n, 1))
      BY <3>1, SilentLeads
    <3>7. Leads(v, Code(n + 1, n, 1), <<"expr">>, Code(n + 2, n, 1))
      BY <3>2, GiverGives
    <3>8. Leads(v, Code(n + 2, n, 1), Make("?", 3), Code(n, n - 1, 2))
      BY <3>3, MakerMakes
    <3>9. Balanced(v, Code(n, n, l), <<Skip, <<"expr">>, Expect(":"), <<"expr">>, Make("?", 3)>>,
                   Code(n, n - 1, 2))
      BY <3>4, <3>5, <3>6, <3>7, <3>8, ChainFive
    <3> QED
      BY <3>9, Weaken
  <2> QED
    BY <1>1, <2>1 DEF ternary_operator
<1>2. CASE t # "?"
  <2>1. Balanced(v, Code(n, n, l), <<>>, Code(n, n - 1, 1))
    BY Nothing
  <2> QED
    BY <1>2, <2>1 DEF ternary_operator
<1> QED
  BY <1>1, <1>2

(* parse_expr(),                                                            *)
LEMMA ExprPasses ==
    ASSUME NEW v, NEW n \in Nat, NEW l \in 1 .. 15
    PROVE  Balanced(v, Code(n, n, l), parse_expr, Code(n + 1, n, 1))
<1>1. Balanced(v, Code(n, n, l), << <<"ternary">>, <<"assignment">> >>, Code(n + 1, n, 1))
  <2>1. Giver(<<"ternary">>, 1)
    BY GiversAre
  <2>2. Ender(<<"assignment">>, 1, 1)
    BY EndersAre
  <2>3. Leads(v, Code(n, n, l), <<"ternary">>, Code(n + 1, n, 1))
    BY <2>1, GiverGives
  <2>4. Leads(v, Code(n + 1, n, 1), <<"assignment">>, Code(n + 1, n, 1))
    BY <2>2, EnderEnds
  <2> QED
    BY <2>3, <2>4, ChainTwo
<1> QED
  BY <1>1 DEF parse_expr

(* its operator,                                                            *)
LEMMA AssignmentPasses ==
    ASSUME NEW v, NEW n \in Nat, NEW l \in 1 .. 15, n > 0, NEW t
    PROVE  Balanced(v, Code(n, n, l), assignment(t), Code(n, n - 1, 1))
<1>1. CASE t = "error"
  <2>1. Balanced(v, Code(n, n, l), <<FailQuietly>>, Code(n, n - 1, 1))
    <3>1. Leads(v, Code(n, n, l), FailQuietly, Code(n, n - 1, 1))
      BY FailLeads DEF Fail, FailQuietly
    <3> QED
      BY <3>1, ChainOne
  <2> QED
    BY <1>1, <2>1 DEF assignment, Assignment
<1>2. CASE t # "error" /\ t \in Assignment
  <2>1. Balanced(v, Code(n, n, l), <<Skip, <<"expr">>, Variable(2), Make("=", 2)>>, Code(n, n - 1, 1))
    <3>1. Silent(Skip) /\ Silent(Variable(2))
      BY SilentsAre
    <3>2. Giver(<<"expr">>, 1)
      BY GiversAre
    <3>3. Maker(Make("=", 2), 2, 1)
      BY MakersAre
    <3>4. Leads(v, Code(n, n, l), Skip, Code(n, n, 1))
      BY <3>1, SilentLeads
    <3>5. Leads(v, Code(n, n, 1), <<"expr">>, Code(n + 1, n, 1))
      BY <3>2, GiverGives
    <3>6. Leads(v, Code(n + 1, n, 1), Variable(2), Code(n + 1, n, 1))
      BY <3>1, SilentLeads
    <3>7. Leads(v, Code(n + 1, n, 1), Make("=", 2), Code(n, n - 1, 1))
      BY <3>3, MakerMakes
    <3> QED
      BY <3>4, <3>5, <3>6, <3>7, ChainFour
  <2> QED
    BY <1>2, <2>1 DEF assignment, Assignment
<1>3. CASE t # "error" /\ t \notin Assignment
  <2>1. Balanced(v, Code(n, n, l), <<>>, Code(n, n - 1, 1))
    BY Nothing
  <2> QED
    BY <1>3, <2>1 DEF assignment, Assignment
<1> QED
  BY <1>1, <1>2, <1>3

(* (sequences of eight items, half by half,                                 *)
LEMMA ChainHalves8 ==
    ASSUME NEW v, NEW a, NEW m, NEW e, NEW a1, NEW a2, NEW a3, NEW a4, NEW a5, NEW a6, NEW a7, NEW a8,
           Balanced(v, a, <<a1, a2, a3, a4>>, m), Balanced(v, m, <<a5, a6, a7, a8>>, e)
    PROVE  Balanced(v, a, <<a1, a2, a3, a4, a5, a6, a7, a8>>, e)
<1> DEFINE s == <<a1, a2, a3, a4, a5, a6, a7, a8>>
           p == <<a1, a2, a3, a4>>
           r == <<a5, a6, a7, a8>>
           q == p \o r
<1>1. s \in Seq({a1, a2, a3, a4, a5, a6, a7, a8}) /\ p \in Seq({a1, a2, a3, a4}) /\ r \in Seq({a5, a6, a7, a8})
      /\ Len(s) = 8 /\ Len(p) = 4 /\ Len(r) = 4
  OBVIOUS
<1>2. s[1] = a1 /\ s[2] = a2 /\ s[3] = a3 /\ s[4] = a4 /\ s[5] = a5 /\ s[6] = a6 /\ s[7] = a7 /\ s[8] = a8
  OBVIOUS
<1>3. p[1] = a1 /\ p[2] = a2 /\ p[3] = a3 /\ p[4] = a4
  OBVIOUS
<1>4. r[1] = a5 /\ r[2] = a6 /\ r[3] = a7 /\ r[4] = a8
  OBVIOUS
<1>0. Balanced(v, a, p, m) /\ Balanced(v, m, r, e)
  OBVIOUS
<1> HIDE DEF s, p, r
<1>5. IsSeq(s) /\ IsSeq(p) /\ IsSeq(r)
  BY <1>1 DEF IsSeq
<1>6. /\ IsSeq(q) /\ Len(q) = Len(p) + Len(r)
      /\ \A j \in 1 .. Len(p) : q[j] = p[j]
      /\ \A j \in 1 .. Len(r) : q[j + Len(p)] = r[j]
  BY <1>5, Joined
<1> HIDE DEF q
<1>7. ASSUME NEW j \in 1 .. Len(s) PROVE s[j] = q[j]
  <2>1. CASE j <= 4
    <3>1. j = 1 \/ j = 2 \/ j = 3 \/ j = 4
      BY <1>1, <2>1
    <3>2. q[j] = p[j]
      BY <1>1, <1>6, <2>1
    <3> QED
      BY <1>2, <1>3, <3>1, <3>2
  <2>2. CASE j > 4
    <3>1. j = 5 \/ j = 6 \/ j = 7 \/ j = 8
      BY <1>1, <2>2
    <3>2. j - 4 \in 1 .. Len(r) /\ (j - 4) + Len(p) = j
      BY <1>1, <2>2
    <3>3. q[j] = r[j - 4]
      BY <1>6, <3>2
    <3> QED
      BY <1>2, <1>4, <3>1, <3>3
  <2> QED
    BY <1>1, <2>1, <2>2
<1>8. Len(s) = Len(q)
  BY <1>1, <1>6
<1>9. s = q
  BY <1>5, <1>6, <1>7, <1>8, Equal
<1>10. Balanced(v, a, p \o r, e)
  BY <1>0, BalancedJoin
<1>11. Balanced(v, a, s, e)
  BY <1>9, <1>10 DEF q
<1> QED
  BY <1>11 DEF s

(* and of ten)                                                              *)
LEMMA ChainHalves10 ==
    ASSUME NEW v, NEW a, NEW m, NEW e, NEW a1, NEW a2, NEW a3, NEW a4, NEW a5, NEW a6, NEW a7, NEW a8, NEW a9,
    NEW a10,
           Balanced(v, a, <<a1, a2, a3, a4, a5>>, m), Balanced(v, m, <<a6, a7, a8, a9, a10>>, e)
    PROVE  Balanced(v, a, <<a1, a2, a3, a4, a5, a6, a7, a8, a9, a10>>, e)
<1> DEFINE s == <<a1, a2, a3, a4, a5, a6, a7, a8, a9, a10>>
           p == <<a1, a2, a3, a4, a5>>
           r == <<a6, a7, a8, a9, a10>>
           q == p \o r
<1>1. s \in Seq({a1, a2, a3, a4, a5, a6, a7, a8, a9, a10}) /\ p \in Seq({a1, a2, a3, a4, a5})
      /\ r \in Seq({a6, a7, a8, a9, a10}) /\ Len(s) = 10 /\ Len(p) = 5 /\ Len(r) = 5
  OBVIOUS
<1>2. s[1] = a1 /\ s[2] = a2 /\ s[3] = a3 /\ s[4] = a4 /\ s[5] = a5 /\ s[6] = a6 /\ s[7] = a7 /\ s[8] = a8
      /\ s[9] = a9 /\ s[10] = a10
  OBVIOUS
<1>3. p[1] = a1 /\ p[2] = a2 /\ p[3] = a3 /\ p[4] = a4 /\ p[5] = a5
  OBVIOUS
<1>4. r[1] = a6 /\ r[2] = a7 /\ r[3] = a8 /\ r[4] = a9 /\ r[5] = a10
  OBVIOUS
<1>0. Balanced(v, a, p, m) /\ Balanced(v, m, r, e)
  OBVIOUS
<1> HIDE DEF s, p, r
<1>5. IsSeq(s) /\ IsSeq(p) /\ IsSeq(r)
  BY <1>1 DEF IsSeq
<1>6. /\ IsSeq(q) /\ Len(q) = Len(p) + Len(r)
      /\ \A j \in 1 .. Len(p) : q[j] = p[j]
      /\ \A j \in 1 .. Len(r) : q[j + Len(p)] = r[j]
  BY <1>5, Joined
<1> HIDE DEF q
<1>7. ASSUME NEW j \in 1 .. Len(s) PROVE s[j] = q[j]
  <2>1. CASE j <= 5
    <3>1. j = 1 \/ j = 2 \/ j = 3 \/ j = 4 \/ j = 5
      BY <1>1, <2>1
    <3>2. q[j] = p[j]
      BY <1>1, <1>6, <2>1
    <3> QED
      BY <1>2, <1>3, <3>1, <3>2
  <2>2. CASE j > 5
    <3>1. j = 6 \/ j = 7 \/ j = 8 \/ j = 9 \/ j = 10
      BY <1>1, <2>2
    <3>2. j - 5 \in 1 .. Len(r) /\ (j - 5) + Len(p) = j
      BY <1>1, <2>2
    <3>3. q[j] = r[j - 5]
      BY <1>6, <3>2
    <3> QED
      BY <1>2, <1>4, <3>1, <3>3
  <2> QED
    BY <1>1, <2>1, <2>2
<1>8. Len(s) = Len(q)
  BY <1>1, <1>6
<1>9. s = q
  BY <1>5, <1>6, <1>7, <1>8, Equal
<1>10. Balanced(v, a, p \o r, e)
  BY <1>0, BalancedJoin
<1>11. Balanced(v, a, s, e)
  BY <1>9, <1>10 DEF q
<1> QED
  BY <1>11 DEF s

(* parse_while(),                                                           *)
LEMMA WhilePasses ==
    ASSUME NEW v, NEW n \in Nat, NEW l \in 1 .. 15
    PROVE  Balanced(v, Code(n, n, l), parse_while, Code(n, n, 1))
<1>1. Balanced(v, Code(n, n, l), <<Expect("while"), <<"expr">>, Drop, Expect(":")>>, Code(n, n, 1))
  <2>1. Silent(Expect("while")) /\ Silent(Expect(":"))
    BY SilentsAre
  <2>2. Giver(<<"expr">>, 1)
    BY GiversAre
  <2>3. Leads(v, Code(n, n, l), Expect("while"), Code(n, n, 1))
    BY <2>1, SilentLeads
  <2>4. Leads(v, Code(n, n, 1), <<"expr">>, Code(n + 1, n, 1))
    BY <2>2, GiverGives
  <2>5. Leads(v, Code(n + 1, n, 1), Drop, Code(n, n, 1))
    BY DropLeads
  <2>6. Leads(v, Code(n, n, 1), Expect(":"), Code(n, n, 1))
    BY <2>1, SilentLeads
  <2> QED
    BY <2>3, <2>4, <2>5, <2>6, ChainFour
<1>2. Balanced(v, Code(n, n, 1), << <<"block">>, Expect("end"), Expect("while"), Optional(SEMICOLON)>>,
               Code(n, n, 1))
  <2>1. Silent(<<"block">>) /\ Silent(Expect("end")) /\ Silent(Expect("while")) /\ Silent(Optional(SEMICOLON))
    BY SilentsAre
  <2>2. Leads(v, Code(n, n, 1), <<"block">>, Code(n, n, 1))
    BY <2>1, SilentLeads
  <2>3. Leads(v, Code(n, n, 1), Expect("end"), Code(n, n, 1))
    BY <2>1, SilentLeads
  <2>4. Leads(v, Code(n, n, 1), Expect("while"), Code(n, n, 1))
    BY <2>1, SilentLeads
  <2>5. Leads(v, Code(n, n, 1), Optional(SEMICOLON), Code(n, n, 1))
    BY <2>1, SilentLeads
  <2> QED
    BY <2>2, <2>3, <2>4, <2>5, ChainFour
<1>3. Balanced(v, Code(n, n, l), <<Expect("while"), <<"expr">>, Drop, Expect(":"), <<"block">>, Expect("end"),
               Expect("while"), Optional(SEMICOLON)>>, Code(n, n, 1))
  BY <1>1, <1>2, ChainHalves8
<1> QED
  BY <1>3 DEF parse_while

(* parse_for(),                                                             *)
LEMMA ForPasses ==
    ASSUME NEW v, NEW n \in Nat, NEW l \in 1 .. 15
    PROVE  Balanced(v, Code(n, n, l), parse_for, Code(n, n, 1))
<1>1. Balanced(v, Code(n, n, l), <<Expect("for"), <<"expr">>, Variable(1), Drop, Expect(":")>>, Code(n, n, 1))
  <2>1. Silent(Expect("for")) /\ Silent(Variable(1)) /\ Silent(Expect(":"))
    BY SilentsAre
  <2>2. Giver(<<"expr">>, 1)
    BY GiversAre
  <2>3. Leads(v, Code(n, n, l), Expect("for"), Code(n, n, 1))
    BY <2>1, SilentLeads
  <2>4. Leads(v, Code(n, n, 1), <<"expr">>, Code(n + 1, n, 1))
    BY <2>2, GiverGives
  <2>5. Leads(v, Code(n + 1, n, 1), Variable(1), Code(n + 1, n, 1))
    BY <2>1, SilentLeads
  <2>6. Leads(v, Code(n + 1, n, 1), Drop, Code(n, n, 1))
    BY DropLeads
  <2>7. Leads(v, Code(n, n, 1), Expect(":"), Code(n, n, 1))
    BY <2>1, SilentLeads
  <2> QED
    BY <2>3, <2>4, <2>5, <2>6, <2>7, ChainFive
<1>2. Balanced(v, Code(n, n, 1), << <<"expr">>, Drop, Expect(":"), <<"block">>, <<"for_else">> >>, Code(n, n, 1))
  <2>1. Giver(<<"expr">>, 1)
    BY GiversAre
  <2>2. Silent(Expect(":")) /\ Silent(<<"block">>) /\ Silent(<<"for_else">>)
    BY SilentsAre
  <2>3. Leads(v, Code(n, n, 1), <<"expr">>, Code(n + 1, n, 1))
    BY <2>1, GiverGives
  <2>4. Leads(v, Code(n + 1, n, 1), Drop, Code(n, n, 1))
    BY DropLeads
  <2>5. Leads(v, Code(n, n, 1), Expect(":"), Code(n, n, 1))
    BY <2>2, SilentLeads
  <2>6. Leads(v, Code(n, n, 1), <<"block">>, Code(n, n, 1))
    BY <2>2, SilentLeads
  <2>7. Leads(v, Code(n, n, 1), <<"for_else">>, Code(n, n, 1))
    BY <2>2, SilentLeads
  <2> QED
    BY <2>3, <2>4, <2>5, <2>6, <2>7, ChainFive
<1>3. Balanced(v, Code(n, n, l), <<Expect("for"), <<"expr">>, Variable(1), Drop, Expect(":"), <<"expr">>, Drop,
               Expect(":"), <<"block">>, <<"for_else">> >>, Code(n, n, 1))
  BY <1>1, <1>2, ChainHalves10
<1> QED
  BY <1>3 DEF parse_for

(* its else,                                                                *)
LEMMA ForElsePasses ==
    ASSUME NEW v, NEW n \in Nat, NEW l \in 1 .. 15, NEW t
    PROVE  Balanced(v, Code(n, n, l), for_else(t), Code(n, n, 1))
<1> DEFINE g == IF t = "else" THEN <<Skip, Expect(":"), <<"block">> >> ELSE <<>>
<1>1. Balanced(v, Code(n, n, l), g, Code(n, n, 1))
  <2>1. Balanced(v, Code(n, n, l), <<Skip, Expect(":"), <<"block">> >>, Code(n, n, 1))
    <3>1. Silent(Skip) /\ Silent(Expect(":")) /\ Silent(<<"block">>)
      BY SilentsAre
    <3>2. Leads(v, Code(n, n, l), Skip, Code(n, n, 1))
      BY <3>1, SilentLeads
    <3>3. Leads(v, Code(n, n, 1), Expect(":"), Code(n, n, 1))
      BY <3>1, SilentLeads
    <3>4. Leads(v, Code(n, n, 1), <<"block">>, Code(n, n, 1))
      BY <3>1, SilentLeads
    <3> QED
      BY <3>2, <3>3, <3>4, ChainThree
  <2>2. Balanced(v, Code(n, n, l), <<>>, Code(n, n, 1))
    BY Nothing
  <2> QED
    BY <2>1, <2>2
<1>2. Balanced(v, Code(n, n, 1), <<Expect("end"), Expect("for"), Optional(SEMICOLON)>>, Code(n, n, 1))
  <2>1. Silent(Expect("end")) /\ Silent(Expect("for")) /\ Silent(Optional(SEMICOLON))
    BY SilentsAre
  <2>2. Leads(v, Code(n, n, 1), Expect("end"), Code(n, n, 1))
    BY <2>1, SilentLeads
  <2>3. Leads(v, Code(n, n, 1), Expect("for"), Code(n, n, 1))
    BY <2>1, SilentLeads
  <2>4. Leads(v, Code(n, n, 1), Optional(SEMICOLON), Code(n, n, 1))
    BY <2>1, SilentLeads
  <2> QED
    BY <2>2, <2>3, <2>4, ChainThree
<1>3. for_else(t) = g \o <<Expect("end"), Expect("for"), Optional(SEMICOLON)>>
  BY DEF for_else
<1> HIDE DEF g
<1> QED
  BY <1>1, <1>2, <1>3, BalancedJoin

(* the finally of a try,                                                    *)
LEMMA FinallyPasses ==
    ASSUME NEW v, NEW n \in Nat, NEW l \in 1 .. 15, NEW k, NEW t
    PROVE  Balanced(v, Code(n, n, l), try_finally(k, t), Code(n, n, 1))
<1> DEFINE g == IF t = "finally" THEN <<Skip, Expect(":"), <<"block">> >> ELSE <<>>
           r == IF k \/ t = "finally" THEN <<>> ELSE <<Fail>>
           m == <<Expect("end"), Expect("try"), Optional(SEMICOLON)>>
<1>1. Balanced(v, Code(n, n, l), g, Code(n, n, 1))
  <2>1. Balanced(v, Code(n, n, l), <<Skip, Expect(":"), <<"block">> >>, Code(n, n, 1))
    <3>1. Silent(Skip) /\ Silent(Expect(":")) /\ Silent(<<"block">>)
      BY SilentsAre
    <3>2. Leads(v, Code(n, n, l), Skip, Code(n, n, 1))
      BY <3>1, SilentLeads
    <3>3. Leads(v, Code(n, n, 1), Expect(":"), Code(n, n, 1))
      BY <3>1, SilentLeads
    <3>4. Leads(v, Code(n, n, 1), <<"block">>, Code(n, n, 1))
      BY <3>1, SilentLeads
    <3> QED
      BY <3>2, <3>3, <3>4, ChainThree
  <2>2. Balanced(v, Code(n, n, l), <<>>, Code(n, n, 1))
    BY Nothing
  <2> QED
    BY <2>1, <2>2
<1>2. Balanced(v, Code(n, n, 1), <<Expect("end"), Expect("try"), Optional(SEMICOLON)>>, Code(n, n, 1))
  <2>1. Silent(Expect("end")) /\ Silent(Expect("try")) /\ Silent(Optional(SEMICOLON))
    BY SilentsAre
  <2>2. Leads(v, Code(n, n, 1), Expect("end"), Code(n, n, 1))
    BY <2>1, SilentLeads
  <2>3. Leads(v, Code(n, n, 1), Expect("try"), Code(n, n, 1))
    BY <2>1, SilentLeads
  <2>4. Leads(v, Code(n, n, 1), Optional(SEMICOLON), Code(n, n, 1))
    BY <2>1, SilentLeads
  <2> QED
    BY <2>2, <2>3, <2>4, ChainThree
<1>3. Balanced(v, Code(n, n, 1), r, Code(n, n, 1))
  <2>1. Balanced(v, Code(n, n, 1), <<>>, Code(n, n, 1))
    BY Nothing
  <2>2. Leads(v, Code(n, n, 1), Fail, Code(n, n, 1))
    BY FailLeads DEF Fail
  <2>3. Balanced(v, Code(n, n, 1), <<Fail>>, Code(n, n, 1))
    BY <2>2, ChainOne
  <2> QED
    BY <2>1, <2>3
<1>4. try_finally(k, t) = g \o m \o r
  BY DEF try_finally
<1> HIDE DEF g, r, m
<1>5. Balanced(v, Code(n, n, 1), m, Code(n, n, 1))
  BY <1>2 DEF m
<1>6. Balanced(v, Code(n, n, l), g \o m, Code(n, n, 1))
  BY <1>1, <1>5, BalancedJoin
<1> QED
  BY <1>3, <1>4, <1>6, BalancedJoin

(* one element of a list, a map or a call,                                  *)
LEMMA ElementPasses ==
    ASSUME NEW v, NEW n \in Nat, NEW l \in 1 .. 15, NEW k, NEW d \in Nat, d <= n
    PROVE  Balanced(v, Code(n, n, l), element(k, d), Code(n - d + 1, n - d, 15))
<1>1. CASE k = "map"
  <2>1. Giver(<<"expr">>, 1)
    BY GiversAre
  <2>2. Silent(Expect(":"))
    BY SilentsAre
  <2>3. d + 2 \in Nat
    OBVIOUS
  <2>4. Maker(<<"row", k, d + 2>>, d + 2, 15)
    BY <2>3, MakersAre
  <2>5. Leads(v, Code(n, n, l), <<"expr">>, Code(n + 1, n, 1))
    BY <2>1, GiverGives
  <2>6. Leads(v, Code(n + 1, n, 1), Expect(":"), Code(n + 1, n, 1))
    BY <2>2, SilentLeads
  <2>7. Leads(v, Code(n + 1, n, 1), <<"expr">>, Code(n + 2, n, 1))
    BY <2>1, GiverGives
  <2>8. Leads(v, Code(n + 2, n, 1), <<"row", k, d + 2>>, Code(n - d + 1, n - d, 15))
    BY <2>3, <2>4, MakerMakes
  <2>9. Balanced(v, Code(n, n, l), << <<"expr">>, Expect(":"), <<"expr">>, <<"row", k, d + 2>> >>,
                 Code(n - d + 1, n - d, 15))
    BY <2>5, <2>6, <2>7, <2>8, ChainFour
  <2> QED
    BY <1>1, <2>9 DEF element
<1>2. CASE k # "map"
  <2>1. Giver(<<"expr">>, 1)
    BY GiversAre
  <2>3. d + 1 \in Nat
    OBVIOUS
  <2>4. Maker(<<"row", k, d + 1>>, d + 1, 15)
    BY <2>3, MakersAre
  <2>5. Leads(v, Code(n, n, l), <<"expr">>, Code(n + 1, n, 1))
    BY <2>1, GiverGives
  <2>8. Leads(v, Code(n + 1, n, 1), <<"row", k, d + 1>>, Code(n - d + 1, n - d, 15))
    BY <2>3, <2>4, MakerMakes
  <2>9. Balanced(v, Code(n, n, l), << <<"expr">>, <<"row", k, d + 1>> >>, Code(n - d + 1, n - d, 15))
    BY <2>5, <2>8, ChainTwo
  <2> QED
    BY <1>2, <2>9 DEF element
<1> QED
  BY <1>1, <1>2

(* what may follow it,                                                      *)
LEMMA ClosingPasses ==
    ASSUME NEW v, NEW n \in Nat, NEW l \in 1 .. 15, NEW k \in Lists, NEW d \in Nat, d <= n
    PROVE  /\ Balanced(v, Code(n, n, l), <<Skip, Make(k, d)>>, Code(n - d + 1, n - d, 15))
           /\ Balanced(v, Code(n, n, l), <<Skip>> \o element(k, d), Code(n - d + 1, n - d, 15))
           /\ Balanced(v, Code(n, n, l), <<Fail>>, Code(n - d + 1, n - d, 15))
<1>1. Silent(Skip)
  BY SilentsAre
<1>2. Maker(Make(k, d), d, 15)
  BY MakersAre DEF Lists
<1>3. Leads(v, Code(n, n, l), Skip, Code(n, n, 1))
  BY <1>1, SilentLeads
<1>4. Leads(v, Code(n, n, 1), Make(k, d), Code(n - d + 1, n - d, 15))
  BY <1>2, MakerMakes
<1>5. Balanced(v, Code(n, n, 1), element(k, d), Code(n - d + 1, n - d, 15))
  <2>1. 1 \in 1 .. 15
    OBVIOUS
  <2> QED
    BY <2>1, ElementPasses
<1>6. Leads(v, Code(n, n, l), Fail, Code(n - d + 1, n - d, 15))
  <2>1. n - d + 1 \in Nat /\ n - d \in Int /\ n - d <= n /\ 15 \in Int /\ 15 <= 15 /\ Fail[1] = "fail"
        /\ n \in Int /\ 1 <= l
    BY DEF Fail
  <2> QED
    BY <2>1, FailLeads
<1> QED
  BY <1>3, <1>4, <1>5, <1>6, ChainOne, ChainTwo, ChainGoesOn

(* the whole of it,                                                         *)
LEMMA ListsPass ==
    ASSUME NEW v, NEW n \in Nat, NEW l \in 1 .. 15, NEW k \in Lists, NEW d \in Nat, d <= n, NEW t
    PROVE  /\ Balanced(v, Code(n, n, l), first(k, d, t), Code(n - d + 1, n - d, 15))
           /\ Balanced(v, Code(n, n, l), row(k, d, t), Code(n - d + 1, n - d, 15))
<1>1. Balanced(v, Code(n, n, l), first(k, d, t), Code(n - d + 1, n - d, 15))
  <2>1. Balanced(v, Code(n, n, l), element(k, d), Code(n - d + 1, n - d, 15))
    BY ElementPasses
  <2>2. Balanced(v, Code(n, n, l), <<Skip, Make(k, d)>>, Code(n - d + 1, n - d, 15))
    BY ClosingPasses
  <2> QED
    BY <2>1, <2>2 DEF first
<1>2. Balanced(v, Code(n, n, l), row(k, d, t), Code(n - d + 1, n - d, 15))
  <2>1. /\ Balanced(v, Code(n, n, l), <<Skip, Make(k, d)>>, Code(n - d + 1, n - d, 15))
        /\ Balanced(v, Code(n, n, l), <<Skip>> \o element(k, d), Code(n - d + 1, n - d, 15))
        /\ Balanced(v, Code(n, n, l), <<Fail>>, Code(n - d + 1, n - d, 15))
    BY ClosingPasses
  <2>2. row(k, d, t) \in {<<Skip>> \o element(k, d), <<Skip, Make(k, d)>>, <<Fail>>}
    BY DEF row
  <2> QED
    BY <2>1, <2>2
<1> QED
  BY <1>1, <1>2

(* what follows a selection,                                                *)
LEMMA SelectedPasses ==
    ASSUME NEW v, NEW n \in Nat, n > 0, NEW l \in 1 .. 15, NEW t
    PROVE  Balanced(v, Code(n, n, l), selected(t), Code(n, n - 1, 15))
<1>1. Balanced(v, Code(n, n, l), parse_args, Code(n, n - 1, 15))
  BY ArgsPass
<1>2. Maker(Make("attribute", 1), 1, 15)
  BY MakersAre
<1>3. Leads(v, Code(n, n, l), Make("attribute", 1), Code(n, n - 1, 15))
  BY <1>2, MakerMakes
<1>4. Balanced(v, Code(n, n, l), <<Make("attribute", 1)>>, Code(n, n - 1, 15))
  BY <1>3, ChainOne
<1> QED
  BY <1>1, <1>4 DEF selected

(* the operators behind an operand,                                         *)
LEMMA PostfixOperatorPasses ==
    ASSUME NEW v, NEW n \in Nat, n > 0, NEW l \in 1 .. 15, l = 15, NEW t
    PROVE  Balanced(v, Code(n, n, l), postfix_operator(t), Code(n, n - 1, 15))
<1>0. CASE t = "("
  <2>1. Balanced(v, Code(n, n, l), parse_args, Code(n, n - 1, 15))
    BY ArgsPass
  <2>2. Ender(<<"postfix_operator">>, 15, 15)
    BY EndersAre
  <2>3. Leads(v, Code(n, n - 1, 15), <<"postfix_operator">>, Code(n, n - 1, 15))
    BY <2>2, EnderEnds
  <2>4. Balanced(v, Code(n, n - 1, 15), << <<"postfix_operator">> >>, Code(n, n - 1, 15))
    BY <2>3, ChainOne
  <2>5. Balanced(v, Code(n, n, l), parse_args \o << <<"postfix_operator">> >>, Code(n, n - 1, 15))
    BY <2>1, <2>4, BalancedJoin
  <2> QED
    BY <1>0, <2>5 DEF postfix_operator
<1>1. CASE t = "["
  <2>1. Balanced(v, Code(n, n, l), <<Skip, <<"expr">>, Expect("]"), Make("subscript", 2),
                 <<"postfix_operator">> >>, Code(n, n - 1, 15))
    <3>1. Silent(Skip) /\ Silent(Expect("]"))
      BY SilentsAre
    <3>2. Giver(<<"expr">>, 1)
      BY GiversAre
    <3>3. Maker(Make("subscript", 2), 2, 15)
      BY MakersAre
    <3>4. Ender(<<"postfix_operator">>, 15, 15)
      BY EndersAre
    <3>5. Leads(v, Code(n, n, l), Skip, Code(n, n, 1))
      BY <3>1, SilentLeads
    <3>6. Leads(v, Code(n, n, 1), <<"expr">>, Code(n + 1, n, 1))
      BY <3>2, GiverGives
    <3>7. Leads(v, Code(n + 1, n, 1), Expect("]"), Code(n + 1, n, 1))
      BY <3>1, SilentLeads
    <3>8. Leads(v, Code(n + 1, n, 1), Make("subscript", 2), Code(n, n - 1, 15))
      BY <3>3, MakerMakes
    <3>9. Leads(v, Code(n, n - 1, 15), <<"postfix_operator">>, Code(n, n - 1, 15))
      BY <3>4, EnderEnds
    <3> QED
      BY <3>5, <3>6, <3>7, <3>8, <3>9, ChainFive
  <2> QED
    BY <1>1, <2>1 DEF postfix_operator
<1>2. CASE t \in {".", "?."}
  <2>1. Balanced(v, Code(n, n, l), <<Skip, <<"selection">>, <<"postfix_operator">> >>, Code(n, n - 1, 15))
    <3>1. Silent(Skip)
      BY SilentsAre
    <3>2. Ender(<<"selection">>, 1, 15) /\ Ender(<<"postfix_operator">>, 15, 15)
      BY EndersAre
    <3>3. Leads(v, Code(n, n, l), Skip, Code(n, n, 1))
      BY <3>1, SilentLeads
    <3>4. Leads(v, Code(n, n, 1), <<"selection">>, Code(n, n - 1, 15))
      BY <3>2, EnderEnds
    <3>5. Leads(v, Code(n, n - 1, 15), <<"postfix_operator">>, Code(n, n - 1, 15))
      BY <3>2, EnderEnds
    <3> QED
      BY <3>3, <3>4, <3>5, ChainThree
  <2> QED
    BY <1>2, <2>1 DEF postfix_operator
<1>3. CASE t \in {"++", "--"}
  <2>1. Balanced(v, Code(n, n, l), <<Skip, Variable(1), Make("postfix", 1), <<"postfix_operator">> >>,
                 Code(n, n - 1, 15))
    <3>1. Silent(Skip) /\ Silent(Variable(1))
      BY SilentsAre
    <3>2. Maker(Make("postfix", 1), 1, 15)
      BY MakersAre
    <3>3. Ender(<<"postfix_operator">>, 15, 15)
      BY EndersAre
    <3>4. Leads(v, Code(n, n, l), Skip, Code(n, n, 1))
      BY <3>1, SilentLeads
    <3>5. Leads(v, Code(n, n, 1), Variable(1), Code(n, n, 1))
      BY <3>1, SilentLeads
    <3>6. Leads(v, Code(n, n, 1), Make("postfix", 1), Code(n, n - 1, 15))
      BY <3>2, MakerMakes
    <3>7. Leads(v, Code(n, n - 1, 15), <<"postfix_operator">>, Code(n, n - 1, 15))
      BY <3>3, EnderEnds
    <3> QED
      BY <3>4, <3>5, <3>6, <3>7, ChainFour
  <2> QED
    BY <1>3, <2>1 DEF postfix_operator
<1>4. CASE t \notin {"(", "[", ".", "?.", "++", "--"}
  <2>1. Balanced(v, Code(n, n, l), <<>>, Code(n, n - 1, 15))
    <3>1. 15 \in 1 .. 15 /\ 15 <= l
      OBVIOUS
    <3> QED
      BY <3>1, Nothing
  <2> QED
    BY <1>4, <2>1 DEF postfix_operator
<1> QED
  BY <1>0, <1>1, <1>2, <1>3, <1>4

(* parse_function(),                                                        *)
LEMMA FunctionPasses ==
    ASSUME NEW v, NEW n \in Nat, NEW l \in 1 .. 15, NEW t
    PROVE  Balanced(v, Code(n, n, l), parse_function(t), Code(n + 1, n, 15))
<1>1. Balanced(v, Code(n, n, l), << <<"body">> >>, Code(n + 1, n, 15))
  <2>1. Giver(<<"body">>, 15)
    BY GiversAre
  <2>2. Leads(v, Code(n, n, l), <<"body">>, Code(n + 1, n, 15))
    BY <2>1, GiverGives
  <2> QED
    BY <2>2, ChainOne
<1>2. Balanced(v, Code(n, n, l), <<Expect("("), <<"parameters">> >>, Code(n, n, 1))
  <2>1. Silent(Expect("(")) /\ Silent(<<"parameters">>)
    BY SilentsAre
  <2>2. Leads(v, Code(n, n, l), Expect("("), Code(n, n, 1))
    BY <2>1, SilentLeads
  <2>3. Leads(v, Code(n, n, 1), <<"parameters">>, Code(n, n, 1))
    BY <2>1, SilentLeads
  <2> QED
    BY <2>2, <2>3, ChainTwo
<1>3. Balanced(v, Code(n, n, 1), << <<"body">> >>, Code(n + 1, n, 15))
  <2>1. Giver(<<"body">>, 15)
    BY GiversAre
  <2>2. Leads(v, Code(n, n, 1), <<"body">>, Code(n + 1, n, 15))
    BY <2>1, GiverGives
  <2> QED
    BY <2>2, ChainOne
<1>4. Balanced(v, Code(n, n, l), <<Expect("("), <<"parameters">> >> \o << <<"body">> >>, Code(n + 1, n, 15))
  BY <1>2, <1>3, BalancedJoin
<1>5. Balanced(v, Code(n, n, l), parse_parameters \o << <<"body">> >>, Code(n + 1, n, 15))
  BY <1>4 DEF parse_parameters
<1> QED
  BY <1>1, <1>5 DEF parse_function

(* parse_primary(),                                                         *)
LEMMA PrimaryPasses ==
    ASSUME NEW v, NEW n \in Nat, NEW l \in 1 .. 15, NEW t
    PROVE  Balanced(v, Code(n, n, l), parse_primary(t), Code(n + 1, n, 15))
<1> DEFINE g == CASE t \in {"true", "false", "null", "string"} -> <<Make("value", 0)>>
                  [] t \in {"int", "float"} -> << <<"number">> >>
                  [] t = "("          -> << <<"expr">>, Expect(")"), Make("group", 1)>>
                  [] t = "["          -> parse_list
                  [] t = LBRACE       -> parse_map
                  [] t = "identifier" -> <<Make("identifier", 0)>>
                  [] t = "function"   -> << <<"function">> >>
                  [] t = "error"      -> <<FailQuietly>>
                  [] OTHER            -> <<Fail>>
<1>1. parse_primary(t) = <<Skip>> \o g
  BY DEF parse_primary
<1>2. Balanced(v, Code(n, n, 1), g, Code(n + 1, n, 15))
  <2>1. CASE t \in {"true", "false", "null", "string"}
    <3>1. Balanced(v, Code(n, n, 1), <<Make("value", 0)>>, Code(n + 1, n, 15))
      <4>1. Maker(Make("value", 0), 0, 15)
        BY MakersAre
      <4>2. Leads(v, Code(n, n, 1), Make("value", 0), Code(n + 1, n, 15))
        BY <4>1, MakerMakes
      <4> QED
        BY <4>2, ChainOne
    <3> QED
      BY <2>1, <3>1 DEF LBRACE
  <2>2. CASE t \in {"int", "float"}
    <3>1. Balanced(v, Code(n, n, 1), << <<"number">> >>, Code(n + 1, n, 15))
      <4>1. Giver(<<"number">>, 15)
        BY GiversAre
      <4>2. Leads(v, Code(n, n, 1), <<"number">>, Code(n + 1, n, 15))
        BY <4>1, GiverGives
      <4> QED
        BY <4>2, ChainOne
    <3> QED
      BY <2>2, <3>1 DEF LBRACE
  <2>3. CASE t = "("
    <3>1. Balanced(v, Code(n, n, 1), << <<"expr">>, Expect(")"), Make("group", 1)>>, Code(n + 1, n, 15))
      <4>1. Giver(<<"expr">>, 1)
        BY GiversAre
      <4>2. Silent(Expect(")"))
        BY SilentsAre
      <4>3. Maker(Make("group", 1), 1, 15)
        BY MakersAre
      <4>4. Leads(v, Code(n, n, 1), <<"expr">>, Code(n + 1, n, 1))
        BY <4>1, GiverGives
      <4>5. Leads(v, Code(n + 1, n, 1), Expect(")"), Code(n + 1, n, 1))
        BY <4>2, SilentLeads
      <4>6. Leads(v, Code(n + 1, n, 1), Make("group", 1), Code(n + 1, n, 15))
        BY <4>3, MakerMakes
      <4> QED
        BY <4>4, <4>5, <4>6, ChainThree
    <3> QED
      BY <2>3, <3>1 DEF LBRACE
  <2>4. CASE t = "["
    <3>1. Balanced(v, Code(n, n, 1), << <<"first", "list", 0>> >>, Code(n + 1, n, 15))
      <4>1. Maker(<<"first", "list", 0>>, 0, 15)
        BY MakersAre
      <4>2. Leads(v, Code(n, n, 1), <<"first", "list", 0>>, Code(n + 1, n, 15))
        BY <4>1, MakerMakes
      <4> QED
        BY <4>2, ChainOne
    <3> QED
      BY <2>4, <3>1 DEF parse_list, LBRACE
  <2>5. CASE t = LBRACE
    <3>1. Balanced(v, Code(n, n, 1), << <<"first", "map", 0>> >>, Code(n + 1, n, 15))
      <4>1. Maker(<<"first", "map", 0>>, 0, 15)
        BY MakersAre
      <4>2. Leads(v, Code(n, n, 1), <<"first", "map", 0>>, Code(n + 1, n, 15))
        BY <4>1, MakerMakes
      <4> QED
        BY <4>2, ChainOne
    <3> QED
      BY <2>5, <3>1 DEF parse_map, LBRACE
  <2>6. CASE t = "identifier"
    <3>1. Balanced(v, Code(n, n, 1), <<Make("identifier", 0)>>, Code(n + 1, n, 15))
      <4>1. Maker(Make("identifier", 0), 0, 15)
        BY MakersAre
      <4>2. Leads(v, Code(n, n, 1), Make("identifier", 0), Code(n + 1, n, 15))
        BY <4>1, MakerMakes
      <4> QED
        BY <4>2, ChainOne
    <3> QED
      BY <2>6, <3>1 DEF LBRACE
  <2>7. CASE t = "function"
    <3>1. Balanced(v, Code(n, n, 1), << <<"function">> >>, Code(n + 1, n, 15))
      <4>1. Giver(<<"function">>, 15)
        BY GiversAre
      <4>2. Leads(v, Code(n, n, 1), <<"function">>, Code(n + 1, n, 15))
        BY <4>1, GiverGives
      <4> QED
        BY <4>2, ChainOne
    <3> QED
      BY <2>7, <3>1 DEF LBRACE
  <2>8. CASE t = "error"
    <3>1. Balanced(v, Code(n, n, 1), <<FailQuietly>>, Code(n + 1, n, 15))
      <4>1. Leads(v, Code(n, n, 1), FailQuietly, Code(n + 1, n, 15))
        BY FailLeads DEF Fail, FailQuietly
      <4> QED
        BY <4>1, ChainOne
    <3> QED
      BY <2>8, <3>1 DEF LBRACE
  <2>9. CASE t \notin {"true", "false", "null", "string", "int", "float",
        "(", "[", LBRACE, "identifier", "function", "error"}
    <3>1. Balanced(v, Code(n, n, 1), <<Fail>>, Code(n + 1, n, 15))
      <4>1. Leads(v, Code(n, n, 1), Fail, Code(n + 1, n, 15))
        BY FailLeads DEF Fail, FailQuietly
      <4> QED
        BY <4>1, ChainOne
    <3> QED
      BY <2>9, <3>1 DEF LBRACE
  <2> QED
    BY <2>1, <2>2, <2>3, <2>4, <2>5, <2>6, <2>7, <2>8, <2>9
<1> HIDE DEF g
<1>3. Silent(Skip)
  BY SilentsAre
<1>4. Leads(v, Code(n, n, l), Skip, Code(n, n, 1))
  BY <1>3, SilentLeads
<1>5. Balanced(v, Code(n, n, l), <<Skip>> \o g, Code(n + 1, n, 15))
  BY <1>2, <1>4, ChainGoesOn
<1> QED
  BY <1>1, <1>5

(* and the rules of the left associative operators.                         *)
LEMMA RulesPass ==
    ASSUME NEW v, NEW n \in Nat, NEW l \in 1 .. 15, NEW r \in RuleNames
    PROVE  Balanced(v, Code(n, n, l), << <<Rule[r].operand>>, <<"operators", r>> >>, Code(n + 1, n, RuleLevel[r]))
<1> DEFINE u == Rule[r].operand
           o == RuleLevel[r]
<1>1. o \in 4 .. 13 /\ Giver(<<u>>, o + 1)
  <2>1. CASE r = "multiplicative"
    <3>1. u = "unary" /\ o = 13 /\ Giver(<<"unary">>, 14)
      BY <2>1, RulesAre, GiversAre DEF RuleLevel
    <3> QED
      BY <3>1
  <2>2. CASE r # "multiplicative"
    <3>1. u \in RuleNames /\ RuleLevel[u] = o + 1 /\ o \in 4 .. 13
      BY <2>2, RulesAre
    <3> QED
      BY <3>1, GiversAre
  <2> QED
    BY <2>1, <2>2
<1>2. Ender(<<"operators", r>>, o, o)
  BY EndersAre
<1> HIDE DEF u, o
<1>3. Leads(v, Code(n, n, l), <<u>>, Code(n + 1, n, o + 1))
  BY <1>1, GiverGives
<1>4. Leads(v, Code(n + 1, n, o + 1), <<"operators", r>>, Code(n + 1, n, o))
  <2>1. o + 1 \in Int /\ o <= o + 1
    BY <1>1
  <2> QED
    BY <1>2, <2>1, EnderEnds
<1>5. Balanced(v, Code(n, n, l), << <<u>>, <<"operators", r>> >>, Code(n + 1, n, o))
  BY <1>3, <1>4, ChainTwo
<1> QED
  BY <1>5 DEF u, o

(* The right operand is one of the next rule, and the node made of both    *)
(* the left operand of the next operator.                                  *)
LEMMA OperatorsPass ==
    ASSUME NEW v, NEW n \in Nat, n > 0, NEW l \in 1 .. 15, NEW r \in RuleNames, RuleLevel[r] <= l,
           v[n].level = l, NEW t
    PROVE  Balanced(v, Code(n, n, l), operators(r, t), Code(n, n - 1, RuleLevel[r]))
<1> DEFINE u == Rule[r].operand
           o == RuleLevel[r]
<1>1. o \in 4 .. 13 /\ Giver(<<u>>, o + 1)
  <2>1. CASE r = "multiplicative"
    <3>1. u = "unary" /\ o = 13 /\ Giver(<<"unary">>, 14)
      BY <2>1, RulesAre, GiversAre DEF RuleLevel
    <3> QED
      BY <3>1
  <2>2. CASE r # "multiplicative"
    <3>1. u \in RuleNames /\ RuleLevel[u] = o + 1 /\ o \in 4 .. 13
      BY <2>2, RulesAre
    <3> QED
      BY <3>1, GiversAre
  <2> QED
    BY <2>1, <2>2
<1>2. Ender(<<"operators", r>>, o, o) /\ o <= l
  BY EndersAre
<1>3. CASE t \in Rule[r].operators
  <2>1. Level(t) = o
    BY <1>3, RulesAre
  <2>2. IsBinary(Make(t, 2)) /\ Make(t, 2)[3] = 2 /\ Make(t, 2)[2] = t
    BY <1>1, <2>1 DEF IsBinary, Make, Groups
  <2>3. Silent(Skip)
    BY SilentsAre
  <2> HIDE DEF u, o
  <2>4. Leads(v, Code(n, n, l), Skip, Code(n, n, 1))
    BY <2>3, SilentLeads
  <2>5. Leads(v, Code(n, n, 1), <<u>>, Code(n + 1, n, o + 1))
    BY <1>1, GiverGives
  <2>6. Leads(v, Code(n + 1, n, o + 1), Make(t, 2), Code(n, n - 1, o))
    <3> DEFINE x == Make(t, 2)
               h == n + 1
    <3>1. h \in Nat /\ n \in Int /\ o + 1 \in Int /\ 2 <= h /\ h - 1 <= n /\ n = h - 1 /\ n - 1 = h - 2
          /\ o + 1 <= o + 1 /\ o <= v[n].level
      BY <1>1, <1>2
    <3>2. IsBinary(x) /\ x[3] = 2 /\ o = Level(x[2])
      BY <2>1, <2>2
    <3> HIDE DEF x, h
    <3>3. Leads(v, Code(h, n, o + 1), x, Code(n, n - 1, o))
      BY <3>1, <3>2, BinaryLeads
    <3> QED
      BY <3>3 DEF x, h
  <2>7. Leads(v, Code(n, n - 1, o), <<"operators", r>>, Code(n, n - 1, o))
    BY <1>1, <1>2, EnderEnds
  <2>8. Balanced(v, Code(n, n, l), <<Skip, <<u>>, Make(t, 2), <<"operators", r>> >>, Code(n, n - 1, o))
    BY <2>4, <2>5, <2>6, <2>7, ChainFour
  <2> QED
    BY <1>3, <2>8 DEF operators, u, o
<1>4. CASE t \notin Rule[r].operators
  <2> HIDE DEF o
  <2>1. o \in 1 .. 15 /\ o <= l
    BY <1>1, <1>2
  <2>2. Balanced(v, Code(n, n, l), <<>>, Code(n, n - 1, o))
    BY <2>1, Nothing
  <2> QED
    BY <1>4, <2>2 DEF operators, o
<1> QED
  BY <1>3, <1>4

(* The nodes, how tightly the last one holds together, and what is known    *)
(* where an item begins.                                                    *)
Nodes == [variable : BOOLEAN, level : 1 .. 15]
Top(v) == IF v = <<>> THEN 1 ELSE v[Len(v)].level
Now(v) == Code(Len(v), Len(v), Top(v))
(* The items of a stack find what they need, and no text is left open.      *)
Covered(v, s) == \E e : Balanced(v, Now(v), s, e) /\ ~e.text
(* What the functions above an item can count on.                           *)
After(x, n) == IF Texty(x) THEN Text(n, n, 1) ELSE Code(n - Takes(x) + Gives(x), n - Takes(x), Promises(x))

(* What is known where an item begins follows from the nodes there are.     *)
LEMMA NowIs ==
    ASSUME NEW v \in Seq(Nodes)
    PROVE  /\ Len(v) \in Nat /\ Top(v) \in 1 .. 15 /\ Now(v) \in States /\ IsSeq(v)
           /\ Now(v).height = Len(v) /\ Now(v).floor = Len(v) /\ Now(v).top = Top(v) /\ ~Now(v).text
           /\ Len(v) > 0 => Top(v) = v[Len(v)].level
<1>1. Len(v) \in Nat /\ IsSeq(v)
  BY DEF IsSeq
<1>2. Top(v) \in 1 .. 15 /\ (Len(v) > 0 => Top(v) = v[Len(v)].level)
  <2>1. CASE v = <<>>
    BY <2>1 DEF Top
  <2>2. CASE v # <<>>
    <3>1. Len(v) \in 1 .. Len(v)
      BY <2>2
    <3>2. v[Len(v)] \in Nodes
      BY <3>1
    <3>3. v[Len(v)].level \in 1 .. 15
      BY <3>2 DEF Nodes
    <3> QED
      BY <2>2, <3>3 DEF Top
  <2> QED
    BY <2>1, <2>2
<1>3. Now(v) \in States
  <2>1. Len(v) \in Int /\ Top(v) \in Int
    BY <1>1, <1>2
  <2>2. Code(Len(v), Len(v), Top(v)) \in States
    BY <1>1, <2>1, StateIs
  <2> QED
    BY <2>2 DEF Now
<1>4. Now(v).height = Len(v) /\ Now(v).floor = Len(v) /\ Now(v).top = Top(v) /\ ~Now(v).text
  BY DEF Now, Code
<1> QED
  BY <1>1, <1>2, <1>3, <1>4

(* The rest of a stack.                                                     *)
LEMMA TailIs ==
    ASSUME NEW s, IsSeq(s), s # <<>>
    PROVE  SubSeq(s, 2, Len(s)) = Tail(s)
<1>1. PICK S : s \in Seq(S)
  BY DEF IsSeq
<1>2. /\ Len(s) \in Nat /\ Len(s) >= 1 /\ IsSeq(Tail(s)) /\ Len(Tail(s)) = Len(s) - 1
      /\ \A j \in 1 .. Len(s) - 1 : Tail(s)[j] = s[j + 1]
  BY SequencesAre
<1> DEFINE q == SubSeq(s, 2, Len(s))
<1>4. q \in Seq(S) /\ Len(q) = Len(s) - 2 + 1 /\ \A j \in 1 .. Len(s) - 2 + 1 : q[j] = s[2 + j - 1]
  <2>1. ASSUME NEW m \in 1 .. Len(s) + 1, NEW l \in m - 1 .. Len(s)
        PROVE  /\ SubSeq(s, m, l) \in Seq(S) /\ Len(SubSeq(s, m, l)) = l - m + 1
               /\ \A j \in 1 .. l - m + 1 : SubSeq(s, m, l)[j] = s[m + j - 1]
    BY <1>1, SubSeqProperties
  <2>2. 2 \in 1 .. Len(s) + 1 /\ Len(s) \in 2 - 1 .. Len(s)
    BY <1>2
  <2> QED
    BY <2>1, <2>2
<1> HIDE DEF q
<1>5. IsSeq(q)
  BY <1>4 DEF IsSeq
<1>6. Len(q) = Len(Tail(s))
  BY <1>2, <1>4
<1>7. ASSUME NEW j \in 1 .. Len(q) PROVE q[j] = Tail(s)[j]
  <2>1. j \in 1 .. Len(s) - 1 /\ j \in 1 .. Len(s) - 2 + 1 /\ 2 + j - 1 = j + 1
    BY <1>2, <1>4
  <2> QED
    BY <1>2, <1>4, <2>1
<1>8. q = Tail(s)
  BY <1>2, <1>5, <1>6, <1>7, Equal
<1> QED
  BY <1>8 DEF q

(* The head of a stack, and what waits behind it.                          *)
LEMMA CoveredHead ==
    ASSUME NEW v \in Seq(Nodes), NEW s, Covered(v, s), s # <<>>
    PROVE  /\ IsSeq(s) /\ Len(s) >= 1 /\ Head(s) = s[1]
           /\ \E m, e : m \in States /\ Passes(v, Now(v), s[1], m) /\ Balanced(v, m, Tail(s), e) /\ ~e.text
<1>1. PICK e : Balanced(v, Now(v), s, e) /\ ~e.text
  BY DEF Covered
<1>2. IsSeq(s) /\ Len(s) \in Nat /\ Len(s) >= 1 /\ Head(s) = s[1]
  <2>1. IsSeq(s)
    BY <1>1 DEF Balanced
  <2> QED
    BY <2>1, SequencesAre
<1>3. 1 \in 1 .. Len(s)
  BY <1>2
<1>4. PICK m \in States : Passes(v, Now(v), s[1], m) /\ Balanced(v, m, SubSeq(s, 1 + 1, Len(s)), e)
  BY <1>1, <1>3, BalancedFrom
<1>5. Balanced(v, m, Tail(s), e)
  <2>1. SubSeq(s, 1 + 1, Len(s)) = SubSeq(s, 2, Len(s))
    OBVIOUS
  <2>2. SubSeq(s, 2, Len(s)) = Tail(s)
    BY <1>2, TailIs
  <2> QED
    BY <1>4, <2>1, <2>2
<1> QED
  BY <1>1, <1>2, <1>4, <1>5

(* What the head of a stack takes is there.                                 *)
LEMMA PassesIs ==
    ASSUME NEW v \in Seq(Nodes), NEW x, NEW m \in States, Passes(v, Now(v), x, m)
    PROVE  /\ Takes(x) \in Nat /\ Takes(x) <= Len(v) /\ Wants(x) <= Top(v) /\ Promises(x) \in Nat
           /\ m.floor <= Len(v) /\ m.floor <= Len(v) - Takes(x) /\ m.top <= Promises(x)
           /\ x[1] # "fail" => m.height = Len(v) + Gives(x) - Takes(x)
           /\ m.text <=> Texty(x)
           /\ IsBinary(x) => x[3] = 2 /\ Level(x[2]) <= v[Len(v) - 1].level
           /\ IsDeaf(x) => x[2] = Len(v)
           /\ m.height \in Nat /\ m.floor \in Int /\ m.top \in Int /\ m.text \in BOOLEAN
<1>1. /\ Len(v) \in Nat /\ Now(v).height = Len(v) /\ Now(v).floor = Len(v) /\ Now(v).top = Top(v)
  BY NowIs
<1>2. m.height \in Nat /\ m.floor \in Int /\ m.top \in Int /\ m.text \in BOOLEAN
  BY DEF States
<1> QED
  BY <1>1, <1>2 DEF Passes

(* An item is done, and the nodes are what it promised.                    *)
LEMMA HeadIsDone ==
    ASSUME NEW v \in Seq(Nodes), NEW s, Covered(v, s), s # <<>>, NEW w \in Seq(Nodes),
           s[1][1] # "fail", ~Texty(s[1]), Len(w) = Len(v) + Gives(s[1]) - Takes(s[1]),
           \A k \in 1 .. Len(v) - Takes(s[1]) : w[k] = v[k], Promises(s[1]) <= Top(w)
    PROVE  Covered(w, Tail(s))
<1>1. PICK m, e : m \in States /\ Passes(v, Now(v), s[1], m) /\ Balanced(v, m, Tail(s), e) /\ ~e.text
  BY CoveredHead
<1> DEFINE x == s[1]
<1>2. /\ Takes(x) \in Nat /\ Takes(x) <= Len(v) /\ Promises(x) \in Nat
      /\ m.floor <= Len(v) - Takes(x) /\ m.top <= Promises(x)
      /\ m.height = Len(v) + Gives(x) - Takes(x) /\ ~m.text
      /\ m.height \in Nat /\ m.floor \in Int /\ m.top \in Int /\ m.text \in BOOLEAN
  BY <1>1, PassesIs
<1>3. /\ Len(w) \in Nat /\ Top(w) \in 1 .. 15 /\ Now(w) \in States /\ Len(v) \in Nat
      /\ Now(w).height = Len(w) /\ Now(w).floor = Len(w) /\ Now(w).top = Top(w) /\ ~Now(w).text
  BY NowIs
<1>4. Gives(x) \in {0, 1}
  BY TakesAre
<1>5. Below(m, Now(w))
  <2>0. m.top <= Promises(x) /\ Promises(x) <= Top(w) /\ Promises(x) \in Int /\ m.top \in Int /\ Top(w) \in Int
    BY <1>2, <1>3
  <2>4. m.top <= Top(w)
    BY <2>0
  <2>5. Len(w) = Len(v) + Gives(x) - Takes(x)
    OBVIOUS
  <2>6. m.floor <= Len(w)
    BY <1>2, <1>3, <1>4, <2>5
  <2>1. m.height = Now(w).height /\ m.floor <= Now(w).floor /\ m.top <= Now(w).top
    BY <1>2, <1>3, <2>4, <2>5, <2>6
  <2>2. m.text = Now(w).text
    <3>1. Now(w).text \in BOOLEAN
      BY <1>3 DEF States
    <3> QED
      BY <1>2, <1>3, <3>1
  <2> QED
    BY <2>1, <2>2 DEF Below
<1>6. \A k \in 1 .. m.floor : w[k] = v[k]
  BY <1>2, <1>3
<1>7. Balanced(w, m, Tail(s), e)
  BY <1>1, <1>6, BalancedSame
<1>8. Below(e, e) /\ e \in States
  <2>1. e \in States
    BY <1>1 DEF Balanced
  <2> QED
    BY <2>1 DEF Below, States
<1>9. Balanced(w, Now(w), Tail(s), e)
  BY <1>3, <1>5, <1>7, <1>8, BalancedBelow
<1> QED
  BY <1>1, <1>9 DEF Covered

(* An item goes on with others.                                            *)
LEMMA HeadGoesOn ==
    ASSUME NEW v \in Seq(Nodes), NEW s, Covered(v, s), s # <<>>, s[1][1] # "fail", NEW g,
           Balanced(v, Now(v), g, After(s[1], Len(v)))
    PROVE  Covered(v, g \o Tail(s))
<1>1. PICK m, e : m \in States /\ Passes(v, Now(v), s[1], m) /\ Balanced(v, m, Tail(s), e) /\ ~e.text
  BY CoveredHead
<1> DEFINE x == s[1]
           b == After(x, Len(v))
<1>2. /\ Takes(x) \in Nat /\ Takes(x) <= Len(v) /\ Promises(x) \in Nat
      /\ m.floor <= Len(v) /\ m.floor <= Len(v) - Takes(x) /\ m.top <= Promises(x)
      /\ m.height = Len(v) + Gives(x) - Takes(x) /\ (m.text <=> Texty(x))
      /\ m.height \in Nat /\ m.floor \in Int /\ m.top \in Int /\ m.text \in BOOLEAN
  BY <1>1, PassesIs
<1>3. Len(v) \in Nat /\ Gives(x) \in {0, 1}
  BY NowIs, TakesAre
<1>4. b \in States
  BY <1>1 DEF Balanced
<1>5. Below(m, b)
  <2>1. CASE Texty(x)
    <3>1. b.height = Len(v) /\ b.floor = Len(v) /\ b.top = 1 /\ b.text = TRUE
      BY <2>1 DEF After, Text
    <3>2. Takes(x) = 0 /\ Gives(x) = 0 /\ Promises(x) = 1
      <4>1. Neutral(x)
        BY <2>1, SilentIs DEF Texty
      <4> QED
        BY <4>1, NeutralIs
    <3>3. m.text = TRUE /\ m.height = Len(v) /\ m.floor <= Len(v) /\ m.top <= 1
      BY <1>2, <1>3, <2>1, <3>2
    <3> HIDE DEF b
    <3> QED
      BY <3>1, <3>3 DEF Below
  <2>2. CASE ~Texty(x)
    <3>1. b.height = Len(v) - Takes(x) + Gives(x) /\ b.floor = Len(v) - Takes(x) /\ b.top = Promises(x)
          /\ b.text = FALSE
      BY <2>2 DEF After, Code
    <3>2. m.text = FALSE
      BY <1>2, <2>2
    <3>3. m.height = Len(v) - Takes(x) + Gives(x)
      BY <1>2, <1>3
    <3> HIDE DEF b
    <3> QED
      BY <1>2, <3>1, <3>2, <3>3 DEF Below
  <2> QED
    BY <2>1, <2>2
<1>6. Below(e, e) /\ e \in States
  <2>1. e \in States
    BY <1>1 DEF Balanced
  <2> QED
    BY <2>1 DEF Below, States
<1> HIDE DEF b
<1>7. Balanced(v, b, Tail(s), e)
  BY <1>1, <1>4, <1>5, <1>6, BalancedBelow
<1>8. Balanced(v, Now(v), g \o Tail(s), e)
  BY <1>7, BalancedJoin DEF b
<1> QED
  BY <1>1, <1>8 DEF Covered

(* A text is over, and so may be the template around it.                   *)
LEMMA TextIsOver ==
    ASSUME NEW v \in Seq(Nodes), NEW s, Covered(v, s), s # <<>>, Texty(s[1])
    PROVE  Tail(s) # <<>> /\ Covered(v, Tail(s)) /\ Covered(v, Tail(Tail(s)))
<1>1. PICK m, e : m \in States /\ Passes(v, Now(v), s[1], m) /\ Balanced(v, m, Tail(s), e) /\ ~e.text
  BY CoveredHead
<1> DEFINE x == s[1]
           r == Tail(s)
<1>2. /\ m.floor <= Len(v) /\ m.top <= Promises(x) /\ (m.text <=> Texty(x))
      /\ (x[1] # "fail" => m.height = Len(v) + Gives(x) - Takes(x))
      /\ m.height \in Nat /\ m.floor \in Int /\ m.top \in Int /\ m.text \in BOOLEAN
  BY <1>1, PassesIs
<1>3. Takes(x) = 0 /\ Gives(x) = 0 /\ Promises(x) = 1 /\ x[1] # "fail"
  <2>1. Neutral(x)
    BY SilentIs DEF Texty
  <2> QED
    BY <2>1, NeutralIs
<1>4. /\ Len(v) \in Nat /\ Top(v) \in 1 .. 15 /\ Now(v) \in States
      /\ Now(v).height = Len(v) /\ Now(v).floor = Len(v) /\ Now(v).top = Top(v) /\ ~Now(v).text
  BY NowIs
<1>5. m.text /\ m.height = Len(v) /\ m.top <= 1
  BY <1>2, <1>3, <1>4
<1> HIDE DEF r
<1>6. IsSeq(r) /\ Len(r) \in Nat /\ e \in States
  BY <1>1, SequencesAre DEF Balanced, r
<1>7. r # <<>>
  <2> SUFFICES ASSUME r = <<>> PROVE FALSE
    OBVIOUS
  <2>1. PICK z : Passing(v, z, r) /\ Below(z[1], m) /\ Below(e, z[Len(r) + 1])
    BY <1>1 DEF Balanced, r
  <2>2. Len(r) + 1 = 1
    BY SequencesAre
  <2>3. e.text = m.text
    BY <2>1, <2>2 DEF Below
  <2> QED
    BY <1>1, <1>5, <2>3
<1>8. 1 \in 1 .. Len(r)
  BY <1>6, <1>7, SequencesAre
<1>9. PICK q \in States : Passes(v, m, r[1], q) /\ Balanced(v, q, SubSeq(r, 1 + 1, Len(r)), e)
  <2>1. Balanced(v, m, r, e)
    BY <1>1 DEF r
  <2> QED
    BY <1>8, <2>1, BalancedFrom
<1>10. Balanced(v, q, Tail(r), e)
  <2>1. SubSeq(r, 1 + 1, Len(r)) = SubSeq(r, 2, Len(r))
    OBVIOUS
  <2>2. SubSeq(r, 2, Len(r)) = Tail(r)
    BY <1>6, <1>7, TailIs
  <2> QED
    BY <1>9, <2>1, <2>2
<1> DEFINE y == r[1]
<1>11. y[1] = "template"
  BY <1>5, <1>9 DEF Passes
<1>12. /\ Takes(y) = 0 /\ Gives(y) = 0 /\ Promises(y) = 1 /\ y[1] # "fail" /\ ~Texty(y) /\ Silent(y)
  <2>1. Silent(y)
    BY <1>11 DEF Silent, Silents
  <2>2. Neutral(y) /\ ~Texty(y)
    BY <2>1, SilentIs
  <2> QED
    BY <2>1, <2>2, NeutralIs
<1>13. /\ q.height = Len(v) /\ q.floor <= Len(v) /\ q.top <= 1 /\ ~q.text
       /\ q.floor \in Int /\ q.top \in Int /\ q.text \in BOOLEAN
  <2>1. q.height \in Nat /\ q.floor \in Int /\ q.top \in Int /\ q.text \in BOOLEAN
    BY DEF States
  <2>2. q.height = m.height + Gives(y) - Takes(y) /\ q.floor <= m.floor /\ q.top <= Promises(y)
        /\ (q.text <=> Texty(y))
    BY <1>9, <1>12 DEF Passes
  <2> QED
    BY <1>2, <1>4, <1>5, <1>12, <2>1, <2>2
<1>14. Below(e, e)
  BY <1>6 DEF Below, States
<1>15. Covered(v, Tail(r))
  <2>1. Below(q, Now(v))
    <3>1. q.text = Now(v).text
      <4>1. Now(v).text \in BOOLEAN
        BY <1>4 DEF States
      <4> QED
        BY <1>4, <1>13, <4>1
    <3> QED
      BY <1>4, <1>13, <3>1 DEF Below
  <2>2. Balanced(v, Now(v), Tail(r), e)
    BY <1>4, <1>6, <1>10, <1>14, <2>1, BalancedBelow
  <2> QED
    BY <1>1, <2>2 DEF Covered
<1>16. Covered(v, r)
  <2>1. Leads(v, Now(v), y, Code(Len(v), Len(v), 1))
    <3>1. Len(v) <= Len(v) /\ 1 <= Top(v) /\ Len(v) \in Int /\ Top(v) \in Int
      BY <1>4
    <3> QED
      BY <1>4, <1>12, <3>1, SilentLeads DEF Now
  <2>2. Below(q, Code(Len(v), Len(v), 1)) /\ Code(Len(v), Len(v), 1) \in States
    <3>1. q.text = FALSE
      BY <1>13
    <3>2. Code(Len(v), Len(v), 1) \in States
      BY <2>1 DEF Leads
    <3> QED
      BY <1>13, <3>1, <3>2 DEF Below, Code
  <2>3. Balanced(v, Code(Len(v), Len(v), 1), Tail(r), e)
    BY <1>6, <1>10, <1>14, <2>2, BalancedBelow
  <2>4. Balanced(v, Now(v), <<y>> \o Tail(r), e)
    BY <2>1, <2>3, ChainGoesOn
  <2>5. r = <<y>> \o Tail(r)
    <3>1. IsSeq(Tail(r)) /\ Len(r) = Len(Tail(r)) + 1 /\ \A j \in 1 .. Len(Tail(r)) : r[j + 1] = Tail(r)[j]
      BY <1>6, <1>7, SequencesAre
    <3> QED
      BY <1>6, <3>1, Consed
  <2> QED
    BY <1>1, <2>4, <2>5 DEF Covered
<1> QED
  BY <1>7, <1>15, <1>16 DEF r

(* What an item that is done leaves behind.                                *)
LEMMA AfterIs ==
    ASSUME NEW n \in Nat, NEW x
    PROVE  /\ Silent(x) => After(x, n) = Code(n, n, 1)
           /\ x[1] \in Givers \cup RuleNames => After(x, n) = Code(n + 1, n, Promises(x))
           /\ x[1] \in Enders => Takes(x) = 1 /\ After(x, n) = Code(n, n - 1, Promises(x))
           /\ x[1] \in {"first", "row"} /\ x[3] \in Nat =>
                Takes(x) = x[3] /\ After(x, n) = Code(n - x[3] + 1, n - x[3], 15)
           /\ Texty(x) => After(x, n) = Text(n, n, 1)
<1>1. ASSUME Silent(x) PROVE After(x, n) = Code(n, n, 1)
  <2>1. Takes(x) = 0 /\ Gives(x) = 0 /\ Promises(x) = 1 /\ ~Texty(x)
    BY <1>1, SilentIs, NeutralIs
  <2>2. n - 0 + 0 = n /\ n - 0 = n
    OBVIOUS
  <2> QED
    BY <2>1, <2>2 DEF After
<1>2. ASSUME x[1] \in Givers \cup RuleNames PROVE After(x, n) = Code(n + 1, n, Promises(x))
  <2>1. Takes(x) = 0 /\ Gives(x) = 1 /\ ~Texty(x)
    <3>1. x[1] \notin Makers \cup Enders \cup {"drop"}
      BY <1>2 DEF Givers, RuleNames, Makers, Enders
    <3>2. ~Texty(x)
      BY <1>2 DEF Givers, RuleNames, Texty
    <3> QED
      BY <1>2, <3>1, <3>2 DEF Takes, Gives
  <2>2. n - 0 + 1 = n + 1 /\ n - 0 = n
    OBVIOUS
  <2> QED
    BY <2>1, <2>2 DEF After
<1>3. ASSUME x[1] \in Enders PROVE Takes(x) = 1 /\ After(x, n) = Code(n, n - 1, Promises(x))
  <2>1. Takes(x) = 1 /\ Gives(x) = 1 /\ ~Texty(x)
    <3>1. x[1] \notin Makers
      BY <1>3 DEF Makers, Enders
    <3>2. ~Texty(x)
      BY <1>3 DEF Enders, Texty
    <3> QED
      BY <1>3, <3>1, <3>2 DEF Takes, Gives
  <2>2. n - 1 + 1 = n
    OBVIOUS
  <2> QED
    BY <2>1, <2>2 DEF After
<1>4. ASSUME x[1] \in {"first", "row"}, x[3] \in Nat
      PROVE  Takes(x) = x[3] /\ After(x, n) = Code(n - x[3] + 1, n - x[3], 15)
  <2>1. Takes(x) = x[3] /\ Gives(x) = 1
    BY <1>4 DEF Makers, Takes, Gives
  <2>2. ~Texty(x)
    BY <1>4 DEF Texty
  <2>3. Promises(x) = 15
    BY <1>4 DEF Promises, RuleNames, Atoms
  <2> QED
    BY <2>1, <2>2, <2>3 DEF After
<1>5. ASSUME Texty(x) PROVE After(x, n) = Text(n, n, 1)
  BY <1>5 DEF After
<1> QED
  BY <1>1, <1>2, <1>3, <1>4, <1>5

(* The functions that leave as many nodes as they find.                     *)
Steady == {"block", "statements", "template", "script", "stmt", "value", "if",
           "if_else", "else_if", "while", "for", "for_else", "catch", "catch_type",
           "catch_variable", "try", "clauses", "finally", "typehint", "more_typehints", "parameters",
           "parameter", "name", "type", "default", "next", "block_body"}

(* What the statements do keeps the nodes.                                 *)
LEMMA StatementsGroup ==
    ASSUME NEW v, NEW n \in Nat, NEW l \in 1 .. 15, n = Len(vals), NEW i, NEW t,
           i[1] \in Steady
    PROVE  Balanced(v, Code(n, n, l), Grammar(i, t), Code(n, n, 1)) /\ Silent(i)
<1>1. Silent(i)
  BY DEF Silent, Silents, Steady
<1>2. CASE i[1] = "block"
  <2>1. Balanced(v, Code(n, n, l), parse_block(t), Code(n, n, 1))
    BY BlocksPass
  <2>2. Grammar(i, t) = parse_block(t)
    BY <1>2, GrammarIs
  <2> QED
    BY <1>1, <2>1, <2>2
<1>3. CASE i[1] = "statements"
  <2>1. Balanced(v, Code(n, n, l), statements(i[2], t), Code(n, n, 1))
    BY StatementsPass
  <2>2. Grammar(i, t) = statements(i[2], t)
    BY <1>3, GrammarIs
  <2> QED
    BY <1>1, <2>1, <2>2
<1>4. CASE i[1] = "template"
  <2>1. Balanced(v, Code(n, n, l), template(i[2], t), Code(n, n, 1))
    BY TemplatePasses
  <2>2. Grammar(i, t) = template(i[2], t)
    BY <1>4, GrammarIs
  <2> QED
    BY <1>1, <2>1, <2>2
<1>5. CASE i[1] = "script"
  <2>1. Balanced(v, Code(n, n, l), parse_script_block(i[2], t), Code(n, n, 1))
    BY ScriptPasses
  <2>2. Grammar(i, t) = parse_script_block(i[2], t)
    BY <1>5, GrammarIs
  <2> QED
    BY <1>1, <2>1, <2>2
<1>6. CASE i[1] = "stmt"
  <2>1. Balanced(v, Code(n, n, l), parse_stmt(t), Code(n, n, 1))
    BY StmtPasses
  <2>2. Grammar(i, t) = parse_stmt(t)
    BY <1>6, GrammarIs
  <2> QED
    BY <1>1, <2>1, <2>2
<1>7. CASE i[1] = "value"
  <2>1. Balanced(v, Code(n, n, l), optional_value(t), Code(n, n, 1))
    BY ValuePasses
  <2>2. Grammar(i, t) = optional_value(t)
    BY <1>7, GrammarIs
  <2> QED
    BY <1>1, <2>1, <2>2
<1>8. CASE i[1] = "if"
  <2>1. Balanced(v, Code(n, n, l), parse_if, Code(n, n, 1))
    BY IfPasses
  <2>2. Grammar(i, t) = parse_if
    BY <1>8, GrammarIs
  <2> QED
    BY <1>1, <2>1, <2>2
<1>9. CASE i[1] = "if_else"
  <2>1. Balanced(v, Code(n, n, l), if_else(t), Code(n, n, 1))
    BY IfElsePasses
  <2>2. Grammar(i, t) = if_else(t)
    BY <1>9, GrammarIs
  <2> QED
    BY <1>1, <2>1, <2>2
<1>10. CASE i[1] = "else_if"
  <2>1. Balanced(v, Code(n, n, l), else_if(t), Code(n, n, 1))
    BY ElseIfPasses
  <2>2. Grammar(i, t) = else_if(t)
    BY <1>10, GrammarIs
  <2> QED
    BY <1>1, <2>1, <2>2
<1>11. CASE i[1] = "while"
  <2>1. Balanced(v, Code(n, n, l), parse_while, Code(n, n, 1))
    BY WhilePasses
  <2>2. Grammar(i, t) = parse_while
    BY <1>11, GrammarIs
  <2> QED
    BY <1>1, <2>1, <2>2
<1>12. CASE i[1] = "for"
  <2>1. Balanced(v, Code(n, n, l), parse_for, Code(n, n, 1))
    BY ForPasses
  <2>2. Grammar(i, t) = parse_for
    BY <1>12, GrammarIs
  <2> QED
    BY <1>1, <2>1, <2>2
<1>13. CASE i[1] = "for_else"
  <2>1. Balanced(v, Code(n, n, l), for_else(t), Code(n, n, 1))
    BY ForElsePasses
  <2>2. Grammar(i, t) = for_else(t)
    BY <1>13, GrammarIs
  <2> QED
    BY <1>1, <2>1, <2>2
<1>14. CASE i[1] = "catch"
  <2>1. Balanced(v, Code(n, n, l), parse_catch, Code(n, n, 1))
    BY CatchPasses
  <2>2. Grammar(i, t) = parse_catch
    BY <1>14, GrammarIs
  <2> QED
    BY <1>1, <2>1, <2>2
<1>15. CASE i[1] = "catch_type"
  <2>1. Balanced(v, Code(n, n, l), catch_type(t), Code(n, n, 1))
    BY CatchTypePasses
  <2>2. Grammar(i, t) = catch_type(t)
    BY <1>15, GrammarIs
  <2> QED
    BY <1>1, <2>1, <2>2
<1>16. CASE i[1] = "catch_variable"
  <2>1. Balanced(v, Code(n, n, l), catch_variable(t), Code(n, n, 1))
    BY CatchVariablePasses
  <2>2. Grammar(i, t) = catch_variable(t)
    BY <1>16, GrammarIs
  <2> QED
    BY <1>1, <2>1, <2>2
<1>17. CASE i[1] = "try"
  <2>1. Balanced(v, Code(n, n, l), parse_try, Code(n, n, 1))
    BY TryPasses
  <2>2. Grammar(i, t) = parse_try
    BY <1>17, GrammarIs
  <2> QED
    BY <1>1, <2>1, <2>2
<1>18. CASE i[1] = "clauses"
  <2>1. Balanced(v, Code(n, n, l), clauses(i[2], t), Code(n, n, 1))
    BY ClausesPass
  <2>2. Grammar(i, t) = clauses(i[2], t)
    BY <1>18, GrammarIs
  <2> QED
    BY <1>1, <2>1, <2>2
<1>19. CASE i[1] = "finally"
  <2>1. Balanced(v, Code(n, n, l), try_finally(i[2], t), Code(n, n, 1))
    BY FinallyPasses
  <2>2. Grammar(i, t) = try_finally(i[2], t)
    BY <1>19, GrammarIs
  <2> QED
    BY <1>1, <2>1, <2>2
<1>20. CASE i[1] = "typehint"
  <2>1. Balanced(v, Code(n, n, l), parse_typehint, Code(n, n, 1))
    BY TypehintPasses
  <2>2. Grammar(i, t) = parse_typehint
    BY <1>20, GrammarIs
  <2> QED
    BY <1>1, <2>1, <2>2
<1>21. CASE i[1] = "more_typehints"
  <2>1. Balanced(v, Code(n, n, l), more_typehints(t), Code(n, n, 1))
    BY MoreTypehintsPass
  <2>2. Grammar(i, t) = more_typehints(t)
    BY <1>21, GrammarIs
  <2> QED
    BY <1>1, <2>1, <2>2
<1>22. CASE i[1] = "parameters"
  <2>1. Balanced(v, Code(n, n, l), parameters(t), Code(n, n, 1))
    BY ParametersPass
  <2>2. Grammar(i, t) = parameters(t)
    BY <1>22, GrammarIs
  <2> QED
    BY <1>1, <2>1, <2>2
<1>23. CASE i[1] = "parameter"
  <2>1. Balanced(v, Code(n, n, l), parameter(t), Code(n, n, 1))
    BY ParameterPasses
  <2>2. Grammar(i, t) = parameter(t)
    BY <1>23, GrammarIs
  <2> QED
    BY <1>1, <2>1, <2>2
<1>24. CASE i[1] = "name"
  <2>1. Balanced(v, Code(n, n, l), name(t), Code(n, n, 1))
    BY NamePasses
  <2>2. Grammar(i, t) = name(t)
    BY <1>24, GrammarIs
  <2> QED
    BY <1>1, <2>1, <2>2
<1>25. CASE i[1] = "type"
  <2>1. Balanced(v, Code(n, n, l), type(t), Code(n, n, 1))
    BY TypePasses
  <2>2. Grammar(i, t) = type(t)
    BY <1>25, GrammarIs
  <2> QED
    BY <1>1, <2>1, <2>2
<1>26. CASE i[1] = "default"
  <2>1. Balanced(v, Code(n, n, l), default(t), Code(n, n, 1))
    BY DefaultPasses
  <2>2. Grammar(i, t) = default(t)
    BY <1>26, GrammarIs
  <2> QED
    BY <1>1, <2>1, <2>2
<1>27. CASE i[1] = "next"
  <2>1. Balanced(v, Code(n, n, l), next_parameter(i[2], t), Code(n, n, 1))
    BY NextPasses
  <2>2. Grammar(i, t) = next_parameter(i[2], t)
    BY <1>27, GrammarIs
  <2> QED
    BY <1>1, <2>1, <2>2
<1>28. CASE i[1] = "block_body"
  <2>1. Balanced(v, Code(n, n, l), block_body(t), Code(n, n, 1))
    BY BlockBodyPasses
  <2>2. Grammar(i, t) = block_body(t)
    BY <1>28, GrammarIs
  <2> QED
    BY <1>1, <2>1, <2>2
<1> QED
  BY <1>1, <1>2, <1>3, <1>4, <1>5, <1>6, <1>7, <1>8, <1>9, <1>10, <1>11, <1>12, <1>13, <1>14, <1>15, <1>16,
     <1>17, <1>18, <1>19, <1>20, <1>21, <1>22, <1>23, <1>24, <1>25, <1>26, <1>27, <1>28 DEF Steady

(* What begins with an operand gives one.                                  *)
LEMMA OperandsGroup ==
    ASSUME NEW v, NEW n \in Nat, NEW l \in 1 .. 15, NEW i, NEW t,
           i[1] \in RuleNames \cup {"function", "body", "arrow", "primary", "postfix", "unary", "range",
           "ternary", "expr"}
    PROVE  Balanced(v, Code(n, n, l), Grammar(i, t), Code(n + 1, n, Promises(i)))
<1>1. CASE i[1] = "function"
  <2>1. Promises(i) = 15
    BY <1>1 DEF Promises, RuleNames, Atoms
  <2>2. Balanced(v, Code(n, n, l), parse_function(t), Code(n + 1, n, 15))
    BY FunctionPasses
  <2>3. Grammar(i, t) = parse_function(t)
    BY <1>1, GrammarIs
  <2> QED
    BY <2>1, <2>2, <2>3
<1>2. CASE i[1] = "body"
  <2>1. Promises(i) = 15
    BY <1>2 DEF Promises, RuleNames, Atoms
  <2>2. Balanced(v, Code(n, n, l), body(t), Code(n + 1, n, 15))
    BY BodyPasses
  <2>3. Grammar(i, t) = body(t)
    BY <1>2, GrammarIs
  <2> QED
    BY <2>1, <2>2, <2>3
<1>3. CASE i[1] = "arrow"
  <2>1. Promises(i) = 15
    BY <1>3 DEF Promises, RuleNames, Atoms
  <2>2. Balanced(v, Code(n, n, l), arrow(t), Code(n + 1, n, 15))
    BY ArrowPasses
  <2>3. Grammar(i, t) = arrow(t)
    BY <1>3, GrammarIs
  <2> QED
    BY <2>1, <2>2, <2>3
<1>4. CASE i[1] = "primary"
  <2>1. Promises(i) = 15
    BY <1>4 DEF Promises, RuleNames, Atoms
  <2>2. Balanced(v, Code(n, n, l), parse_primary(t), Code(n + 1, n, 15))
    BY PrimaryPasses
  <2>3. Grammar(i, t) = parse_primary(t)
    BY <1>4, GrammarIs
  <2> QED
    BY <2>1, <2>2, <2>3
<1>5. CASE i[1] = "postfix"
  <2>1. Promises(i) = 15
    BY <1>5 DEF Promises, RuleNames, Atoms
  <2>2. Balanced(v, Code(n, n, l), parse_postfix, Code(n + 1, n, 15))
    BY PostfixPasses
  <2>3. Grammar(i, t) = parse_postfix
    BY <1>5, GrammarIs
  <2> QED
    BY <2>1, <2>2, <2>3
<1>6. CASE i[1] = "unary"
  <2>1. Promises(i) = 14
    BY <1>6 DEF Promises, RuleNames, Atoms
  <2>2. Balanced(v, Code(n, n, l), parse_unary(t), Code(n + 1, n, 14))
    BY UnaryPasses
  <2>3. Grammar(i, t) = parse_unary(t)
    BY <1>6, GrammarIs
  <2> QED
    BY <2>1, <2>2, <2>3
<1>7. CASE i[1] = "range"
  <2>1. Promises(i) = 1
    BY <1>7 DEF Promises, RuleNames, Atoms
  <2>2. Balanced(v, Code(n, n, l), parse_range, Code(n + 1, n, 1))
    BY RangePasses
  <2>3. Grammar(i, t) = parse_range
    BY <1>7, GrammarIs
  <2> QED
    BY <2>1, <2>2, <2>3
<1>8. CASE i[1] = "ternary"
  <2>1. Promises(i) = 1
    BY <1>8 DEF Promises, RuleNames, Atoms
  <2>2. Balanced(v, Code(n, n, l), parse_ternary, Code(n + 1, n, 1))
    BY TernaryPasses
  <2>3. Grammar(i, t) = parse_ternary
    BY <1>8, GrammarIs
  <2> QED
    BY <2>1, <2>2, <2>3
<1>9. CASE i[1] = "expr"
  <2>1. Promises(i) = 1
    BY <1>9 DEF Promises, RuleNames, Atoms
  <2>2. Balanced(v, Code(n, n, l), parse_expr, Code(n + 1, n, 1))
    BY ExprPasses
  <2>3. Grammar(i, t) = parse_expr
    BY <1>9, GrammarIs
  <2> QED
    BY <2>1, <2>2, <2>3
<1>10. CASE i[1] \in RuleNames
  <2>1. Promises(i) = RuleLevel[i[1]]
    BY <1>10 DEF Promises, RuleNames
  <2> QED
    BY <1>10, <2>1, GrammarIs, RulesPass
<1> QED
  BY <1>1, <1>2, <1>3, <1>4, <1>5, <1>6, <1>7, <1>8, <1>9, <1>10

(* What follows an operand replaces it.                                    *)
LEMMA EndersGroup ==
    ASSUME NEW v, NEW n \in Nat, NEW l \in 1 .. 15, n > 0, v[n].level = l, NEW i, NEW t,
           i[1] \in Enders, i[1] = "operators" => i[2] \in RuleNames, Wants(i) <= l
    PROVE  Balanced(v, Code(n, n, l), Grammar(i, t), Code(n, n - 1, Promises(i)))
<1>1. CASE i[1] = "selection"
  <2>1. Promises(i) = 15
    BY <1>1 DEF Promises, RuleNames, Atoms
  <2>2. Balanced(v, Code(n, n, l), parse_selection(t), Code(n, n - 1, 15))
    BY SelectionPasses
  <2>3. Grammar(i, t) = parse_selection(t)
    BY <1>1, GrammarIs
  <2> QED
    BY <2>1, <2>2, <2>3
<1>2. CASE i[1] = "selected"
  <2>1. Promises(i) = 15
    BY <1>2 DEF Promises, RuleNames, Atoms
  <2>2. Balanced(v, Code(n, n, l), selected(t), Code(n, n - 1, 15))
    BY SelectedPasses
  <2>3. Grammar(i, t) = selected(t)
    BY <1>2, GrammarIs
  <2> QED
    BY <2>1, <2>2, <2>3
<1>3. CASE i[1] = "range_operator"
  <2>1. Promises(i) = 1
    BY <1>3 DEF Promises, RuleNames, Atoms
  <2>2. Balanced(v, Code(n, n, l), range_operator(t), Code(n, n - 1, 1))
    BY RangeOperatorPasses
  <2>3. Grammar(i, t) = range_operator(t)
    BY <1>3, GrammarIs
  <2> QED
    BY <2>1, <2>2, <2>3
<1>4. CASE i[1] = "ternary_operator"
  <2>1. Promises(i) = 1
    BY <1>4 DEF Promises, RuleNames, Atoms
  <2>2. Balanced(v, Code(n, n, l), ternary_operator(t), Code(n, n - 1, 1))
    BY TernaryOperatorPasses
  <2>3. Grammar(i, t) = ternary_operator(t)
    BY <1>4, GrammarIs
  <2> QED
    BY <2>1, <2>2, <2>3
<1>5. CASE i[1] = "assignment"
  <2>1. Promises(i) = 1
    BY <1>5 DEF Promises, RuleNames, Atoms
  <2>2. Balanced(v, Code(n, n, l), assignment(t), Code(n, n - 1, 1))
    BY AssignmentPasses
  <2>3. Grammar(i, t) = assignment(t)
    BY <1>5, GrammarIs
  <2> QED
    BY <2>1, <2>2, <2>3
<1>6. CASE i[1] = "postfix_operator"
  <2>1. Promises(i) = 15
    BY <1>6 DEF Promises, RuleNames, Atoms
  <2>2. Wants(i) = 15
    BY <1>6 DEF Wants, IsBinary
  <2>3. l = 15
    BY <2>2
  <2> QED
    BY <1>6, <2>1, <2>3, GrammarIs, PostfixOperatorPasses
<1>7. CASE i[1] = "operators"
  <2>1. Promises(i) = RuleLevel[i[2]]
    BY <1>7 DEF Promises
  <2>2. Wants(i) = RuleLevel[i[2]]
    BY <1>7 DEF Wants, IsBinary
  <2>3. RuleLevel[i[2]] <= l /\ i[2] \in RuleNames
    BY <1>7, <2>2
  <2>4. Balanced(v, Code(n, n, l), operators(i[2], t), Code(n, n - 1, RuleLevel[i[2]]))
    BY <2>3, OperatorsPass
  <2> QED
    BY <1>7, <2>1, <2>4, GrammarIs
<1> QED
  BY <1>1, <1>2, <1>3, <1>4, <1>5, <1>6, <1>7 DEF Enders

(* Every production does with the nodes what its item promises.            *)
LEMMA GrammarGroups ==
    ASSUME NEW n, n = Len(vals), vals \in Seq(Nodes), NEW i, NEW t, IsItem(i), i[1] \notin Instant \cup Tokened,
           Takes(i) <= n, Wants(i) <= Top(vals)
    PROVE  Balanced(vals, Now(vals), Grammar(i, t), After(i, n))
<1> DEFINE l == Top(vals)
<1>1. n \in Nat /\ l \in 1 .. 15 /\ Now(vals) = Code(n, n, l) /\ (n > 0 => vals[n].level = l)
  BY NowIs DEF Now
<1> HIDE DEF l
<1>2. i[1] \in Plain \cup RuleNames \cup Others
  BY DEF IsItem, Kinds
<1>3. CASE i[1] \in Steady
  <2>1. Balanced(vals, Code(n, n, l), Grammar(i, t), Code(n, n, 1)) /\ Silent(i)
    BY <1>1, <1>3, StatementsGroup
  <2>2. After(i, n) = Code(n, n, 1)
    BY <1>1, <2>1, AfterIs
  <2> QED
    BY <1>1, <2>1, <2>2
<1>4. CASE i[1] \in RuleNames \cup {"function", "body", "arrow", "primary", "postfix", "unary", "range",
      "ternary", "expr"}
  <2>1. Balanced(vals, Code(n, n, l), Grammar(i, t), Code(n + 1, n, Promises(i)))
    BY <1>1, <1>4, OperandsGroup
  <2>2. i[1] \in Givers \cup RuleNames
    BY <1>4 DEF Givers
  <2>3. After(i, n) = Code(n + 1, n, Promises(i))
    BY <1>1, <2>2, AfterIs
  <2> QED
    BY <1>1, <2>1, <2>3
<1>5. CASE i[1] \in Enders
  <2>1. Takes(i) = 1 /\ After(i, n) = Code(n, n - 1, Promises(i))
    BY <1>1, <1>5, AfterIs
  <2>2. n > 0 /\ (i[1] = "operators" => i[2] \in RuleNames) /\ Wants(i) <= l
    BY <1>1, <2>1 DEF IsItem, l
  <2>3. Balanced(vals, Code(n, n, l), Grammar(i, t), Code(n, n - 1, Promises(i)))
    BY <1>1, <1>5, <2>2, EndersGroup
  <2> QED
    BY <1>1, <2>1, <2>3
<1>6. CASE i[1] \in {"first", "row"}
  <2>1. i[2] \in Lists /\ i[3] \in Nat
    BY <1>6 DEF IsItem
  <2>2. Takes(i) = i[3] /\ After(i, n) = Code(n - i[3] + 1, n - i[3], 15)
    BY <1>1, <1>6, <2>1, AfterIs
  <2>3. Balanced(vals, Code(n, n, l), Grammar(i, t), Code(n - i[3] + 1, n - i[3], 15))
    <3>1. i[3] <= n
      BY <2>2
    <3>2. /\ Balanced(vals, Code(n, n, l), first(i[2], i[3], t), Code(n - i[3] + 1, n - i[3], 15))
          /\ Balanced(vals, Code(n, n, l), row(i[2], i[3], t), Code(n - i[3] + 1, n - i[3], 15))
      BY <1>1, <2>1, <3>1, ListsPass
    <3> QED
      BY <1>6, <3>2, GrammarIs
  <2> QED
    BY <1>1, <2>2, <2>3
<1>7. CASE i[1] = "close_tag"
  <2>1. After(i, n) = Text(n, n, 1)
    BY <1>1, <1>7, AfterIs DEF Texty
  <2>2. Balanced(vals, Code(n, n, l), close_tag(i[2], t), Text(n, n, 1))
    BY <1>1, CloseTagPasses
  <2> QED
    BY <1>1, <1>7, <2>1, <2>2, GrammarIs
<1> QED
  BY <1>2, <1>3, <1>4, <1>5, <1>6, <1>7 DEF Plain, Others, Enders, Steady

(* What the functions that have not returned find when their turn comes is  *)
(* in vals, and the last binary node groups as it should.                   *)
GroupInv == vals \in Seq(Nodes) /\ Covered(vals, todo) /\ Grouping

(* The operands of a node stay what they were when it was made.            *)
LEMMA StandStill ==
    /\ Grouping /\ built' = built => Grouping'
    /\ GroupInv /\ UNCHANGED <<todo, vals, built>> => GroupInv'
<1>1. ASSUME Grouping, built' = built PROVE Grouping'
  BY <1>1 DEF Grouping
<1> QED
  BY <1>1 DEF GroupInv

(* Stacks that begin anew.                                                 *)
LEMMA StacksBegin ==
    ASSUME NEW v \in Seq(Nodes)
    PROVE  /\ Covered(v, <<>>)
           /\ \A x : Neutral(x) /\ ~Texty(x) => Covered(v, <<x>>)
           /\ Covered(v, Template)
           /\ Covered(v, << <<"expr">>, Drop>>)
<1>1. /\ Len(v) \in Nat /\ Top(v) \in 1 .. 15 /\ Now(v) \in States /\ ~Now(v).text
      /\ Now(v) = Code(Len(v), Len(v), Top(v))
  BY NowIs DEF Now
<1> DEFINE n == Len(v)
           l == Top(v)
           e == Code(n, n, 1)
<1>2. ~e.text /\ e \in States
  <2>0. Len(v) \in Nat /\ Len(v) \in Int /\ 1 \in Int
    BY <1>1
  <2>1. Code(n, n, 1) \in States
    BY <2>0, StateIs
  <2> QED
    BY <2>1 DEF Code
<1>3. n <= n /\ 1 <= l /\ l \in Int /\ n \in Int /\ n \in Nat
  BY <1>1
<1> HIDE DEF n, l, e
<1>4. Covered(v, <<>>)
  <2>1. Below(Now(v), Now(v))
    BY <1>1 DEF Below, States
  <2>2. Balanced(v, Now(v), <<>>, Now(v))
    BY <1>1, <2>1, BalancedOne
  <2> QED
    BY <1>1, <2>2 DEF Covered
<1>5. ASSUME NEW x, Neutral(x), ~Texty(x) PROVE Covered(v, <<x>>)
  <2>1. Passes(v, Code(n, n, l), x, Code(n, n, 1))
    BY <1>3, <1>5, NeutralPasses
  <2>2. Balanced(v, Now(v), <<x>>, e)
    BY <1>1, <1>2, <2>1, BalancedOne DEF n, l, e
  <2> QED
    BY <1>2, <2>2 DEF Covered
<1>6. Covered(v, Template)
  <2>1. Silent(<<"template", {}>>) /\ <<"template", {}>>[1] = "template"
    BY DEF Silent, Silents
  <2>2. ReadText[1] = "read"
    BY DEF ReadText
  <2>3. Leads(v, Code(n, n, l), ReadText, Text(n, n, 1))
    BY <1>3, <2>2, TextyLeads
  <2>4. Leads(v, Text(n, n, 1), <<"template", {}>>, Code(n, n, 1))
    BY <1>3, <2>1, SilentLeads
  <2>5. Balanced(v, Code(n, n, l), <<ReadText, <<"template", {}>> >>, Code(n, n, 1))
    BY <2>3, <2>4, ChainTwo
  <2>6. Balanced(v, Now(v), Template, e)
    BY <1>1, <2>5 DEF n, l, e, Template
  <2> QED
    BY <1>2, <2>6 DEF Covered
<1>7. Covered(v, << <<"expr">>, Drop>>)
  <2>1. Giver(<<"expr">>, 1)
    BY GiversAre
  <2>2. n + 1 \in Int /\ n + 1 <= n + 1 /\ n + 1 = n + 1
    BY <1>3
  <2>3. Leads(v, Code(n, n, l), <<"expr">>, Code(n + 1, n, 1))
    BY <1>3, <2>1, <2>2, GiverGives
  <2>4. Leads(v, Code(n + 1, n, 1), Drop, Code(n, n, 1))
    BY <1>3, <2>2, DropLeads
  <2>5. Balanced(v, Code(n, n, l), << <<"expr">>, Drop>>, Code(n, n, 1))
    BY <2>3, <2>4, ChainTwo
  <2>6. Balanced(v, Now(v), << <<"expr">>, Drop>>, e)
    BY <1>1, <2>5 DEF n, l, e
  <2> QED
    BY <1>2, <2>6 DEF Covered
<1> QED
  BY <1>4, <1>5, <1>6, <1>7

(* At the start nothing is promised.                                       *)
LEMMA InitGroups == Init => GroupInv
<1> SUFFICES ASSUME Init PROVE GroupInv
  OBVIOUS
<1>1. vals = <<>> /\ vals \in Seq(Nodes)
  BY DEF Init
<1>2. Covered(vals, todo)
  <2>1. CASE todo = << <<"shebang">> >>
    <3>1. Neutral(<<"shebang">>) /\ ~Texty(<<"shebang">>)
      BY DEF Neutral, Texty, Makers, Enders, Givers, RuleNames, Atoms
    <3> QED
      BY <1>1, <2>1, <3>1, StacksBegin
  <2>2. CASE todo = << <<"expr">>, Drop>>
    BY <1>1, <2>2, StacksBegin
  <2> QED
    BY <2>1, <2>2 DEF Init
<1>3. Grouping
  <2>1. built.op = "none"
    BY DEF Init
  <2>2. Level(built.op) = 15
    BY <2>1, LevelsAre
  <2>3. Len(Binding) = 14
    BY BindingIs
  <2> QED
    BY <2>2, <2>3 DEF Grouping
<1> QED
  BY <1>1, <1>2, <1>3 DEF GroupInv

(* An item that leaves the nodes alone is done.                            *)
LEMMA SilentIsDone ==
    ASSUME NEW v \in Seq(Nodes), NEW s, Covered(v, s), s # <<>>, Silent(s[1]) \/ IsDeaf(s[1])
    PROVE  Covered(v, Tail(s))
<1>1. Takes(s[1]) = 0 /\ Gives(s[1]) = 0 /\ Promises(s[1]) = 1 /\ s[1][1] # "fail" /\ ~Texty(s[1])
  BY SilentIs, NeutralIs, TakesAre
<1>2. Len(v) \in Nat /\ Top(v) \in 1 .. 15
  BY NowIs
<1>3. Len(v) = Len(v) + Gives(s[1]) - Takes(s[1]) /\ Promises(s[1]) <= Top(v)
  BY <1>1, <1>2
<1> QED
  BY <1>1, <1>3, HeadIsDone

(* A shorter list of nodes.                                                *)
LEMMA FirstNodes ==
    ASSUME NEW v \in Seq(Nodes), NEW h \in Nat, h <= Len(v)
    PROVE  /\ SubSeq(v, 1, h) \in Seq(Nodes) /\ Len(SubSeq(v, 1, h)) = h
           /\ \A k \in 1 .. h : SubSeq(v, 1, h)[k] = v[k]
<1>1. \A k \in 1 .. h : v[k] \in Nodes
  BY NowIs
<1>2. /\ SubSeq(v, 1, h) \in Seq(Nodes)
      /\ Len(SubSeq(v, 1, h)) = IF 1 <= h THEN h - 1 + 1 ELSE 0
      /\ \A k \in 1 .. h - 1 + 1 : SubSeq(v, 1, h)[k] = v[1 + k - 1]
  BY <1>1, SubSeqProperties
<1> QED
  BY <1>2

(* A function that does not notice a failure finds the nodes it had.       *)
LEMMA DeafReturns ==
    ASSUME vals \in Seq(Nodes), Covered(vals, todo), NEW n \in 1 .. Len(todo), IsDeaf(todo[n]),
           NEW w, w = SubSeq(vals, 1, todo[n][2])
    PROVE  w \in Seq(Nodes) /\ Covered(w, Returned(n))
<1>1. PICK e : Balanced(vals, Now(vals), todo, e) /\ ~e.text
  BY DEF Covered
<1>2. PICK d, m : /\ d \in States /\ m \in States /\ Passes(vals, d, todo[n], m)
                  /\ Balanced(vals, m, Returned(n), e) /\ d.floor <= Now(vals).floor
  BY <1>1, BalancedFrom DEF Returned
<1> DEFINE x == todo[n]
           h == d.height
<1>3. /\ Takes(x) = 0 /\ Gives(x) = 0 /\ Fresh(x) = 0 /\ Promises(x) = 1
      /\ ~Texty(x) /\ x[1] # "fail" /\ Counts(x)
  BY TakesAre
<1>4. /\ d.height \in Nat /\ d.floor \in Int
      /\ m.height \in Nat /\ m.floor \in Int /\ m.top \in Int /\ m.text \in BOOLEAN
  BY <1>2 DEF States
<1>5. /\ x[2] = d.height /\ d.height - Fresh(x) <= d.floor /\ m.floor <= d.height - Takes(x)
      /\ m.height = d.height + Gives(x) - Takes(x) /\ m.top <= Promises(x) /\ (m.text <=> Texty(x))
  BY <1>2, <1>3 DEF Passes
<1>6. Len(vals) \in Nat /\ Now(vals).floor = Len(vals)
  BY NowIs
<1>7. h \in Nat /\ h <= Len(vals) /\ m.floor <= h /\ m.height = h /\ m.top <= 1 /\ m.text = FALSE /\ x[2] = h
  BY <1>2, <1>3, <1>4, <1>5, <1>6
<1> HIDE DEF h, x
<1>8. w = SubSeq(vals, 1, h)
  BY <1>7 DEF x
<1>9. w \in Seq(Nodes) /\ Len(w) = h /\ \A k \in 1 .. h : w[k] = vals[k]
  <2>1. h \in Nat /\ h <= Len(vals)
    BY <1>7
  <2>2. /\ SubSeq(vals, 1, h) \in Seq(Nodes) /\ Len(SubSeq(vals, 1, h)) = h
        /\ \A k \in 1 .. h : SubSeq(vals, 1, h)[k] = vals[k]
    BY <2>1, FirstNodes
  <2> QED
    BY <1>8, <2>2
<1>10. /\ Now(w) \in States /\ Now(w).height = Len(w) /\ Now(w).floor = Len(w) /\ Now(w).top = Top(w)
       /\ ~Now(w).text /\ Top(w) \in 1 .. 15
  BY <1>9, NowIs
<1>11. Balanced(w, m, Returned(n), e)
  <2>1. \A k \in 1 .. m.floor : w[k] = vals[k]
    BY <1>4, <1>7, <1>9
  <2> QED
    BY <1>2, <2>1, BalancedSame
<1>12. Below(m, Now(w))
  <2>1. Now(w).text \in BOOLEAN
    BY <1>10 DEF States
  <2>2. m.text = Now(w).text
    BY <1>7, <1>10, <2>1
  <2>3. m.top <= Top(w)
    <3>1. Top(w) \in 1 .. 15
      BY <1>10
    <3>2. m.top \in Int /\ m.top <= 1
      BY <1>4, <1>7
    <3> QED
      BY <3>1, <3>2
  <2> QED
    BY <1>7, <1>9, <1>10, <2>2, <2>3 DEF Below
<1>13. e \in States /\ Below(e, e)
  BY <1>1 DEF Balanced, Below, States
<1>14. Balanced(w, Now(w), Returned(n), e)
  BY <1>10, <1>11, <1>12, <1>13, BalancedBelow
<1> QED
  BY <1>1, <1>9, <1>14 DEF Covered

(* It may return the failure one token later.                              *)
LEMMA FailureWaits ==
    ASSUME NEW w \in Seq(Nodes), NEW r, Covered(w, r), r # <<>>, r[1][1] = "expect"
    PROVE  Covered(w, <<Head(r), FailQuietly>> \o Tail(r))
<1>1. PICK m, e : m \in States /\ Passes(w, Now(w), r[1], m) /\ Balanced(w, m, Tail(r), e) /\ ~e.text
  BY CoveredHead
<1>2. Head(r) = r[1]
  BY CoveredHead
<1>3. /\ m.floor <= Len(w) /\ m.top <= Promises(r[1]) /\ (m.text <=> Texty(r[1]))
      /\ m.height \in Nat /\ m.floor \in Int /\ m.top \in Int /\ m.text \in BOOLEAN
  BY <1>1, PassesIs
<1>4. Silent(r[1])
  BY DEF Silent, Silents
<1>5. Promises(r[1]) = 1 /\ ~Texty(r[1])
  BY <1>4, SilentIs, NeutralIs
<1>6. Len(w) \in Nat /\ Top(w) \in 1 .. 15 /\ Now(w) = Code(Len(w), Len(w), Top(w))
  BY NowIs DEF Now
<1> DEFINE n == Len(w)
           l == Top(w)
<1>7. n \in Nat /\ n \in Int /\ l \in Int /\ n <= n /\ 1 <= l /\ m.floor <= n /\ m.top <= 15 /\ m.top <= 1
  BY <1>3, <1>5, <1>6
<1> HIDE DEF n, l
<1>8. m = Code(m.height, m.floor, m.top)
  <2>1. m.text = FALSE
    BY <1>3, <1>5
  <2> QED
    BY <1>1, <2>1 DEF Code, States
<1>9. Leads(w, Code(n, n, l), r[1], Code(n, n, 1))
  BY <1>4, <1>7, SilentLeads
<1>10. Leads(w, Code(n, n, 1), FailQuietly, Code(m.height, m.floor, m.top))
  <2>1. FailQuietly[1] = "fail" /\ 1 \in Int /\ 1 <= 1
    BY DEF FailQuietly
  <2> QED
    BY <1>3, <1>7, <2>1, FailLeads
<1>11. Balanced(w, Code(n, n, l), <<r[1], FailQuietly>>, m)
  BY <1>8, <1>9, <1>10, ChainTwo
<1>12. Balanced(w, Code(n, n, l), <<r[1], FailQuietly>> \o Tail(r), e)
  BY <1>1, <1>11, BalancedJoin
<1>13. Balanced(w, Now(w), <<Head(r), FailQuietly>> \o Tail(r), e)
  BY <1>2, <1>6, <1>12 DEF n, l
<1> QED
  BY <1>1, <1>13 DEF Covered

(* A failure keeps what is promised to the function it returns to.         *)
LEMMA FailingGroups ==
    ASSUME GroupInv, Stacked(todo), NEW x, Failing(x), built' = built
    PROVE  GroupInv'
<1>1. vals \in Seq(Nodes) /\ Covered(vals, todo) /\ Grouping'
  BY StandStill DEF GroupInv
<1>2. CASE Ended
  <2>1. vals' = vals /\ todo' = <<>>
    BY <1>2 DEF Ended
  <2> QED
    BY <1>1, <2>1, StacksBegin DEF GroupInv
<1>3. ASSUME NEW n \in 1 .. Len(todo), Unnoticed(n) PROVE GroupInv'
  <2>1. IsDeaf(todo[n]) /\ vals' = SubSeq(vals, 1, todo[n][2]) /\ todo' = Returned(n)
    BY <1>3 DEF Unnoticed, IsDeaf
  <2>2. vals' \in Seq(Nodes) /\ Covered(vals', Returned(n))
    BY <1>1, <2>1, DeafReturns
  <2> QED
    BY <1>1, <2>1, <2>2 DEF GroupInv
<1>4. ASSUME NEW n \in 1 .. Len(todo), Noticed(n) PROVE GroupInv'
  <2>1. /\ IsDeaf(todo[n]) /\ vals' = SubSeq(vals, 1, todo[n][2])
        /\ todo' = <<Head(Returned(n)), FailQuietly>> \o Tail(Returned(n))
        /\ todo[n][1] = "statement"
    BY <1>4 DEF Noticed, IsDeaf
  <2>2. vals' \in Seq(Nodes) /\ Covered(vals', Returned(n))
    BY <1>1, <2>1, DeafReturns
  <2>3. Returned(n) # <<>> /\ Returned(n)[1][1] = "expect"
    BY <2>1, ReturnedIs
  <2>4. Covered(vals', <<Head(Returned(n)), FailQuietly>> \o Tail(Returned(n)))
    BY <2>2, <2>3, FailureWaits
  <2> QED
    BY <1>1, <2>1, <2>2, <2>4 DEF GroupInv
<1> QED
  BY <1>2, <1>3, <1>4, FailingIs

(* The head of the stack is done, and the nodes are vals'.                 *)
LEMMA DoneGroups ==
    ASSUME GroupInv, todo # <<>>, todo' = Tail(todo), built' = built, vals' = vals,
           Silent(todo[1]) \/ IsDeaf(todo[1])
    PROVE  GroupInv'
<1>1. vals \in Seq(Nodes) /\ Covered(vals, Tail(todo)) /\ Grouping'
  BY StandStill, SilentIsDone DEF GroupInv
<1> QED
  BY <1>1 DEF GroupInv

(* PeekToken() and the end of the script.                                  *)
LEMMA PeekGroups ==
    ASSUME GroupInv, PeekToken \/ Return
    PROVE  GroupInv'
<1>1. UNCHANGED <<todo, vals, built>>
  BY DEF PeekToken, Return, parserVars
<1> QED
  BY <1>1, StandStill

(* expect_token() keeps the invariant.                                     *)
LEMMA ExpectGroups ==
    ASSUME GroupInv, Stacked(todo), expect_token
    PROVE  GroupInv'
<1>1. /\ todo # <<>> /\ Head(todo)[1] = "expect" /\ built' = built
      /\ \/ todo' = Tail(todo) /\ vals' = vals
         \/ Failing(Token # "error")
  BY DEF expect_token, Running
<1>2. Head(todo) = todo[1]
  BY <1>1, NextHead
<1>3. Silent(todo[1])
  BY <1>1, <1>2 DEF Silent, Silents
<1>4. CASE todo' = Tail(todo) /\ vals' = vals
  BY <1>1, <1>3, <1>4, DoneGroups
<1>5. CASE Failing(Token # "error")
  BY <1>1, <1>5, FailingGroups
<1> QED
  BY <1>1, <1>4, <1>5

(* So does every production.                                               *)
LEMMA ParseGroups ==
    ASSUME GroupInv, Stacked(todo), Parse
    PROVE  GroupInv'
<1> DEFINE i == todo[1]
<1>1. /\ Peeks /\ Head(todo)[1] # "expect" /\ vals' = vals /\ built' = built
      /\ todo' = (IF Head(todo)[1] \in {"skip", "optional"} THEN <<>> ELSE Grammar(Head(todo), Token))
                 \o Tail(todo)
  BY DEF Parse
<1>2. /\ todo # <<>> /\ Head(todo) = i /\ i[1] \notin Instant
      /\ i = Skip \/ (IsItem(i) /\ i # Skip /\ i[1] # "skip")
  BY <1>1, HeadIs
<1>3. IsSeq(Tail(todo))
  <2>1. IsSeq(todo)
    BY DEF Stacked, ItemsFrom
  <2> QED
    BY <1>2, <2>1, SequencesAre
<1> HIDE DEF i
<1>4. CASE i[1] \in {"skip", "optional"}
  <2>1. todo' = Tail(todo)
    BY <1>1, <1>2, <1>3, <1>4, EmptyJoins
  <2>2. Silent(i)
    BY <1>4 DEF Silent, Silents
  <2> QED
    BY <1>1, <1>2, <2>1, <2>2, DoneGroups DEF i
<1>5. CASE i[1] \notin {"skip", "optional"}
  <2>1. todo' = Grammar(i, Token) \o Tail(todo)
    BY <1>1, <1>2, <1>5
  <2>2. IsItem(i) /\ i[1] \notin Instant \cup Tokened
    <3>1. Skip[1] = "skip"
      BY DEF Skip
    <3> QED
      BY <1>1, <1>2, <1>5, <3>1 DEF Tokened
  <2>3. vals \in Seq(Nodes) /\ Covered(vals, todo) /\ Grouping'
    BY <1>1, StandStill DEF GroupInv
  <2>4. PICK m, e : m \in States /\ Passes(vals, Now(vals), i, m) /\ Balanced(vals, m, Tail(todo), e)
    BY <1>2, <2>3, CoveredHead DEF i
  <2>5. Takes(i) <= Len(vals) /\ Wants(i) <= Top(vals)
    BY <2>3, <2>4, PassesIs
  <2>6. Balanced(vals, Now(vals), Grammar(i, Token), After(i, Len(vals)))
    BY <2>2, <2>3, <2>5, GrammarGroups
  <2>7. i[1] # "fail"
    BY <1>2 DEF Instant
  <2>8. Covered(vals, Grammar(i, Token) \o Tail(todo))
    BY <1>2, <2>3, <2>6, <2>7, HeadGoesOn DEF i
  <2> QED
    BY <1>1, <2>1, <2>3, <2>8 DEF GroupInv
<1> QED
  BY <1>4, <1>5

(* So do the checks, the failures and the nodes that are used.             *)
LEMMA DecideGroups ==
    ASSUME GroupInv, Stacked(todo), Decide
    PROVE  GroupInv'
<1>1. /\ todo # <<>> /\ Head(todo)[1] \in {"variable", "fail", "drop", "unchecked", "statement"}
      /\ built' = built
  BY DEF Decide, Running
<1>2. Head(todo) = todo[1]
  BY <1>1, NextHead
<1>3. \/ Failing(Head(todo)[2]) \/ Failing(TRUE)
      \/ /\ Head(todo)[1] # "fail" /\ todo' = Tail(todo)
         /\ vals' = IF Head(todo)[1] = "drop" THEN SubSeq(vals, 1, Len(vals) - 1) ELSE vals
  BY DEF Decide
<1>4. CASE Failing(Head(todo)[2]) \/ Failing(TRUE)
  BY <1>1, <1>4, FailingGroups
<1>5. ASSUME todo[1][1] \in {"variable", "unchecked", "statement"}, todo' = Tail(todo), vals' = vals
      PROVE  GroupInv'
  <2>1. Silent(todo[1]) \/ IsDeaf(todo[1])
    BY <1>5 DEF Silent, Silents, IsDeaf
  <2> QED
    BY <1>1, <1>5, <2>1, DoneGroups
<1>6. ASSUME todo[1][1] = "drop", todo' = Tail(todo), vals' = SubSeq(vals, 1, Len(vals) - 1)
      PROVE  GroupInv'
  <2> DEFINE x == todo[1]
  <2>1. vals \in Seq(Nodes) /\ Covered(vals, todo) /\ Grouping'
    BY <1>1, StandStill DEF GroupInv
  <2>2. Takes(x) = 1 /\ Gives(x) = 0 /\ Promises(x) = 1 /\ ~Texty(x) /\ x[1] # "fail"
    <3>1. /\ x[1] \notin Makers \cup Enders \cup Givers \cup RuleNames \cup Atoms
          /\ x[1] \notin {"make", "operators", "unary", "fail"}
      BY <1>6 DEF Makers, Enders, Givers, RuleNames, Atoms
    <3>2. ~Texty(x)
      BY <1>6 DEF Texty
    <3> QED
      BY <1>6, <3>1, <3>2 DEF Takes, Gives, Promises
  <2> HIDE DEF x
  <2>3. PICK m, e : m \in States /\ Passes(vals, Now(vals), x, m) /\ Balanced(vals, m, Tail(todo), e)
    BY <1>1, <2>1, CoveredHead DEF x
  <2>4. Takes(x) <= Len(vals)
    BY <2>1, <2>3, PassesIs
  <2>5. Len(vals) \in Nat /\ Len(vals) >= 1
    BY <2>1, <2>2, <2>4, NowIs
  <2> DEFINE h == Len(vals) - 1
  <2>6. h \in Nat /\ h <= Len(vals) /\ h = Len(vals) + 0 - 1 /\ h = Len(vals) - 1
    BY <2>5
  <2> HIDE DEF h
  <2>7. vals' = SubSeq(vals, 1, h)
    BY <1>6 DEF h
  <2>8. vals' \in Seq(Nodes) /\ Len(vals') = h /\ \A k \in 1 .. h : vals'[k] = vals[k]
    <3>1. /\ SubSeq(vals, 1, h) \in Seq(Nodes) /\ Len(SubSeq(vals, 1, h)) = h
          /\ \A k \in 1 .. h : SubSeq(vals, 1, h)[k] = vals[k]
      BY <2>1, <2>6, FirstNodes
    <3> QED
      BY <2>7, <3>1
  <2>9. /\ Len(vals') = Len(vals) + Gives(x) - Takes(x)
        /\ \A k \in 1 .. Len(vals) - Takes(x) : vals'[k] = vals[k]
        /\ Promises(x) <= Top(vals')
    <3>1. Top(vals') \in 1 .. 15
      BY <2>8, NowIs
    <3> QED
      BY <2>2, <2>6, <2>8, <3>1
  <2>10. Covered(vals', Tail(todo))
    BY <1>1, <2>1, <2>2, <2>8, <2>9, HeadIsDone DEF x
  <2> QED
    BY <1>6, <2>1, <2>8, <2>10 DEF GroupInv
<1> QED
  BY <1>1, <1>2, <1>3, <1>4, <1>5, <1>6

(* What is made, and of how many nodes.                                    *)
LEMMA MadeIs ==
    ASSUME NEW x, x[1] \in {"make", "number"}, NEW i, i = IF x[1] = "number" THEN Make("value", 0) ELSE x,
           Takes(x) \in Nat
    PROVE  /\ i[3] = Takes(x) /\ Gives(x) = 1 /\ Promises(x) = Level(i[2]) /\ ~Texty(x) /\ x[1] # "fail"
           /\ Level(i[2]) \in 1 .. 15
           /\ Groups(Level(i[2])) => IsBinary(x) /\ i = x
<1>1. ~Texty(x) /\ x[1] # "fail" /\ Gives(x) = 1
  BY DEF Texty, Gives, Makers, Givers
<1>2. Level(i[2]) \in 1 .. 15
  BY LevelIs
<1>3. CASE x[1] = "number"
  <2>1. i[2] = "value" /\ i[3] = 0
    BY <1>3 DEF Make
  <2>2. Level(i[2]) = 15
    BY <2>1, LevelsAre
  <2>3. Takes(x) = 0 /\ Promises(x) = 15
    BY <1>3 DEF Takes, Promises, Makers, Enders, RuleNames, Atoms
  <2>4. ~Groups(Level(i[2]))
    BY <2>2 DEF Groups
  <2> QED
    BY <1>1, <1>2, <2>1, <2>2, <2>3, <2>4
<1>4. CASE x[1] = "make"
  <2>1. i = x
    BY <1>4
  <2>2. Takes(x) = x[3] /\ Promises(x) = Level(x[2])
    BY <1>4 DEF Takes, Promises, Makers
  <2>3. Groups(Level(x[2])) => IsBinary(x)
    BY <1>4 DEF IsBinary
  <2> QED
    BY <1>1, <1>2, <2>1, <2>2, <2>3
<1> QED
  BY <1>3, <1>4

(* A new node is the last one.                                             *)
LEMMA NewNodes ==
    ASSUME NEW v \in Seq(Nodes), NEW h \in Nat, h <= Len(v), NEW d \in Nodes,
           NEW w, w = Append(SubSeq(v, 1, h), d)
    PROVE  /\ w \in Seq(Nodes) /\ Len(w) = h + 1 /\ Top(w) = d.level
           /\ \A k \in 1 .. h : w[k] = v[k]
<1> DEFINE u == SubSeq(v, 1, h)
<1>1. u \in Seq(Nodes) /\ Len(u) = h /\ \A k \in 1 .. h : u[k] = v[k]
  BY FirstNodes
<1>3. w = Append(u, d)
  OBVIOUS
<1> HIDE DEF u
<1>4. /\ w \in Seq(Nodes) /\ Len(w) = Len(u) + 1 /\ w[Len(u) + 1] = d
      /\ \A k \in 1 .. Len(u) : w[k] = u[k]
  BY <1>1, <1>3, AppendProperties
<1>5. Len(w) = h + 1 /\ w[h + 1] = d /\ \A k \in 1 .. h : w[k] = v[k]
  BY <1>1, <1>4
<1>6. Top(w) = d.level
  <2>1. Len(w) > 0
    BY <1>5
  <2>2. Top(w) = w[Len(w)].level
    BY <1>4, <2>1, NowIs
  <2> QED
    BY <1>5, <2>2
<1> QED
  BY <1>4, <1>5, <1>6

(* The last two nodes.                                                     *)
LEMMA LastTwo ==
    ASSUME NEW v \in Seq(Nodes), Len(v) >= 2, NEW o, o = SubSeq(v, Len(v) - 2 + 1, Len(v)),
           NEW f, f = [j \in DOMAIN o |-> o[j].level]
    PROVE  f[1] = v[Len(v) - 1].level /\ f[2] = v[Len(v)].level
<1>1. Len(v) \in Nat
  BY NowIs
<1> DEFINE m == Len(v) - 2 + 1
<1>2. m \in Int /\ Len(v) \in Int /\ m <= Len(v) /\ 1 <= m /\ m = Len(v) - 1
  BY <1>1
<1>3. \A j \in m .. Len(v) : v[j] \in Nodes
  BY <1>1, <1>2
<1> HIDE DEF m
<1>4. o = SubSeq(v, m, Len(v))
  BY DEF m
<1>5. /\ o \in Seq(Nodes) /\ Len(o) = Len(v) - m + 1
      /\ \A j \in 1 .. Len(v) - m + 1 : o[j] = v[m + j - 1]
  BY <1>2, <1>3, <1>4, SubSeqProperties
<1>6. Len(v) - m + 1 = 2 /\ m + 1 - 1 = Len(v) - 1 /\ m + 2 - 1 = Len(v)
  BY <1>1, <1>2
<1>7. o[1] = v[Len(v) - 1] /\ o[2] = v[Len(v)] /\ DOMAIN o = 1 .. 2
  BY <1>5, <1>6
<1> QED
  BY <1>7

(* A node is made of what was promised for it.                             *)
LEMMA MakeGroups ==
    ASSUME GroupInv, Stacked(todo), MakeNode
    PROVE  GroupInv'
<1> DEFINE x == todo[1]
           i == IF x[1] = "number" THEN Make("value", 0) ELSE x
           h == Len(vals) - i[3]
           o == SubSeq(vals, h + 1, Len(vals))
<1>1. todo # <<>> /\ Head(todo)[1] \in {"make", "number"} /\ todo' = Tail(todo)
  BY DEF MakeNode, Running
<1>2. Head(todo) = x
  BY <1>1, NextHead
<1>3. /\ vals' = Append(SubSeq(vals, 1, h), [variable |-> IsVariable(i[2], o), level |-> Level(i[2])])
      /\ built' = [op |-> i[2], operands |-> [j \in DOMAIN o |-> o[j].level]]
  BY <1>2 DEF MakeNode
<1>4. vals \in Seq(Nodes) /\ Covered(vals, todo)
  BY DEF GroupInv
<1>5. PICK m, e : m \in States /\ Passes(vals, Now(vals), x, m) /\ Balanced(vals, m, Tail(todo), e)
  BY <1>1, <1>4, CoveredHead
<1> HIDE DEF x
<1>6. /\ Takes(x) \in Nat /\ Takes(x) <= Len(vals) /\ Wants(x) <= Top(vals)
      /\ IsBinary(x) => x[3] = 2 /\ Level(x[2]) <= vals[Len(vals) - 1].level
  BY <1>4, <1>5, PassesIs
<1>7. /\ i[3] = Takes(x) /\ Gives(x) = 1 /\ Promises(x) = Level(i[2]) /\ ~Texty(x) /\ x[1] # "fail"
      /\ Level(i[2]) \in 1 .. 15
      /\ Groups(Level(i[2])) => IsBinary(x) /\ i = x
  BY <1>1, <1>2, <1>6, MadeIs
<1>8. IsVariable(i[2], o) \in BOOLEAN
  BY DEF IsVariable
<1> HIDE DEF i
<1>9. Len(vals) \in Nat /\ (Len(vals) > 0 => Top(vals) = vals[Len(vals)].level)
  BY <1>4, NowIs
<1>10. h \in Nat /\ h <= Len(vals) /\ h = Len(vals) - Takes(x)
  BY <1>6, <1>7, <1>9
<1>11. /\ vals' \in Seq(Nodes) /\ Len(vals') = h + 1 /\ Top(vals') = Level(i[2])
       /\ \A k \in 1 .. h : vals'[k] = vals[k]
  <2> HIDE DEF h, o
  <2> DEFINE d == [variable |-> IsVariable(i[2], o), level |-> Level(i[2])]
  <2>1. d \in Nodes /\ d.level = Level(i[2])
    BY <1>7, <1>8 DEF Nodes
  <2>2. h \in Nat /\ h <= Len(vals)
    BY <1>10
  <2>3. vals' = Append(SubSeq(vals, 1, h), d)
    BY <1>3
  <2> HIDE DEF d
  <2>4. /\ vals' \in Seq(Nodes) /\ Len(vals') = h + 1 /\ Top(vals') = d.level
        /\ \A k \in 1 .. h : vals'[k] = vals[k]
    BY <1>4, <2>1, <2>2, <2>3, NewNodes
  <2> QED
    BY <2>1, <2>4
<1>12. Covered(vals', Tail(todo))
  <2>1. Len(vals') = Len(vals) + Gives(x) - Takes(x)
    BY <1>6, <1>7, <1>9, <1>10, <1>11
  <2>2. Promises(x) <= Top(vals')
    BY <1>7, <1>11
  <2>3. \A k \in 1 .. Len(vals) - Takes(x) : vals'[k] = vals[k]
    BY <1>10, <1>11
  <2> HIDE DEF h, o
  <2> QED
    BY <1>1, <1>4, <1>7, <1>11, <2>1, <2>2, <2>3, HeadIsDone DEF x
<1>13. Grouping'
  <2>1. ASSUME Groups(Level(i[2]))
        PROVE  built'.operands[1] >= Level(i[2]) /\ built'.operands[2] > Level(i[2])
    <3>1. IsBinary(x) /\ i = x /\ x[3] = 2 /\ Level(x[2]) <= vals[Len(vals) - 1].level
      BY <1>6, <1>7, <2>1
    <3>2. Wants(x) = Level(x[2]) + 1 /\ Takes(x) = 2 /\ Level(x[2]) \in 1 .. 15
      BY <1>7, <3>1, TakesAre
    <3>3. Len(vals) >= 2 /\ o = SubSeq(vals, Len(vals) - 2 + 1, Len(vals))
      BY <1>6, <1>9, <1>10, <3>2
    <3>4. built'.operands = [j \in DOMAIN o |-> o[j].level]
      BY <1>3
    <3> HIDE DEF h, o
    <3>5. built'.operands[1] = vals[Len(vals) - 1].level /\ built'.operands[2] = vals[Len(vals)].level
      BY <1>4, <3>3, <3>4, LastTwo
    <3>6. Top(vals) = vals[Len(vals)].level /\ vals[Len(vals)].level \in 1 .. 15
          /\ vals[Len(vals) - 1].level \in 1 .. 15
      <4>1. Len(vals) \in 1 .. Len(vals) /\ Len(vals) - 1 \in 1 .. Len(vals)
        BY <1>9, <3>3
      <4>2. vals[Len(vals)] \in Nodes /\ vals[Len(vals) - 1] \in Nodes
        BY <1>4, <4>1
      <4> QED
        BY <1>9, <3>3, <4>2 DEF Nodes
    <3> QED
      BY <1>6, <3>1, <3>2, <3>5, <3>6
  <2>2. built'.op = i[2]
    BY <1>3
  <2>3. Len(Binding) = 14
    BY BindingIs
  <2>4. 4 <= Level(i[2]) /\ Level(i[2]) < 14 => Groups(Level(i[2]))
    BY <1>7 DEF Groups
  <2> QED
    BY <2>1, <2>2, <2>3, <2>4 DEF Grouping
<1> QED
  BY <1>1, <1>11, <1>12, <1>13 DEF GroupInv

(* A number that is too large fails.                                       *)
LEMMA OverflowGroups ==
    ASSUME GroupInv, Stacked(todo), Overflow
    PROVE  GroupInv'
<1>1. Failing(TRUE) /\ built' = built
  BY DEF Overflow
<1> QED
  BY <1>1, FailingGroups

(* A block of text goes on.                                                *)
LEMMA TextGroups ==
    ASSUME GroupInv, todo # <<>>, Texty(todo[1]), NEW g, todo' = g \o Tail(todo), vals' = vals, built' = built,
           Balanced(vals, Now(vals), g, Text(Len(vals), Len(vals), 1))
    PROVE  GroupInv'
<1>1. vals \in Seq(Nodes) /\ Covered(vals, todo) /\ Grouping'
  BY StandStill DEF GroupInv
<1>2. Len(vals) \in Nat
  BY <1>1, NowIs
<1>3. After(todo[1], Len(vals)) = Text(Len(vals), Len(vals), 1)
  BY <1>2, AfterIs
<1>4. todo[1][1] # "fail"
  BY DEF Texty
<1>5. Covered(vals, g \o Tail(todo))
  BY <1>1, <1>3, <1>4, HeadGoesOn
<1> QED
  BY <1>1, <1>5 DEF GroupInv

(* It goes on with another rune.                                           *)
LEMMA RuneGroups ==
    ASSUME GroupInv, todo # <<>>, Texty(todo[1]), NEW x, Texty(x), todo' = <<x>> \o Tail(todo), vals' = vals,
           built' = built
    PROVE  GroupInv'
<1>1. Len(vals) \in Nat /\ Top(vals) \in 1 .. 15 /\ Now(vals) = Code(Len(vals), Len(vals), Top(vals))
  BY NowIs DEF GroupInv, Now
<1> DEFINE n == Len(vals)
           l == Top(vals)
<1>2. n \in Nat /\ n \in Int /\ l \in Int /\ n <= n /\ 1 <= l
  BY <1>1
<1> HIDE DEF n, l
<1>3. Leads(vals, Code(n, n, l), x, Text(n, n, 1))
  BY <1>2, TextyLeads DEF Texty
<1>4. Balanced(vals, Code(n, n, l), <<x>>, Text(n, n, 1))
  BY <1>3, ChainOne
<1>5. Balanced(vals, Now(vals), <<x>>, Text(Len(vals), Len(vals), 1))
  BY <1>1, <1>4 DEF n, l
<1> QED
  BY <1>5, TextGroups

(* An expression stands in a text.                                         *)
LEMMA TagGroups ==
    ASSUME GroupInv, todo # <<>>, Texty(todo[1]), NEW k, vals' = vals, built' = built,
           todo' = << <<"expr">>, Drop, <<"close_tag", k>> >> \o Tail(todo)
    PROVE  GroupInv'
<1>1. Len(vals) \in Nat /\ Top(vals) \in 1 .. 15 /\ Now(vals) = Code(Len(vals), Len(vals), Top(vals))
  BY NowIs DEF GroupInv, Now
<1> DEFINE n == Len(vals)
           l == Top(vals)
<1>2. n \in Nat /\ n \in Int /\ l \in Int /\ n <= n /\ 1 <= l
  BY <1>1
<1> HIDE DEF n, l
<1>3. Giver(<<"expr">>, 1)
  BY GiversAre
<1>4. n + 1 \in Int /\ n + 1 <= n + 1 /\ n + 1 = n + 1
  BY <1>2
<1>5. Leads(vals, Code(n, n, l), <<"expr">>, Code(n + 1, n, 1))
  BY <1>2, <1>3, <1>4, GiverGives
<1>6. Leads(vals, Code(n + 1, n, 1), Drop, Code(n, n, 1))
  BY <1>2, <1>4, DropLeads
<1>7. Leads(vals, Code(n, n, 1), <<"close_tag", k>>, Text(n, n, 1))
  <2>1. <<"close_tag", k>>[1] = "close_tag" /\ 1 \in Int /\ 1 <= 1
    OBVIOUS
  <2> QED
    BY <1>2, <2>1, TextyLeads
<1>8. Balanced(vals, Code(n, n, l), << <<"expr">>, Drop, <<"close_tag", k>> >>, Text(n, n, 1))
  BY <1>5, <1>6, <1>7, ChainThree
<1>9. Balanced(vals, Now(vals), << <<"expr">>, Drop, <<"close_tag", k>> >>, Text(Len(vals), Len(vals), 1))
  BY <1>1, <1>8 DEF n, l
<1> QED
  BY <1>9, TextGroups

(* A block of text ends, with the template around it or before a tag.      *)
LEMMA TextEnds ==
    ASSUME GroupInv, todo # <<>>, Texty(todo[1]), vals' = vals, built' = built,
           todo' = Tail(todo) \/ todo' = SubSeq(todo, 3, Len(todo))
    PROVE  GroupInv'
<1>1. vals \in Seq(Nodes) /\ Covered(vals, todo) /\ Grouping'
  BY StandStill DEF GroupInv
<1>2. Tail(todo) # <<>> /\ Covered(vals, Tail(todo)) /\ Covered(vals, Tail(Tail(todo)))
  BY <1>1, TextIsOver
<1>3. SubSeq(todo, 3, Len(todo)) = Tail(Tail(todo))
  <2>1. IsSeq(todo)
    BY <1>1, CoveredHead
  <2>2. /\ Len(todo) \in Nat /\ Len(todo) >= 1 /\ IsSeq(Tail(todo)) /\ Len(Tail(todo)) = Len(todo) - 1
        /\ \A j \in 1 .. Len(todo) - 1 : Tail(todo)[j] = todo[j + 1]
    BY <2>1, SequencesAre
  <2>3. /\ Len(Tail(todo)) >= 1 /\ IsSeq(Tail(Tail(todo))) /\ Len(Tail(Tail(todo))) = Len(Tail(todo)) - 1
        /\ \A j \in 1 .. Len(Tail(todo)) - 1 : Tail(Tail(todo))[j] = Tail(todo)[j + 1]
    BY <1>2, <2>2, SequencesAre
  <2> DEFINE q == SubSeq(todo, 3, Len(todo))
             r == Tail(Tail(todo))
  <2>4. IsSeq(q) /\ Len(q) = Len(todo) - 3 + 1 /\ \A j \in 1 .. Len(todo) - 3 + 1 : q[j] = todo[3 + j - 1]
    <3>1. PICK S : todo \in Seq(S)
      BY <2>1 DEF IsSeq
    <3>2. ASSUME NEW m \in 1 .. Len(todo) + 1, NEW l \in m - 1 .. Len(todo)
          PROVE  /\ SubSeq(todo, m, l) \in Seq(S) /\ Len(SubSeq(todo, m, l)) = l - m + 1
                 /\ \A j \in 1 .. l - m + 1 : SubSeq(todo, m, l)[j] = todo[m + j - 1]
      BY <2>2, <3>1, SubSeqProperties
    <3>3. 3 \in 1 .. Len(todo) + 1 /\ Len(todo) \in 3 - 1 .. Len(todo)
      BY <2>2, <2>3
    <3>4. /\ q \in Seq(S) /\ Len(q) = Len(todo) - 3 + 1
          /\ \A j \in 1 .. Len(todo) - 3 + 1 : q[j] = todo[3 + j - 1]
      BY <3>2, <3>3
    <3> HIDE DEF q
    <3> QED
      BY <3>4 DEF IsSeq
  <2>5. Len(r) = Len(q)
    BY <2>2, <2>3, <2>4
  <2>6. ASSUME NEW j \in 1 .. Len(q) PROVE q[j] = r[j]
    <3>1. /\ j \in 1 .. Len(todo) - 3 + 1 /\ j \in 1 .. Len(Tail(todo)) - 1 /\ j + 1 \in 1 .. Len(todo) - 1
          /\ 3 + j - 1 = j + 1 + 1
      BY <2>2, <2>3, <2>4
    <3>2. q[j] = todo[j + 1 + 1]
      BY <2>4, <3>1
    <3>3. r[j] = Tail(todo)[j + 1]
      BY <2>3, <3>1
    <3>4. Tail(todo)[j + 1] = todo[j + 1 + 1]
      BY <2>2, <3>1
    <3> QED
      BY <3>2, <3>3, <3>4
  <2> HIDE DEF q, r
  <2>7. IsSeq(r)
    BY <2>3 DEF r
  <2>8. q = r
    BY <2>4, <2>5, <2>6, <2>7, Equal
  <2> QED
    BY <2>8 DEF q, r
<1>4. Covered(vals, todo')
  BY <1>2, <1>3
<1> QED
  BY <1>1, <1>4 DEF GroupInv

(* The steps of parse_text_block() keep the invariant: a rune,             *)
LEMMA ReadTextRuneGroups ==
    ASSUME GroupInv, Texting, ReadTextRune, built' = built
    PROVE  GroupInv'
<1>1. /\ Running({"read"}) /\ todo # <<>> /\ vals' = vals /\ Stacked(todo)
      /\ todo' = << <<todo[1][2], Here>> >> \o Tail(todo)
  BY DEF ReadTextRune, TextGoesOn, Texting
<1>2. todo[1][1] = "read"
  <2>1. {"read"} \subseteq RuneKind
    BY DEF RuneKind
  <2> QED
    BY <1>1, <2>1, TextAt
<1>3. todo[1] # Skip /\ todo[1] # FailQuietly /\ ~Fits(todo, 1)
  <2>1. Skip[1] = "skip" /\ FailQuietly[1] = "fail"
    BY DEF Skip, FailQuietly
  <2> QED
    BY <1>2, <2>1, KindsAreNoRunes DEF RuneKind
<1>4. Len(todo) >= 1
  BY <1>1, SequencesAre DEF Stacked, ItemsFrom
<1>5. todo[1][2] \in {"text", "comment"}
  BY <1>1, <1>2, <1>3, <1>4 DEF Stacked, HeadFits, Reader
<1>6. Texty(todo[1]) /\ Texty(<<todo[1][2], Here>>)
  BY <1>2, <1>5 DEF Texty
<1> QED
  BY <1>1, <1>6, RuneGroups

(* what else may follow a rune,                                            *)
LEMMA TextRunes ==
    ASSUME NEW p
    PROVE  /\ Texty(ReadText) /\ Texty(<<"text", p>>) /\ Texty(<<"comment", p>>) /\ Texty(<<"text_CR">>)
           /\ Texty(<<"read", "comment">>)
BY DEF Texty, ReadText

(* braces,                                                                 *)
LEMMA TextBraceGroups ==
    ASSUME GroupInv, Texting, TextBrace, built' = built
    PROVE  GroupInv'
<1>1. Running({"text"}) /\ {"text"} \subseteq RuneKind
  BY DEF TextBrace, RuneKind
<1>2. todo # <<>> /\ Texty(todo[1])
  BY <1>1, TextAt DEF Texting, Texty
<1>3. \/ TextGoesOn(<<>>)
      \/ TextGoesOn(<< <<"expr">>, Drop, <<"close_tag", IF Rune = LBRACE THEN RBRACE ELSE "!">> >>)
      \/ TextGoesOn(<< <<"read", "comment">> >>) \/ TextGoesOn(<< <<"text", Here>> >>)
  BY DEF TextBrace
<1>4. CASE TextGoesOn(<<>>)
  <2>1. vals' = vals /\ todo' = <<>> \o Tail(todo)
    BY <1>4 DEF TextGoesOn
  <2>2. <<>> \o Tail(todo) = Tail(todo)
    <3>1. IsSeq(Tail(todo))
      BY DEF Texting, AllItems, ItemsFrom
    <3> QED
      BY <3>1, EmptyJoins
  <2> QED
    BY <1>2, <2>1, <2>2, TextEnds
<1>5. CASE TextGoesOn(<< <<"expr">>, Drop, <<"close_tag", IF Rune = LBRACE THEN RBRACE ELSE "!">> >>)
  <2> DEFINE k == IF Rune = LBRACE THEN RBRACE ELSE "!"
  <2>1. vals' = vals /\ todo' = << <<"expr">>, Drop, <<"close_tag", k>> >> \o Tail(todo)
    BY <1>5 DEF TextGoesOn
  <2> HIDE DEF k
  <2> QED
    BY <1>2, <2>1, TagGroups
<1>6. CASE TextGoesOn(<< <<"read", "comment">> >>)
  <2>1. vals' = vals /\ todo' = << <<"read", "comment">> >> \o Tail(todo)
    BY <1>6 DEF TextGoesOn
  <2> QED
    BY <1>2, <2>1, TextRunes, RuneGroups
<1>7. CASE TextGoesOn(<< <<"text", Here>> >>)
  <2>1. vals' = vals /\ todo' = << <<"text", Here>> >> \o Tail(todo)
    BY <1>7 DEF TextGoesOn
  <2> QED
    BY <1>2, <2>1, TextRunes, RuneGroups
<1> QED
  BY <1>3, <1>4, <1>5, <1>6, <1>7

(* backslashes,                                                            *)
LEMMA TextBackslashGroups ==
    ASSUME GroupInv, Texting, TextBackslash, built' = built
    PROVE  GroupInv'
<1>1. Running({"text"}) /\ {"text"} \subseteq RuneKind
  BY DEF TextBackslash, RuneKind
<1>2. todo # <<>> /\ Texty(todo[1])
  BY <1>1, TextAt DEF Texting, Texty
<1>3. TextGoesOn(<< <<"text_CR">> >>) \/ TextGoesOn(<<ReadText>>) \/ TextGoesOn(<< <<"text", Here>> >>)
  BY DEF TextBackslash
<1>4. ASSUME NEW x, TextGoesOn(<<x>>), Texty(x) PROVE GroupInv'
  <2>1. vals' = vals /\ todo' = <<x>> \o Tail(todo)
    BY <1>4 DEF TextGoesOn
  <2> QED
    BY <1>2, <1>4, <2>1, RuneGroups
<1> QED
  BY <1>3, <1>4, TextRunes

(* the rune behind a carriage return,                                      *)
LEMMA TextAfterCRGroups ==
    ASSUME GroupInv, Texting, TextAfterCR, built' = built
    PROVE  GroupInv'
<1>1. /\ Running({"text_CR"}) /\ {"text_CR"} \subseteq RuneKind
      /\ todo' = << <<"text", Here>> >> \o Tail(todo) /\ vals' = vals
  BY DEF TextAfterCR, RuneKind
<1>2. todo # <<>> /\ Texty(todo[1])
  BY <1>1, TextAt DEF Texting, Texty
<1> QED
  BY <1>1, <1>2, TextRunes, RuneGroups

(* any other rune or the end of the input,                                 *)
LEMMA TextRuneGroups ==
    ASSUME GroupInv, Texting, TextRune, built' = built
    PROVE  GroupInv'
<1>1. Running({"text"}) /\ {"text"} \subseteq RuneKind
  BY DEF TextRune, RuneKind
<1>2. todo # <<>> /\ Texty(todo[1])
  BY <1>1, TextAt DEF Texting, Texty
<1>3. \/ todo' = SubSeq(todo, 3, Len(todo)) /\ vals' = vals
      \/ TextGoesOn(<< <<"text", Here>> >>)
  BY DEF TextRune
<1>4. CASE todo' = SubSeq(todo, 3, Len(todo)) /\ vals' = vals
  BY <1>2, <1>4, TextEnds
<1>5. CASE TextGoesOn(<< <<"text", Here>> >>)
  <2>1. vals' = vals /\ todo' = << <<"text", Here>> >> \o Tail(todo)
    BY <1>5 DEF TextGoesOn
  <2> QED
    BY <1>2, <2>1, TextRunes, RuneGroups
<1> QED
  BY <1>3, <1>4, <1>5

(* comments,                                                               *)
LEMMA TextCommentGroups ==
    ASSUME GroupInv, Texting, TextComment, built' = built
    PROVE  GroupInv'
<1>1. Running({"comment"}) /\ {"comment"} \subseteq RuneKind /\ Stacked(todo)
  BY DEF TextComment, RuneKind, Texting
<1>2. todo # <<>> /\ Texty(todo[1])
  BY <1>1, TextAt DEF Texting, Texty
<1>3. Failing(TRUE) \/ TextGoesOn(<<ReadText>>) \/ TextGoesOn(<< <<"comment", Here>> >>)
  BY DEF TextComment
<1>4. ASSUME NEW x, TextGoesOn(<<x>>), Texty(x) PROVE GroupInv'
  <2>1. vals' = vals /\ todo' = <<x>> \o Tail(todo)
    BY <1>4 DEF TextGoesOn
  <2> QED
    BY <1>2, <1>4, <2>1, RuneGroups
<1> QED
  BY <1>1, <1>3, <1>4, TextRunes, FailingGroups

(* the end of an expression in a text,                                     *)
LEMMA CloseTagGroups ==
    ASSUME GroupInv, Texting, CloseTag, built' = built
    PROVE  GroupInv'
<1>1. Running({"close"}) /\ {"close"} \subseteq RuneKind /\ Stacked(todo)
  BY DEF CloseTag, RuneKind, Texting
<1>2. todo # <<>> /\ Texty(todo[1])
  BY <1>1, TextAt DEF Texting, Texty
<1>3. Failing(TRUE) \/ (todo' = <<ReadText>> \o Tail(todo) /\ vals' = vals)
  BY DEF CloseTag
<1> QED
  BY <1>1, <1>2, <1>3, TextRunes, RuneGroups, FailingGroups

(* and the first line.                                                     *)
LEMMA SkipShebangGroups ==
    ASSUME GroupInv, SkipShebang, vals' = vals, built' = built
    PROVE  GroupInv'
<1>1. vals \in Seq(Nodes) /\ Covered(vals, todo) /\ Grouping'
  BY StandStill DEF GroupInv
<1>2. \/ todo' = << <<"shebang!", Here>> >> \/ todo' = << <<"shebang_line">> >>
      \/ todo' = Template \/ todo' = <<>> \/ todo' = todo
  BY DEF SkipShebang
<1>3. /\ Neutral(<<"shebang!", Here>>) /\ ~Texty(<<"shebang!", Here>>)
      /\ Neutral(<<"shebang_line">>) /\ ~Texty(<<"shebang_line">>)
  BY DEF Neutral, Texty, Makers, Enders, Givers, RuleNames, Atoms
<1>4. Covered(vals, todo')
  BY <1>1, <1>2, <1>3, StacksBegin
<1> QED
  BY <1>1, <1>4 DEF GroupInv

(* Together they are parse_text_block().                                    *)
LEMMA ParseTextGroups ==
    ASSUME GroupInv, VerbatimInv, ParseText
    PROVE  GroupInv'
<1>1. built' = built
  BY DEF ParseText
<1>2. Running(RuneKind)
  BY DEF ParseText, ReadTextRune, TextBrace, TextBackslash, TextAfterCR, TextRune, TextComment, CloseTag,
         SkipShebang, Running, RuneKind
<1>3. Texting
  <2>1. /\ lex = Idle /\ todo # <<>> /\ Head(todo) = todo[1] /\ AllItems(Tail(todo)) /\ Stacked(todo)
    BY <1>2, AtText
  <2>2. UNCHANGED <<source, tokens, lex>>
    BY DEF ParseText
  <2> QED
    BY <2>1, <2>2 DEF Texting
<1>4. \/ ReadTextRune \/ TextBrace \/ TextBackslash \/ TextAfterCR \/ TextRune \/ TextComment \/ CloseTag
      \/ SkipShebang /\ vals' = vals
  BY DEF ParseText
<1> QED
  BY <1>1, <1>3, <1>4, ReadTextRuneGroups, TextBraceGroups, TextBackslashGroups, TextAfterCRGroups,
     TextRuneGroups, TextCommentGroups, CloseTagGroups, SkipShebangGroups

(* Every step keeps the invariant.                                         *)
LEMMA NextGroups ==
    ASSUME GroupInv, VerbatimInv, [Next]_vars
    PROVE  GroupInv'
<1>1. Stacked(todo)
  BY DEF VerbatimInv
<1>2. CASE UNCHANGED vars
  <2>1. UNCHANGED <<todo, vals, built>>
    BY <1>2 DEF vars, parserVars
  <2> QED
    BY <2>1, StandStill
<1> QED
  BY <1>1, <1>2, PeekGroups, ExpectGroups, ParseGroups, MakeGroups, OverflowGroups, DecideGroups, ParseTextGroups
     DEF Next

-----------------------------------------------------------------------------
(* THE THEOREMS *)

(* Every state of the parser satisfies the five parts of the invariant:    *)
(* runes wait where they were read, tokens wait only under a production    *)
(* that looks at them, and what was delivered lies behind the lexer.       *)
LEMMA VerbatimHolds == Spec => []VerbatimInv
<1>1. Init => VerbatimInv
  BY InitIsVerbatim
<1>2. VerbatimInv /\ [Next]_vars => VerbatimInv'
  BY NextKeepsVerbatim
<1> QED
  BY <1>1, <1>2, PTL DEF Spec

(* The text of a script reaches the output once and in order: when         *)
(* Parser::ParseText() is at work no token is waiting that it would skip,  *)
(* and the positions delivered rise, unless the lexer has pushed runes     *)
(* back in another order than it read them.                                *)
THEOREM TextIsReadOnce == Spec => []TextIsVerbatim
<1>1. VerbatimInv => TextIsVerbatim
  <2> SUFFICES ASSUME VerbatimInv PROVE TextIsVerbatim
    OBVIOUS
  <2>1. ASSUME Running({"read", "text", "comment"}), "unterminated" \notin odd PROVE tokens = <<>>
    <3>1. {"read", "text", "comment"} \subseteq RuneKind
      BY DEF RuneKind
    <3>2. todo # <<>> /\ todo[1][1] \in {"read", "text", "comment"} /\ IsHead(todo[1])
      BY <2>1, <3>1, AtText
    <3>3. InText
      BY <3>2 DEF InText
    <3> QED
      BY <2>1, <3>3 DEF VerbatimInv, TokenInv
  <2>2. ASSUME odd \cap {"swapped", "repeated"} = {} PROVE \A i \in 1 .. Len(text) - 1 : text[i] < text[i + 1]
    BY <2>2 DEF VerbatimInv, TextInv, Rising
  <2> QED
    BY <2>1, <2>2 DEF TextIsVerbatim
<1> QED
  BY <1>1, VerbatimHolds, PTL

(* No step of Lexer::ReadToken() or of Parser::ParseText() skips a rune    *)
(* or goes back by more than one, until two runes are pushed back in the   *)
(* order they were read (Lexer::UnreadRune() makes a stack of them).       *)
THEOREM RunesComeInOrder == Spec => RuneByRune
<1>1. VerbatimInv /\ [Next]_vars => [("swapped" \notin odd') => Here' \in {Here - 1, Here, Here + 1}]_lexerVars
  <2> SUFFICES ASSUME VerbatimInv, [Next]_vars, "swapped" \notin odd' PROVE Here' \in {Here - 1, Here, Here + 1}
    OBVIOUS
  <2>1. Order /\ UNCHANGED source /\ LexInv
    BY NextKeepsVerbatim, SourceStays DEF VerbatimInv
  <2> QED
    BY <2>1, OrderGlides DEF Glides
<1> QED
  BY <1>1, VerbatimHolds, PTL DEF Spec, RuneByRune

(* The tree of an expression is the one its grammar promises: the operands *)
(* of every binary operator bind as tightly as the comments of parser.cc   *)
(* say, on the left at least as tightly as the operator and on the right   *)
(* more tightly, whatever failures are noticed late or not at all.         *)
THEOREM OperatorsGroup == Spec => []Grouping
<1>1. Init => GroupInv
  BY InitGroups
<1>2. GroupInv /\ VerbatimInv /\ [Next]_vars => GroupInv'
  BY NextGroups
<1>3. GroupInv => Grouping
  BY DEF GroupInv
<1> QED
  BY <1>1, <1>2, <1>3, VerbatimHolds, PTL DEF Spec
=============================================================================
