----------------------------- MODULE ScriptParser -----------------------------
(***************************************************************************)
(* The compiler of scripts and templates: script/parser.cc.                *)
(*                                                                         *)
(* Every parse_*() function is the sequence of what it still does, given   *)
(* the token t it peeks at; what the functions that have not returned      *)
(* still have to do is the stack todo.  A null node is a failure, which    *)
(* returns through all functions but those that do not look at the result. *)
(* A template switches between text, read rune by rune, and tags, read     *)
(* token by token.                                                         *)
(***************************************************************************)
EXTENDS ScriptLexer

VARIABLES todo,       \* what is left to do, innermost first
          vals,       \* the expression nodes made and not yet used
          built,      \* the last node made, and the levels of its operands
          text,       \* the runes of the text nodes, as positions
          taken,      \* the tokens used, and the braces that open expressions
          outcome     \* "running", "script" or "null"

parserVars == <<todo, vals, built, text, taken, outcome>>
vars == <<lexerVars, parserVars>>

(* What can be left to do, besides the functions of the grammar. *)
Expect(kind)   == <<"expect", kind>>       \* expect_token()
Optional(kind) == <<"optional", kind>>     \* ReadToken(kind), the result unused
Skip           == <<"skip">>               \* the token that was peeked at is used
Make(op, n)    == <<"make", op, n>>        \* a new node of the last n nodes
Variable(n)    == <<"variable", n>>        \* IsVariable() of the n-th last node
Drop           == <<"drop">>               \* the last node becomes part of a statement
Fail           == <<"fail", TRUE>>         \* return null with an error message
FailQuietly    == <<"fail", FALSE>>        \* return null
ReadText       == <<"read", "text">>       \* c = ReadRune() in a text block
Unchecked      == <<"unchecked", Len(vals)>>   \* a null node is not noticed here
Statement      == <<"statement", Len(vals)>>   \* a null node is noticed one token later

BlockEnd == {"end", "else", "catch", "finally"}

-----------------------------------------------------------------------------
(* STATEMENTS *)

(* A block is a piece of template or the statements up to a token that     *)
(* ends it.                                                                *)
parse_block(t) == IF t = CLOSE_TAG THEN <<Skip, ReadText, <<"template", BlockEnd>> >>
                                   ELSE << <<"statements", BlockEnd>> >>
statements(stop, t) == IF t \in stop THEN <<>> ELSE << <<"stmt">>, <<"statements", stop>> >>

(* The tags of a template; tokens in stop end a template in a block.       *)
template(stop, t) == IF t \in stop THEN <<>> ELSE << <<"script", stop>> >>
parse_script_block(stop, t) ==
    CASE t = "end_of_input" -> <<>>
      [] t = CLOSE_TAG      -> <<Skip, ReadText, <<"template", stop>> >>
      [] t = SEMICOLON      -> <<Skip, <<"script", stop>> >>
      [] OTHER              -> << <<"stmt">>, <<"script", stop>> >>

(* The second if of an else if ends the statement; if it fails, nobody     *)
(* looks at it.                                                            *)
parse_if == <<Expect("if"), <<"expr">>, Drop, Expect(":"), <<"block">>, <<"if_else">> >>
if_else(t) == IF t = "else" THEN <<Skip, <<"else_if">> >>
                            ELSE <<Expect("end"), Expect("if"), Optional(SEMICOLON)>>
else_if(t) == IF t = "if" THEN << <<"if">>, Unchecked, Optional(SEMICOLON)>>
              ELSE <<Expect(":"), <<"block">>, Expect("end"), Expect("if"), Optional(SEMICOLON)>>

parse_while == <<Expect("while"), <<"expr">>, Drop, Expect(":"), <<"block">>,
                 Expect("end"), Expect("while"), Optional(SEMICOLON)>>

parse_for == <<Expect("for"), <<"expr">>, Variable(1), Drop, Expect(":"),
               <<"expr">>, Drop, Expect(":"), <<"block">>, <<"for_else">> >>
for_else(t) == (IF t = "else" THEN <<Skip, Expect(":"), <<"block">> >> ELSE <<>>)
               \o <<Expect("end"), Expect("for"), Optional(SEMICOLON)>>

parse_catch == <<Expect("catch"), <<"catch_type">>, Expect(":"), <<"block">> >>
catch_type(t) == IF t = ":" THEN <<>> ELSE << <<"typehint">>, <<"catch_variable">> >>
catch_variable(t) == IF t = ":" THEN <<>> ELSE << <<"expr">>, Variable(1), Drop>>

(* A try statement needs one of its clauses. *)
parse_try == <<Expect("try"), Expect(":"), <<"block">>, <<"clauses", FALSE>> >>
clauses(some, t) ==
    CASE t = "catch" -> << <<"catch">>, <<"clauses", TRUE>> >>
      [] t = "else"  -> <<Skip, Expect(":"), <<"block">>, <<"finally", TRUE>> >>
      [] OTHER       -> << <<"finally", some>> >>
try_finally(some, t) ==
    (IF t = "finally" THEN <<Skip, Expect(":"), <<"block">> >> ELSE <<>>)
    \o <<Expect("end"), Expect("try"), Optional(SEMICOLON)>>
    \o (IF some \/ t = "finally" THEN <<>> ELSE <<Fail>>)

(* break and continue are not skipped.  A failed expression is followed by *)
(* a semicolon before the failure is returned.                             *)
parse_stmt(t) ==
    CASE t = "error"        -> <<FailQuietly>>
      [] t = "end_of_input" -> <<Fail>>
      [] t = SEMICOLON      -> <<Skip>>
      [] t \in {"if", "while", "for", "try"} -> << <<t>> >>
      [] t \in {"break", "continue"}         -> <<Expect(SEMICOLON)>>
      [] t \in {"return", "throw"}           -> <<Skip, <<"value">>, Expect(SEMICOLON)>>
      [] OTHER -> << <<"expr">>, Drop, Statement, Expect(SEMICOLON)>>
optional_value(t) == IF t = SEMICOLON THEN <<>> ELSE << <<"expr">>, Drop>>

-----------------------------------------------------------------------------
(* EXPRESSIONS *)

(* Elements between brackets; n nodes have been made for their node.       *)
Closing == [list |-> "]", map |-> RBRACE, call |-> ")"]
element(kind, n) == IF kind = "map"
                    THEN << <<"expr">>, Expect(":"), <<"expr">>, <<"row", kind, n + 2>> >>
                    ELSE << <<"expr">>, <<"row", kind, n + 1>> >>
first(kind, n, t) == IF t = Closing[kind] THEN <<Skip, Make(kind, n)>> ELSE element(kind, n)
row(kind, n, t) == CASE t = COMMA         -> <<Skip>> \o element(kind, n)
                     [] t = Closing[kind] -> <<Skip, Make(kind, n)>>
                     [] OTHER             -> <<Fail>>
parse_list == << <<"first", "list", 0>> >>
parse_map  == << <<"first", "map", 0>> >>
parse_args == <<Expect("("), <<"first", "call", 1>> >>     \* a call includes its receiver

parse_typehint == << <<"postfix">>, Drop, Optional("?"), <<"more_typehints">> >>
more_typehints(t) == IF t \in {"&", "|"} THEN <<Skip, <<"typehint">> >> ELSE <<>>

parse_parameters == <<Expect("("), <<"parameters">> >>
parameters(t) == IF t = ")" THEN <<Skip>> ELSE << <<"parameter">> >>
parameter(t)  == IF t = "..." THEN <<Skip, <<"name">>, <<"type">>, <<"default">>, <<"next", TRUE>> >>
                              ELSE << <<"name">>, <<"type">>, <<"default">>, <<"next", FALSE>> >>
name(t)       == IF t = "identifier" THEN <<Skip>> ELSE <<Skip, Fail>>
type(t)       == IF t = ":" THEN <<Skip, <<"typehint">> >> ELSE <<>>
default(t)    == IF t = "=" THEN <<Skip, <<"expr">>, Drop>> ELSE <<>>
next_parameter(rest, t) == CASE t = COMMA /\ ~rest -> <<Skip, <<"parameter">> >>
                             [] t = ")"            -> <<Skip>>
                             [] OTHER              -> <<Fail>>

(* A body behind a colon is a template or statements; one behind an arrow  *)
(* is an expression, or a throw statement, which is returned in place of   *)
(* the function.                                                           *)
parse_function(t) == IF t = "(" THEN parse_parameters \o << <<"body">> >> ELSE << <<"body">> >>
body(t)  == IF t = "=>" THEN <<Skip, <<"arrow">> >>
            ELSE <<Expect(":"), <<"block_body">>, Expect("end"), Expect("function"),
                   Make("function", 0)>>
block_body(t) == IF t = CLOSE_TAG THEN <<Skip, ReadText, <<"template", {"end", "else"}>> >>
                                  ELSE << <<"statements", {"end"}>> >>
arrow(t) == IF t = "throw" THEN <<Skip, <<"expr">>, Make("throw", 1)>>
                           ELSE << <<"expr">>, Make("function", 1)>>

(* The first token of an expression is used, whatever it is.               *)
parse_primary(t) ==
    <<Skip>> \o
    CASE t \in {"true", "false", "null", "string"} -> <<Make("value", 0)>>
      [] t \in {"int", "float"} -> << <<"number">> >>
      [] t = "("          -> << <<"expr">>, Expect(")"), Make("group", 1)>>
      [] t = "["          -> parse_list
      [] t = LBRACE       -> parse_map
      [] t = "identifier" -> <<Make("identifier", 0)>>
      [] t = "function"   -> << <<"function">> >>
      [] t = "error"      -> <<FailQuietly>>
      [] OTHER            -> <<Fail>>

parse_selection(t) == IF t = "identifier" THEN <<Skip, <<"selected">> >> ELSE <<Skip, Fail>>
selected(t) == IF t = "(" THEN parse_args ELSE <<Make("attribute", 1)>>

parse_postfix == << <<"primary">>, <<"postfix_operator">> >>
postfix_operator(t) ==
    CASE t = "("             -> parse_args \o << <<"postfix_operator">> >>
      [] t = "["             -> <<Skip, <<"expr">>, Expect("]"), Make("subscript", 2),
                                  <<"postfix_operator">> >>
      [] t \in {".", "?."}   -> <<Skip, <<"selection">>, <<"postfix_operator">> >>
      [] t \in {"++", "--"}  -> <<Skip, Variable(1), Make("postfix", 1), <<"postfix_operator">> >>
      [] OTHER               -> <<>>

parse_unary(t) ==
    CASE t \in {"+", "-", "~", "!"} -> <<Skip, <<"unary">>, Make("unary", 1)>>
      [] t \in {"++", "--"}         -> <<Skip, <<"postfix">>, Variable(1), Make("unary", 1)>>
      [] OTHER                      -> << <<"postfix">> >>

(* Operators that take operands of another rule and group from the left.   *)
parse_multiplicative == [operand |-> "unary",          operators |-> {"*", "/", "%"}]
parse_additive       == [operand |-> "multiplicative", operators |-> {"+", "-"}]
parse_shift          == [operand |-> "additive",       operators |-> {"<<", ">>"}]
parse_bit_and        == [operand |-> "shift",          operators |-> {"&"}]
parse_bit_xor        == [operand |-> "bit_and",        operators |-> {"^"}]
parse_bit_or         == [operand |-> "bit_xor",        operators |-> {"|"}]
parse_relational     == [operand |-> "bit_or",         operators |-> {"<", ">", "<=", ">="}]
parse_equality       == [operand |-> "relational",     operators |-> {"==", "=~", "!=", "!~"}]
parse_logical_and    == [operand |-> "equality",       operators |-> {"&&"}]
parse_logical_or     == [operand |-> "logical_and",    operators |-> {"||"}]

Rule == [multiplicative |-> parse_multiplicative, additive |-> parse_additive,
         shift |-> parse_shift, bit_and |-> parse_bit_and, bit_xor |-> parse_bit_xor,
         bit_or |-> parse_bit_or, relational |-> parse_relational,
         equality |-> parse_equality, logical_and |-> parse_logical_and,
         logical_or |-> parse_logical_or]

(* Mutant: the right operand is parsed by the rule of the operator. *)
FromTheRight(rule, t) == IF t \in Rule[rule].operators THEN <<Skip, <<rule>>, Make(t, 2)>>
                                                       ELSE <<>>

operators(rule, t) == IF t \in Rule[rule].operators
                      THEN <<Skip, <<Rule[rule].operand>>, Make(t, 2), <<"operators", rule>> >>
                      ELSE <<>>

parse_range == << <<"logical_or">>, <<"range_operator">> >>
range_operator(t) == IF t \in {"..", "..."} THEN <<Skip, <<"logical_or">>, Make("..", 2)>> ELSE <<>>

parse_ternary == << <<"range">>, <<"ternary_operator">> >>
ternary_operator(t) == IF t = "?"
                       THEN <<Skip, <<"expr">>, Expect(":"), <<"expr">>, Make("?", 3)>> ELSE <<>>

Assignment == {"=", "&&=", "||=", "&=", "|=", "^=", "<<=", ">>=", "+=", "-=", "*=", "/=", "%="}
parse_expr == << <<"ternary">>, <<"assignment">> >>
assignment(t) == CASE t = "error"         -> <<FailQuietly>>
                   [] t \in Assignment    -> <<Skip, <<"expr">>, Variable(2), Make("=", 2)>>
                   [] OTHER               -> <<>>

(* Behind {{ expr a brace closes the expression together with the rune     *)
(* behind it, behind {! expr an exclamation mark.                          *)
close_tag(mark, t) == IF t = mark THEN <<Skip, <<"close", TRUE, RBRACE>> >>
                                  ELSE << <<"close", FALSE, mark>> >>

(* What a function does whose turn it is, given the next token.            *)
Grammar(i, t) ==
    LET r == i[1] IN
    CASE r = "block" -> parse_block(t)         [] r = "statements" -> statements(i[2], t)
      [] r = "template" -> template(i[2], t)   [] r = "script" -> parse_script_block(i[2], t)
      [] r = "stmt" -> parse_stmt(t)           [] r = "value" -> optional_value(t)
      [] r = "if" -> parse_if                  [] r = "if_else" -> if_else(t)
      [] r = "else_if" -> else_if(t)           [] r = "while" -> parse_while
      [] r = "for" -> parse_for                [] r = "for_else" -> for_else(t)
      [] r = "catch" -> parse_catch            [] r = "catch_type" -> catch_type(t)
      [] r = "catch_variable" -> catch_variable(t)
      [] r = "try" -> parse_try                [] r = "clauses" -> clauses(i[2], t)
      [] r = "finally" -> try_finally(i[2], t)
      [] r = "first" -> first(i[2], i[3], t)   [] r = "row" -> row(i[2], i[3], t)
      [] r = "typehint" -> parse_typehint      [] r = "more_typehints" -> more_typehints(t)
      [] r = "parameters" -> parameters(t)     [] r = "parameter" -> parameter(t)
      [] r = "name" -> name(t)                 [] r = "type" -> type(t)
      [] r = "default" -> default(t)           [] r = "next" -> next_parameter(i[2], t)
      [] r = "function" -> parse_function(t)   [] r = "body" -> body(t)
      [] r = "block_body" -> block_body(t)     [] r = "arrow" -> arrow(t)
      [] r = "primary" -> parse_primary(t)     [] r = "selection" -> parse_selection(t)
      [] r = "selected" -> selected(t)         [] r = "postfix" -> parse_postfix
      [] r = "postfix_operator" -> postfix_operator(t)
      [] r = "unary" -> parse_unary(t)
      [] r \in DOMAIN Rule -> << <<Rule[r].operand>>, <<"operators", r>> >>
      [] r = "operators" -> operators(i[2], t)
      [] r = "range" -> parse_range            [] r = "range_operator" -> range_operator(t)
      [] r = "ternary" -> parse_ternary        [] r = "ternary_operator" -> ternary_operator(t)
      [] r = "expr" -> parse_expr              [] r = "assignment" -> assignment(t)
      [] r = "close_tag" -> close_tag(i[2], t)

-----------------------------------------------------------------------------
(* THE MACHINE *)

(* Compile() and CompileExpression(). *)
Init ==
    /\ LexerInit
    /\ todo \in {<< <<"shebang">> >>, << <<"expr">>, Drop>>}
    /\ vals = <<>> /\ text = <<>> /\ taken = <<>>
    /\ built = [op |-> "none", operands |-> <<>>]
    /\ outcome = "running"

Running(kinds) == outcome = "running" /\ lex = Idle /\ todo # <<>> /\ Head(todo)[1] \in kinds
Instant  == {"make", "variable", "drop", "fail", "unchecked", "statement", "number"}
RuneKind == {"shebang", "shebang!", "shebang_line", "read", "text", "text_CR", "comment", "close"}
Peeks    == outcome = "running" /\ lex = Idle /\ todo # <<>>
            /\ Head(todo)[1] \notin Instant \cup RuneKind

Token == Head(tokens)
UseToken == tokens' = Tail(tokens) /\ taken' = Append(taken, Token)

(* A failure returns to the function that does not notice it, if there is  *)
(* one.                                                                    *)
Failing(explained) ==
    LET deaf  == {i \in DOMAIN todo : todo[i][1] \in {"unchecked", "statement"}}
        i     == CHOOSE j \in deaf : \A k \in deaf : j <= k
        after == SubSeq(todo, i + 1, Len(todo))
    IN  /\ message' = (message \/ explained)
        /\ \/ deaf = {} /\ todo' = <<>> /\ outcome' = "null" /\ UNCHANGED <<vals, odd>>
           \/ /\ deaf # {}
              /\ vals' = SubSeq(vals, 1, todo[i][2])
              /\ \/ todo[i][1] = "unchecked" /\ todo' = after /\ odd' = odd \cup {"unchecked"}
                 \/ /\ todo[i][1] = "statement"
                    /\ todo' = <<Head(after), FailQuietly>> \o Tail(after)
                    /\ UNCHANGED odd
              /\ UNCHANGED outcome

(* PeekToken() and ReadToken() when no token waits. *)
PeekToken ==
    /\ \/ outcome = "running" /\ lex # Idle /\ ReadToken
       \/ Peeks /\ tokens = <<>> /\ lex' = Start /\ UNCHANGED <<pos, runes, tokens, message, odd>>
    /\ UNCHANGED <<source, parserVars>>

expect_token ==
    /\ Running({"expect"}) /\ tokens # <<>>
    /\ UseToken
    /\ IF Token = Head(todo)[2]
       THEN todo' = Tail(todo) /\ UNCHANGED <<vals, message, odd, outcome>>
       ELSE Failing(Token # "error")
    /\ UNCHANGED <<source, pos, runes, lex, built, text>>

(* A function looks at the next token, which it may use.                   *)
Parse ==
    /\ Peeks /\ Head(todo)[1] # "expect" /\ tokens # <<>>
    /\ LET i    == Head(todo)
           eats == i[1] = "skip" \/ (i[1] = "optional" /\ i[2] = Token)
       IN  /\ todo' = (IF i[1] \in {"skip", "optional"} THEN <<>> ELSE Grammar(i, Token))
                      \o Tail(todo)
           /\ IF eats THEN UseToken ELSE UNCHANGED <<tokens, taken>>
    /\ UNCHANGED <<source, pos, runes, lex, message, odd, vals, built, text, outcome>>

(* How tightly a node holds together: the grammar in the comments of       *)
(* parser.cc, from assignments to what needs no parentheses.               *)
Binding == << {"="}, {"?"}, {".."}, {"||"}, {"&&"}, {"==", "!=", "=~", "!~"},
              {"<", ">", "<=", ">="}, {"|"}, {"^"}, {"&"}, {"<<", ">>"}, {"+", "-"},
              {"*", "/", "%"}, {"unary"} >>
Level(op) == IF \E l \in DOMAIN Binding : op \in Binding[l]
             THEN CHOOSE l \in DOMAIN Binding : op \in Binding[l]
             ELSE Len(Binding) + 1

(* IsVariable() of the nodes. *)
IsVariable(op, operands) ==
    \/ op \in {"identifier", "attribute", "subscript"}
    \/ op = "group" /\ operands[1].variable
    \/ op = "list" /\ operands # <<>> /\ \A i \in DOMAIN operands : operands[i].variable

(* A node is made of the last n nodes, which are its operands.             *)
MakeNode ==
    /\ Running({"make", "number"})
    /\ LET i == IF Head(todo)[1] = "number" THEN Make("value", 0) ELSE Head(todo)
           rest == Len(vals) - i[3]
           operands == SubSeq(vals, rest + 1, Len(vals))
       IN  /\ vals' = Append(SubSeq(vals, 1, rest),
                             [variable |-> IsVariable(i[2], operands), level |-> Level(i[2])])
           /\ built' = [op |-> i[2], operands |-> [j \in DOMAIN operands |-> operands[j].level]]
    /\ todo' = Tail(todo)
    /\ UNCHANGED <<lexerVars, text, taken, outcome>>

(* Mutant: a literal that overflows fails without a message. *)
OverflowQuietly == /\ Running({"number"}) /\ Failing(FALSE)
                   /\ UNCHANGED <<source, pos, runes, tokens, lex, built, text, taken>>

(* The literal of a number may be too large.                               *)
Overflow == /\ Running({"number"}) /\ Failing(TRUE)
            /\ UNCHANGED <<source, pos, runes, tokens, lex, built, text, taken>>

(* What needs no token: a check, a failure, a node that is used.           *)
Decide ==
    /\ Running({"variable", "fail", "drop", "unchecked", "statement"})
    /\ LET i == Head(todo)
           assignable == i[1] = "variable" => vals[Len(vals) - i[2] + 1].variable
       IN  \/ i[1] = "fail" /\ Failing(i[2])
           \/ ~assignable /\ Failing(TRUE)
           \/ /\ i[1] # "fail" /\ assignable
              /\ todo' = Tail(todo)
              /\ vals' = IF i[1] = "drop" THEN SubSeq(vals, 1, Len(vals) - 1) ELSE vals
              /\ UNCHANGED <<message, odd, outcome>>
    /\ UNCHANGED <<source, pos, runes, tokens, lex, built, text, taken>>

-----------------------------------------------------------------------------
(* TEXT *)

(* A rune is read, and the block goes on with items.                       *)
TextGoesOn(items) == ReadRune /\ todo' = items \o Tail(todo) /\ UNCHANGED <<message, vals, outcome>>
Write(ps) == text' = text \o ps

Template == <<ReadText, <<"template", {}>> >>

(* Compile() skips a first line that starts with #! and else pushes back   *)
(* the runes it has read, the first behind the second.                     *)
SkipShebang ==
    \/ /\ Running({"shebang"})
       /\ IF Rune = "#" THEN ReadRune /\ todo' = << <<"shebang!", Here>> >>
                        ELSE MissRune /\ todo' = Template
       /\ UNCHANGED outcome
    \/ /\ Running({"shebang!"})
       /\ IF Rune = "!" THEN ReadRune /\ todo' = << <<"shebang_line">> >>
          ELSE /\ pos' = Advanced
               /\ Behind(IF Rune = EOF THEN Waiting ELSE Append(Waiting, Here), Head(todo)[2])
               /\ todo' = Template
       /\ UNCHANGED outcome
    \/ /\ Running({"shebang_line"})
       /\ ReadRune
       /\ \/ Rune = EOF /\ todo' = <<>> /\ outcome' = "script"
          \/ Rune \in {"CR", "LF"} /\ todo' = Template /\ UNCHANGED outcome
          \/ Rune \notin {EOF, "CR", "LF"} /\ UNCHANGED <<todo, outcome>>

(* c = ReadRune() at the start of the block and behind a tag.              *)
ReadTextRune == Running({"read"}) /\ TextGoesOn(<< <<Head(todo)[2], Here>> >>) /\ UNCHANGED text

c == RuneAt(Head(todo)[2])

(* An opening tag ends the block; an expression is compiled in its place;  *)
(* other braces are text.                                                  *)
TextBrace ==
    /\ Running({"text"}) /\ c = LBRACE
    /\ \/ Rune = "%" /\ TextGoesOn(<<>>) /\ UNCHANGED text
       \/ /\ Rune \in {LBRACE, "!"}
          /\ TextGoesOn(<< <<"expr">>, Drop, <<"close_tag", IF Rune = LBRACE THEN RBRACE ELSE "!">> >>)
          /\ UNCHANGED text
       \/ Rune = "#" /\ TextGoesOn(<< <<"read", "comment">> >>) /\ UNCHANGED text
       \/ Rune \notin {"%", LBRACE, "!", "#"} /\ TextGoesOn(<< <<"text", Here>> >>)
          /\ Write(<<Head(todo)[2]>>)

(* Mutant: a hidden brace is written and looked at again. *)
BraceTwice ==
    /\ Running({"text"}) /\ c = "\\"
    /\ \/ Rune = "CR" /\ TextGoesOn(<< <<"text_CR">> >>) /\ UNCHANGED text
       \/ Rune = "LF" /\ TextGoesOn(<<ReadText>>) /\ UNCHANGED text
       \/ Rune = LBRACE /\ TextGoesOn(<< <<"text", Here>> >>) /\ Write(<<Here>>)
       \/ Rune \notin {"CR", "LF", LBRACE} /\ TextGoesOn(<< <<"text", Here>> >>)
          /\ Write(<<Head(todo)[2]>>)

(* A backslash hides a new line or the meaning of a brace.                 *)
TextBackslash ==
    /\ Running({"text"}) /\ c = "\\"
    /\ \/ Rune = "CR" /\ TextGoesOn(<< <<"text_CR">> >>) /\ UNCHANGED text
       \/ Rune = "LF" /\ TextGoesOn(<<ReadText>>) /\ UNCHANGED text
       \/ Rune = LBRACE /\ TextGoesOn(<<ReadText>>) /\ Write(<<Here>>)
       \/ Rune \notin {"CR", "LF", LBRACE} /\ TextGoesOn(<< <<"text", Here>> >>)
          /\ Write(<<Head(todo)[2]>>)

(* Behind a hidden carriage return a rune is written and then looked at    *)
(* once more, which writes it again.                                       *)
TextAfterCR ==
    /\ Running({"text_CR"})
    /\ pos' = Advanced /\ runes' = Waiting
    /\ \/ Rune = "LF" /\ UNCHANGED <<text, odd>>
       \/ Rune # "LF" /\ Write(<<Here>>) /\ odd' = odd \cup {"repeated"}
    /\ todo' = << <<"text", Here>> >> \o Tail(todo)
    /\ UNCHANGED <<message, vals, outcome>>

(* The end of the input, or a null character, ends the block and what is   *)
(* around it.                                                              *)
TextRune ==
    /\ Running({"text"}) /\ c \notin {LBRACE, "\\"}
    /\ \/ /\ c \in {EOF, NUL}
          /\ todo' = SubSeq(todo, 3, Len(todo))
          /\ UNCHANGED <<pos, runes, odd, message, vals, outcome, text>>
       \/ c \notin {EOF, NUL} /\ TextGoesOn(<< <<"text", Here>> >>) /\ Write(<<Head(todo)[2]>>)

TextComment ==
    /\ Running({"comment"})
    /\ \/ c = EOF /\ Failing(TRUE) /\ UNCHANGED <<pos, runes>>
       \/ c # EOF
          /\ TextGoesOn(IF c = "#" /\ Rune = RBRACE THEN <<ReadText>> ELSE << <<"comment", Here>> >>)
    /\ UNCHANGED text

(* Behind the first half of the closing mark the second has to follow.     *)
(* Without the first half a rune is read, and it is an error only if that  *)
(* rune is the first half.                                                 *)
CloseTag ==
    /\ Running({"close"})
    /\ pos' = Advanced /\ runes' = Waiting
    /\ LET half == Head(todo)[2]
           good == half <=> Rune = Head(todo)[3]
       IN  \/ ~good /\ Failing(TRUE)
           \/ /\ good
              /\ odd' = IF half THEN odd ELSE odd \cup {"unterminated"}
              /\ todo' = <<ReadText>> \o Tail(todo)
              /\ UNCHANGED <<message, vals, outcome>>
    /\ UNCHANGED text

ParseText ==
    /\ \/ ReadTextRune \/ TextBrace \/ TextBackslash \/ TextAfterCR \/ TextRune \/ TextComment
       \/ CloseTag
       \/ SkipShebang /\ UNCHANGED <<message, vals, text>>
    /\ taken' = IF Running({"text"}) /\ c = LBRACE /\ Rune = LBRACE THEN Append(taken, LBRACE) ELSE taken
    /\ UNCHANGED <<source, tokens, lex, built>>

-----------------------------------------------------------------------------
(* THE SPECIFICATION *)

(* The functions have all returned.                                        *)
Return == /\ outcome = "running" /\ lex = Idle /\ todo = <<>> /\ outcome' = "script"
          /\ UNCHANGED <<lexerVars, todo, vals, built, text, taken>>

Next == PeekToken \/ expect_token \/ Parse \/ MakeNode \/ Overflow \/ Decide \/ ParseText \/ Return

Spec == Init /\ [][Next]_vars

-----------------------------------------------------------------------------
(* PROPERTIES *)

(* A template changes from tags to text without losing input: when a rune  *)
(* of text is read no token waits that was read in a tag, and no rune is   *)
(* text twice or out of order.  This is so unless an expression was left   *)
(* open, runes were pushed back out of order, or a rune was repeated.      *)
TextIsVerbatim ==
    /\ Running({"read", "text", "comment"}) /\ "unterminated" \notin odd => tokens = <<>>
    /\ odd \cap {"swapped", "repeated"} = {} => \A i \in 1 .. Len(text) - 1 : text[i] < text[i + 1]

(* A script that is not compiled leaves a message that says why, and one   *)
(* that is leaves none, unless the if of an else if failed unnoticed.      *)
OutcomeIsExplained ==
    /\ outcome = "null" => message
    /\ outcome = "script" /\ "unchecked" \notin odd => ~message

(* Every binary operator has the operands the grammar in the comments of   *)
(* the parse functions gives it: on its left nothing that holds together   *)
(* less tightly than itself, on its right nothing that does not hold       *)
(* together more tightly.                                                  *)
Grouping ==
    LET l == Level(built.op) IN
    4 <= l /\ l < Len(Binding) =>
        /\ built.operands[1] >= l
        /\ built.operands[2] > l

(* The tokens of a script that is compiled, read from the left: every      *)
(* bracket is closed by its own kind, and every end names the statement    *)
(* that was begun last.  An arrow replaces the end of a function, and the  *)
(* if of an else if has none of its own.                                   *)
Opens == [if |-> "if", while |-> "while", for |-> "for", try |-> "try", function |-> "function"]
         @@ ("(" :> ")") @@ ("[" :> "]") @@ (LBRACE :> RBRACE)
Reading[i \in Nat] ==
    IF i = 0 THEN <<>>
    ELSE LET open == Reading[i - 1]
             t    == taken[i]
             before(ts) == i > 1 /\ taken[i - 1] \in ts
         IN  CASE before({"end"})                      -> IF open # <<>> /\ Head(open) = t
                                                          THEN Tail(open) ELSE <<"wrong">> \o open
               [] t = "if" /\ before({"else"})         -> open
               [] t \in DOMAIN Opens                   -> <<Opens[t]>> \o open
               [] t \in {")", "]", RBRACE}             -> IF open # <<>> /\ Head(open) = t
                                                          THEN Tail(open) ELSE <<"wrong">> \o open
               [] t = "=>"                             -> Tail(open)
               [] OTHER                                -> open
BlocksAreClosed == outcome = "script" /\ odd \cap {"unchecked", "unterminated"} = {}
                   => Reading[Len(taken)] = <<>>

(* What Compile() returns is explained, and what it accepts is well formed.*)
OutcomeIsRight == OutcomeIsExplained /\ BlocksAreClosed
=============================================================================
