-------------------------------- MODULE Lexer --------------------------------
(***************************************************************************)
(* src/lexer.c: lexer_next_token turns a text into tokens, one per call.   *)
(*                                                                         *)
(* A text is a string, the C array without its final '\0'; positions count *)
(* from 0 as in C.  A token names its text by where it begins and how long *)
(* it is: Token.value is a pointer to that place.  The indentation fields  *)
(* of the Lexer struct are left out: they are initialised and never read.  *)
(***************************************************************************)
EXTENDS Integers, Sequences, FiniteSets, Loops

CONSTANT Texts   \* inputs to lex

NUL == ""
Quote == "\""

\* A text is a number of characters, none of them the '\0' that ends it.
ASSUME TextsAssumption ==
  \A t \in Texts : Len(t) \in Nat /\ \A i \in 1..Len(t) : SubSeq(t, i, i) # NUL

VARIABLES input,  \* lexer->input
          lexer,  \* lexer->pos, lexer->line and lexer->column
          token,  \* the token returned last
          calls   \* parity of the calls so far: each call changes it

vars == <<input, lexer, token, calls>>

\* isspace, isdigit, isxdigit, and isalpha with '_'.  A TLA+ string cannot hold
\* the vertical tab, which isspace treats like the form feed.
Space     == {" ", "\t", "\n", "\r", "\f"}
Digits    == {"0", "1", "2", "3", "4", "5", "6", "7", "8", "9"}
HexDigits == Digits \cup {"a", "b", "c", "d", "e", "f", "A", "B", "C", "D", "E", "F"}
Letters   == {"a", "b", "c", "d", "e", "f", "g", "h", "i", "j", "k", "l", "m", "n",
              "o", "p", "q", "r", "s", "t", "u", "v", "w", "x", "y", "z", "A", "B",
              "C", "D", "E", "F", "G", "H", "I", "J", "K", "L", "M", "N", "O", "P",
              "Q", "R", "S", "T", "U", "V", "W", "X", "Y", "Z", "_"}

\* What the Lexer struct can be.
Lexers == [pos : 0..Len(input), line : Nat \ {0}, column : Nat]

\* The character k places after lexer->current, which itself is Char(l, 0).
Char(l, k) == LET i == l.pos + k + 1
              IN  IF i <= Len(input) THEN SubSeq(input, i, i) ELSE NUL

\* An advance that counts the columns on over the end of a line.
AdvanceOneLine(l) ==
  [pos    |-> IF Char(l, 0) = NUL THEN l.pos ELSE l.pos + 1,
   line   |-> IF Char(l, 0) = "\n" THEN l.line + 1 ELSE l.line,
   column |-> l.column + 1]

\* lexer_advance
Advance(l) ==
  [pos    |-> IF Char(l, 0) = NUL THEN l.pos ELSE l.pos + 1,
   line   |-> IF Char(l, 0) = "\n" THEN l.line + 1 ELSE l.line,
   column |-> IF Char(l, 0) = "\n" THEN 0 ELSE l.column + 1]

Twice(l) == Advance(Advance(l))

\* Loops around lexer_advance, as far as a character of a set or another one.
Forward == [k \in Lexers |-> Advance(k)]

AdvanceWhile(l, set) == While({k \in Lexers : Char(k, 0) \in set}, Forward, l)

-----------------------------------------------------------------------------
(* Blanks *)

ToLineEnd(l) == While({k \in Lexers : Char(k, 0) \notin {"\n", NUL}}, Forward, l)

AtCommentEnd(k) == Char(k, 0) = "*" /\ Char(k, 1) = "/"

\* A comment without an end is taken to the end of the text.
ToCommentEnd(l) ==
  LET end == While({k \in Lexers : Char(k, 0) # NUL /\ ~AtCommentEnd(k)}, Forward, l)
  IN  IF AtCommentEnd(end) THEN Twice(end) ELSE end

AtComment(l) == Char(l, 0) = "/" /\ Char(l, 1) \in {"/", "*"}

SkipComment(l) == IF Char(l, 1) = "/" THEN ToLineEnd(l) ELSE ToCommentEnd(Twice(l))

\* Blanks up to the first comment only.
SkipBlankOnce(l) ==
  LET s == AdvanceWhile(l, Space)
  IN  IF AtComment(s) THEN AdvanceWhile(SkipComment(s), Space) ELSE s

SkipBlank(l) ==
  While({k \in Lexers : AtComment(k)},
        [k \in Lexers |-> AdvanceWhile(SkipComment(k), Space)],
        AdvanceWhile(l, Space))

-----------------------------------------------------------------------------
(* Tokens *)

\* From inside a string to its closing quote; '\' takes the next character along.
ToStringEnd(l) ==
  While({k \in Lexers : Char(k, 0) \notin {Quote, NUL}},
        [k \in Lexers |-> IF Char(k, 0) = "\\" /\ Char(k, 1) # NUL
                          THEN Twice(k) ELSE Advance(k)],
        l)

\* A hexadecimal number that ends where a decimal one would.
ToNumberEndDecimal(l) ==
  IF Char(l, 0) = "0" /\ Char(l, 1) \in {"x", "X"} THEN AdvanceWhile(Twice(l), Digits)
  ELSE IF Char(l, 0) = "0" /\ Char(l, 1) \in {"b", "B"} THEN AdvanceWhile(Twice(l), {"0", "1"})
  ELSE AdvanceWhile(l, Digits)

ToNumberEnd(l) ==
  IF Char(l, 0) = "0" /\ Char(l, 1) \in {"x", "X"} THEN AdvanceWhile(Twice(l), HexDigits)
  ELSE IF Char(l, 0) = "0" /\ Char(l, 1) \in {"b", "B"} THEN AdvanceWhile(Twice(l), {"0", "1"})
  ELSE AdvanceWhile(l, Digits)

\* A function from a set of pairs.
Table(pairs) == [s \in {p[1] : p \in pairs} |-> (CHOOSE p \in pairs : p[1] = s)[2]]

\* lexer_keyword_type
Keywords ==
  Table({<<"fn", "FN">>, <<"mut", "MUT">>, <<"proc", "PROC">>, <<"func", "FUNC">>,
         <<"var", "VAR">>, <<"let", "LET">>, <<"return", "RETURN">>,
         <<"if", "IF">>, <<"else", "ELSE">>, <<"while", "WHILE">>,
         <<"for", "FOR">>, <<"in", "IN">>, <<"true", "TRUE">>,
         <<"false", "FALSE">>, <<"u8", "U8">>, <<"u16", "U16">>, <<"u32", "U32">>,
         <<"u64", "U64">>, <<"i8", "I8">>, <<"i16", "I16">>, <<"i32", "I32">>,
         <<"i64", "I64">>, <<"void", "VOID">>, <<"peripheral", "PERIPHERAL">>,
         <<"register", "REGISTER">>, <<"field", "FIELD">>, <<"ro", "RO">>,
         <<"wo", "WO">>, <<"rw", "RW">>, <<"w1c", "W1C">>})

WordType(word) == IF word \in DOMAIN Keywords THEN Keywords[word] ELSE "IDENTIFIER"

\* The spellings the switch of lexer_next_token reaches.
Spellings ==
  {<<"+", "PLUS">>, <<"+=", "PLUS_ASSIGN">>, <<"-", "MINUS">>,
   <<"-=", "MINUS_ASSIGN">>, <<"->", "ARROW">>, <<"*", "STAR">>,
   <<"/", "SLASH">>, <<"%", "PERCENT">>, <<"&", "AND">>,
   <<"&=", "AND_ASSIGN">>, <<"|", "OR">>, <<"|=", "OR_ASSIGN">>,
   <<"^", "XOR">>, <<"^=", "XOR_ASSIGN">>, <<"~", "NOT">>, <<"!", "NOT">>,
   <<"!=", "NE">>, <<"<", "LT">>, <<"<<", "LSHIFT">>, <<"<<<", "LROTATE">>,
   <<"<=", "LE">>, <<">", "GT">>, <<">>", "RSHIFT">>, <<">>>", "RROTATE">>,
   <<">=", "GE">>, <<"=", "ASSIGN">>, <<"==", "EQ">>, <<"(", "LPAREN">>,
   <<")", "RPAREN">>, <<"{", "LBRACE">>, <<"}", "RBRACE">>,
   <<"[", "LBRACKET">>, <<"]", "RBRACKET">>, <<":", "COLON">>,
   <<";", "SEMICOLON">>, <<",", "COMMA">>, <<".", "DOT">>, <<"@", "AT">>}

Operators == Table(Spellings)

\* The switch and its nested tests: an operator grows while it has a longer
\* spelling with the next character.
Longer(o) == o.spelling \o Char(o.end, 0)
Operator(l) ==
  LET parts == [end : Lexers, spelling : {""} \cup DOMAIN Operators]
  IN  While({o \in parts : Char(o.end, 0) # NUL /\ Longer(o) \in DOMAIN Operators},
            [o \in parts |-> [end |-> Advance(o.end), spelling |-> Longer(o)]],
            [end |-> l, spelling |-> ""])

\* What a call returns: the lexer behind the token, and the token.
Returned(end, type, first, at, length) ==
  [lexer |-> end,
   token |-> [type |-> type, at |-> at, length |-> length,
              line |-> first.line, column |-> first.column]]

\* A string token whose length still counts the opening quote.
StringTokenLong(l) ==
  LET end == ToStringEnd(Advance(l))
  IN  Returned(IF Char(end, 0) = Quote THEN Advance(end) ELSE end,
               "STRING", l, l.pos + 1, end.pos - l.pos)

StringToken(l) ==
  LET end == ToStringEnd(Advance(l))
  IN  Returned(IF Char(end, 0) = Quote THEN Advance(end) ELSE end,
               "STRING", l, l.pos + 1, end.pos - (l.pos + 1))

NumberToken(l) == LET end == ToNumberEnd(l)
                  IN  Returned(end, "NUMBER", l, l.pos, end.pos - l.pos)

WordToken(l) == LET end == AdvanceWhile(l, Letters \cup Digits)
                IN  Returned(end, WordType(SubSeq(input, l.pos + 1, end.pos)),
                             l, l.pos, end.pos - l.pos)

\* An operator token that consumes nothing if it is none.
OperatorTokenStuck(l) ==
  LET op == Operator(l)
  IN  IF op.spelling = ""
      THEN Returned(l, "ERROR", l, l.pos, 0)
      ELSE Returned(op.end, Operators[op.spelling], l, l.pos, op.end.pos - l.pos)

\* A character that begins no token is consumed as an ERROR token of length 0.
OperatorToken(l) ==
  LET op == Operator(l)
  IN  IF op.spelling = ""
      THEN Returned(Advance(l), "ERROR", l, l.pos, 0)
      ELSE Returned(op.end, Operators[op.spelling], l, l.pos, op.end.pos - l.pos)

\* A call that consumes something at the end, too.
LexPastEof(l) ==
  LET s == SkipBlank(l)
  IN  IF Char(s, 0) = NUL             THEN Returned(Advance(s), "EOF", s, s.pos, 0)
      ELSE IF Char(s, 0) = Quote      THEN StringToken(s)
      ELSE IF Char(s, 0) \in Digits   THEN NumberToken(s)
      ELSE IF Char(s, 0) \in Letters  THEN WordToken(s)
      ELSE OperatorToken(s)

\* lexer_next_token
Lex(l) ==
  LET s == SkipBlank(l)
  IN  IF Char(s, 0) = NUL             THEN Returned(s, "EOF", s, s.pos, 0)
      ELSE IF Char(s, 0) = Quote      THEN StringToken(s)
      ELSE IF Char(s, 0) \in Digits   THEN NumberToken(s)
      ELSE IF Char(s, 0) \in Letters  THEN WordToken(s)
      ELSE OperatorToken(s)

-----------------------------------------------------------------------------
\* lexer_create
Init == /\ input \in Texts
        /\ lexer = [pos |-> 0, line |-> 1, column |-> 0]
        /\ token = [type |-> "none"]
        /\ calls = 0

\* A caller asks for tokens as long as it likes, also after EOF.
NextToken == /\ LET r == Lex(lexer) IN lexer' = r.lexer /\ token' = r.token
             /\ calls' = 1 - calls
             /\ UNCHANGED input

Next == NextToken

Spec == Init /\ [][Next]_vars

\* The token pass of main.c calls until it has EOF, and a call is not blocked
\* by anything.
Ask == token.type # "EOF" /\ calls' = 1 - calls
FairSpec == Spec /\ WF_calls(Ask)

-----------------------------------------------------------------------------
(* Properties *)

TypeOK == /\ lexer.pos \in 0..Len(input)
          /\ lexer.line \in Nat \ {0} /\ lexer.column \in Nat
          /\ token.type # "none" => /\ token.at \in 0..Len(input)
                                    /\ token.length \in 0..Len(input) - token.at

Newlines(p) == {i \in 1..p : SubSeq(input, i, i) = "\n"}

\* The line and the column of position p: how many ends of lines are before it,
\* and how many characters behind the last of them.
IsPlace(line, column, p) ==
  /\ line = 1 + Cardinality(Newlines(p))
  /\ \/ column = p /\ Newlines(p) = {}
     \/ p - column \in Newlines(p) /\ Newlines(p) \cap (p - column + 1)..p = {}

\* The counters that lexer_advance keeps on its way through blanks, comments,
\* strings and tokens agree with the position, and a token carries the line and
\* the column of its first character (of its quote, if it is a string).
PositionsAreRight ==
  /\ IsPlace(lexer.line, lexer.column, lexer.pos)
  /\ token.type # "none" =>
       IsPlace(token.line, token.column, IF token.type = "STRING" THEN token.at - 1 ELSE token.at)

\* After EOF lexer_next_token gives the same EOF for ever: the parser looks one
\* token ahead and goes on asking.
EofIsFinal == [][token.type = "EOF" => UNCHANGED <<lexer, token>>]_vars

\* A caller that asks on and on comes to the EOF of every text.
ReachesEof == <>(token.type = "EOF")
=============================================================================
