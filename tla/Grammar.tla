------------------------------- MODULE Grammar -------------------------------
(***************************************************************************)
(* Reference definitions the parser is compared with: the language of the  *)
(* device files as a nondeterministic recogniser, and the tree of an       *)
(* expression read off its tokens by precedence.  Neither follows the      *)
(* control flow of src/parser.c.                                           *)
(*                                                                         *)
(* A recogniser maps the set of positions where a phrase may start to the  *)
(* set of positions just after it.                                         *)
(***************************************************************************)
EXTENDS Naturals, Sequences, FiniteSets, SequencesExt

TokenAt(s, i) == IF i \in DOMAIN s THEN s[i] ELSE "EOF"

\* One token out of a set; a fixed row of tokens; an optional token.
One(s, types, S) == {i + 1 : i \in {j \in S : TokenAt(s, j) \in types}}
Row(s, types, S) == FoldLeft(LAMBDA at, t : One(s, {t}, at), S, types)
Optional(s, types, S) == S \cup One(s, types, S)

TypeNames == {"U8", "U16", "U32", "U64", "I8", "I16", "I32", "I64", "VOID"}
BinaryOps == {"STAR", "SLASH", "PERCENT", "PLUS", "MINUS", "LSHIFT", "RSHIFT",
              "LT", "GT", "LE", "GE", "EQ", "NE", "AND", "XOR", "OR"}
PrefixOps == {"MINUS", "NOT", "XOR"}

-----------------------------------------------------------------------------
(* Expressions *)

RECURSIVE ExprEnds(_, _), ArgEnds(_, _), SignedStarts(_, _)

\* Any number of prefix operators.
SignedStarts(s, S) ==
  LET more == S \cup One(s, PrefixOps, S) IN IF more = S THEN S ELSE SignedStarts(s, more)

\* The starts of these sets only move right, so the recursion ends.
OperandEnds(s, S) ==
  LET P      == SignedStarts(s, S)
      called == Row(s, <<"IDENTIFIER", "LPAREN">>, P)
      nested == One(s, {"LPAREN"}, P)
  IN  One(s, {"NUMBER", "IDENTIFIER", "TRUE", "FALSE"}, P)
      \cup (IF nested = {} THEN {} ELSE One(s, {"RPAREN"}, ExprEnds(s, nested)))
      \cup (IF called = {} THEN {}
            ELSE One(s, {"RPAREN"}, called \cup ArgEnds(s, called)))

ExprEnds(s, S) ==
  LET first == OperandEnds(s, S)
      op    == One(s, BinaryOps, first)
  IN  IF op = {} THEN first ELSE first \cup ExprEnds(s, op)

ArgEnds(s, S) ==
  LET first == ExprEnds(s, S)
      comma == One(s, {"COMMA"}, first)
  IN  IF comma = {} THEN first ELSE first \cup ArgEnds(s, comma)

\* How tightly an operator binds.
Binding(op) == CASE op \in {"STAR", "SLASH", "PERCENT"} -> 8
                 [] op \in {"PLUS", "MINUS"}            -> 7
                 [] op \in {"LSHIFT", "RSHIFT"}         -> 6
                 [] op \in {"LT", "GT", "LE", "GE"}     -> 5
                 [] op \in {"EQ", "NE"}                 -> 4
                 [] op = "AND"                          -> 3
                 [] op = "XOR"                          -> 2
                 [] op = "OR"                           -> 1

\* Position i of s[lo..hi] is outside every parenthesis opened from lo on.
Outside(s, lo, i) == Cardinality({j \in lo..i - 1 : s[j] = "LPAREN"})
                     = Cardinality({j \in lo..i : s[j] = "RPAREN"})

\* The binary operators of an expression that no parenthesis encloses: an
\* operator token behind an operand, where it cannot be a prefix.
Splits(s, lo, hi) ==
  {i \in lo + 1..hi : /\ s[i] \in BinaryOps /\ Outside(s, lo, i)
                      /\ s[i - 1] \in {"NUMBER", "IDENTIFIER", "TRUE", "FALSE", "RPAREN"}}

RECURSIVE TreeOf(_, _, _), TreesOf(_, _, _)

\* The tree of the expression s[lo..hi]: its root is the loosest operator, of
\* several equally loose ones the rightmost.
TreeOf(s, lo, hi) ==
  LET splits == Splits(s, lo, hi)
      root   == CHOOSE i \in splits :
                  \A j \in splits \ {i} : \/ Binding(s[i]) < Binding(s[j])
                                        \/ (Binding(s[i]) = Binding(s[j]) /\ j < i)
      name   == [kind |-> "identifier", at |-> lo]
  IN  CASE splits # {} -> [kind |-> "binary", op |-> s[root],
                           left  |-> TreeOf(s, lo, root - 1),
                           right |-> TreeOf(s, root + 1, hi)]
        [] splits = {} /\ s[lo] \in PrefixOps ->
             [kind |-> "unary", op |-> s[lo], operand |-> TreeOf(s, lo + 1, hi)]
        [] splits = {} /\ s[lo] = "LPAREN" -> TreeOf(s, lo + 1, hi - 1)
        [] splits = {} /\ s[lo] = "IDENTIFIER" /\ lo < hi ->
             [kind |-> "call", func |-> name, args |-> TreesOf(s, lo + 2, hi - 1)]
        [] s[lo] = "IDENTIFIER" /\ lo = hi -> name
        [] s[lo] = "NUMBER" -> [kind |-> "number", at |-> lo]
        [] OTHER -> [kind |-> "boolean", at |-> lo]

\* The trees of the arguments s[lo..hi], which commas separate.
TreesOf(s, lo, hi) ==
  LET commas == {i \in lo..hi : s[i] = "COMMA" /\ Outside(s, lo, i)}
      first  == CHOOSE i \in commas : \A j \in commas : i <= j
  IN  IF lo > hi THEN <<>>
      ELSE IF commas = {} THEN <<TreeOf(s, lo, hi)>>
      ELSE <<TreeOf(s, lo, first - 1)>> \o TreesOf(s, first + 1, hi)

-----------------------------------------------------------------------------
(* Statements and functions *)

RECURSIVE StatementEnds(_, _), StatementsEnds(_, _)

\* A return without a value stands only before ';', '}' or the end.
ReturnEnds(s, S) ==
  LET ret == One(s, {"RETURN"}, S)
  IN  {i \in ret : TokenAt(s, i) \in {"SEMICOLON", "RBRACE", "EOF"}}
      \cup (IF ret = {} THEN {} ELSE ExprEnds(s, ret))

VarDeclEnds(s, S) ==
  LET name  == Row(s, <<"IDENTIFIER", "COLON">>, One(s, {"LET", "VAR"}, S))
      value == One(s, {"ASSIGN"}, One(s, TypeNames, name))
  IN  IF value = {} THEN {} ELSE ExprEnds(s, value)

\* Tokens that begin a statement of another form cannot begin an expression.
StatementEnds(s, S) ==
  LET block  == One(s, {"LBRACE"}, S)
      simple == VarDeclEnds(s, S) \cup ReturnEnds(s, S) \cup ExprEnds(s, S)
  IN  Optional(s, {"SEMICOLON"}, simple)
      \cup (IF block = {} THEN {} ELSE One(s, {"RBRACE"}, StatementsEnds(s, block)))

StatementsEnds(s, S) ==
  LET more == IF S = {} THEN {} ELSE S \cup StatementEnds(s, S)
  IN  IF more = S THEN S ELSE StatementsEnds(s, more)

FunctionEnds(s, S) ==
  LET name(kw, sep) == Row(s, <<"IDENTIFIER", "LPAREN", "RPAREN", sep>>, One(s, kw, S))
      type == One(s, TypeNames, name({"PROC", "FUNC"}, "COLON") \cup name({"FN"}, "ARROW"))
      body == One(s, {"ASSIGN"}, type)
  IN  IF type = {} THEN {}
      ELSE (IF body = {} THEN {} ELSE StatementEnds(s, body))
           \cup One(s, {"RBRACE"}, StatementsEnds(s, One(s, {"LBRACE"}, type)))

-----------------------------------------------------------------------------
(* Device definitions *)

RECURSIVE FieldsEnds(_, _), RegistersEnds(_, _), ItemsEnds(_, _)

FieldEnds(s, S) ==
  LET range == Row(s, <<"FIELD", "IDENTIFIER", "COLON", "LBRACKET", "NUMBER",
                        "COLON", "NUMBER", "RBRACKET">>, S)
  IN  Optional(s, {"SEMICOLON"}, Optional(s, {"RO", "WO", "RW", "W1C"}, range))

FieldsEnds(s, S) ==
  LET more == S \cup FieldEnds(s, S) IN IF more = S THEN S ELSE FieldsEnds(s, more)

RegisterEnds(s, S) ==
  LET name == Row(s, <<"REGISTER", "IDENTIFIER", "COLON">>, S)
      head == Row(s, <<"AT", "NUMBER", "LBRACE">>,
                  Optional(s, {"U8", "U16", "U32", "U64"}, name))
  IN  One(s, {"RBRACE"}, FieldsEnds(s, head))

RegistersEnds(s, S) ==
  LET more == S \cup RegisterEnds(s, S) IN IF more = S THEN S ELSE RegistersEnds(s, more)

PeripheralEnds(s, S) ==
  One(s, {"RBRACE"},
      RegistersEnds(s, Row(s, <<"PERIPHERAL", "IDENTIFIER", "AT", "NUMBER", "LBRACE">>, S)))

ItemsEnds(s, S) ==
  LET more == S \cup PeripheralEnds(s, S) \cup FunctionEnds(s, S)
  IN  IF more = S THEN S ELSE ItemsEnds(s, more)

\* The whole token sequence is a program.
InLanguage(s) == Len(s) + 1 \in ItemsEnds(s, {1})

\* The whole token sequence is one expression.
IsExpression(s) == Len(s) + 1 \in ExprEnds(s, {1})
=============================================================================
