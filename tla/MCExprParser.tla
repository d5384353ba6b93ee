---------------------------- MODULE MCExprParser -----------------------------
(***************************************************************************)
(* parser_parse_expression on every token sequence up to MaxLength over    *)
(* an alphabet with operators of three levels, prefixes, parentheses and   *)
(* calls, compared with the grammar.                                       *)
(***************************************************************************)
EXTENDS Expressions

G == INSTANCE Grammar

Parsed == Expression(Start(text))

\* parser_parse_expression uses up the whole text without an error exactly
\* if the text is an expression of the grammar.
AcceptsExpressions ==
  (Parsed.c.err = 0 /\ Parsed.c.pos = Len(text) + 1) <=> G!IsExpression(text)

\* The tree of an expression respects precedence, left associativity, the
\* prefixes' tighter binding, parentheses and the order of arguments.
TreeIsByPrecedence ==
  G!IsExpression(text) => Parsed.node = G!TreeOf(text, 1, Len(text))
=============================================================================
