----------------------------- MODULE ExprParser ------------------------------
(***************************************************************************)
(* The expression functions of src/parser.c (parser_parse_primary up to    *)
(* parser_parse_expression) as operators from a cursor to a cursor and an  *)
(* expression tree.  The eight parser_parse_<level> functions have one     *)
(* shape and are one operator, indexed by the level.                       *)
(*                                                                         *)
(* The C functions call each other.  Here parse stands for them: it is     *)
(* applied to what is to be parsed and where, and the operators say what   *)
(* the functions do with what it returns.                                  *)
(*                                                                         *)
(* A leaf of the tree holds the index of its token: the C node holds the   *)
(* pointer parser->current.value, which is that place in the source text.  *)
(***************************************************************************)
EXTENDS TokenCursor

\* Operators of each level, from the tightest binding to the loosest.
Levels == << {"STAR", "SLASH", "PERCENT"},
             {"PLUS", "MINUS"},
             {"LSHIFT", "RSHIFT"},
             {"LT", "GT", "LE", "GE"},
             {"EQ", "NE"},
             {"AND"},
             {"XOR"},
             {"OR"} >>

UnaryOps == {"MINUS", "NOT", "XOR"}

\* What parser_parse_primary knows how to begin with.
PrimaryTokens == {"NUMBER", "IDENTIFIER", "TRUE", "FALSE", "LPAREN"}

\* What a loop or a function is entered for: an operand made of operators up to
\* a level, the operators of a level behind their left operand, the arguments
\* of a call.
ToOperand(level, c)   == [what |-> "operand",   level |-> level, c |-> c]
ToOperators(level, c) == [what |-> "operators", level |-> level, c |-> c]
ToArguments(c)        == [what |-> "arguments", level |-> 0,     c |-> c]

Cursors(src) ==
  {c \in [src : {src}, pos : 1..Len(src) + 1, err : 0..Len(src) + 1] : c.err <= c.pos}

Goals(src) ==
  LET at == Cursors(src)
  IN  [what : {"operand"}, level : 0..Len(Levels), c : at]
      \cup [what : {"operators"}, level : 1..Len(Levels), c : at]
      \cup [what : {"arguments"}, level : {0}, c : at]

Leaf(kind, c) == [kind |-> kind, at |-> c.pos]

\* The operands joined from the last operator on: right-associative.
JoinedToTheRight(left, more) ==
  LET n == Len(more)
      operand(i) == IF i = 0 THEN left ELSE more[i].right
      tree[i \in 0..n] ==
        IF i = n THEN operand(n)
        ELSE [kind |-> "binary", op |-> more[i + 1].op, left |-> operand(i), right |-> tree[i + 1]]
  IN  tree[0]

\* left = ast_expr_binary_op(op, left, right), for every turn of the loop.
Joined(left, more) ==
  LET tree[i \in 0..Len(more)] ==
        IF i = 0 THEN left
        ELSE [kind |-> "binary", op |-> more[i].op, left |-> tree[i - 1], right |-> more[i].right]
  IN  tree[Len(more)]

\* The loop of a level: one operator and its right operand per turn.
Operators(parse, level, c) ==
  IF Current(c) \in Levels[level]
  THEN LET right == parse[ToOperand(level - 1, Advance(c))]
           more  == parse[ToOperators(level, right.c)]
       IN  Result(more.c, <<[op |-> Current(c), right |-> right.node]>> \o more.node)
  ELSE Result(c, <<>>)

\* parser_parse_multiplicative ... parser_parse_bitwise_or
Binary(parse, level, c) ==
  LET left == parse[ToOperand(level - 1, c)]
      more == parse[ToOperators(level, left.c)]
  IN  Result(more.c, Joined(left.node, more.node))

\* The argument list of a call, up to the ')' the caller expects.
Arguments(parse, c) ==
  LET arg  == parse[ToOperand(Len(Levels), c)]
      more == IF Current(arg.c) = "COMMA"
              THEN parse[ToArguments(Advance(arg.c))]
              ELSE Result(arg.c, <<>>)
  IN  Result(more.c, <<arg.node>> \o more.node)

\* A call that may lack its ')'.
CallAfterUnclosed(parse, ident, c) ==
  LET args == IF Current(c) = "RPAREN" THEN Result(c, <<>>) ELSE parse[ToArguments(c)]
  IN  Result(Match(args.c, "RPAREN"),
             [kind |-> "call", func |-> ident, args |-> args.node])

\* The call behind a name and its '('.
CallAfter(parse, ident, c) ==
  LET args == IF Current(c) = "RPAREN" THEN Result(c, <<>>) ELSE parse[ToArguments(c)]
  IN  Result(Expect(args.c, "RPAREN"),
             [kind |-> "call", func |-> ident, args |-> args.node])

Parenthesized(parse, c) ==
  LET inner == parse[ToOperand(Len(Levels), c)]
  IN  Result(Expect(inner.c, "RPAREN"), inner.node)

Primary(parse, c) ==
  LET next == Advance(c)
  IN  CASE Current(c) = "NUMBER" -> Result(next, Leaf("number", c))
        [] Current(c) = "IDENTIFIER" ->
             IF Current(next) = "LPAREN"
             THEN CallAfter(parse, Leaf("identifier", c), Advance(next))
             ELSE Result(next, Leaf("identifier", c))
        [] Current(c) \in {"TRUE", "FALSE"} -> Result(next, Leaf("boolean", c))
        [] Current(c) = "LPAREN" -> Parenthesized(parse, next)
        [] Current(c) \notin PrimaryTokens -> Result(Fail(c), NullNode)

Unary(parse, c) ==
  IF Current(c) \in UnaryOps
  THEN LET operand == parse[ToOperand(0, Advance(c))]
       IN  Result(operand.c, [kind |-> "unary", op |-> Current(c), operand |-> operand.node])
  ELSE Primary(parse, c)

\* The function or loop that is entered for a goal.
Reach(parse, goal) ==
  CASE goal.what = "operand" /\ goal.level = 0 -> Unary(parse, goal.c)
    [] goal.what = "operand" /\ goal.level > 0 -> Binary(parse, goal.level, goal.c)
    [] goal.what = "operators" -> Operators(parse, goal.level, goal.c)
    [] goal.what = "arguments" -> Arguments(parse, goal.c)

\* parser_parse_expression
Expression(c) ==
  LET parse[goal \in Goals(c.src)] == Reach(parse, goal)
  IN  parse[ToOperand(Len(Levels), c)]
=============================================================================
