--------------------------------- MODULE Ast ---------------------------------
(***************************************************************************)
(* src/ast.c: the tree that the parser builds, what of the text it refers  *)
(* to, and how many objects the constructors make while tokens are parsed  *)
(* and ast_free_program frees of the tree that came of it.  What is made   *)
(* is counted from the tokens that are consumed, what is freed from the    *)
(* tree.                                                                   *)
(*                                                                         *)
(* A Type is counted by itself, every other node as an object, and the     *)
(* array of the arguments of a call with its node.  The arrays of the      *)
(* other nodes grow with them and are left out.                            *)
(***************************************************************************)
EXTENDS Parser, SequencesExt

\* The sum of a sequence: a loop over an array.
Total(counts) ==
  LET upto[k \in 0..Len(counts)] == IF k = 0 THEN 0 ELSE upto[k - 1] + counts[k]
  IN  upto[Len(counts)]

-----------------------------------------------------------------------------
(* Trees *)

\* A node without nodes below it, and one above nodes of a set.
Leaves ==
  {NullNode} \cup [kind : {"number", "identifier", "boolean"}, at : Nat]
             \cup [kind : {"field"}, name : Nat, start : Nat, end : Nat, access : AccessKinds]
Above(nodes) ==
  [kind : {"unary"}, op : STRING, operand : nodes]
  \cup [kind : {"binary"}, op : STRING, left : nodes, right : nodes]
  \cup [kind : {"call"}, func : nodes, args : Seq(nodes)]
  \cup [kind : {"var"}, name : Nat, type : Nat, mut : BOOLEAN, init : nodes]
  \cup [kind : {"expr"}, expr : nodes]
  \cup [kind : {"return"}, value : nodes]
  \cup [kind : {"block", "program"}, head : {<<>>}, kids : Seq(nodes)]
  \cup [kind : {"function"}, head : [name : Nat, type : TypeNames], kids : Seq(nodes)]
  \cup [kind : {"register"}, head : [name : Nat, type : TypeNames, offset : Nat], kids : Seq(nodes)]
  \cup [kind : {"peripheral"}, head : [name : Nat, base : Nat], kids : Seq(nodes)]

\* The trees with at most so many nodes below each other.
Trees[height \in Nat] ==
  IF height = 0 THEN Leaves ELSE Leaves \cup Above(Trees[height - 1])

\* No tree is higher than its text is long, but for the nodes that no token makes.
Height(tokens) == Len(tokens) + 3

-----------------------------------------------------------------------------
(* What a tree refers to *)

\* A place of the text, and what it is kept for.
Ref(role, at) == [role |-> role, at |-> at]

\* The references of a node, with refs those of the nodes below it.
AllRefs(refs, nodes) == FlattenSeq([k \in 1..Len(nodes) |-> refs[nodes[k]]])

RefsOf(refs, n) ==
  CASE n.kind = "null"   -> <<>>
    [] n.kind \in {"number", "identifier", "boolean"} -> <<Ref(n.kind, n.at)>>
    [] n.kind = "field"  -> <<Ref("field", n.name), Ref("low", n.start), Ref("high", n.end)>>
    [] n.kind = "unary"  -> refs[n.operand]
    [] n.kind = "binary" -> refs[n.left] \o refs[n.right]
    [] n.kind = "call"   -> refs[n.func] \o AllRefs(refs, n.args)
    [] n.kind = "var"    -> <<Ref("variable", n.name), Ref("type", n.type)>> \o refs[n.init]
    [] n.kind = "expr"   -> refs[n.expr]
    [] n.kind = "return" -> refs[n.value]
    [] n.kind \in {"block", "program"} -> AllRefs(refs, n.kids)
    [] n.kind = "function"   -> <<Ref("function", n.head.name)>> \o AllRefs(refs, n.kids)
    [] n.kind = "register"   -> <<Ref("register", n.head.name), Ref("address", n.head.offset)>>
                                \o AllRefs(refs, n.kids)
    [] n.kind = "peripheral" -> <<Ref("peripheral", n.head.name), Ref("address", n.head.base)>>
                                \o AllRefs(refs, n.kids)

\* The places that a tree up to a height refers to, from left to right.
Frontier(height, n) ==
  LET refs[t \in Trees[height]] == RefsOf(refs, t) IN refs[n]

\* What the text has a name, a literal or the type of a declaration for.
RoleAt(tokens, i) ==
  LET behind == IF i = 1 THEN "EOF" ELSE tokens[i - 1]
  IN  CASE behind = "PERIPHERAL"                      -> "peripheral"
        [] behind = "REGISTER"                        -> "register"
        [] behind = "FIELD"                           -> "field"
        [] behind \in FunctionWords                   -> "function"
        [] behind \in {"LET", "VAR"}                  -> "variable"
        [] behind = "AT"                              -> "address"
        [] behind = "LBRACKET"                        -> "low"
        [] behind = "COLON"  /\ tokens[i] = "NUMBER"  -> "high"
        [] behind = "COLON"  /\ tokens[i] # "NUMBER"  -> "type"
        [] OTHER -> CASE tokens[i] = "NUMBER"     -> "number"
                      [] tokens[i] = "IDENTIFIER" -> "identifier"
                      [] OTHER                    -> "boolean"

\* A type is kept by index in a declaration only.
IsReferred(tokens, i) ==
  \/ tokens[i] \in {"IDENTIFIER", "NUMBER", "TRUE", "FALSE"}
  \/ i > 3 /\ tokens[i] \in TypeNames /\ tokens[i - 3] \in {"LET", "VAR"}

\* The references in the tokens i..j - 1 of a text.
RefAt(tokens, i) == IF IsReferred(tokens, i) THEN <<Ref(RoleAt(tokens, i), i)>> ELSE <<>>
Referred(tokens, i, j) == FlattenSeq([k \in 1..j - i |-> RefAt(tokens, i + k - 1)])

\* An accepted program has every name and every literal of its source in its
\* tree, in the role it has there, once and in the order of the source: no
\* construct is lost, doubled or reordered on its way through the ast_*_add_*
\* calls.
NothingLost ==
  Accepted => Frontier(Height(cursor.src), program) =
                Referred(cursor.src, 1, Len(cursor.src) + 1)

-----------------------------------------------------------------------------
(* What is made *)

\* What parser_parse_primary to parser_parse_bitwise_or make a node of.
NodeTokens == {"NUMBER", "IDENTIFIER", "TRUE", "FALSE", "MINUS", "NOT", "XOR", "STAR",
               "SLASH", "PERCENT", "PLUS", "LSHIFT", "RSHIFT", "LT", "GT", "LE", "GE",
               "EQ", "NE", "AND", "OR"}

\* The objects made at token k of an expression that begins at token i: one for
\* a name, literal or operator, and two for a call, the node and its array.
ObjectsAt(tokens, i, k) ==
  CASE tokens[k] \in NodeTokens -> 1
    [] tokens[k] = "LPAREN" /\ k > i /\ tokens[k - 1] = "IDENTIFIER" -> 2
    [] OTHER -> 0

\* Those for the tokens i..j - 1.
ExprObjects(tokens, i, j) == Total([k \in 1..j - i |-> ObjectsAt(tokens, i, i + k - 1)])

\* A statement of let or var has its expression behind the '='.
ExprStart(tokens, i, j) ==
  IF tokens[i] \in {"LET", "VAR"}
  THEN CHOOSE k \in i + 1..j : /\ k = j \/ tokens[k - 1] = "ASSIGN"
                               /\ \A m \in i..k - 2 : tokens[m] # "ASSIGN"
  ELSE i

\* A declaration makes its Type before it knows that it is one.
DeclaredTypes(tokens, i, j) == Total([k \in 1..j - i |-> IF tokens[i + k - 1] \in TypeNames
                                                         THEN 1 ELSE 0])

-----------------------------------------------------------------------------
(* What is freed *)

\* What the loops free of the nodes of an array, with freed what is freed of each.
AllFreed(freed, nodes) == Total([k \in 1..Len(nodes) |-> freed[nodes[k]]])

\* ast_free_expr of a call: the node, its array, and all below it.
FreedCall(freed, n) == 2 + freed[n.func] + AllFreed(freed, n.args)

\* ast_free_expr, ast_free_stmt, ast_peripheral_free and ast_free_program.
FreedOf(freed, n) ==
  CASE n.kind = "null"   -> 0
    [] n.kind = "unary"  -> 1 + freed[n.operand]
    [] n.kind = "binary" -> 1 + freed[n.left] + freed[n.right]
    [] n.kind = "call"   -> FreedCall(freed, n)
    [] n.kind = "var"    -> 1 + freed[n.init]
    [] n.kind = "expr"   -> 1 + freed[n.expr]
    [] n.kind = "return" -> 1 + freed[n.value]
    [] n.kind \in {"block", "function", "register", "peripheral", "program"} ->
         1 + AllFreed(freed, n.kids)
    [] n.kind \in {"number", "identifier", "boolean", "field"} -> 1

FreedObjects(height, n) ==
  LET freed[t \in Trees[height]] == FreedOf(freed, t) IN freed[n]

\* The return type of a function is not freed with it.
FreedTypesOf(freed, n) ==
  CASE n.kind \in {"block", "function", "peripheral", "program"} -> AllFreed(freed, n.kids)
    [] n.kind \in {"var", "register"}                            -> 1
    [] OTHER                                                     -> 0

FreedTypes(height, n) ==
  LET freed[t \in Trees[height]] == FreedTypesOf(freed, t) IN freed[n]
=============================================================================
