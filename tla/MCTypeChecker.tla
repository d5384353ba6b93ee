--------------------------- MODULE MCTypeChecker -----------------------------
(***************************************************************************)
(* The type checker on all programs of a small shape, and on pairs of them *)
(* in one context, compared with the typing rules; and on a program as the *)
(* parser hands it over.                                                   *)
(***************************************************************************)
EXTENDS TypeChecker, SequencesExt

Leaf(kind)           == [kind |-> kind]
Var(n)               == [kind |-> "identifier", name |-> n]
Unary(e)             == [kind |-> "unary", operand |-> e]
Binary(op, l, r)     == [kind |-> "binary", op |-> op, left |-> l, right |-> r]
Slice(e, start, end) == [kind |-> "bit_slice", expr |-> e, start |-> start, end |-> end]

Let(n, t, e)  == [kind |-> "var", name |-> n, type |-> t, mut |-> FALSE, init |-> e]
Mut(n, t, e)  == [kind |-> "var", name |-> n, type |-> t, mut |-> TRUE, init |-> e]
Return(e)     == [kind |-> "return", value |-> e]
Expr(e)       == [kind |-> "expr", expr |-> e]
Block(stmts)  == [kind |-> "block", stmts |-> stmts]

Number == Leaf("number")
Nothing == Leaf("null")
XIsNumber == Binary("EQ", Var("x"), Number)

Initial  == {Number, Var("x"), XIsNumber, Nothing}
Returned == {Nothing, Number, Var("f"), Slice(Var("x"), 4, 12)}
Alone    == {Nothing, Leaf("call"), Unary(Var("y")), Binary("ADD", Leaf("boolean"), Var("x")),
             Slice(Var("x"), 12, 4), Slice(Number, 4, 4), Slice(Leaf("boolean"), 0, 40)}

\* The expressions of the programs; no part of one has parts.
Whole   == Initial \cup Returned \cup Alone
MCExprs == Whole \cup UNION {Parts(e) : e \in Whole}
MCSize(e) == IF Parts(e) = {} THEN 0 ELSE 1

Simple == {Let(n, t, e) : n \in {"x", "y"}, t \in {"u8", "u32"}, e \in Initial}
          \cup {Mut("y", "u8", Nothing), Leaf("if")}
          \cup {Return(e) : e \in Returned} \cup {Expr(e) : e \in Alone}

Items  == Simple \cup {Block(<<s>>) : s \in Simple} \cup {Block(<<>>)}
Bodies == {<<>>} \cup {<<i>> : i \in Items} \cup {<<i, j>> : i, j \in Items}

Param(n, t) == [name |-> n, type |-> t]
Params      == {<<>>, <<Param("x", "u32")>>, <<Param("y", "u8"), Param("y", "u8")>>}

Function(n, t, params, stmts) == [name |-> n, type |-> t, params |-> params,
                                  body |-> Block(stmts)]

\* One function of every kind; two functions, of one name or not; deep blocks.
MCPrograms ==
  {<<Function("f", t, params, b)>> : t \in {"u8", "u32"}, params \in Params, b \in Bodies}
  \cup {<<Function("f", "void", <<>>, <<i>>), Function(n, t, params, <<j>>)>> :
          n \in {"f", "x"}, t \in {"u32", "void"}, params \in Params, i, j \in Simple}
  \cup {<<Function("f", "u32", <<>>, <<Block(<<i, Block(<<j, k>>)>>)>>)>> :
          i, j, k \in {Let("x", "u32", Number), Let("x", "u8", XIsNumber),
                       Let("y", "u8", Var("x")), Return(Var("x")), Leaf("while"),
                       Leaf("null")}}

\* Programs that use and leave functions, right ones and wrong ones.
Reused == {<<>>} \cup
  {<<Function(n, "u32", <<>>, <<i>>)>> : n \in {"f", "x"},
     i \in {Return(Number), Return(Var("f")), Return(Var("x")), Let("x", "u8", Number)}}
  \cup {<<Function("y", "u8", <<Param("x", "u32"), Param("x", "u8")>>, <<>>)>>}

MCSessions == {<<p>> : p \in MCPrograms} \cup {<<p, q>> : p, q \in Reused}
              \cup {<<p, q, <<>>>> : p, q \in Reused}

\* The statements of the sessions, at every depth.
RECURSIVE Within(_)
Within(s) == {s} \cup (IF s.kind # "block" THEN {}
                       ELSE UNION {Within(s.stmts[i]) : i \in DOMAIN s.stmts})
Statements == UNION {UNION {UNION {Within(p[k].body) : k \in DOMAIN p} : p \in ToSet(q)}
                       : q \in Sessions}

\* The sessions are such as the proofs are about.
ASSUME SessionsAssumption == SessionsOver(Statements)

MCNames == {"f", "x", "y"}
MCTypes == {"u8", "u32", "void"}

-----------------------------------------------------------------------------
(* The typing rules: what it means that an expression has a type, and that *)
(* a list of statements is right where the names have the types env and    *)
(* the names own are declared in the same block already.                   *)

\* The smallest unsigned type of a slice.
Fits(t, width) == CASE t = "u8"  -> width \in 1..8
                    [] t = "u16" -> width \in 9..16
                    [] t = "u32" -> width \in 17..32
                    [] t = "u64" -> width > 32
                    [] OTHER     -> FALSE

AnyType == IntegerTypes \cup {"void"}

RECURSIVE HasType(_, _, _), Right(_, _, _, _)

HasType(env, e, t) ==
  CASE e.kind = "number"     -> t = "u32"
    [] e.kind = "boolean"    -> t = "u8"
    [] e.kind = "identifier" -> t = env[e.name]
    [] e.kind = "unary"      -> HasType(env, e.operand, t)
    [] e.kind = "binary" ->
         \E u \in AnyType : /\ HasType(env, e.left, u) /\ HasType(env, e.right, u)
                            /\ t = IF e.op \in Comparisons THEN "u8" ELSE u
    [] e.kind = "bit_slice" ->
         /\ \E u \in IntegerTypes : HasType(env, e.expr, u)
         /\ Fits(t, e.end - e.start)
    [] OTHER -> FALSE

Right(env, own, ret, stmts) ==
  stmts # <<>> =>
    LET s == Head(stmts)
        Declared == Right([env EXCEPT ![s.name] = s.type], own \cup {s.name}, ret, Tail(stmts))
    IN  CASE s.kind = "var" ->
               /\ s.name \notin own
               /\ IF s.init = Nothing THEN s.mut ELSE HasType(env, s.init, s.type)
               /\ Declared
          [] s.kind = "expr" ->
               /\ s.expr = Nothing \/ \E t \in AnyType : HasType(env, s.expr, t)
               /\ Right(env, own, ret, Tail(stmts))
          [] s.kind = "return" ->
               /\ s.value = Nothing \/ HasType(env, s.value, ret)
               /\ Right(env, own, ret, Tail(stmts))
          [] s.kind = "block" ->
               /\ Right(env, {}, ret, s.stmts)
               /\ Right(env, own, ret, Tail(stmts))
          [] OTHER -> Right(env, own, ret, Tail(stmts))

\* The functions a program of the session can use: its own and those of the
\* programs before it.
Known(k) == FlattenSeq(SubSeq(session, 1, k))

\* Of several declarations of a name any will do: such a session is wrong.
TypeAmong(list, n, otherwise) ==
  LET of == {i \in 1..Len(list) : list[i].name = n}
  IN  IF of = {} THEN otherwise ELSE list[CHOOSE i \in of : TRUE].type

WithParams(k, params) ==
  [n \in Names |-> TypeAmong(params, n, TypeAmong(Known(k), n, "undefined"))]

AllDistinct(list) == \A i, j \in 1..Len(list) : list[i].name = list[j].name => i = j

\* All programs so far follow the rules, each with the functions known to it.
WellTyped ==
  /\ AllDistinct(Known(turn))
  /\ \A k \in 1..turn : \A i \in 1..Len(session[k]) :
       LET f == session[k][i]
       IN  AllDistinct(f.params) /\ Right(WithParams(k, f.params), {}, f.type, <<f.body>>)

\* Slices that end before they begin; see RejectsInvertedSlices.
RECURSIVE HasInverted(_)
HasInverted(s) ==
  CASE s.kind = "block"  -> \E i \in 1..Len(s.stmts) : HasInverted(s.stmts[i])
    [] s.kind = "expr"   -> s.expr.kind = "bit_slice" /\ s.expr.end < s.expr.start
    [] OTHER             -> FALSE
Inverted == \E i \in 1..Len(program) : HasInverted(program[i].body)

\* check_program_types returns 1 if all programs that were checked in its
\* context so far satisfy the typing rules, and for no others: the functions of
\* the earlier programs are known to the later ones, and an error of an earlier
\* one is never forgiven.
AcceptsWellTyped == Done /\ ~Inverted => (ok <=> WellTyped)

\* The message "invalid bit slice range" of infer_expr_type: a slice whose end
\* lies before its start is an error.
RejectsInvertedSlices == Done /\ Inverted => ~ok

-----------------------------------------------------------------------------
(* A program as parser_parse_program hands it over.  The parser stores     *)
(* token.value, which points into the source text and ends where that text *)
(* ends: the name of a node is the rest of the source from there on.       *)

Source == "fn f() -> u32 { let x: u32 = 1; return x }"
NameAt(i) == SubSeq(Source, i, Len(Source))

\* The tree of Source, with the places of its names.
ParsedSessions ==
  {<<<<Function(NameAt(4), "u32", <<>>,
                <<Let(NameAt(21), "u32", Number), Return(Var(NameAt(40)))>>)>>>>}
ParsedNames == {NameAt(4), NameAt(21), NameAt(40)}
ParsedExprs == {Number, Var(NameAt(40))}

\* A variable that has been declared is found: the only program here is right.
FindsDeclaredVariables == Done => ok
=============================================================================
