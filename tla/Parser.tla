------------------------------- MODULE Parser --------------------------------
(***************************************************************************)
(* parser_parse_program of src/parser.c and the grammar functions below    *)
(* it, as a machine with an explicit call stack.  One action is one trip   *)
(* through the code between two tests of a loop condition: the head of a   *)
(* construct, one statement, one field, or the close of a construct.       *)
(*                                                                         *)
(* A frame of the stack is the AST node its function is building: the      *)
(* kids of a node are the statements of a block, the fields of a register, *)
(* the registers of a peripheral, the body of a function and the functions *)
(* and peripherals of a program (two arrays in C, one list here).          *)
(* Names and numbers are token indices: the C nodes keep token.value, a    *)
(* pointer to that place of the source, or the number read there.          *)
(*                                                                         *)
(* A loop that leaves the parser as it was turns for ever, and in C its    *)
(* node grows as long as memory lasts.  Here it is a cycle of states in    *)
(* which the node stays as it is; lap is the parity of the loop trips and  *)
(* changes even when all else is still.                                    *)
(***************************************************************************)
EXTENDS ExprParser

CONSTANT Inputs  \* token sequences the lexer may deliver

\* EOF is what comes behind the last token.
ASSUME InputsAssumption == Inputs \subseteq Seq(STRING \ {"EOF"})

VARIABLES cursor,   \* the Parser struct
          stack,    \* nodes under construction, the innermost first
          program,  \* what parser_parse_program returned, null before
          lap

vars == <<cursor, stack, program, lap>>

TypeNames     == {"U8", "U16", "U32", "U64", "I8", "I16", "I32", "I64", "VOID"}
RegisterTypes == {"U8", "U16", "U32", "U64"}
AccessKinds   == {"RO", "WO", "RW", "W1C"}
FunctionWords == {"PROC", "FUNC", "FN"}

Node(kind, head) == [kind |-> kind, head |-> head, kids |-> <<>>]

\* A node with other kids.
With(node, kids) == [kind |-> node.kind, head |-> node.head, kids |-> kids]

\* A caller that stores what it receives in front of what it has.
GiveInFront(node, frames) ==
  <<With(Head(frames), <<node>> \o Head(frames).kids)>> \o Tail(frames)

\* The caller, on top of frames, receives what the callee returned.
Give(node, frames) ==
  <<With(Head(frames), Append(Head(frames).kids, node))>> \o Tail(frames)

Top == Head(stack)
In(kind) == stack # <<>> /\ Top.kind = kind
Ahead == Current(cursor)

\* A loop over the contents of a braced construct goes on until one of these.
AtClose == Ahead \in {"RBRACE", "EOF"}

Step(c, frames) == /\ cursor'  = c
                   /\ stack'   = frames
                   /\ lap'     = 1 - lap

Init == /\ cursor \in {Start(tokens) : tokens \in Inputs}
        /\ stack   = <<Node("program", <<>>)>>
        /\ program = NullNode
        /\ lap     = 0

-----------------------------------------------------------------------------
(* parser_parse_statement *)

\* let and var.  Without a type or a '=' the statement is NULL.
VarDecl(c) ==
  LET named == Expect(Expect(Advance(c), "IDENTIFIER"), "COLON")
      typed == Advance(named)
      init  == Expression(Advance(typed))
  IN  IF Current(named) \in TypeNames /\ Current(typed) = "ASSIGN"
      THEN Result(Match(init.c, "SEMICOLON"),
                  [kind |-> "var", name |-> c.pos + 1, type |-> named.pos,
                   mut  |-> Current(c) = "VAR", init |-> init.node])
      ELSE Result(Fail(IF Current(named) \in TypeNames THEN typed ELSE named), NullNode)

\* A return that ends without a value before ';' only.
ReturnBeforeSemicolon(c) ==
  LET next  == Advance(c)
      value == IF Current(next) = "SEMICOLON"
               THEN Result(next, NullNode)
               ELSE Expression(next)
  IN  Result(Match(value.c, "SEMICOLON"), [kind |-> "return", value |-> value.node])

Return(c) ==
  LET next  == Advance(c)
      value == IF Current(next) \in {"SEMICOLON", "RBRACE", "EOF"}
               THEN Result(next, NullNode)
               ELSE Expression(next)
  IN  Result(Match(value.c, "SEMICOLON"), [kind |-> "return", value |-> value.node])

ExprStatement(c) ==
  LET e == Expression(c)
  IN  Result(Match(e.c, "SEMICOLON"), [kind |-> "expr", expr |-> e.node])

\* After '=' statement follows statement.
InStatementsForever == (In("block") /\ ~AtClose) \/ In("single")

\* A statement is due: the loop of a block goes on, or '=' wants its statement.
InStatements == \/ In("block") /\ ~AtClose
                \/ In("single") /\ Top.kids = <<>>

\* A statement or a field is made at once and given to the node on top, unless a
\* loop turns for ever.  Behind '=' there is no loop.
Makes(made) == LET endless == made.c = cursor /\ ~In("single")
               IN  Step(made.c, IF endless THEN stack ELSE Give(made.node, stack))

SimpleStatement ==
  /\ InStatements
  /\ \/ Ahead \in {"LET", "VAR"} /\ Makes(VarDecl(cursor))
     \/ Ahead = "RETURN" /\ Makes(Return(cursor))
     \/ Ahead \notin {"LET", "VAR", "RETURN", "LBRACE"} /\ Makes(ExprStatement(cursor))
  /\ UNCHANGED program

OpenBlock ==
  /\ InStatements
  /\ Ahead = "LBRACE"
  /\ Step(Advance(cursor), <<Node("block", <<>>)>> \o stack)
  /\ UNCHANGED program

\* The '}' of a block is optional.
CloseBlockSilently ==
  /\ In("block") /\ AtClose
  /\ Step(Match(cursor, "RBRACE"), Give(Top, Tail(stack)))
  /\ UNCHANGED program

\* The loop of parser_parse_block ends, also at the end of the file.
CloseBlock ==
  /\ In("block") /\ AtClose
  /\ Step(Expect(cursor, "RBRACE"), Give(Top, Tail(stack)))
  /\ UNCHANGED program

\* The statement after '=' becomes a block of one.
CloseSingle ==
  /\ In("single") /\ Top.kids # <<>>
  /\ Step(cursor, Give([kind |-> "block", head |-> Top.head, kids |-> Top.kids], Tail(stack)))
  /\ UNCHANGED program

-----------------------------------------------------------------------------
(* parser_parse_function *)

\* Up to the return type; a type that is missing is reported and stays u32.
Signature(c) ==
  LET params == Expect(Expect(Expect(Advance(c), "IDENTIFIER"), "LPAREN"), "RPAREN")
      before == Expect(params, IF Current(c) = "FN" THEN "ARROW" ELSE "COLON")
      typed  == Current(before) \in TypeNames
  IN  Result(IF typed THEN Advance(before) ELSE Fail(before),
             Node("function", [name |-> c.pos + 1,
                               type |-> IF typed THEN Current(before) ELSE "U32"]))

ParseFunction ==
  /\ In("program") /\ Ahead \in FunctionWords
  /\ LET f == Signature(cursor)
         call(body) == <<Node(body, <<>>), f.node>> \o stack
         empty == With(f.node, <<Node("block", <<>>)>>)
     IN  \/ Current(f.c) = "ASSIGN" /\ Step(Advance(f.c), call("single"))
         \/ Current(f.c) = "LBRACE" /\ Step(Advance(f.c), call("block"))
         \/ Current(f.c) \notin {"ASSIGN", "LBRACE"} /\ Step(Fail(f.c), Give(empty, stack))
  /\ UNCHANGED program

FinishFunction ==
  /\ In("function") /\ Top.kids # <<>>
  /\ Step(cursor, Give(Top, Tail(stack)))
  /\ UNCHANGED program

-----------------------------------------------------------------------------
(* parser_parse_peripheral, parser_parse_register, parser_parse_field *)

\* Every part that is missing is reported; parsing goes on behind it.
ParsePeripheral ==
  /\ In("program") /\ Ahead = "PERIPHERAL"
  /\ LET name == Advance(cursor)
         base == Expect(Expect(name, "IDENTIFIER"), "AT")
     IN  Step(Expect(Expect(base, "NUMBER"), "LBRACE"),
              <<Node("peripheral", [name |-> name.pos, base |-> base.pos])>> \o stack)
  /\ UNCHANGED program

\* The name is taken before 'register' is consumed.
ParseRegisterEarly ==
  /\ In("peripheral") /\ ~AtClose
  /\ LET name   == Expect(cursor, "REGISTER")
         colon  == Expect(Expect(name, "IDENTIFIER"), "COLON")
         offset == Expect(MatchAny(colon, RegisterTypes), "AT")
     IN  Step(Expect(Expect(offset, "NUMBER"), "LBRACE"),
              <<Node("register", [name |-> cursor.pos, type |-> "U32",
                                  offset |-> offset.pos])>> \o stack)
  /\ UNCHANGED program

ParseRegister ==
  /\ In("peripheral") /\ ~AtClose
  /\ LET name   == Expect(cursor, "REGISTER")
         colon  == Expect(Expect(name, "IDENTIFIER"), "COLON")
         offset == Expect(MatchAny(colon, RegisterTypes), "AT")
     IN  Step(Expect(Expect(offset, "NUMBER"), "LBRACE"),
              <<Node("register",
                     [name   |-> name.pos,
                      type   |-> IF Current(colon) \in RegisterTypes
                                 THEN Current(colon) ELSE "U32",
                      offset |-> offset.pos])>> \o stack)
  /\ UNCHANGED program

ParseField ==
  /\ In("register") /\ ~AtClose
  /\ LET name   == Expect(cursor, "FIELD")
         low    == Expect(Expect(Expect(name, "IDENTIFIER"), "COLON"), "LBRACKET")
         high   == Expect(Expect(low, "NUMBER"), "COLON")
         access == Expect(Expect(high, "NUMBER"), "RBRACKET")
         node   == [kind |-> "field", name |-> name.pos, start |-> low.pos, end |-> high.pos,
                    access |-> IF Current(access) \in AccessKinds
                               THEN Current(access) ELSE "RW"]
     IN  Makes(Result(Match(MatchAny(access, AccessKinds), "SEMICOLON"), node))
  /\ UNCHANGED program

CloseRegister ==
  /\ In("register") /\ AtClose
  /\ Step(Expect(cursor, "RBRACE"), Give(Top, Tail(stack)))
  /\ UNCHANGED program

ClosePeripheral ==
  /\ In("peripheral") /\ AtClose
  /\ Step(Expect(cursor, "RBRACE"), Give(Top, Tail(stack)))
  /\ UNCHANGED program

-----------------------------------------------------------------------------
(* parser_parse_program *)

EndOfProgram ==
  /\ In("program") /\ Ahead = "EOF"
  /\ Step(cursor, <<>>)
  /\ program' = Top

\* Any other token is reported and ends the loop.
RejectToken ==
  /\ In("program") /\ Ahead \notin FunctionWords \cup {"PERIPHERAL", "EOF"}
  /\ Step(Fail(cursor), <<>>)
  /\ program' = Top

Done == stack = <<>>

Next == \/ SimpleStatement \/ OpenBlock \/ CloseBlock \/ CloseSingle
        \/ ParseFunction \/ FinishFunction
        \/ ParsePeripheral \/ ParseRegister \/ ParseField
        \/ CloseRegister \/ ClosePeripheral
        \/ EndOfProgram \/ RejectToken

Spec == Init /\ [][Next]_vars

\* The parser runs alone and is not blocked by anything: until it returns
\* there is another trip, and each one changes lap.
Turn == ~Done /\ lap' = 1 - lap
FairSpec == Spec /\ WF_lap(Turn)

-----------------------------------------------------------------------------
(* Properties *)

\* Which functions call which, as kinds of frames.
Calls == {<<"program", "peripheral">>, <<"program", "function">>,
          <<"peripheral", "register">>, <<"function", "single">>, <<"function", "block">>,
          <<"single", "block">>, <<"block", "block">>}

Callers == /\ stack # <<>> => stack[Len(stack)].kind = "program"
           /\ \A i \in 1..Len(stack) - 1 : <<stack[i + 1].kind, stack[i].kind>> \in Calls

\* The parser stands on a token of its input or on EOF; the call stack is one
\* the grammar functions can have; a body is at most one statement deep.
TypeOK == /\ IsCursor(cursor)
          /\ Callers
          /\ \A i \in DOMAIN stack :
               stack[i].kind \in {"single", "function"} => Len(stack[i].kids) <= 1
          /\ program # NullNode <=> Done
          /\ lap \in {0, 1}

\* A trip that consumes no token and returns to no caller reports an error:
\* the loops that test for '}' (parser_parse_block, parser_parse_register,
\* parser_parse_peripheral) never turn silently.
NoSilentStall == [][cursor'.pos = cursor.pos /\ Len(stack') >= Len(stack)
                      => cursor'.err # 0]_vars

Accepted == Done /\ cursor.err = 0

\* Kids of a node that are of one kind.
KidsOf(n, kind) == {k \in {n.kids[i] : i \in DOMAIN n.kids} : k.kind = kind}

\* The fields below a node, with their register and their peripheral, by name.
OfRegister(peripheral, r) == {<<peripheral, r.head.name, f.name>> : f \in KidsOf(r, "field")}
OfPeripheral(p) == UNION {OfRegister(p.head.name, r) : r \in KidsOf(p, "register")}
OfProgram(t)    == UNION {OfPeripheral(p) : p \in KidsOf(t, "peripheral")}

\* Where the construct around token i begins.
LastBefore(tokens, word, i) ==
  CHOOSE k \in 1..i : tokens[k] = word /\ \A j \in k + 1..i : tokens[j] # word

\* The names that belong together in the text, for the fields before token n.
Declared(tokens, n) ==
  {<<LastBefore(tokens, "PERIPHERAL", i) + 1, LastBefore(tokens, "REGISTER", i) + 1, i + 1>> :
     i \in {i \in 1..n - 1 : tokens[i] = "FIELD"}}

\* In an accepted program each field belongs to the register, and each
\* register to the peripheral, whose braces are open around it.
FieldsHaveTheirOwners ==
  Accepted => OfProgram(program) = Declared(cursor.src, Len(cursor.src) + 1)

\* The parser comes to the end of its input or reports an error.
Settles == <>(Done \/ cursor.err # 0)
=============================================================================
