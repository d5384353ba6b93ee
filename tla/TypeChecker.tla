----------------------------- MODULE TypeChecker -----------------------------
(***************************************************************************)
(* check_program_types of src/type_inference.c, with check_function_types  *)
(* and check_stmt_types: the walk over a program that declares and looks   *)
(* up names in the symbol table.  One action is one turn of one of its     *)
(* loops, the entry of a function or block, or the way out of it; the      *)
(* symbol table is the module SymbolTable and does its part of a step.     *)
(*                                                                         *)
(* A frame of work is an activation of the walk: what is left for it to    *)
(* do.  A function is [name, type, params, body], a parameter [name, type],*)
(* a statement [kind, ...]; kinds "if", "while" and "null" stand for the   *)
(* statements that check_stmt_types does not look into.                    *)
(*                                                                         *)
(* A TypeContext may be used for several programs, one after the other: a  *)
(* session.  The functions of the earlier ones stay in its global scope,   *)
(* and its error count goes on.                                            *)
(***************************************************************************)
EXTENDS TypeInference, Sequences, FiniteSets

CONSTANTS Sessions,         \* sequences of programs, which are sequences of functions
          Names,            \* what the name pointers of a program point at
          Types,
          NULL, InitialCapacity, MaxDepth   \* see SymbolTable

VARIABLES session,
          turn,      \* the place in session of the program that is checked
          work,      \* activations, the innermost first
          scopes,    \* ctx->symbols
          answer,    \* what the symbol table returned last
          expected,  \* ctx->expected_return_type
          errors,    \* ctx->error_count
          before,    \* history: errors when this program's check began
          ok,        \* the result the activations hand up
          types      \* how many Type objects of the context are not freed

vars == <<session, turn, work, scopes, answer, expected, errors, before, ok, types>>

program == session[turn]

Decl == [type : Types, is_param : BOOLEAN, is_mutable : BOOLEAN, is_initialized : BOOLEAN]

Table == INSTANCE SymbolTable WITH Decls <- Decl

\* What the symbol table asks of its constants, and no Type is the null Type.
ASSUME TableAssumption == /\ InitialCapacity \in Nat \ {0} /\ MaxDepth \in Nat \ {0}
                          /\ NULL \notin Decl /\ "null" \notin Types

\* A declaration that loses its type.
DeclarationUntyped(type, param, mutable, initialized) ==
  [type |-> "null", is_param |-> param, is_mutable |-> mutable, is_initialized |-> initialized]

Declaration(type, param, mutable, initialized) ==
  [type |-> type, is_param |-> param, is_mutable |-> mutable, is_initialized |-> initialized]

\* The types of all names, as symbol_table_lookup finds them.
Env == [n \in Names |-> LET d == Table!LookupFrom(Table!Depth, n)
                        IN  IF d = NULL THEN "null" ELSE d.type]

\* Statements of the set S consist of statements of S and of expressions, and
\* declare names of a type: what a program is, of any size and depth.
Closed(S) ==
  \A s \in S : /\ s.kind = "var" => /\ s.name \in Names /\ s.type \in Types
                                    /\ s.mut \in BOOLEAN /\ s.init \in Exprs
               /\ s.kind = "expr" => s.expr \in Exprs
               /\ s.kind = "return" => s.value \in Exprs
               /\ s.kind = "block" => s.stmts \in Seq(S)

Parameters == [name : Names, type : Types]
FunctionNodes(S) == [name : Names, type : Types, params : Seq(Parameters), body : S]
Programs(S) == Seq(FunctionNodes(S))

\* The sessions are sequences of programs over S, of one or more.
SessionsOver(S) == Closed(S) /\ \A s \in Sessions : s \in Seq(Programs(S)) /\ s # <<>>

Top == Head(work)
In(kind) == work # <<>> /\ Top.kind = kind
More == Top.todo # <<>>
Item == Head(Top.todo)

Frame(kind, todo) == [kind |-> kind, todo |-> todo]
\* The parameters of a function that are left, with the body that follows them.
ParamsFrame(todo, body) == [kind |-> "params", todo |-> todo, body |-> body]

\* The work once the item is done with.
Advanced == <<Frame(Top.kind, Tail(Top.todo))>> \o Tail(work)

\* A scope_free that forgets the types.
TypesInNone(scope) == 0

\* The Type objects that scope_free frees, one of each symbol.
TypesIn(scope) == Len(scope.symbols)

\* The one that type_context_set_function and type_context_free free.
ExpectedType == IF expected = "null" THEN 0 ELSE 1

\* A failure that is counted and not handed up.
ReportOnly(n) == errors' = errors + n /\ ok' = ok

\* n errors more, and a result of 0 if there is one.
Report(n) == errors' = errors + n /\ ok' = (ok /\ n = 0)

Init == /\ session \in Sessions
        /\ turn = 1
        /\ work = <<Frame("register", program)>>
        /\ Table!Init
        /\ expected = "null"
        /\ errors = 0
        /\ before = 0
        /\ ok = TRUE
        /\ types = 0

-----------------------------------------------------------------------------
(* What a step does to the Type objects *)

\* A Type is cloned for the symbol that is added.  A symbol that is refused
\* has no owner for it: neither the table nor the caller frees it.
CloneForSymbol == types' = types + 1

KeepTypes == types' = types

\* The Type objects of the innermost scope go with it.
FreeInnermost == types' = types - TypesIn(scopes[Table!Depth])

-----------------------------------------------------------------------------
(* check_program_types *)

Position == <<session, turn, before>>

\* The first pass: a function name is a symbol with the return type.
RegisterFunction ==
  /\ In("register") /\ More
  /\ Table!AddSymbol(Item.name, Declaration(Item.type, FALSE, FALSE, TRUE))
  /\ CloneForSymbol
  /\ Report(IF answer' THEN 0 ELSE 1)
  /\ work' = Advanced
  /\ UNCHANGED <<Position, expected>>

SecondPass ==
  /\ In("register") /\ ~More
  /\ work' = <<Frame("check", program)>>
  /\ KeepTypes
  /\ UNCHANGED <<Position, scopes, answer, expected, errors, ok>>

\* A check that counts its own errors only.
FinishForgiving ==
  /\ In("check") /\ ~More
  /\ work' = <<>>
  /\ KeepTypes
  /\ UNCHANGED <<Position, scopes, answer, expected, errors, ok>>

Finish ==
  /\ In("check") /\ ~More
  /\ work' = <<>>
  /\ ok' = (ok /\ errors = 0)
  /\ KeepTypes
  /\ UNCHANGED <<Position, scopes, answer, expected, errors>>

Done == work = <<>>

\* check_program_types is called again with the same context.
NextProgram ==
  /\ Done /\ Table!Allocated /\ turn < Len(session)
  /\ turn' = turn + 1
  /\ work' = <<Frame("register", session[turn + 1])>>
  /\ before' = errors
  /\ ok' = TRUE
  /\ KeepTypes
  /\ UNCHANGED <<session, scopes, answer, expected, errors>>

\* type_context_free, after the last program; the walk has left one scope.
FreeContext ==
  /\ Done /\ Table!Allocated /\ turn = Len(session)
  /\ Table!FreeTable
  /\ expected' = "null"
  /\ types' = types - TypesIn(scopes[1]) - ExpectedType
  /\ UNCHANGED <<Position, work, errors, ok>>

-----------------------------------------------------------------------------
(* check_function_types *)

\* type_context_set_function frees the return type of the function before.
EnterFunction ==
  /\ In("check") /\ More
  /\ Table!PushScope
  /\ expected' = Item.type
  /\ types' = types - ExpectedType + 1
  /\ work' = <<ParamsFrame(Item.params, Item.body)>> \o Advanced
  /\ UNCHANGED <<Position, errors, ok>>

\* Giving up on a function without leaving its scope.
RefuseParameterInScope ==
  /\ In("params") /\ More
  /\ Table!LookupLocal(Item.name) # NULL
  /\ UNCHANGED <<scopes, answer>>
  /\ CloneForSymbol
  /\ Report(1)
  /\ work' = Tail(work)
  /\ UNCHANGED <<Position, expected>>

\* A parameter that is there already ends the check of the function.
RefuseParameter ==
  /\ In("params") /\ More
  /\ Table!LookupLocal(Item.name) # NULL
  /\ Table!PopScope
  /\ types' = types + 1 - TypesIn(scopes[Table!Depth])
  /\ Report(1)
  /\ work' = Tail(work)
  /\ UNCHANGED <<Position, expected>>

AddParameter ==
  /\ In("params") /\ More
  /\ Table!LookupLocal(Item.name) = NULL
  /\ Table!AddSymbol(Item.name, Declaration(Item.type, TRUE, FALSE, TRUE))
  /\ CloneForSymbol
  /\ work' = <<ParamsFrame(Tail(Top.todo), Top.body)>> \o Tail(work)
  /\ UNCHANGED <<Position, expected, errors, ok>>

EnterBody ==
  /\ In("params") /\ ~More
  /\ work' = <<Frame("function", <<Top.body>>)>> \o Tail(work)
  /\ KeepTypes
  /\ UNCHANGED <<Position, scopes, answer, expected, errors, ok>>

LeaveFunction ==
  /\ In("function") /\ ~More
  /\ Table!PopScope
  /\ FreeInnermost
  /\ work' = Tail(work)
  /\ UNCHANGED <<Position, expected, errors, ok>>

-----------------------------------------------------------------------------
(* check_stmt_types *)

AtStatement(kinds) == (In("function") \/ In("block")) /\ More /\ Item.kind \in kinds

\* How many errors are reported for an expression that must have type t.
ErrorsAgainst(t, e) == LET inferred == Infer(Env, e)
                       IN  CASE inferred.type = "null" -> inferred.errors + 1
                             [] inferred.type = t      -> 0
                             [] OTHER                  -> 1

\* let needs an initializer, var may go without.
DeclarationErrors(s) == CASE s.init.kind # "null"            -> ErrorsAgainst(s.type, s.init)
                          [] s.init.kind = "null" /\ s.mut   -> 0
                          [] OTHER                           -> 1

DeclareVariable ==
  /\ AtStatement({"var"})
  /\ DeclarationErrors(Item) = 0
  /\ Table!AddSymbol(Item.name, Declaration(Item.type, FALSE, Item.mut, Item.init.kind # "null"))
  /\ CloneForSymbol
  /\ Report(IF answer' THEN 0 ELSE 1)
  /\ work' = Advanced
  /\ UNCHANGED <<Position, expected>>

RefuseDeclaration ==
  /\ AtStatement({"var"})
  /\ DeclarationErrors(Item) # 0
  /\ Report(DeclarationErrors(Item))
  /\ work' = Advanced
  /\ KeepTypes
  /\ UNCHANGED <<Position, scopes, answer, expected>>

\* An expression statement, of whatever type.
CheckExpression ==
  /\ AtStatement({"expr"})
  /\ LET inferred == Infer(Env, Item.expr)
     IN  Report(IF Item.expr.kind # "null" /\ inferred.type = "null"
                THEN inferred.errors + 1 ELSE 0)
  /\ work' = Advanced
  /\ KeepTypes
  /\ UNCHANGED <<Position, scopes, answer, expected>>

\* A return without a value is right in every function.
CheckReturn ==
  /\ AtStatement({"return"})
  /\ Report(IF Item.value.kind = "null" THEN 0 ELSE ErrorsAgainst(expected, Item.value))
  /\ work' = Advanced
  /\ KeepTypes
  /\ UNCHANGED <<Position, scopes, answer, expected>>

PassOver ==
  /\ AtStatement({"if", "while", "null"})
  /\ work' = Advanced
  /\ KeepTypes
  /\ UNCHANGED <<Position, scopes, answer, expected, errors, ok>>

EnterBlock ==
  /\ AtStatement({"block"})
  /\ Table!PushScope
  /\ work' = <<Frame("block", Item.stmts)>> \o Advanced
  /\ KeepTypes
  /\ UNCHANGED <<Position, expected, errors, ok>>

LeaveBlock ==
  /\ In("block") /\ ~More
  /\ Table!PopScope
  /\ FreeInnermost
  /\ work' = Tail(work)
  /\ UNCHANGED <<Position, expected, errors, ok>>

-----------------------------------------------------------------------------
Next == \/ RegisterFunction \/ SecondPass \/ Finish \/ NextProgram \/ FreeContext
        \/ EnterFunction \/ RefuseParameter \/ AddParameter \/ EnterBody \/ LeaveFunction
        \/ DeclareVariable \/ RefuseDeclaration \/ CheckExpression \/ CheckReturn
        \/ PassOver \/ EnterBlock \/ LeaveBlock

Spec == Init /\ [][Next]_vars

-----------------------------------------------------------------------------
(* Properties *)

\* Which frames lie on which.
FramesNest ==
  \A i \in 1..Len(work) :
    /\ i = Len(work) => work[i].kind \in {"register", "check"}
    /\ i = Len(work) - 1 => work[i].kind \in {"params", "function"}
    /\ i < Len(work) - 1 => work[i].kind = "block"

TypeOK == /\ Table!TypeOK
          /\ turn \in 1..Len(session)
          /\ expected \in Types \cup {"null"}
          /\ errors \in Nat /\ before \in 0..errors /\ ok \in BOOLEAN /\ types \in Nat
          /\ FramesNest

\* There is one scope for the globals and one for each function and block the
\* walk is in: every way out of check_function_types and check_stmt_types pops
\* what was pushed on the way in, the one for a repeated parameter included,
\* so that the next program of a session begins in the global scope.
ScopesFollowTheWalk ==
  /\ ~Done => Table!Depth = Len(work)
  /\ Done /\ Table!Allocated => Table!Depth = 1
  /\ Done /\ ~Table!Allocated => turn = Len(session)

\* While a program is walked, the result handed up is 0 exactly if an error of
\* this program was counted: no refusal goes without a message, and no message
\* without a refusal.  The verdict at the end covers the whole session, since
\* the count is never set back.
VerdictHasMessages == ok <=> errors = IF Done THEN 0 ELSE before

\* The symbols of the table, each by its place in the chain and in its scope.
SymbolsOf(d) == {d} \X (1..Len(scopes[d].symbols))
TableSymbols == UNION {SymbolsOf(d) : d \in 1..Table!Depth}

\* Every Type object that is not freed is the type of a symbol of an open scope
\* or the expected return type, except for at most one per reported error: the
\* clone for a symbol that symbol_table_add_symbol refuses is lost, nothing else
\* is, and nothing is freed that is still in the table.
TypesHaveOwners == types - (Cardinality(TableSymbols) + ExpectedType) \in 0..errors
=============================================================================
