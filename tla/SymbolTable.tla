---------------------------- MODULE SymbolTable ------------------------------
(***************************************************************************)
(* src/symbol_table.c: a chain of scopes from the current one to the       *)
(* global one, each a growing array of symbols in which names are searched *)
(* linearly.  The chain is a sequence, the global scope first.             *)
(*                                                                         *)
(* A declaration stands for the rest of a Symbol: type, is_parameter,      *)
(* is_mutable and is_initialized, which this module stores and returns and *)
(* never looks into.                                                       *)
(***************************************************************************)
EXTENDS Naturals, Sequences

CONSTANTS Names, Decls,
          NULL,              \* the null Symbol pointer
          InitialCapacity,   \* INITIAL_SCOPE_CAPACITY
          MaxDepth           \* bound on the open scopes

ASSUME CapacityAssumption == InitialCapacity \in Nat \ {0}
ASSUME DepthAssumption == MaxDepth \in Nat \ {0}
ASSUME NullAssumption == NULL \notin Decls

VARIABLES scopes,  \* global_scope ... current_scope; empty once freed
          answer   \* what the last call returned

vars == <<scopes, answer>>

Symbol == [name : Names, decl : Decls]

Scope == [symbols : Seq(Symbol), capacity : Nat \ {0}]

\* A scope whose capacity is never set.
NewScopeUnset == [symbols |-> <<>>, capacity |-> 0]

NewScope == [symbols |-> <<>>, capacity |-> InitialCapacity]

Depth == Len(scopes)
Allocated == scopes # <<>>

\* A search that misses the last symbol.
PlacesShort(scope, n) == {k \in 1..Len(scope.symbols) - 1 : scope.symbols[k].name = n}

\* The matches of strcmp over scope->symbols.
Places(scope, n) == {k \in 1..Len(scope.symbols) : scope.symbols[k].name = n}
\* The search returns the first of them.
Find(scope, n) ==
  scope.symbols[CHOOSE k \in Places(scope, n) : \A j \in Places(scope, n) : k <= j].decl

Declares(scope, n) == Places(scope, n) # {}

\* The innermost of the scopes 1..d that declares n.
Holders(d, n) == {i \in 1..d : Declares(scopes[i], n)}
\* A search that begins at the global scope.
HolderOutermost(d, n) == CHOOSE i \in Holders(d, n) : \A j \in Holders(d, n) : i <= j

Holder(d, n) == CHOOSE i \in Holders(d, n) : \A j \in Holders(d, n) : j <= i

\* The search that starts in scope d and follows scope->parent.
LookupFrom(d, n) == IF Holders(d, n) = {} THEN NULL ELSE Find(scopes[Holder(d, n)], n)

LookupLocal(n) == IF Declares(scopes[Depth], n) THEN Find(scopes[Depth], n) ELSE NULL

\* The array doubles when it is full, and the symbol goes behind the last one.
\* Growing one symbol too late.
GrownLate(scope) == IF Len(scope.symbols) > scope.capacity
                    THEN [scope EXCEPT !.capacity = 2 * @] ELSE scope

Grown(scope) == IF Len(scope.symbols) >= scope.capacity
                THEN [scope EXCEPT !.capacity = 2 * @] ELSE scope
Extended(scope, symbol) == [Grown(scope) EXCEPT !.symbols = Append(@, symbol)]

-----------------------------------------------------------------------------
Init == /\ scopes = <<NewScope>>
        /\ answer = NULL

PushScope == /\ Allocated
             /\ Depth < MaxDepth
             /\ scopes' = Append(scopes, NewScope)
             /\ UNCHANGED answer

\* At the global scope the call changes nothing.
PopScope == /\ Allocated
            /\ scopes' = IF Depth > 1 THEN SubSeq(scopes, 1, Depth - 1) ELSE scopes
            /\ UNCHANGED answer

AddSymbol(n, d) ==
  /\ Allocated
  /\ IF LookupLocal(n) # NULL
     THEN /\ answer' = FALSE
          /\ UNCHANGED scopes
     ELSE /\ answer' = TRUE
          /\ scopes' = [scopes EXCEPT ![Depth] = Extended(@, [name |-> n, decl |-> d])]

Lookup(n) == /\ Allocated
             /\ answer' = LookupFrom(Depth, n)
             /\ UNCHANGED scopes

LookupInCurrent(n) == /\ Allocated
                      /\ answer' = LookupLocal(n)
                      /\ UNCHANGED scopes

\* symbol_table_free pops down to the global scope and frees that one too.
FreeTable == /\ Allocated
             /\ scopes' = <<>>
             /\ UNCHANGED answer

Next == \/ PushScope \/ PopScope \/ FreeTable
        \/ \E n \in Names : \/ Lookup(n) \/ LookupInCurrent(n)
                            \/ \E d \in Decls : AddSymbol(n, d)

Spec == Init /\ [][Next]_vars

-----------------------------------------------------------------------------
(* Properties *)

TypeOK == /\ scopes \in Seq(Scope)
          /\ Depth <= MaxDepth
          /\ answer \in Decls \cup {NULL, TRUE, FALSE}

\* A scope has at most one symbol of a name, so that the first match of a
\* linear search is the only one (the check at the head of
\* symbol_table_add_symbol, against the writes at its end).
Distinct(scope) == \A j, k \in 1..Len(scope.symbols) :
                     scope.symbols[j].name = scope.symbols[k].name => j = k
NoDuplicates == \A i \in 1..Depth : Distinct(scopes[i])

\* No scope holds more symbols than its array has room for: the growth test
\* of symbol_table_add_symbol comes in time for the write behind it.
WithinCapacity == \A i \in 1..Depth : Len(scopes[i].symbols) <= scopes[i].capacity

\* Where a name is declared at all there is an innermost declaration of it: the
\* search along the parents of a scope has one answer.
InnermostExists ==
  \A d \in 1..Depth : \A n \in Names :
    Holders(d, n) # {} => \E i \in Holders(d, n) : \A j \in Holders(d, n) : j <= i

\* The environment of scope d, and the names scope d declares itself.
EnvOf(d) == [n \in Names |-> LookupFrom(d, n)]
OwnNames(d) == {n \in Names : Declares(scopes[d], n)}

\* The scope chain with its linear searches is lexical scoping.
Lexical == INSTANCE ScopedEnv WITH
             Undefined <- NULL,
             env   <- [d \in 1..Depth |-> EnvOf(d)],
             own   <- [d \in 1..Depth |-> OwnNames(d)],
             reply <- answer

\* Every step of the symbol table is an operation of lexical scoping or
\* changes nothing a client can see (the whole of src/symbol_table.c).
ImplementsLexicalScoping == Lexical!Spec
=============================================================================
