------------------------- MODULE TypeCheckerProofs ---------------------------
(***************************************************************************)
(* Proofs about TypeChecker, for all sessions of programs of any shape and *)
(* depth.  Nothing is assumed of names, types and statements, so the       *)
(* sequences in work and scopes have elements of no particular set: they   *)
(* are lists in the sense of Foundations.  Walk is the invariant of the    *)
(* activations and scopes, Over that of what they have left to do, Counted *)
(* that of the error count, Owned that of the Type objects.                *)
(***************************************************************************)
EXTENDS TypeChecker, Foundations, FiniteSetTheorems

\* What is proved of the symbol table by itself.
TableProofs == INSTANCE SymbolTableProofs WITH Decls <- Decl

-----------------------------------------------------------------------------
(* Activations and scopes *)

\* Kinds of frames that can stand in one another's place.
Globals   == {"register", "check"}
Functions == {"params", "function"}

\* The chain of scopes and the activations, and that they are in step.
Walk == Listed(scopes) /\ Listed(work) /\ FramesNest /\ ScopesFollowTheWalk

\* The kind of the innermost frame tells how deep the walk is.
LEMMA DepthOfTop ==
  ASSUME Listed(work), FramesNest, work # <<>>
  PROVE  /\ Len(work) \in Nat /\ Len(work) >= 1 /\ Top = work[1]
         /\ Top.kind \in Globals => Len(work) = 1
         /\ Top.kind \in Functions => Len(work) = 2
         /\ Top.kind = "block" => Len(work) >= 3
<1>1. Len(work) \in Nat /\ Len(work) >= 1 /\ Top = work[1]
  BY TailEffect DEF Listed, Top
<1>2. /\ Len(work) = 1 => Top.kind \in {"register", "check"}
      /\ Len(work) = 2 => Top.kind \in {"params", "function"}
      /\ Len(work) > 2 => Top.kind = "block"
  <2>1. 1 \in 1..Len(work)
    BY <1>1
  <2>2. /\ 1 = Len(work) => work[1].kind \in {"register", "check"}
        /\ 1 = Len(work) - 1 => work[1].kind \in {"params", "function"}
        /\ 1 < Len(work) - 1 => work[1].kind = "block"
    BY <2>1 DEF FramesNest
  <2>. QED
    BY <1>1, <2>2
<1>3. Len(work) = 1 \/ Len(work) = 2 \/ Len(work) >= 3
  <2>. DEFINE n == Len(work)
  <2>1. n \in Nat /\ n >= 1
    BY <1>1
  <2>. HIDE DEF n
  <2>2. n = 1 \/ n = 2 \/ n >= 3
    BY <2>1
  <2>. QED
    BY <2>2 DEF n
<1>4. CASE Len(work) = 1
  BY <1>1, <1>2, <1>4 DEF Globals, Functions
<1>5. CASE Len(work) = 2
  BY <1>1, <1>2, <1>5 DEF Globals, Functions
<1>6. CASE Len(work) >= 3
  <2>1. Top.kind = "block"
    BY <1>1, <1>2, <1>6
  <2>. QED
    BY <1>1, <1>6, <2>1 DEF Globals, Functions
<1>. QED
  BY <1>3, <1>4, <1>5, <1>6

\* The innermost frame makes way for one of its kind.
LEMMA NestReplaced ==
  ASSUME Listed(work), FramesNest, work # <<>>, NEW x,
         work' = <<x>> \o Tail(work),
         \/ x.kind = Top.kind
         \/ {x.kind, Top.kind} \subseteq Globals
         \/ {x.kind, Top.kind} \subseteq Functions
  PROVE  Listed(work') /\ Len(work') = Len(work) /\ FramesNest'
<1>1. Listed(work') /\ Len(work') = Len(work) /\ work'[1] = x
      /\ \A i \in 2..Len(work) : work'[i] = work[i]
  BY ReplaceEffect
<1>2. Len(work) \in Nat /\ Len(work) >= 1 /\ Top = work[1]
  BY DepthOfTop
<1>3. ASSUME NEW i \in 1..Len(work)
      PROVE  /\ i = Len(work) => work'[i].kind \in {"register", "check"}
             /\ i = Len(work) - 1 => work'[i].kind \in {"params", "function"}
             /\ i < Len(work) - 1 => work'[i].kind = "block"
  <2>1. CASE i = 1
    BY <1>1, <1>2, <2>1 DEF FramesNest, Globals, Functions
  <2>2. CASE i \in 2..Len(work)
    BY <1>1, <2>2 DEF FramesNest
  <2>. QED
    BY <1>2, <2>1, <2>2
<1>. QED
  BY <1>1, <1>3 DEF FramesNest

\* A frame is left.
LEMMA NestPopped ==
  ASSUME Listed(work), FramesNest, work # <<>>, work' = Tail(work)
  PROVE  Listed(work') /\ Len(work') = Len(work) - 1 /\ FramesNest'
<1>1. Listed(work') /\ Len(work') = Len(work) - 1 /\ Len(work) \in Nat
      /\ \A i \in 1..Len(work') : work'[i] = work[i + 1]
  BY TailEffect DEF Listed
<1>2. ASSUME NEW i \in 1..Len(work')
      PROVE  /\ i = Len(work') => work'[i].kind \in {"register", "check"}
             /\ i = Len(work') - 1 => work'[i].kind \in {"params", "function"}
             /\ i < Len(work') - 1 => work'[i].kind = "block"
  <2>1. work'[i] = work[i + 1] /\ i + 1 \in 1..Len(work)
    BY <1>1
  <2>2. /\ i + 1 = Len(work) => work[i + 1].kind \in {"register", "check"}
        /\ i + 1 = Len(work) - 1 => work[i + 1].kind \in {"params", "function"}
        /\ i + 1 < Len(work) - 1 => work[i + 1].kind = "block"
    BY <2>1 DEF FramesNest
  <2>3. /\ i = Len(work') <=> i + 1 = Len(work)
        /\ i = Len(work') - 1 <=> i + 1 = Len(work) - 1
        /\ i < Len(work') - 1 <=> i + 1 < Len(work) - 1
    BY <1>1
  <2>. QED
    BY <2>1, <2>2, <2>3, Zenon
<1>. QED
  BY <1>1, <1>2 DEF FramesNest

\* A function is entered from the globals, a block from a function or a block.
LEMMA NestPushed ==
  ASSUME Listed(work), FramesNest, work # <<>>, NEW x, NEW y,
         work' = <<y>> \o (<<x>> \o Tail(work)), x.kind = Top.kind,
         IF Top.kind \in Globals THEN y.kind \in Functions ELSE y.kind = "block"
  PROVE  Listed(work') /\ Len(work') = Len(work) + 1 /\ FramesNest'
<1>. DEFINE w == <<x>> \o Tail(work)
<1>1. Listed(w) /\ Len(w) = Len(work) /\ w[1] = x /\ \A i \in 2..Len(work) : w[i] = work[i]
  BY ReplaceEffect
<1>0. work' = <<y>> \o w
  OBVIOUS
<1>. HIDE DEF w
<1>2. Listed(work') /\ Len(work') = Len(w) + 1 /\ work'[1] = y
      /\ \A i \in 1..Len(w) : work'[i + 1] = w[i]
  <2>. DEFINE u == <<y>> \o w
  <2>1. Listed(u) /\ Len(u) = Len(w) + 1 /\ u[1] = y /\ \A i \in 1..Len(w) : u[i + 1] = w[i]
    BY <1>1, PushEffect
  <2>2. work' = u
    BY <1>0
  <2>. HIDE DEF u
  <2>. QED
    BY <2>1, <2>2
<1>3. /\ Len(work) \in Nat /\ Len(work) >= 1 /\ Top = work[1]
      /\ Top.kind \in Globals <=> Len(work) = 1
  BY DepthOfTop DEF FramesNest, Globals
<1>4. ASSUME NEW i \in 1..Len(work)
      PROVE  /\ i = Len(work) => w[i].kind \in {"register", "check"}
             /\ i = Len(work) - 1 => w[i].kind \in {"params", "function"}
             /\ i < Len(work) - 1 => w[i].kind = "block"
  <2>1. CASE i = 1
    BY <1>1, <1>3, <2>1 DEF FramesNest
  <2>2. CASE i \in 2..Len(work)
    BY <1>1, <2>2 DEF FramesNest
  <2>. QED
    BY <1>3, <2>1, <2>2
<1>5. ASSUME NEW i \in 1..Len(work')
      PROVE  /\ i = Len(work') => work'[i].kind \in {"register", "check"}
             /\ i = Len(work') - 1 => work'[i].kind \in {"params", "function"}
             /\ i < Len(work') - 1 => work'[i].kind = "block"
  <2>1. CASE i = 1
    BY <1>1, <1>2, <1>3, <2>1 DEF Functions
  <2>2. CASE i # 1
    <3>1. i - 1 \in 1..Len(work) /\ (i - 1) + 1 = i
      BY <1>1, <1>2, <1>3, <2>2
    <3>2. work'[i] = w[i - 1]
      BY <1>1, <1>2, <3>1
    <3>. QED
      BY <1>1, <1>2, <1>3, <1>4, <3>1, <3>2
  <2>. QED
    BY <2>1, <2>2
<1>. QED
  BY <1>1, <1>2, <1>5 DEF FramesNest

-----------------------------------------------------------------------------
(* What the calls of the symbol table do to the chain of scopes *)

\* A push makes the chain longer by one scope.
LEMMA PushScopeEffect ==
  ASSUME Listed(scopes), Table!PushScope
  PROVE  Listed(scopes') /\ Len(scopes') = Len(scopes) + 1
BY AppendEffect DEF Table!PushScope

\* A pop of an inner scope makes it shorter by one.
LEMMA PopScopeEffect ==
  ASSUME Listed(scopes), Len(scopes) > 1, Table!PopScope
  PROVE  Listed(scopes') /\ Len(scopes') = Len(scopes) - 1
<1>1. scopes' = SubSeq(scopes, 1, Len(scopes) - 1) /\ Len(scopes) >= 1
  BY DEF Table!PopScope, Table!Depth, Listed
<1>. QED
  BY <1>1, FrontEffect

\* An added or refused symbol leaves the chain as long as it is.
LEMMA AddSymbolEffect ==
  ASSUME Listed(scopes), Len(scopes) >= 1, NEW n, NEW d, Table!AddSymbol(n, d)
  PROVE  Listed(scopes') /\ Len(scopes') = Len(scopes) /\ answer' \in BOOLEAN
<1>1. Len(scopes) \in 1..Len(scopes)
  BY DEF Listed
<1>. DEFINE e == Table!Extended(scopes[Len(scopes)], [name |-> n, decl |-> d])
<1>2. \/ answer' = FALSE /\ scopes' = scopes
      \/ answer' = TRUE /\ scopes' = [scopes EXCEPT ![Len(scopes)] = e]
  BY Zenon DEF Table!AddSymbol, Table!Depth
<1>. HIDE DEF e
<1>3. CASE scopes' = scopes
  BY <1>2, <1>3
<1>4. CASE scopes' = [scopes EXCEPT ![Len(scopes)] = e]
  BY <1>1, <1>2, <1>4, ExceptEffect
<1>. QED
  BY <1>2, <1>3, <1>4

-----------------------------------------------------------------------------
(* The walk *)

\* The walk begins with the globals, in the global scope.
LEMMA WalkInit == Init => Walk
<1>. SUFFICES ASSUME Init PROVE Walk
  OBVIOUS
<1>. DEFINE f == Frame("register", program)
            g == Table!NewScope
<1>1. work = <<f>> /\ scopes = <<g>> /\ f.kind = "register"
  BY DEF Init, Table!Init, Frame
<1>. HIDE DEF f, g
<1>2. Listed(work) /\ Len(work) = 1 /\ work[1] = f
  BY <1>1 DEF Listed
<1>3. Listed(scopes) /\ Len(scopes) = 1
  BY <1>1 DEF Listed
<1>4. FramesNest
  BY <1>1, <1>2 DEF FramesNest
<1>5. ScopesFollowTheWalk
  BY <1>1, <1>2, <1>3 DEF ScopesFollowTheWalk, Done, Table!Depth
<1>. QED
  BY <1>2, <1>3, <1>4, <1>5 DEF Walk

\* A turn that stays in its frame, or puts another of its kind into its place.
LEMMA WalkStays ==
  ASSUME Walk, work # <<>>, NEW x, work' = <<x>> \o Tail(work),
         \/ x.kind = Top.kind
         \/ {x.kind, Top.kind} \subseteq Globals
         \/ {x.kind, Top.kind} \subseteq Functions,
         Listed(scopes'), Len(scopes') = Len(scopes)
  PROVE  Walk'
<1>1. Listed(work') /\ Len(work') = Len(work) /\ FramesNest'
  BY NestReplaced DEF Walk
<1>2. Len(work) >= 1 /\ Len(scopes) = Len(work)
  BY DepthOfTop DEF Walk, ScopesFollowTheWalk, Done, Table!Depth
<1>3. work' # <<>>
  BY <1>1, <1>2, EmptySeq
<1>. QED
  BY <1>1, <1>2, <1>3 DEF Walk, ScopesFollowTheWalk, Done, Table!Depth

\* A turn that leaves its frame, and a scope with it.
LEMMA WalkPops ==
  ASSUME Walk, work # <<>>, Top.kind \notin Globals, work' = Tail(work), Table!PopScope
  PROVE  Walk'
<1>1. Listed(work') /\ Len(work') = Len(work) - 1 /\ FramesNest'
  BY NestPopped DEF Walk
<1>2. /\ Len(work) \in Nat /\ Len(work) >= 1 /\ Top = work[1]
      /\ Len(work) = 1 => Top.kind \in Globals
      /\ Len(scopes) = Len(work)
  BY DepthOfTop DEF Walk, FramesNest, Globals, ScopesFollowTheWalk, Done, Table!Depth
<1>3. Listed(scopes') /\ Len(scopes') = Len(scopes) - 1
  BY <1>2, PopScopeEffect DEF Walk
<1>4. work' # <<>>
  BY <1>1, <1>2, EmptySeq
<1>. QED
  BY <1>1, <1>2, <1>3, <1>4 DEF Walk, ScopesFollowTheWalk, Done, Table!Depth

\* A turn that enters a frame, and a scope with it.
LEMMA WalkPushes ==
  ASSUME Walk, work # <<>>, NEW x, NEW y, work' = <<y>> \o (<<x>> \o Tail(work)),
         x.kind = Top.kind,
         IF Top.kind \in Globals THEN y.kind \in Functions ELSE y.kind = "block",
         Table!PushScope
  PROVE  Walk'
<1>1. Listed(work') /\ Len(work') = Len(work) + 1 /\ FramesNest'
  BY NestPushed DEF Walk
<1>2. Len(work) \in Nat /\ Len(work) >= 1 /\ Len(scopes) = Len(work)
  BY DepthOfTop DEF Walk, ScopesFollowTheWalk, Done, Table!Depth
<1>3. Listed(scopes') /\ Len(scopes') = Len(scopes) + 1
  BY PushScopeEffect DEF Walk
<1>4. work' # <<>>
  BY <1>1, <1>2, EmptySeq
<1>. QED
  BY <1>1, <1>2, <1>3, <1>4 DEF Walk, ScopesFollowTheWalk, Done, Table!Depth

\* Every turn keeps activations and scopes in step.
LEMMA WalkNext == Walk /\ [Next]_vars => Walk'
<1>. SUFFICES ASSUME Walk, [Next]_vars PROVE Walk'
  OBVIOUS
<1>. DEFINE next == Frame(Top.kind, Tail(Top.todo))
<1>a. Advanced = <<next>> \o Tail(work) /\ next.kind = Top.kind
  BY DEF Advanced, Frame
<1>. HIDE DEF next
<1>b. Listed(scopes) /\ (work # <<>> => Len(scopes) >= 1)
  BY DepthOfTop DEF Walk, ScopesFollowTheWalk, Done, Table!Depth
<1>1. CASE RegisterFunction
  <2>1. work # <<>> /\ work' = Advanced
    BY <1>1 DEF RegisterFunction, In
  <2>2. Listed(scopes') /\ Len(scopes') = Len(scopes)
    BY <1>1, <1>b, <2>1, AddSymbolEffect DEF RegisterFunction
  <2>. QED
    BY <1>a, <2>1, <2>2, WalkStays
<1>2. CASE SecondPass
  <2>. DEFINE x == Frame("check", program)
  <2>1. work # <<>> /\ Top.kind = "register" /\ work' = <<x>> /\ scopes' = scopes
    BY <1>2 DEF SecondPass, In
  <2>2. x.kind = "check"
    BY DEF Frame
  <2>. HIDE DEF x
  <2>3. Len(work) = 1
    BY <2>1, DepthOfTop DEF Walk, Globals
  <2>. DEFINE t == Tail(work)
  <2>4. Listed(t) /\ Len(t) = 0
    BY <2>1, <2>3, TailEffect DEF Walk
  <2>5. work' = <<x>> \o t
    <3>. HIDE DEF t
    <3>1. t = <<>>
      BY <2>4, ListedEmpty
    <3>2. <<x>> \in Seq({x})
      OBVIOUS
    <3>. QED
      BY <2>1, <3>1, <3>2, ConcatEmptySeq
  <2>. QED
    BY <1>b, <2>1, <2>2, <2>5, WalkStays DEF Globals
<1>3. CASE Finish
  <2>1. work # <<>> /\ Top.kind = "check" /\ work' = <<>> /\ scopes' = scopes
    BY <1>3 DEF Finish, In
  <2>2. Len(work) = 1 /\ Len(scopes) = 1
    BY <2>1, DepthOfTop DEF Walk, Globals, ScopesFollowTheWalk, Done, Table!Depth
  <2>3. Listed(work') /\ Len(work') = 0
    BY <2>1 DEF Listed
  <2>4. scopes' # <<>>
    BY <2>1, <2>2
  <2>. QED
    BY <1>b, <2>1, <2>2, <2>3, <2>4
       DEF Walk, FramesNest, ScopesFollowTheWalk, Done, Table!Depth, Table!Allocated
<1>4. CASE NextProgram
  <2>. DEFINE x == Frame("register", session[turn + 1])
  <2>1. work = <<>> /\ work' = <<x>> /\ scopes' = scopes /\ Table!Allocated
    BY <1>4 DEF NextProgram, Done
  <2>2. x.kind = "register"
    BY DEF Frame
  <2>. HIDE DEF x
  <2>3. Len(scopes) = 1
    BY <2>1 DEF Walk, ScopesFollowTheWalk, Done, Table!Depth
  <2>4. Listed(work') /\ Len(work') = 1 /\ work'[1] = x
    BY <2>1 DEF Listed
  <2>5. FramesNest'
    BY <2>2, <2>4 DEF FramesNest
  <2>6. work' # <<>>
    BY <2>4, <2>1
  <2>. QED
    BY <1>b, <2>1, <2>3, <2>4, <2>5, <2>6 DEF Walk, ScopesFollowTheWalk, Done, Table!Depth
<1>5. CASE FreeContext
  <2>1. work = <<>> /\ work' = work /\ scopes' = <<>> /\ turn' = Len(session)'
    BY <1>5 DEF FreeContext, Done, Table!FreeTable, Position
  <2>2. Listed(scopes')
    BY <2>1 DEF Listed
  <2>3. Listed(work') /\ FramesNest'
    BY <2>1 DEF Walk, FramesNest
  <2>. QED
    BY <2>1, <2>2, <2>3 DEF Walk, ScopesFollowTheWalk, Done, Table!Allocated
<1>6. CASE EnterFunction
  <2>. DEFINE y == ParamsFrame(Item.params, Item.body)
  <2>1. /\ work # <<>> /\ Top.kind = "check" /\ Table!PushScope
        /\ work' = <<y>> \o (<<next>> \o Tail(work)) /\ y.kind = "params"
    BY <1>6, <1>a DEF EnterFunction, In, ParamsFrame
  <2>. HIDE DEF y
  <2>. QED
    BY <1>a, <2>1, WalkPushes DEF Globals, Functions
<1>7. CASE RefuseParameter
  <2>1. work # <<>> /\ Top.kind = "params" /\ Table!PopScope /\ work' = Tail(work)
    BY <1>7 DEF RefuseParameter, In
  <2>. QED
    BY <2>1, WalkPops DEF Globals
<1>8. CASE AddParameter
  <2>. DEFINE x == ParamsFrame(Tail(Top.todo), Top.body)
  <2>1. work # <<>> /\ Top.kind = "params" /\ work' = <<x>> \o Tail(work) /\ x.kind = "params"
    BY <1>8 DEF AddParameter, In, ParamsFrame
  <2>2. Listed(scopes') /\ Len(scopes') = Len(scopes)
    BY <1>8, <1>b, <2>1, AddSymbolEffect DEF AddParameter
  <2>. HIDE DEF x
  <2>. QED
    BY <2>1, <2>2, WalkStays
<1>9. CASE EnterBody
  <2>. DEFINE x == Frame("function", <<Top.body>>)
  <2>1. /\ work # <<>> /\ Top.kind = "params" /\ work' = <<x>> \o Tail(work)
        /\ x.kind = "function" /\ scopes' = scopes
    BY <1>9 DEF EnterBody, In, Frame
  <2>. HIDE DEF x
  <2>. QED
    BY <1>b, <2>1, WalkStays DEF Functions
<1>10. CASE LeaveFunction
  <2>1. work # <<>> /\ Top.kind = "function" /\ Table!PopScope /\ work' = Tail(work)
    BY <1>10 DEF LeaveFunction, In
  <2>. QED
    BY <2>1, WalkPops DEF Globals
<1>11. CASE DeclareVariable
  <2>1. work # <<>> /\ work' = Advanced
    BY <1>11 DEF DeclareVariable, AtStatement, In
  <2>2. Listed(scopes') /\ Len(scopes') = Len(scopes)
    BY <1>11, <1>b, <2>1, AddSymbolEffect DEF DeclareVariable
  <2>. QED
    BY <1>a, <2>1, <2>2, WalkStays
<1>12. CASE RefuseDeclaration \/ CheckExpression \/ CheckReturn \/ PassOver
  <2>1. work # <<>> /\ work' = Advanced /\ scopes' = scopes
    BY <1>12 DEF RefuseDeclaration, CheckExpression, CheckReturn, PassOver, AtStatement, In
  <2>. QED
    BY <1>a, <1>b, <2>1, WalkStays
<1>13. CASE EnterBlock
  <2>. DEFINE y == Frame("block", Item.stmts)
  <2>1. /\ work # <<>> /\ Top.kind \in {"function", "block"} /\ Table!PushScope
        /\ work' = <<y>> \o (<<next>> \o Tail(work)) /\ y.kind = "block"
    BY <1>13, <1>a DEF EnterBlock, AtStatement, In, Frame
  <2>. HIDE DEF y
  <2>. QED
    BY <1>a, <2>1, WalkPushes DEF Globals
<1>14. CASE LeaveBlock
  <2>1. work # <<>> /\ Top.kind = "block" /\ Table!PopScope /\ work' = Tail(work)
    BY <1>14 DEF LeaveBlock, In
  <2>. QED
    BY <2>1, WalkPops DEF Globals
<1>15. CASE UNCHANGED vars
  BY <1>15 DEF vars, Walk, Listed, FramesNest, ScopesFollowTheWalk, Done, Table!Depth,
     Table!Allocated
<1>. QED
  BY <1>1, <1>2, <1>3, <1>4, <1>5, <1>6, <1>7, <1>8, <1>9, <1>10, <1>11, <1>12, <1>13, <1>14,
     <1>15, Zenon DEF Next

\* There is a scope for the globals and for each function and block that the
\* walk is in, whatever the programs are and however they are wrong.
THEOREM ScopesCorrect == Spec => []ScopesFollowTheWalk
<1>1. Walk => ScopesFollowTheWalk
  BY DEF Walk
<1>. QED
  BY <1>1, WalkInit, WalkNext, PTL DEF Spec

-----------------------------------------------------------------------------
(* The symbol table in the walk *)

TableInv == TableProofs!IInv

LEMMA TableConstants ==
  /\ TableProofs!CapacityAssumption /\ TableProofs!DepthAssumption
  /\ TableProofs!NullAssumption
BY TableAssumption
   DEF TableProofs!CapacityAssumption, TableProofs!DepthAssumption, TableProofs!NullAssumption

\* The table that the walk uses is the one that is proved about.
LEMMA SameTable ==
  /\ Table!Init <=> TableProofs!Init
  /\ Table!TypeOK <=> TableProofs!TypeOK
  /\ Table!PushScope <=> TableProofs!PushScope
  /\ Table!PopScope <=> TableProofs!PopScope
  /\ Table!FreeTable <=> TableProofs!FreeTable
  /\ \A n, d : Table!AddSymbol(n, d) <=> TableProofs!AddSymbol(n, d)
  /\ \A n : Table!LookupLocal(n) = TableProofs!LookupLocal(n)
  /\ Table!Depth = TableProofs!Depth
  /\ Table!Allocated <=> TableProofs!Allocated
  /\ Table!NewScope = TableProofs!NewScope
BY Zenon
   DEF Table!Init, TableProofs!Init, Table!NewScope, TableProofs!NewScope,
       Table!TypeOK, TableProofs!TypeOK, Table!Scope, TableProofs!Scope,
       Table!Symbol, TableProofs!Symbol,
       Table!PushScope, TableProofs!PushScope, Table!PopScope, TableProofs!PopScope,
       Table!FreeTable, TableProofs!FreeTable, Table!Depth, TableProofs!Depth,
       Table!Allocated, TableProofs!Allocated,
       Table!AddSymbol, TableProofs!AddSymbol, Table!Extended, TableProofs!Extended,
       Table!Grown, TableProofs!Grown, Table!LookupLocal, TableProofs!LookupLocal,
       Table!Declares, TableProofs!Declares, Table!Places, TableProofs!Places,
       Table!Find, TableProofs!Find

\* The calls of the walk keep what was proved of the table.
LEMMA TableKept ==
  ASSUME TableInv,
         \/ Table!PushScope \/ Table!PopScope \/ Table!FreeTable
         \/ \E n \in Names, d \in Decl : Table!AddSymbol(n, d)
         \/ UNCHANGED <<scopes, answer>>
  PROVE  TableInv'
<1>1. TableProofs!IInv /\ [TableProofs!Next]_(TableProofs!vars) => TableProofs!IInv'
  BY TableConstants, TableProofs!NextIInv
<1>2. TableProofs!Next \/ UNCHANGED TableProofs!vars
  BY SameTable DEF TableProofs!Next, TableProofs!vars
<1>. QED
  BY <1>1, <1>2 DEF TableInv

\* The symbols of a scope are as many as its array holds.
LEMMA ScopeSymbols ==
  ASSUME TableInv, NEW d \in 1..Len(scopes)
  PROVE  /\ Len(scopes[d].symbols) \in Nat
         /\ IsFiniteSet(SymbolsOf(d)) /\ Cardinality(SymbolsOf(d)) = Len(scopes[d].symbols)
<1>1. scopes \in Seq(TableProofs!Scope)
  BY DEF TableInv, TableProofs!IInv, TableProofs!TypeOK
<1>2. scopes[d] \in TableProofs!Scope
  BY <1>1, ElementOfSeq
<1>3. Len(scopes[d].symbols) \in Nat
  BY <1>2, LenProperties DEF TableProofs!Scope
<1>. DEFINE n == Len(scopes[d].symbols)
<1>. HIDE DEF n
<1>4. n \in Nat
  BY <1>3 DEF n
<1>5. IsFiniteSet(1..n) /\ Cardinality(1..n) = n
  <2>1. Cardinality(1..n) = IF 1 > n THEN 0 ELSE n - 1 + 1
    BY <1>4, FS_Interval
  <2>. QED
    BY <1>4, <2>1, FS_Interval
<1>6. IsFiniteSet({d}) /\ Cardinality({d}) = 1
  BY FS_Singleton
<1>7. IsFiniteSet({d} \X (1..n)) /\ Cardinality({d} \X (1..n)) = 1 * n
  BY <1>5, <1>6, FS_Product
<1>. QED
  BY <1>4, <1>7 DEF SymbolsOf, n

\* A new scope has no symbols.
LEMMA PushSymbols ==
  ASSUME TableInv, Table!PushScope
  PROVE  TableSymbols' = TableSymbols
<1>1. PICK depth \in Nat :
         /\ depth = Len(scopes) /\ Len(scopes') = depth + 1
         /\ \A i \in 1..depth : scopes'[i] = scopes[i]
         /\ Len(scopes'[depth + 1].symbols) = 0
  <2>1. TableProofs!TypeOK /\ TableProofs!PushScope
    BY SameTable DEF TableInv, TableProofs!IInv
  <2>2. /\ TableProofs!Depth \in Nat /\ TableProofs!Depth' = TableProofs!Depth + 1
        /\ \A i \in 1..TableProofs!Depth : scopes'[i] = scopes[i]
        /\ scopes'[TableProofs!Depth + 1] = TableProofs!NewScope
        /\ Len(TableProofs!NewScope.symbols) = 0
    BY <2>1, TableConstants, TableProofs!PushEffect
  <2>. QED
    BY <2>2 DEF TableProofs!Depth
<1>2. 1..depth + 1 = 1..depth \cup {depth + 1}
  BY <1>1
<1>3. \A i \in 1..depth : SymbolsOf(i)' = SymbolsOf(i)
  BY <1>1 DEF SymbolsOf
<1>4. SymbolsOf(depth + 1)' = {}
  BY <1>1 DEF SymbolsOf
<1>5. TableSymbols = UNION {SymbolsOf(i) : i \in 1..depth}
  BY <1>1 DEF TableSymbols, Table!Depth
<1>6. TableSymbols' = UNION {SymbolsOf(i)' : i \in 1..depth + 1}
  BY <1>1 DEF TableSymbols, Table!Depth
<1>. QED
  BY <1>2, <1>3, <1>4, <1>5, <1>6, Zenon

\* The symbols of the innermost scope go with it.
LEMMA PopSymbols ==
  ASSUME TableInv, Len(scopes) > 1, Table!PopScope, IsFiniteSet(TableSymbols)
  PROVE  /\ IsFiniteSet(TableSymbols')
         /\ Cardinality(TableSymbols)
              = Cardinality(TableSymbols') + Len(scopes[Len(scopes)].symbols)
<1>1. PICK depth \in Nat :
         /\ depth = Len(scopes) /\ depth > 1 /\ Len(scopes') = depth - 1
         /\ \A i \in 1..depth - 1 : scopes'[i] = scopes[i]
  <2>1. TableProofs!TypeOK /\ TableProofs!PopScope /\ TableProofs!Depth > 1
    BY SameTable DEF TableInv, TableProofs!IInv, TableProofs!Depth
  <2>2. /\ TableProofs!Depth \in Nat /\ TableProofs!Depth' = TableProofs!Depth - 1
        /\ \A i \in 1..TableProofs!Depth - 1 : scopes'[i] = scopes[i]
    BY <2>1, TableConstants, TableProofs!PopEffect
  <2>. QED
    BY <2>1, <2>2 DEF TableProofs!Depth
<1>2. /\ Len(scopes[depth].symbols) \in Nat /\ IsFiniteSet(SymbolsOf(depth))
      /\ Cardinality(SymbolsOf(depth)) = Len(scopes[depth].symbols)
  <2>1. depth \in 1..Len(scopes)
    BY <1>1
  <2>. QED
    BY <1>1, <2>1, ScopeSymbols
<1>3. 1..depth = 1..depth - 1 \cup {depth} /\ depth \notin 1..depth - 1
  BY <1>1
<1>4. \A i \in 1..depth - 1 : SymbolsOf(i)' = SymbolsOf(i)
  BY <1>1 DEF SymbolsOf
<1>5. TableSymbols = UNION {SymbolsOf(i) : i \in 1..depth}
  BY <1>1 DEF TableSymbols, Table!Depth
<1>6. TableSymbols' = UNION {SymbolsOf(i) : i \in 1..depth - 1}
  <2>1. TableSymbols' = UNION {SymbolsOf(i)' : i \in 1..depth - 1}
    BY <1>1 DEF TableSymbols, Table!Depth
  <2>. QED
    BY <1>4, <2>1, Zenon
<1>7. TableSymbols = TableSymbols' \cup SymbolsOf(depth)
  BY <1>3, <1>5, <1>6, Zenon
<1>8. TableSymbols' \cap SymbolsOf(depth) = {}
  BY <1>3, <1>6 DEF SymbolsOf
<1>9. IsFiniteSet(TableSymbols')
  BY <1>7, FS_Subset
<1>10. /\ Cardinality(TableSymbols)
            = Cardinality(TableSymbols') + Cardinality(SymbolsOf(depth)) - Cardinality({})
       /\ Cardinality({}) = 0
  BY <1>2, <1>7, <1>8, <1>9, FS_Union, FS_EmptySet
<1>11. Cardinality(TableSymbols') \in Nat
  BY <1>9, FS_CardinalityType
<1>. QED
  BY <1>1, <1>2, <1>9, <1>10, <1>11

\* A declaration is a symbol more, or is refused.
LEMMA AddSymbols ==
  ASSUME TableInv, NEW n \in Names, NEW d \in Decl, Table!AddSymbol(n, d),
         IsFiniteSet(TableSymbols)
  PROVE  /\ answer' \in BOOLEAN /\ IsFiniteSet(TableSymbols')
         /\ answer' => Cardinality(TableSymbols') = Cardinality(TableSymbols) + 1
         /\ ~answer' => Cardinality(TableSymbols') = Cardinality(TableSymbols)
         /\ Table!LookupLocal(n) = NULL => answer'
<1>1. CASE Table!LookupLocal(n) # NULL
  <2>1. answer' = FALSE /\ scopes' = scopes
    BY <1>1 DEF Table!AddSymbol
  <2>2. TableSymbols' = TableSymbols
    BY <2>1 DEF TableSymbols, SymbolsOf, Table!Depth
  <2>. QED
    BY <1>1, <2>1, <2>2
<1>2. CASE Table!LookupLocal(n) = NULL
  <2>1. PICK depth \in Nat, len \in Nat :
           /\ depth = Len(scopes) /\ depth >= 1 /\ Len(scopes') = depth /\ answer' = TRUE
           /\ \A i \in 1..depth - 1 : scopes'[i] = scopes[i]
           /\ len = Len(scopes[depth].symbols) /\ Len(scopes'[depth].symbols) = len + 1
    <3>. DEFINE x == [name |-> n, decl |-> d]
    <3>1. /\ TableProofs!TypeOK /\ TableProofs!NoDuplicates /\ TableProofs!WithinCapacity
          /\ TableProofs!AddSymbol(n, d) /\ TableProofs!LookupLocal(n) = NULL
          /\ TableProofs!Allocated
      BY <1>2, SameTable DEF TableInv, TableProofs!IInv, Table!AddSymbol
    <3>2. /\ TableProofs!Depth \in Nat /\ TableProofs!Depth' = TableProofs!Depth
          /\ TableProofs!Depth >= 1
          /\ scopes[TableProofs!Depth] \in TableProofs!Scope
          /\ Len(scopes[TableProofs!Depth].symbols) <= scopes[TableProofs!Depth].capacity
          /\ \A i \in 1..TableProofs!Depth - 1 : scopes'[i] = scopes[i]
          /\ scopes'[TableProofs!Depth] = TableProofs!Extended(scopes[TableProofs!Depth], x)
          /\ answer' = TRUE
      BY <3>1, TableConstants, TableProofs!AddEffect
    <3>3. x \in TableProofs!Symbol
      BY DEF TableProofs!Symbol
    <3>. HIDE DEF x
    <3>4. Len(scopes'[TableProofs!Depth].symbols) = Len(scopes[TableProofs!Depth].symbols) + 1
      BY <3>2, <3>3, TableConstants, TableProofs!ExtendedProperties
    <3>5. Len(scopes[TableProofs!Depth].symbols) \in Nat
      BY <3>2, LenProperties DEF TableProofs!Scope, TableProofs!Depth
    <3>. QED
      BY <3>2, <3>4, <3>5 DEF TableProofs!Depth
  <2>2. 1..depth = 1..depth - 1 \cup {depth} /\ 1..len + 1 = 1..len \cup {len + 1}
        /\ depth \notin 1..depth - 1 /\ len + 1 \notin 1..len
    BY <2>1
  <2>3. \A i \in 1..depth - 1 : SymbolsOf(i)' = SymbolsOf(i)
    BY <2>1 DEF SymbolsOf
  <2>4. SymbolsOf(depth) = {depth} \X (1..len)
    BY <2>1 DEF SymbolsOf
  <2>5. SymbolsOf(depth)' = {depth} \X (1..len + 1)
    BY <2>1 DEF SymbolsOf
  <2>6. SymbolsOf(depth)' = SymbolsOf(depth) \cup {<<depth, len + 1>>}
    BY <2>2, <2>4, <2>5
  <2>7. TableSymbols = UNION {SymbolsOf(i) : i \in 1..depth}
    BY <2>1 DEF TableSymbols, Table!Depth
  <2>8. TableSymbols' = UNION {SymbolsOf(i)' : i \in 1..depth}
    BY <2>1 DEF TableSymbols, Table!Depth
  <2>9. TableSymbols' = TableSymbols \cup {<<depth, len + 1>>}
    BY <2>2, <2>3, <2>6, <2>7, <2>8, Zenon
  <2>10. <<depth, len + 1>> \notin TableSymbols
    <3>1. \A i \in 1..depth - 1 : <<depth, len + 1>> \notin SymbolsOf(i)
      BY <2>2 DEF SymbolsOf
    <3>2. <<depth, len + 1>> \notin SymbolsOf(depth)
      BY <2>2, <2>4
    <3>. QED
      BY <2>2, <2>7, <3>1, <3>2, Zenon
  <2>11. /\ Cardinality(TableSymbols') = Cardinality(TableSymbols) + 1
         /\ IsFiniteSet(TableSymbols')
    BY <2>9, <2>10, FS_AddElement
  <2>. QED
    BY <2>1, <2>11
<1>. QED
  BY <1>1, <1>2

-----------------------------------------------------------------------------
(* Programs *)

\* What an activation can have left to do.
FrameOver(S, f) ==
  \/ f.kind \in Globals /\ f.todo \in Programs(S)
  \/ f.kind = "params" /\ f.todo \in Seq(Parameters) /\ f.body \in S
  \/ f.kind \in {"function", "block"} /\ f.todo \in Seq(S)

WorkOver(S) == \A i \in 1..Len(work) : FrameOver(S, work[i])

PlaceOver(S) == /\ session \in Seq(Programs(S)) /\ turn \in 1..Len(session)
                /\ expected \in Types \cup {"null"}

\* The innermost activation gives way to another, ends, or waits for a new one.
LEMMA WorkReplaced ==
  ASSUME NEW S, Listed(work), WorkOver(S), work # <<>>, NEW x, FrameOver(S, x)
  PROVE  LET w == <<x>> \o Tail(work) IN \A i \in 1..Len(w) : FrameOver(S, w[i])
<1>. DEFINE w == <<x>> \o Tail(work)
<1>1. Len(w) = Len(work) /\ w[1] = x /\ \A i \in 2..Len(work) : w[i] = work[i]
  BY ReplaceEffect
<1>2. Len(work) \in Nat
  BY DEF Listed
<1>. HIDE DEF w
<1>3. ASSUME NEW i \in 1..Len(w) PROVE FrameOver(S, w[i])
  <2>1. i = 1 \/ (i \in 2..Len(work) /\ i \in 1..Len(work))
    BY <1>1, <1>2
  <2>. QED
    BY <1>1, <2>1 DEF WorkOver
<1>. QED
  BY <1>3 DEF w

LEMMA WorkPopped ==
  ASSUME NEW S, Listed(work), WorkOver(S), work # <<>>
  PROVE  \A i \in 1..Len(Tail(work)) : FrameOver(S, Tail(work)[i])
<1>1. /\ Len(work) \in Nat /\ Len(Tail(work)) = Len(work) - 1
      /\ \A i \in 1..Len(Tail(work)) : Tail(work)[i] = work[i + 1]
  BY TailEffect DEF Listed
<1>2. \A i \in 1..Len(Tail(work)) : i + 1 \in 1..Len(work)
  BY <1>1
<1>. QED
  BY <1>1, <1>2 DEF WorkOver

LEMMA WorkPushed ==
  ASSUME NEW S, NEW s, Listed(s), \A i \in 1..Len(s) : FrameOver(S, s[i]),
         NEW x, FrameOver(S, x)
  PROVE  LET w == <<x>> \o s IN \A i \in 1..Len(w) : FrameOver(S, w[i])
<1>. DEFINE w == <<x>> \o s
<1>1. /\ Len(s) \in Nat /\ Len(w) = Len(s) + 1 /\ w[1] = x
      /\ \A i \in 1..Len(s) : w[i + 1] = s[i]
  BY PushEffect DEF Listed
<1>. HIDE DEF w
<1>2. ASSUME NEW i \in 1..Len(w) PROVE FrameOver(S, w[i])
  <2>1. i = 1 \/ (i - 1 \in 1..Len(s) /\ (i - 1) + 1 = i)
    BY <1>1
  <2>2. CASE i - 1 \in 1..Len(s) /\ (i - 1) + 1 = i
    BY <1>1, <2>2
  <2>. QED
    BY <1>1, <2>1, <2>2
<1>. QED
  BY <1>2 DEF w

\* What the innermost activation has in hand.
LEMMA TopOver ==
  ASSUME NEW S, Closed(S), Listed(work), WorkOver(S), work # <<>>
  PROVE  /\ FrameOver(S, Top)
         /\ Top.kind \in Globals =>
              /\ More => Item \in FunctionNodes(S)
              /\ More => Tail(Top.todo) \in Programs(S)
         /\ Top.kind = "params" =>
              /\ Top.body \in S
              /\ More => Item \in Parameters /\ Tail(Top.todo) \in Seq(Parameters)
         /\ Top.kind \in {"function", "block"} =>
              (More => Item \in S /\ Tail(Top.todo) \in Seq(S))
<1>1. Top = work[1] /\ 1 \in 1..Len(work)
  BY TailEffect DEF Top, Listed
<1>2. FrameOver(S, Top)
  BY <1>1 DEF WorkOver
<1>3. ASSUME NEW T, Top.todo \in Seq(T), More PROVE Item \in T /\ Tail(Top.todo) \in Seq(T)
  BY <1>3, HeadTailProperties DEF More, Item
<1>4. Top.kind \in Globals => Top.todo \in Seq(FunctionNodes(S))
  BY <1>2 DEF FrameOver, Globals, Programs
<1>5. Top.kind = "params" => Top.todo \in Seq(Parameters) /\ Top.body \in S
  BY <1>2 DEF FrameOver, Globals
<1>6. Top.kind \in {"function", "block"} => Top.todo \in Seq(S)
  BY <1>2 DEF FrameOver, Globals
<1>. QED
  BY <1>2, <1>3, <1>4, <1>5, <1>6 DEF Programs

\* A turn of a loop leaves the rest for later.
LEMMA AdvancedOver ==
  ASSUME NEW S, Closed(S), Listed(work), WorkOver(S), work # <<>>, More
  PROVE  /\ Listed(Advanced)
         /\ Top.kind # "params" => \A i \in 1..Len(Advanced) : FrameOver(S, Advanced[i])
<1>. DEFINE x == Frame(Top.kind, Tail(Top.todo))
<1>1. Listed(Advanced)
  BY ReplaceEffect DEF Advanced
<1>2. ASSUME Top.kind # "params" PROVE FrameOver(S, x)
  <2>1. x.kind = Top.kind /\ x.todo = Tail(Top.todo)
    BY DEF Frame
  <2>. HIDE DEF x
  <2>. QED
    BY <1>2, <2>1, TopOver DEF FrameOver
<1>. HIDE DEF x
<1>3. Advanced = <<x>> \o Tail(work)
  BY DEF Advanced, x
<1>. QED
  BY <1>1, <1>2, <1>3, WorkReplaced

\* The session, and what is left to do of it, is over S.
Over(S) == PlaceOver(S) /\ WorkOver(S)

\* The walk begins with a program of the session.
LEMMA OverInit ==
  ASSUME NEW S, SessionsOver(S), Init
  PROVE  Over(S)
<1>1. session \in Seq(Programs(S)) /\ session # <<>>
  BY DEF SessionsOver, Init
<1>2. turn \in 1..Len(session)
  BY <1>1, LenProperties, EmptySeq DEF Init
<1>3. program \in Programs(S)
  BY <1>1, <1>2, ElementOfSeq DEF program
<1>. DEFINE x == Frame("register", program)
<1>4. FrameOver(S, x)
  BY <1>3 DEF FrameOver, Frame, Globals
<1>5. work = <<x>>
  BY DEF Init
<1>. HIDE DEF x
<1>6. WorkOver(S)
  <2>1. Len(work) = 1 /\ work[1] = x
    BY <1>5
  <2>. QED
    BY <1>4, <2>1 DEF WorkOver
<1>7. expected = "null"
  BY DEF Init
<1>. QED
  BY <1>1, <1>2, <1>6, <1>7 DEF Over, PlaceOver

\* Every turn works on what the session has.
LEMMA OverNext ==
  ASSUME NEW S, SessionsOver(S), Walk, Over(S), [Next]_vars
  PROVE  Over(S)'
<1>a. Closed(S) /\ Listed(work) /\ WorkOver(S) /\ PlaceOver(S)
  BY DEF SessionsOver, Walk, Over
<1>b. ASSUME NEW w, work' = w, \A i \in 1..Len(w) : FrameOver(S, w[i])
      PROVE  WorkOver(S)'
  BY <1>b DEF WorkOver
<1>c. program \in Programs(S)
  BY <1>a, ElementOfSeq DEF PlaceOver, program
<1>1. CASE RegisterFunction \/ DeclareVariable \/ RefuseDeclaration \/ CheckExpression
           \/ CheckReturn \/ PassOver
  <2>1. /\ work # <<>> /\ More /\ Top.kind # "params" /\ work' = Advanced
        /\ UNCHANGED <<session, turn, expected>>
    BY <1>1 DEF RegisterFunction, DeclareVariable, RefuseDeclaration, CheckExpression,
                CheckReturn, PassOver, AtStatement, In, Position
  <2>2. WorkOver(S)'
    BY <1>a, <1>b, <2>1, AdvancedOver
  <2>. QED
    BY <1>a, <2>1, <2>2 DEF Over, PlaceOver
<1>2. CASE SecondPass
  <2>. DEFINE x == Frame("check", program)
  <2>1. work' = <<x>> /\ UNCHANGED <<session, turn, expected>>
    BY <1>2 DEF SecondPass, Position
  <2>2. FrameOver(S, x)
    BY <1>c DEF FrameOver, Frame, Globals
  <2>. HIDE DEF x
  <2>3. WorkOver(S)'
    <3>1. Len(<<x>>) = 1 /\ <<x>>[1] = x
      OBVIOUS
    <3>. QED
      BY <1>b, <2>1, <2>2, <3>1
  <2>. QED
    BY <1>a, <2>1, <2>3 DEF Over, PlaceOver
<1>3. CASE Finish
  <2>1. work' = <<>> /\ UNCHANGED <<session, turn, expected>>
    BY <1>3 DEF Finish, Position
  <2>2. WorkOver(S)'
    BY <2>1, EmptyListed DEF WorkOver
  <2>. QED
    BY <1>a, <2>1, <2>2 DEF Over, PlaceOver
<1>4. CASE NextProgram
  <2>. DEFINE x == Frame("register", session[turn + 1])
  <2>1. /\ work' = <<x>> /\ turn < Len(session) /\ turn' = turn + 1
        /\ UNCHANGED <<session, expected>>
    BY <1>4 DEF NextProgram
  <2>2. turn + 1 \in 1..Len(session) /\ session \in Seq(Programs(S))
    BY <1>a, <2>1, LenProperties DEF PlaceOver
  <2>3. session[turn + 1] \in Programs(S)
    BY <2>2, ElementOfSeq
  <2>4. FrameOver(S, x)
    BY <2>3 DEF FrameOver, Frame, Globals
  <2>. HIDE DEF x
  <2>5. WorkOver(S)'
    <3>1. Len(<<x>>) = 1 /\ <<x>>[1] = x
      OBVIOUS
    <3>. QED
      BY <1>b, <2>1, <2>4, <3>1
  <2>. QED
    BY <1>a, <2>1, <2>2, <2>5 DEF Over, PlaceOver
<1>5. CASE FreeContext
  <2>1. UNCHANGED <<session, turn, work>> /\ expected' = "null"
    BY <1>5 DEF FreeContext, Position
  <2>. QED
    BY <1>a, <2>1 DEF Over, PlaceOver, WorkOver
<1>6. CASE EnterFunction
  <2>. DEFINE x == ParamsFrame(Item.params, Item.body)
  <2>1. /\ work # <<>> /\ Top.kind = "check" /\ More /\ work' = <<x>> \o Advanced
        /\ expected' = Item.type /\ UNCHANGED <<session, turn>>
    BY <1>6 DEF EnterFunction, In, Position
  <2>2. Item \in FunctionNodes(S)
    BY <1>a, <2>1, TopOver DEF Globals
  <2>3. FrameOver(S, x)
    BY <2>2 DEF FrameOver, ParamsFrame, FunctionNodes
  <2>. HIDE DEF x
  <2>4. Listed(Advanced) /\ \A i \in 1..Len(Advanced) : FrameOver(S, Advanced[i])
    BY <1>a, <2>1, AdvancedOver
  <2>5. WorkOver(S)'
    BY <1>b, <2>1, <2>3, <2>4, WorkPushed
  <2>. QED
    BY <1>a, <2>1, <2>2, <2>5 DEF Over, PlaceOver, FunctionNodes
<1>7. CASE RefuseParameter \/ LeaveFunction \/ LeaveBlock
  <2>1. work # <<>> /\ work' = Tail(work) /\ UNCHANGED <<session, turn, expected>>
    BY <1>7 DEF RefuseParameter, LeaveFunction, LeaveBlock, In, Position
  <2>2. WorkOver(S)'
    BY <1>a, <1>b, <2>1, WorkPopped
  <2>. QED
    BY <1>a, <2>1, <2>2 DEF Over, PlaceOver
<1>8. CASE AddParameter
  <2>. DEFINE x == ParamsFrame(Tail(Top.todo), Top.body)
  <2>1. /\ work # <<>> /\ Top.kind = "params" /\ More /\ work' = <<x>> \o Tail(work)
        /\ UNCHANGED <<session, turn, expected>>
    BY <1>8 DEF AddParameter, In, Position
  <2>2. FrameOver(S, x)
    <3>1. Tail(Top.todo) \in Seq(Parameters) /\ Top.body \in S
      BY <1>a, <2>1, TopOver
    <3>. QED
      BY <3>1 DEF FrameOver, ParamsFrame
  <2>. HIDE DEF x
  <2>3. WorkOver(S)'
    BY <1>a, <1>b, <2>1, <2>2, WorkReplaced
  <2>. QED
    BY <1>a, <2>1, <2>3 DEF Over, PlaceOver
<1>9. CASE EnterBody
  <2>. DEFINE x == Frame("function", <<Top.body>>)
  <2>1. /\ work # <<>> /\ Top.kind = "params" /\ work' = <<x>> \o Tail(work)
        /\ UNCHANGED <<session, turn, expected>>
    BY <1>9 DEF EnterBody, In, Position
  <2>2. FrameOver(S, x)
    <3>1. Top.body \in S
      BY <1>a, <2>1, TopOver
    <3>2. <<Top.body>> \in Seq(S)
      BY <3>1
    <3>. QED
      BY <3>2 DEF FrameOver, Frame
  <2>. HIDE DEF x
  <2>3. WorkOver(S)'
    BY <1>a, <1>b, <2>1, <2>2, WorkReplaced
  <2>. QED
    BY <1>a, <2>1, <2>3 DEF Over, PlaceOver
<1>10. CASE EnterBlock
  <2>. DEFINE x == Frame("block", Item.stmts)
  <2>1. /\ work # <<>> /\ Top.kind \in {"function", "block"} /\ More /\ Item.kind = "block"
        /\ work' = <<x>> \o Advanced /\ UNCHANGED <<session, turn, expected>>
    BY <1>10 DEF EnterBlock, AtStatement, In, Position
  <2>2. Item.stmts \in Seq(S)
    BY <1>a, <2>1, TopOver DEF Closed
  <2>3. FrameOver(S, x)
    BY <2>2 DEF FrameOver, Frame
  <2>. HIDE DEF x
  <2>4. Listed(Advanced) /\ \A i \in 1..Len(Advanced) : FrameOver(S, Advanced[i])
    BY <1>a, <2>1, AdvancedOver
  <2>5. WorkOver(S)'
    BY <1>b, <2>1, <2>3, <2>4, WorkPushed
  <2>. QED
    BY <1>a, <2>1, <2>5 DEF Over, PlaceOver
<1>11. CASE UNCHANGED vars
  BY <1>11 DEF vars, Over, PlaceOver, WorkOver
<1>. QED
  BY <1>1, <1>2, <1>3, <1>4, <1>5, <1>6, <1>7, <1>8, <1>9, <1>10, <1>11, Zenon DEF Next

-----------------------------------------------------------------------------
(* Type inference *)

\* A call for e depends on the calls for its parts only.
LEMMA PartsDecide ==
  ASSUME NEW e \in Exprs, NEW env, NEW f, NEW g, \A p \in Parts(e) : f[p] = g[p]
  PROVE  TypeFrom(f, env, e) = TypeFrom(g, env, e)
<1>1. e.kind \in Leaves \cup Untyped \cup Composed
  BY ExprsAssumption
<1>2. CASE e.kind \in Leaves \cup Untyped
  BY <1>2 DEF TypeFrom, Leaves, Untyped
<1>3. CASE e.kind = "unary"
  BY <1>3 DEF TypeFrom, Parts, Leaves, Untyped
<1>4. CASE e.kind = "binary"
  <2>1. f[e.left] = g[e.left] /\ f[e.right] = g[e.right]
    BY <1>4 DEF Parts, Leaves, Untyped
  <2>. QED
    BY <1>4, <2>1 DEF TypeFrom, Leaves, Untyped
<1>5. CASE e.kind = "bit_slice"
  BY <1>5 DEF TypeFrom, Parts, Leaves, Untyped
<1>. QED
  BY <1>1, <1>2, <1>3, <1>4, <1>5 DEF Composed

\* f calls itself as the code does, for every expression of less than size n.
Infers(f, env, n) == \A e \in Exprs : Size(e) < n => f[e] = TypeFrom(f, env, e)

\* Two such functions find the same types.
LEMMA InferenceIsUnique ==
  ASSUME NEW env, NEW f, NEW g, NEW i \in Nat, NEW j \in Nat,
         Infers(f, env, i), Infers(g, env, j),
         NEW e \in Exprs, Size(e) < i, Size(e) < j
  PROVE  f[e] = g[e]
<1>. DEFINE Differ == {n \in Nat : \E x \in Exprs : /\ Size(x) = n /\ n < i /\ n < j
                                                    /\ f[x] # g[x]}
<1>. SUFFICES ASSUME f[e] # g[e] PROVE FALSE
  OBVIOUS
<1>1. Size(e) \in Differ
  BY ExprsAssumption
<1>2. PICK n \in Differ : \A m \in Differ : n <= m
  <2>. HIDE DEF Differ
  <2>1. Differ \subseteq Nat
    BY DEF Differ
  <2>. QED
    BY <1>1, <2>1, LeastNumber
<1>3. PICK x \in Exprs : Size(x) = n /\ n < i /\ n < j /\ f[x] # g[x]
  BY <1>2
<1>4. ASSUME NEW p \in Parts(x) PROVE f[p] = g[p]
  <2>1. p \in Exprs /\ Size(p) \in Nat /\ Size(p) < n
    BY <1>3, ExprsAssumption
  <2>2. Size(p) \notin Differ
    BY <1>2, <2>1
  <2>. QED
    BY <1>2, <1>3, <2>1, <2>2
<1>5. TypeFrom(f, env, x) = TypeFrom(g, env, x)
  BY <1>4, PartsDecide
<1>. QED
  BY <1>3, <1>5 DEF Infers

\* There is one, for any size.
LEMMA InferenceToSize ==
  ASSUME NEW env
  PROVE  \A n \in Nat : \E f : Infers(f, env, n)
<1>. DEFINE S == {n \in Nat : \E f : Infers(f, env, n)}
<1>1. 0 \in S
  BY ExprsAssumption DEF Infers
<1>2. ASSUME NEW n \in Nat, n \in S PROVE n + 1 \in S
  <2>1. PICK f : Infers(f, env, n)
    BY <1>2
  <2>. DEFINE g == [e \in Exprs |-> TypeFrom(f, env, e)]
  <2>2. \A e \in Exprs : g[e] = TypeFrom(f, env, e)
    OBVIOUS
  <2>. HIDE DEF g
  <2>3. ASSUME NEW e \in Exprs, Size(e) < n + 1 PROVE g[e] = TypeFrom(g, env, e)
    <3>1. ASSUME NEW p \in Parts(e) PROVE f[p] = g[p]
      <4>1. p \in Exprs /\ Size(p) < n
        BY <2>3, ExprsAssumption
      <4>. QED
        BY <2>1, <2>2, <4>1 DEF Infers
    <3>. QED
      BY <2>2, <3>1, PartsDecide
  <2>4. Infers(g, env, n + 1)
    BY <2>3 DEF Infers
  <2>. QED
    BY <2>4
<1>. HIDE DEF S
<1>3. Nat \subseteq S
  BY <1>1, <1>2, Induction
<1>. QED
  BY <1>3 DEF S

\* The function in the definition of Infer is there.
LEMMA InferenceExists ==
  ASSUME NEW env
  PROVE  \E f : f = [e \in Exprs |-> TypeFrom(f, env, e)]
<1>. DEFINE a == [n \in Nat |-> CHOOSE f : Infers(f, env, n)]
            f == [e \in Exprs |-> a[Size(e) + 1][e]]
<1>1. \A n \in Nat : Infers(a[n], env, n)
  BY InferenceToSize
<1>. HIDE DEF a
<1>2. ASSUME NEW e \in Exprs PROVE f[e] = TypeFrom(f, env, e)
  <2>1. Size(e) \in Nat /\ Size(e) + 1 \in Nat /\ Size(e) < Size(e) + 1
    BY ExprsAssumption
  <2>2. a[Size(e) + 1][e] = TypeFrom(a[Size(e) + 1], env, e)
    BY <1>1, <2>1 DEF Infers
  <2>3. ASSUME NEW p \in Parts(e) PROVE a[Size(e) + 1][p] = f[p]
    <3>1. p \in Exprs /\ Size(p) \in Nat /\ Size(p) < Size(e)
      BY ExprsAssumption
    <3>2. Size(p) + 1 \in Nat /\ Size(p) < Size(p) + 1 /\ Size(p) < Size(e) + 1
      BY <2>1, <3>1
    <3>3. a[Size(e) + 1][p] = a[Size(p) + 1][p]
      BY <1>1, <2>1, <3>1, <3>2, InferenceIsUnique
    <3>. QED
      BY <3>1, <3>3
  <2>4. f[e] = a[Size(e) + 1][e]
    OBVIOUS
  <2>. HIDE DEF f
  <2>5. TypeFrom(a[Size(e) + 1], env, e) = TypeFrom(f, env, e)
    BY <2>3, PartsDecide
  <2>. QED
    BY <2>2, <2>4, <2>5
<1>3. f = [e \in Exprs |-> TypeFrom(f, env, e)]
  BY <1>2
<1>. QED
  BY <1>3

\* infer_expr_type in terms of itself.
LEMMA InferEquation ==
  ASSUME NEW env, NEW e \in Exprs
  PROVE  /\ Infer(env, e) = TypeFrom([x \in Exprs |-> Infer(env, x)], env, e)
         /\ \A p \in Parts(e) : [x \in Exprs |-> Infer(env, x)][p] = Infer(env, p)
<1>. DEFINE f == CHOOSE f : f = [x \in Exprs |-> TypeFrom(f, env, x)]
            g == [x \in Exprs |-> Infer(env, x)]
<1>1. f = [x \in Exprs |-> TypeFrom(f, env, x)]
  BY InferenceExists
<1>2. \A x : Infer(env, x) = f[x]
  BY DEF Infer
<1>. HIDE DEF f
<1>3. \A p \in Parts(e) : p \in Exprs
  BY ExprsAssumption
<1>4. \A x \in Exprs : g[x] = Infer(env, x)
  OBVIOUS
<1>. HIDE DEF g
<1>5. TypeFrom(f, env, e) = TypeFrom(g, env, e)
  BY <1>2, <1>3, <1>4, PartsDecide
<1>6. f[e] = TypeFrom(f, env, e)
  BY <1>1
<1>. QED
  BY <1>2, <1>3, <1>4, <1>5, <1>6 DEF g

\* What can come of an expression: a type without an error, or no type and at
\* most one error.
Judgement(r) == /\ r.errors \in {0, 1}
                /\ r.type # NoType => r.errors = 0

\* An expression whose parts come to that comes to that.
LEMMA JudgementOfParts ==
  ASSUME NEW e \in Exprs, NEW env, NEW f, \A p \in Parts(e) : Judgement(f[p])
  PROVE  Judgement(TypeFrom(f, env, e))
<1>1. e.kind \in Leaves \cup Untyped \cup Composed
  BY ExprsAssumption
<1>2. /\ \A n \in {0, 1} : Judgement(Refused(n))
      /\ \A t : Judgement(Typed(t))
  BY DEF Judgement, Refused, Typed, NoType
<1>3. CASE e.kind \in Leaves \cup Untyped
  <2>1. \/ \E t : TypeFrom(f, env, e) = Typed(t)
        \/ \E n \in {0, 1} : TypeFrom(f, env, e) = Refused(n)
    BY <1>3 DEF TypeFrom, Leaves, Untyped
  <2>. QED
    BY <1>2, <2>1
<1>4. CASE e.kind = "unary"
  BY <1>4 DEF TypeFrom, Parts, Leaves, Untyped
<1>5. CASE e.kind = "binary"
  <2>. DEFINE left == f[e.left]
              right == f[e.right]
  <2>1. Judgement(left) /\ Judgement(right)
    BY <1>5 DEF Parts, Leaves, Untyped
  <2>2. TypeFrom(f, env, e) = BothSides(left, right, e.op)
    BY <1>5 DEF TypeFrom, Leaves, Untyped
  <2>. HIDE DEF left, right
  <2>3. \/ BothSides(left, right, e.op) \in {left, right, Refused(1)}
        \/ \E t : BothSides(left, right, e.op) = Typed(t)
    BY Zenon DEF BothSides
  <2>. QED
    BY <1>2, <2>1, <2>2, <2>3
<1>6. CASE e.kind = "bit_slice"
  <2>. DEFINE whole == f[e.expr]
  <2>1. Judgement(whole)
    BY <1>6 DEF Parts, Leaves, Untyped
  <2>2. TypeFrom(f, env, e) = SliceOf(whole, e)
    BY <1>6 DEF TypeFrom, Leaves, Untyped
  <2>. HIDE DEF whole
  <2>3. \/ SliceType(e.start, e.end) = Refused(1)
        \/ \E t : SliceType(e.start, e.end) = Typed(t)
    <3>1. SliceWidth(e.start, e.end) \in Nat
      BY <1>6, ExprsAssumption, ModulusAssumption DEF SliceWidth
    <3>. DEFINE width == SliceWidth(e.start, e.end)
    <3>2. width = 0 \/ width \in 1..8 \/ width \in 9..16 \/ width \in 17..32 \/ width > 32
      BY <3>1
    <3>. QED
      BY <3>1, <3>2 DEF SliceType
  <2>4. SliceOf(whole, e) \in {whole, Refused(1), SliceType(e.start, e.end)}
    BY Zenon DEF SliceOf
  <2>. QED
    BY <1>2, <2>1, <2>2, <2>3, <2>4
<1>. QED
  BY <1>1, <1>3, <1>4, <1>5, <1>6 DEF Composed

\* An expression has a type, and then nothing is reported of it or of its parts,
\* or it has none, and then one error is reported at most.
THEOREM Judged ==
  ASSUME NEW env, NEW e \in Exprs
  PROVE  Judgement(Infer(env, e))
<1>. DEFINE Bad == {n \in Nat : \E x \in Exprs : Size(x) = n /\ ~Judgement(Infer(env, x))}
<1>. SUFFICES ASSUME ~Judgement(Infer(env, e)) PROVE FALSE
  OBVIOUS
<1>1. Size(e) \in Bad
  BY ExprsAssumption
<1>2. PICK n \in Bad : \A m \in Bad : n <= m
  <2>. HIDE DEF Bad
  <2>1. Bad \subseteq Nat
    BY DEF Bad
  <2>. QED
    BY <1>1, <2>1, LeastNumber
<1>3. PICK x \in Exprs : Size(x) = n /\ ~Judgement(Infer(env, x))
  BY <1>2
<1>. DEFINE g == [y \in Exprs |-> Infer(env, y)]
<1>4. ASSUME NEW p \in Parts(x) PROVE Judgement(g[p])
  <2>1. p \in Exprs /\ Size(p) \in Nat /\ Size(p) < n
    BY <1>3, ExprsAssumption
  <2>2. Judgement(Infer(env, p))
    BY <1>2, <2>1
  <2>. QED
    BY <2>2, InferEquation
<1>5. Infer(env, x) = TypeFrom(g, env, x)
  BY InferEquation
<1>. HIDE DEF g
<1>. QED
  BY <1>3, <1>4, <1>5, JudgementOfParts

-----------------------------------------------------------------------------
(* The verdict *)

\* The error count, and what the result says of it.
Counted == /\ errors \in Nat /\ before \in Nat /\ before <= errors /\ ok \in BOOLEAN
           /\ ~Done => (ok <=> errors = before)
           /\ Done => (ok <=> errors = 0)

\* What is reported of the expressions of a statement is a number of errors.
LEMMA ErrorNumbers ==
  /\ \A e \in Exprs : Infer(Env, e).errors + 1 \in Nat
  /\ \A t : \A e \in Exprs : ErrorsAgainst(t, e) \in Nat
  /\ \A s : s.init \in Exprs => DeclarationErrors(s) \in Nat
<1>1. ASSUME NEW e \in Exprs PROVE Infer(Env, e).errors + 1 \in Nat
  <2>1. Infer(Env, e).errors \in {0, 1}
    BY Judged DEF Judgement
  <2>. QED
    BY <2>1
<1>2. ASSUME NEW t, NEW e \in Exprs PROVE ErrorsAgainst(t, e) \in Nat
  <2>1. ErrorsAgainst(t, e) \in {Infer(Env, e).errors + 1, 0, 1}
    BY Zenon DEF ErrorsAgainst
  <2>. QED
    BY <1>1, <2>1
<1>3. ASSUME NEW s, s.init \in Exprs PROVE DeclarationErrors(s) \in Nat
  <2>1. DeclarationErrors(s) \in {ErrorsAgainst(s.type, s.init), 0, 1}
    BY Zenon DEF DeclarationErrors
  <2>. QED
    BY <1>2, <1>3, <2>1
<1>. QED
  BY <1>1, <1>2, <1>3

\* A turn that judges the expression of a statement.
JudgingTurn == RefuseDeclaration \/ CheckExpression \/ CheckReturn

\* Such a turn reports some number of errors, of an expression of the session.
LEMMA JudgingReports ==
  ASSUME NEW S, SessionsOver(S), Walk, Over(S), JudgingTurn
  PROVE  \E n \in Nat : Report(n)
<1>1. /\ work # <<>> /\ Top.kind \in {"function", "block"} /\ More
      /\ Item.kind \in {"var", "expr", "return"}
  BY DEF JudgingTurn, RefuseDeclaration, CheckExpression, CheckReturn, AtStatement, In
<1>2. Item \in S /\ Closed(S)
  BY <1>1, TopOver DEF SessionsOver, Walk, Over
<1>3. CASE RefuseDeclaration
  <2>1. Item.init \in Exprs
    BY <1>2, <1>3 DEF RefuseDeclaration, AtStatement, Closed
  <2>2. Report(DeclarationErrors(Item))
    BY <1>3 DEF RefuseDeclaration
  <2>. QED
    BY <2>1, <2>2, ErrorNumbers
<1>4. CASE CheckExpression
  <2>1. Item.expr \in Exprs
    BY <1>2, <1>4 DEF CheckExpression, AtStatement, Closed
  <2>. DEFINE inferred == Infer(Env, Item.expr)
              n == IF Item.expr.kind # "null" /\ inferred.type = "null"
                   THEN inferred.errors + 1 ELSE 0
  <2>2. Report(n)
    BY <1>4 DEF CheckExpression
  <2>3. inferred.errors + 1 \in Nat
    BY <2>1, ErrorNumbers
  <2>4. n \in Nat
    BY <2>3
  <2>. HIDE DEF n
  <2>. QED
    BY <2>2, <2>4
<1>5. CASE CheckReturn
  <2>1. Item.value \in Exprs
    BY <1>2, <1>5 DEF CheckReturn, AtStatement, Closed
  <2>. DEFINE n == IF Item.value.kind = "null" THEN 0 ELSE ErrorsAgainst(expected, Item.value)
  <2>2. Report(n)
    BY <1>5 DEF CheckReturn
  <2>3. ErrorsAgainst(expected, Item.value) \in Nat
    BY <2>1, ErrorNumbers
  <2>4. n \in Nat
    BY <2>3
  <2>. HIDE DEF n
  <2>. QED
    BY <2>2, <2>4
<1>. QED
  BY <1>3, <1>4, <1>5 DEF JudgingTurn

\* Errors are counted and handed up together, or there are none.
LEMMA CountedReports ==
  ASSUME Counted, ~Done, ~Done', before' = before, NEW n \in Nat, Report(n)
  PROVE  Counted'
<1>1. errors' = errors + n /\ errors \in Nat /\ before \in Nat /\ before <= errors
  BY DEF Counted, Report
<1>2. ok' = (ok /\ n = 0) /\ (ok <=> errors = before)
  BY Zenon DEF Counted, Report
<1>3. ok' \in BOOLEAN
  BY <1>2
<1>4. ok' <=> errors = before /\ n = 0
  BY <1>2, Zenon
<1>5. errors = before /\ n = 0 <=> errors' = before
  BY <1>1
<1>6. ok' <=> errors' = before'
  BY <1>4, <1>5, Zenon
<1>7. errors' \in Nat /\ before' \in Nat /\ before' <= errors'
  BY <1>1
<1>. QED
  BY <1>3, <1>6, <1>7, Zenon DEF Counted

\* A turn without a report leaves the count as it is.
LEMMA CountedStays ==
  ASSUME Counted, ~Done, ~Done', UNCHANGED <<before, errors, ok>>
  PROVE  Counted'
BY Zenon DEF Counted

\* The walk goes on after a turn that does not end it.
LEMMA GoesOn ==
  ASSUME Walk, work # <<>>
  PROVE  /\ \A x : <<x>> \o Tail(work) # <<>>
         /\ \A x, y : <<y>> \o (<<x>> \o Tail(work)) # <<>>
         /\ Top.kind \notin Globals => Tail(work) # <<>>
<1>1. Listed(work) /\ Listed(Tail(work)) /\ Len(Tail(work)) = Len(work) - 1
  BY TailEffect DEF Walk
<1>2. ASSUME NEW x, NEW s, Listed(s) PROVE <<x>> \o s # <<>> /\ Listed(<<x>> \o s)
  <2>1. Listed(<<x>> \o s) /\ Len(<<x>> \o s) = Len(s) + 1 /\ Len(s) \in Nat
    BY <1>2, PushEffect DEF Listed
  <2>2. Len(<<x>> \o s) # 0
    BY <2>1
  <2>. QED
    BY <2>1, <2>2, EmptySeq
<1>3. ASSUME Top.kind \notin Globals PROVE Tail(work) # <<>>
  <2>1. /\ Len(work) \in Nat /\ Len(work) >= 1 /\ Top = work[1]
        /\ Len(work) = 1 => Top.kind \in Globals
    BY DepthOfTop DEF Walk, FramesNest, Globals
  <2>2. Len(Tail(work)) # 0
    BY <1>1, <1>3, <2>1
  <2>. QED
    BY <2>2, EmptySeq
<1>4. ASSUME NEW x PROVE <<x>> \o Tail(work) # <<>> /\ Listed(<<x>> \o Tail(work))
  BY <1>1, <1>2
<1>5. ASSUME NEW x, NEW y PROVE <<y>> \o (<<x>> \o Tail(work)) # <<>>
  BY <1>2, <1>4
<1>. QED
  BY <1>3, <1>4, <1>5

\* The walk begins without an error.
LEMMA CountedInit == Init => Counted
<1>. SUFFICES ASSUME Init PROVE Counted
  OBVIOUS
<1>1. errors = 0 /\ before = 0 /\ ok = TRUE /\ work # <<>>
  BY DEF Init
<1>. QED
  BY <1>1 DEF Counted, Done

\* Every turn keeps the count and the result in step.
LEMMA CountedNext ==
  ASSUME NEW S, SessionsOver(S), Walk, Over(S), Counted, [Next]_vars
  PROVE  Counted'
<1>a. \A n : n \in {0, 1} => n \in Nat
  OBVIOUS
<1>1. CASE RegisterFunction
  <2>1. ~Done /\ ~Done' /\ before' = before
    BY <1>1, GoesOn DEF RegisterFunction, In, Done, Advanced, Position
  <2>2. Report(IF answer' THEN 0 ELSE 1)
    BY <1>1 DEF RegisterFunction
  <2>. QED
    BY <2>1, <2>2, CountedReports
<1>2. CASE SecondPass
  <2>1. ~Done /\ ~Done' /\ UNCHANGED <<before, errors, ok>>
    BY <1>2 DEF SecondPass, In, Done, Position
  <2>. QED
    BY <2>1, CountedStays
<1>3. CASE Finish
  <2>1. ~Done /\ Done' /\ errors' = errors /\ before' = before
    BY <1>3 DEF Finish, In, Done, Position
  <2>2. ok' = (ok /\ errors = 0) /\ (ok <=> errors = before)
    BY <1>3, <2>1, Zenon DEF Finish, Counted
  <2>3. errors = 0 => errors = before
    BY DEF Counted
  <2>4. ok' \in BOOLEAN /\ (ok' <=> errors' = 0)
    <3>1. ok' \in BOOLEAN
      BY <2>2
    <3>2. ok' <=> errors = 0
      BY <2>2, <2>3, Zenon
    <3>. QED
      BY <2>1, <3>1, <3>2, Zenon
  <2>. QED
    BY <2>1, <2>4, Zenon DEF Counted
<1>4. CASE NextProgram
  <2>1. Done /\ ~Done' /\ errors' = errors /\ before' = errors /\ ok' = TRUE
    BY <1>4 DEF NextProgram, Done
  <2>2. errors \in Nat /\ errors <= errors
    BY DEF Counted
  <2>. QED
    BY <2>1, <2>2, Zenon DEF Counted
<1>5. CASE FreeContext
  <2>1. Done /\ Done' /\ UNCHANGED <<before, errors, ok>>
    BY <1>5 DEF FreeContext, Done, Position
  <2>. QED
    BY <2>1, Zenon DEF Counted
<1>6. CASE EnterFunction
  <2>1. ~Done /\ ~Done' /\ UNCHANGED <<before, errors, ok>>
    BY <1>6, GoesOn DEF EnterFunction, In, Done, Position, Advanced
  <2>. QED
    BY <2>1, CountedStays
<1>7. CASE RefuseParameter
  <2>1. ~Done /\ ~Done' /\ before' = before /\ Report(1)
    BY <1>7, GoesOn DEF RefuseParameter, In, Done, Position, Globals
  <2>. QED
    BY <2>1, CountedReports
<1>8. CASE AddParameter \/ EnterBody
  <2>1. ~Done /\ ~Done' /\ UNCHANGED <<before, errors, ok>>
    BY <1>8, GoesOn DEF AddParameter, EnterBody, In, Done, Position
  <2>. QED
    BY <2>1, CountedStays
<1>9. CASE LeaveFunction \/ LeaveBlock
  <2>1. ~Done /\ ~Done' /\ UNCHANGED <<before, errors, ok>>
    BY <1>9, GoesOn DEF LeaveFunction, LeaveBlock, In, Done, Position, Globals
  <2>. QED
    BY <2>1, CountedStays
<1>10. CASE DeclareVariable
  <2>1. ~Done /\ ~Done' /\ before' = before
    BY <1>10, GoesOn DEF DeclareVariable, AtStatement, In, Done, Position, Advanced
  <2>2. Report(IF answer' THEN 0 ELSE 1)
    BY <1>10 DEF DeclareVariable
  <2>. QED
    BY <2>1, <2>2, CountedReports
<1>11. CASE JudgingTurn
  <2>1. ~Done /\ ~Done' /\ before' = before
    BY <1>11, GoesOn DEF JudgingTurn, RefuseDeclaration, CheckExpression, CheckReturn,
                         AtStatement, In, Done, Position, Advanced
  <2>2. PICK n \in Nat : Report(n)
    BY <1>11, JudgingReports
  <2>. QED
    BY <2>1, <2>2, CountedReports
<1>12. CASE PassOver \/ EnterBlock
  <2>1. ~Done /\ ~Done' /\ UNCHANGED <<before, errors, ok>>
    BY <1>12, GoesOn DEF PassOver, EnterBlock, AtStatement, In, Done, Position, Advanced
  <2>. QED
    BY <2>1, CountedStays
<1>13. CASE UNCHANGED vars
  BY <1>13, Zenon DEF vars, Counted, Done
<1>. QED
  BY <1>1, <1>2, <1>3, <1>4, <1>5, <1>6, <1>7, <1>8, <1>9, <1>10, <1>11, <1>12, <1>13,
     Zenon DEF Next, JudgingTurn

\* The result handed up is 0 exactly if an error of the program was counted, at
\* the end one of the session.
THEOREM VerdictCorrect ==
  ASSUME NEW S, SessionsOver(S)
  PROVE  Spec => []VerdictHasMessages
<1>1. Init => Walk /\ Over(S) /\ Counted
  BY WalkInit, OverInit, CountedInit
<1>2. Walk /\ Over(S) /\ Counted /\ [Next]_vars => Walk' /\ Over(S)' /\ Counted'
  BY WalkNext, OverNext, CountedNext
<1>3. Counted => VerdictHasMessages
  BY Zenon DEF Counted, VerdictHasMessages
<1>. QED
  BY <1>1, <1>2, <1>3, PTL DEF Spec

-----------------------------------------------------------------------------
(* The walk and the symbol table *)

\* A turn calls one function of the symbol table, for names and declarations
\* that it knows, or none.
LEMMA WalkCalls ==
  ASSUME NEW S, SessionsOver(S), Walk, Over(S), [Next]_vars
  PROVE  \/ Table!PushScope \/ Table!PopScope \/ Table!FreeTable
         \/ \E n \in Names, d \in Decl : Table!AddSymbol(n, d)
         \/ UNCHANGED <<scopes, answer>>
<1>a. Closed(S) /\ Listed(work) /\ WorkOver(S)
  BY DEF SessionsOver, Walk, Over
<1>b. ASSUME NEW t \in Types, NEW p \in BOOLEAN, NEW m \in BOOLEAN, NEW i \in BOOLEAN
      PROVE  Declaration(t, p, m, i) \in Decl
  BY DEF Declaration, Decl
<1>1. CASE RegisterFunction
  <2>1. /\ work # <<>> /\ Top.kind = "register" /\ More
        /\ Table!AddSymbol(Item.name, Declaration(Item.type, FALSE, FALSE, TRUE))
    BY <1>1 DEF RegisterFunction, In
  <2>2. Item.name \in Names /\ Item.type \in Types
    BY <1>a, <2>1, TopOver DEF Globals, FunctionNodes
  <2>. QED
    BY <1>b, <2>1, <2>2
<1>2. CASE AddParameter
  <2>1. /\ work # <<>> /\ Top.kind = "params" /\ More
        /\ Table!AddSymbol(Item.name, Declaration(Item.type, TRUE, FALSE, TRUE))
    BY <1>2 DEF AddParameter, In
  <2>2. Item.name \in Names /\ Item.type \in Types
    BY <1>a, <2>1, TopOver DEF Parameters
  <2>. QED
    BY <1>b, <2>1, <2>2
<1>3. CASE DeclareVariable
  <2>. DEFINE given == Item.init.kind # "null"
  <2>1. /\ work # <<>> /\ Top.kind \in {"function", "block"} /\ More /\ Item.kind = "var"
        /\ Table!AddSymbol(Item.name, Declaration(Item.type, FALSE, Item.mut, given))
    BY <1>3 DEF DeclareVariable, AtStatement, In
  <2>2. Item.name \in Names /\ Item.type \in Types /\ Item.mut \in BOOLEAN
    BY <1>a, <2>1, TopOver DEF Closed
  <2>3. given \in BOOLEAN
    OBVIOUS
  <2>. HIDE DEF given
  <2>. QED
    BY <1>b, <2>1, <2>2, <2>3
<1>4. CASE EnterFunction \/ EnterBlock
  BY <1>4, Zenon DEF EnterFunction, EnterBlock
<1>5. CASE RefuseParameter \/ LeaveFunction \/ LeaveBlock
  BY <1>5, Zenon DEF RefuseParameter, LeaveFunction, LeaveBlock
<1>6. CASE FreeContext
  BY <1>6, Zenon DEF FreeContext
<1>7. CASE SecondPass \/ Finish \/ NextProgram \/ EnterBody \/ RefuseDeclaration
           \/ CheckExpression \/ CheckReturn \/ PassOver \/ UNCHANGED vars
  BY <1>7 DEF SecondPass, Finish, NextProgram, EnterBody, RefuseDeclaration,
              CheckExpression, CheckReturn, PassOver, vars
<1>. QED
  BY <1>1, <1>2, <1>3, <1>4, <1>5, <1>6, <1>7, Zenon DEF Next

\* The walk begins with the new table.
LEMMA TableInit == Init => TableInv
<1>1. TableProofs!Init => TableProofs!IInv
  BY TableConstants, TableProofs!InitIInv
<1>. QED
  BY <1>1, SameTable DEF Init, TableInv

\* Every turn keeps what was proved of the table.
LEMMA TableNext ==
  ASSUME NEW S, SessionsOver(S), Walk, Over(S), TableInv, [Next]_vars
  PROVE  TableInv'
BY WalkCalls, TableKept

\* All that the walk does to the symbol table is what the module SymbolTable
\* says of a table's clients: calls of its functions, one at a time, on a table
\* that is allocated (the calls of src/type_inference.c).
THEOREM UsesTheTable ==
  ASSUME NEW S, SessionsOver(S)
  PROVE  Spec => Table!Spec
<1>1. Init => Walk /\ Over(S) /\ Table!Init
  BY WalkInit, OverInit DEF Init
<1>2. Walk /\ Over(S) /\ [Next]_vars => Walk' /\ Over(S)'
  BY WalkNext, OverNext
<1>3. Walk /\ Over(S) /\ [Next]_vars => [Table!Next]_(Table!vars)
  <2>. SUFFICES ASSUME Walk, Over(S), [Next]_vars PROVE [Table!Next]_(Table!vars)
    OBVIOUS
  <2>. QED
    BY WalkCalls, Zenon DEF Table!Next, Table!vars
<1>. QED
  BY <1>1, <1>2, <1>3, PTL DEF Spec, Table!Spec

\* The environments of both are the same.
SameEnvironments ==
  /\ [d \in 1..Table!Depth |-> Table!EnvOf(d)]
       = [d \in 1..TableProofs!Depth |-> TableProofs!EnvOf(d)]
  /\ [d \in 1..Table!Depth |-> Table!OwnNames(d)]
       = [d \in 1..TableProofs!Depth |-> TableProofs!OwnNames(d)]

LEMMA EnvironmentsAreSame == SameEnvironments
BY Zenon
   DEF SameEnvironments, Table!EnvOf, TableProofs!EnvOf, Table!OwnNames, TableProofs!OwnNames,
       Table!LookupFrom, TableProofs!LookupFrom, Table!Holders, TableProofs!Holders,
       Table!Holder, TableProofs!Holder, Table!Declares, TableProofs!Declares,
       Table!Places, TableProofs!Places, Table!Find, TableProofs!Find,
       Table!Depth, TableProofs!Depth

\* In every run of the walk names mean what lexical scoping says: what was proved
\* of the symbol table by itself holds of the one the walk uses, from the first
\* declaration of a session to type_context_free.
THEOREM NamesAreLexical ==
  ASSUME NEW S, SessionsOver(S)
  PROVE  Spec => Table!ImplementsLexicalScoping
<1>1. Table!Init => TableProofs!Init
  BY SameTable
<1>2. [Table!Next]_(Table!vars) => [TableProofs!Next]_(TableProofs!vars)
  BY Zenon
     DEF Table!Next, TableProofs!Next, Table!vars, TableProofs!vars,
         Table!PushScope, TableProofs!PushScope, Table!PopScope, TableProofs!PopScope,
         Table!FreeTable, TableProofs!FreeTable, Table!AddSymbol, TableProofs!AddSymbol,
         Table!Lookup, TableProofs!Lookup, Table!LookupInCurrent, TableProofs!LookupInCurrent,
         Table!LookupFrom, TableProofs!LookupFrom, Table!LookupLocal, TableProofs!LookupLocal,
         Table!Holders, TableProofs!Holders, Table!Holder, TableProofs!Holder,
         Table!Declares, TableProofs!Declares, Table!Places, TableProofs!Places,
         Table!Find, TableProofs!Find, Table!Extended, TableProofs!Extended,
         Table!Grown, TableProofs!Grown, Table!Depth, TableProofs!Depth,
         Table!NewScope, TableProofs!NewScope, Table!Allocated, TableProofs!Allocated
<1>3. TableProofs!Spec => TableProofs!ImplementsLexicalScoping
  BY TableConstants, TableProofs!Refinement
<1>4. SameEnvironments
  BY EnvironmentsAreSame
<1>5. TableProofs!Lexical!Init => Table!Lexical!Init
  BY <1>4, Zenon DEF SameEnvironments, Table!Lexical!Init, TableProofs!Lexical!Init
<1>6. SameEnvironments'
  BY EnvironmentsAreSame, PTL
<1>7. [TableProofs!Lexical!Next]_(TableProofs!Lexical!envvars)
        => [Table!Lexical!Next]_(Table!Lexical!envvars)
  BY <1>4, <1>6, Zenon
     DEF SameEnvironments, Table!Lexical!Next, TableProofs!Lexical!Next,
         Table!Lexical!envvars, TableProofs!Lexical!envvars,
         Table!Lexical!Enter, TableProofs!Lexical!Enter,
         Table!Lexical!Leave, TableProofs!Lexical!Leave,
         Table!Lexical!Close, TableProofs!Lexical!Close,
         Table!Lexical!Refuse, TableProofs!Lexical!Refuse,
         Table!Lexical!Resolve, TableProofs!Lexical!Resolve,
         Table!Lexical!ResolveOwn, TableProofs!Lexical!ResolveOwn,
         Table!Lexical!Declare, TableProofs!Lexical!Declare,
         Table!Lexical!Innermost, TableProofs!Lexical!Innermost
<1>8. Spec => Table!Spec
  BY UsesTheTable
<1>. QED
  BY <1>1, <1>2, <1>3, <1>5, <1>7, <1>8, PTL
     DEF Table!Spec, TableProofs!Spec, Table!ImplementsLexicalScoping,
         TableProofs!ImplementsLexicalScoping, Table!Lexical!Spec, TableProofs!Lexical!Spec

-----------------------------------------------------------------------------
(* Type objects and their owners *)

\* The owners can be counted, and the Type objects without one are no more than
\* the errors.
Owned == /\ IsFiniteSet(TableSymbols) /\ types \in Int
         /\ types - (Cardinality(TableSymbols) + ExpectedType) \in 0..errors

\* No Type object and no owner, before the first declaration.
LEMMA OwnedInit == Init => Owned
<1>. SUFFICES ASSUME Init PROVE Owned
  OBVIOUS
<1>1. scopes = <<Table!NewScope>> /\ Len(Table!NewScope.symbols) = 0
  BY EmptyListed DEF Init, Table!Init, Table!NewScope
<1>2. TableSymbols = {}
  BY <1>1 DEF TableSymbols, SymbolsOf, Table!Depth
<1>3. Cardinality(TableSymbols) = 0 /\ IsFiniteSet(TableSymbols)
  BY <1>2, FS_EmptySet
<1>4. ExpectedType = 0 /\ types = 0 /\ errors = 0
  BY DEF Init, ExpectedType
<1>. QED
  BY <1>3, <1>4 DEF Owned

\* Errors are never taken back.
LEMMA ErrorsGrow ==
  ASSUME NEW S, SessionsOver(S), Walk, Over(S), Counted, [Next]_vars
  PROVE  errors \in Nat /\ errors' \in Nat /\ errors <= errors'
<1>1. \A n : errors' = errors + n /\ n \in Nat => errors' \in Nat /\ errors <= errors'
  BY DEF Counted
<1>2. CASE RegisterFunction \/ DeclareVariable
  <2>1. errors' = errors + (IF answer' THEN 0 ELSE 1)
    BY <1>2 DEF RegisterFunction, DeclareVariable, Report
  <2>. QED
    BY <1>1, <2>1 DEF Counted
<1>3. CASE RefuseParameter
  BY <1>1, <1>3 DEF RefuseParameter, Report, Counted
<1>4. CASE JudgingTurn
  <2>1. PICK n \in Nat : Report(n)
    BY <1>4, JudgingReports
  <2>. QED
    BY <1>1, <2>1 DEF Report, Counted
<1>5. CASE \/ SecondPass \/ Finish \/ NextProgram \/ FreeContext \/ EnterFunction
           \/ AddParameter \/ EnterBody \/ LeaveFunction \/ PassOver \/ EnterBlock
           \/ LeaveBlock \/ UNCHANGED vars
  <2>1. errors' = errors
    BY <1>5 DEF SecondPass, Finish, NextProgram, FreeContext, EnterFunction, AddParameter,
                EnterBody, LeaveFunction, PassOver, EnterBlock, LeaveBlock, vars
  <2>. QED
    BY <2>1 DEF Counted
<1>. QED
  BY <1>2, <1>3, <1>4, <1>5, Zenon DEF Next, JudgingTurn

\* Every turn keeps Type objects and owners in step.
LEMMA OwnedNext ==
  ASSUME NEW S, SessionsOver(S), Walk, Over(S), TableInv, Counted, Owned,
         [Next]_vars
  PROVE  Owned'
<1>1. PICK c \in Nat, x \in {0, 1}, t \in Int, r \in Nat :
        /\ c = Cardinality(TableSymbols) /\ x = ExpectedType /\ t = types /\ r = errors
        /\ t - (c + x) \in 0..r
  BY FS_CardinalityType DEF Owned, ExpectedType, Counted
<1>2. errors' \in Nat /\ r <= errors'
  BY <1>1, ErrorsGrow
<1>3. IsFiniteSet(TableSymbols)
  BY DEF Owned
<1>4. ASSUME NEW d \in Nat, NEW y \in {0, 1}, NEW u \in Int,
             d = Cardinality(TableSymbols'), IsFiniteSet(TableSymbols'), y = ExpectedType',
             u = types', u - (d + y) >= 0, u - (d + y) <= errors'
      PROVE  Owned'
  BY <1>2, <1>4 DEF Owned
<1>5. expected' = expected => ExpectedType' = x
  BY <1>1 DEF ExpectedType
<1>6. scopes' = scopes => TableSymbols' = TableSymbols
  BY DEF TableSymbols, SymbolsOf, Table!Depth
<1>7. Closed(S) /\ Listed(work) /\ WorkOver(S) /\ Listed(scopes)
  BY DEF SessionsOver, Walk, Over
<1>8. ASSUME NEW n \in Names, NEW d \in Decl, Table!AddSymbol(n, d), types' = types + 1,
             expected' = expected,
             Table!LookupLocal(n) = NULL \/ errors' = errors + (IF answer' THEN 0 ELSE 1)
      PROVE  Owned'
  <2>1. /\ answer' \in BOOLEAN /\ IsFiniteSet(TableSymbols')
        /\ answer' => Cardinality(TableSymbols') = c + 1
        /\ ~answer' => Cardinality(TableSymbols') = c
        /\ Table!LookupLocal(n) = NULL => answer'
    BY <1>1, <1>3, <1>8, AddSymbols
  <2>2. CASE answer'
    BY <1>1, <1>2, <1>4, <1>5, <1>8, <2>1, <2>2
  <2>3. CASE ~answer'
    BY <1>1, <1>2, <1>4, <1>5, <1>8, <2>1, <2>3
  <2>. QED
    BY <2>1, <2>2, <2>3
<1>9. ASSUME Table!PopScope, work # <<>>, Top.kind \notin Globals, expected' = expected,
             \/ types' = types - TypesIn(scopes[Table!Depth])
             \/ /\ types' = types + 1 - TypesIn(scopes[Table!Depth])
                /\ errors' = errors + 1
      PROVE  Owned'
  <2>1. Len(scopes) > 1 /\ Len(scopes) \in 1..Len(scopes)
    BY <1>7, <1>9, DepthOfTop
       DEF Walk, FramesNest, Globals, ScopesFollowTheWalk, Done, Table!Depth, Listed
  <2>2. PICK k \in Nat : k = Len(scopes[Len(scopes)].symbols)
    BY <2>1, ScopeSymbols
  <2>3. IsFiniteSet(TableSymbols') /\ c = Cardinality(TableSymbols') + k
    BY <1>1, <1>3, <1>9, <2>1, <2>2, PopSymbols
  <2>4. Cardinality(TableSymbols') \in Nat
    BY <2>3, FS_CardinalityType
  <2>5. types' = t - k \/ (types' = t + 1 - k /\ errors' = r + 1)
    BY <1>1, <1>9, <2>2 DEF TypesIn, Table!Depth
  <2>6. PICK d \in Nat : d = Cardinality(TableSymbols') /\ c = d + k
    BY <2>3, <2>4
  <2>7. PICK u \in Int : u = types' /\ u - (d + x) >= 0 /\ u - (d + x) <= errors'
    <3>. DEFINE lost == t - (c + x)
    <3>1. lost \in Int /\ lost >= 0 /\ lost <= r
      BY <1>1
    <3>2. (t - k) - (d + x) = lost /\ (t + 1 - k) - (d + x) = lost + 1
      BY <2>6
    <3>3. t - k \in Int /\ t + 1 - k \in Int
      OBVIOUS
    <3>. HIDE DEF lost
    <3>4. CASE types' = t - k
      BY <1>2, <3>1, <3>2, <3>3, <3>4
    <3>5. CASE types' = t + 1 - k /\ errors' = r + 1
      BY <3>1, <3>2, <3>3, <3>5
    <3>. QED
      BY <2>5, <3>4, <3>5
  <2>8. x = ExpectedType'
    BY <1>5, <1>9
  <2>. QED
    BY <1>4, <2>3, <2>6, <2>7, <2>8
<1>10. ASSUME scopes' = scopes, expected' = expected, types' = types PROVE Owned'
  BY <1>1, <1>2, <1>3, <1>4, <1>5, <1>6, <1>10
<1>11. CASE RegisterFunction
  <2>. DEFINE d == Declaration(Item.type, FALSE, FALSE, TRUE)
  <2>1. /\ work # <<>> /\ Top.kind = "register" /\ More /\ Table!AddSymbol(Item.name, d)
        /\ types' = types + 1 /\ expected' = expected
        /\ errors' = errors + (IF answer' THEN 0 ELSE 1)
    BY <1>11 DEF RegisterFunction, In, CloneForSymbol, Report
  <2>2. Item.name \in Names /\ d \in Decl
    BY <1>7, <2>1, TopOver DEF Globals, FunctionNodes, Declaration, Decl
  <2>. HIDE DEF d
  <2>. QED
    BY <1>8, <2>1, <2>2
<1>12. CASE AddParameter
  <2>. DEFINE d == Declaration(Item.type, TRUE, FALSE, TRUE)
  <2>1. /\ work # <<>> /\ Top.kind = "params" /\ More /\ Table!AddSymbol(Item.name, d)
        /\ types' = types + 1 /\ expected' = expected /\ Table!LookupLocal(Item.name) = NULL
    BY <1>12 DEF AddParameter, In, CloneForSymbol
  <2>2. Item.name \in Names /\ d \in Decl
    BY <1>7, <2>1, TopOver DEF Parameters, Declaration, Decl
  <2>. HIDE DEF d
  <2>. QED
    BY <1>8, <2>1, <2>2
<1>13. CASE DeclareVariable
  <2>. DEFINE given == Item.init.kind # "null"
              d == Declaration(Item.type, FALSE, Item.mut, given)
  <2>1. /\ work # <<>> /\ Top.kind \in {"function", "block"} /\ More /\ Item.kind = "var"
        /\ Table!AddSymbol(Item.name, d) /\ types' = types + 1 /\ expected' = expected
        /\ errors' = errors + (IF answer' THEN 0 ELSE 1)
    BY <1>13 DEF DeclareVariable, AtStatement, In, CloneForSymbol, Report
  <2>2. given \in BOOLEAN
    OBVIOUS
  <2>. HIDE DEF given
  <2>3. Item.name \in Names /\ d \in Decl
    BY <1>7, <2>1, <2>2, TopOver DEF Closed, Declaration, Decl
  <2>. HIDE DEF d
  <2>. QED
    BY <1>8, <2>1, <2>3
<1>14. CASE EnterFunction
  <2>1. /\ work # <<>> /\ Top.kind = "check" /\ More /\ Table!PushScope
        /\ expected' = Item.type /\ types' = types - ExpectedType + 1
    BY <1>14 DEF EnterFunction, In
  <2>2. Item.type # "null"
    BY <1>7, <2>1, TopOver, TableAssumption DEF Globals, FunctionNodes
  <2>3. ExpectedType' = 1 /\ types' = t - x + 1
    BY <1>1, <2>1, <2>2 DEF ExpectedType
  <2>4. TableSymbols' = TableSymbols
    BY <2>1, PushSymbols
  <2>5. t - x + 1 \in Int /\ t - x + 1 - (c + 1) = t - (c + x)
    BY <1>1
  <2>. QED
    BY <1>1, <1>2, <1>3, <1>4, <2>3, <2>4, <2>5
<1>15. CASE EnterBlock
  <2>1. Table!PushScope /\ expected' = expected /\ types' = types
    BY <1>15 DEF EnterBlock, KeepTypes
  <2>2. TableSymbols' = TableSymbols
    BY <2>1, PushSymbols
  <2>. QED
    BY <1>1, <1>2, <1>3, <1>4, <1>5, <2>1, <2>2
<1>16. CASE RefuseParameter
  <2>1. /\ work # <<>> /\ Top.kind = "params" /\ Table!PopScope /\ expected' = expected
        /\ types' = types + 1 - TypesIn(scopes[Table!Depth]) /\ errors' = errors + 1
    BY <1>16 DEF RefuseParameter, In, Report
  <2>. QED
    BY <1>9, <2>1 DEF Globals
<1>17. CASE LeaveFunction \/ LeaveBlock
  <2>1. /\ work # <<>> /\ Top.kind \in {"function", "block"} /\ Table!PopScope
        /\ expected' = expected /\ types' = types - TypesIn(scopes[Table!Depth])
    BY <1>17 DEF LeaveFunction, LeaveBlock, In, FreeInnermost
  <2>. QED
    BY <1>9, <2>1 DEF Globals
<1>18. CASE FreeContext
  <2>1. /\ work = <<>> /\ Table!Allocated /\ scopes' = <<>> /\ expected' = "null"
        /\ types' = types - TypesIn(scopes[1]) - ExpectedType
    BY <1>18 DEF FreeContext, Done, Table!FreeTable
  <2>2. Len(scopes) = 1
    BY <2>1 DEF Walk, ScopesFollowTheWalk, Done, Table!Depth
  <2>3. TableSymbols = SymbolsOf(1)
    BY <2>2 DEF TableSymbols, Table!Depth
  <2>4. c = Len(scopes[1].symbols)
    BY <1>1, <2>2, <2>3, ScopeSymbols
  <2>5. TableSymbols' = {}
    BY <2>1, EmptyListed DEF TableSymbols, Table!Depth
  <2>6. IsFiniteSet(TableSymbols') /\ Cardinality(TableSymbols') = 0
    BY <2>5, FS_EmptySet
  <2>7. ExpectedType' = 0 /\ types' = t - c - x
    BY <1>1, <2>1, <2>4 DEF ExpectedType, TypesIn
  <2>8. PICK u \in Int : u = types' /\ u = t - (c + x)
    BY <1>1, <2>7
  <2>9. u - (0 + 0) >= 0 /\ u - (0 + 0) <= errors'
    BY <1>1, <1>2, <2>8
  <2>. QED
    BY <1>4, <2>6, <2>7, <2>8, <2>9
<1>19. CASE SecondPass \/ Finish \/ NextProgram \/ EnterBody \/ RefuseDeclaration
           \/ CheckExpression \/ CheckReturn \/ PassOver \/ UNCHANGED vars
  <2>1. scopes' = scopes /\ expected' = expected /\ types' = types
    BY <1>19 DEF SecondPass, Finish, NextProgram, EnterBody, RefuseDeclaration,
                 CheckExpression, CheckReturn, PassOver, KeepTypes, vars
  <2>. QED
    BY <1>10, <2>1
<1>. QED
  BY <1>11, <1>12, <1>13, <1>14, <1>15, <1>16, <1>17, <1>18, <1>19, Zenon DEF Next

\* The invariant of the whole walk, of sessions over S.
IInv(S) == Walk /\ Over(S) /\ TableInv /\ Counted /\ Owned

LEMMA InvariantOfSpec ==
  ASSUME NEW S, SessionsOver(S)
  PROVE  Spec => []IInv(S)
<1>1. Init => IInv(S)
  BY WalkInit, OverInit, TableInit, CountedInit, OwnedInit DEF IInv
<1>2. IInv(S) /\ [Next]_vars => IInv(S)'
  BY WalkNext, OverNext, TableNext, CountedNext, OwnedNext DEF IInv
<1>. QED
  BY <1>1, <1>2, PTL DEF Spec

\* The symbols and the context own every Type object that is not freed, up to
\* one for each error, and own none that is: for any session.
THEOREM OwnersCorrect ==
  ASSUME NEW S, SessionsOver(S)
  PROVE  Spec => []TypesHaveOwners
<1>1. IInv(S) => TypesHaveOwners
  BY DEF IInv, Owned, TypesHaveOwners
<1>. QED
  BY <1>1, InvariantOfSpec, PTL

\* The table, the counters and the frames have their types; there are never
\* fewer than no Type objects.
THEOREM TypeCorrect ==
  ASSUME NEW S, SessionsOver(S)
  PROVE  Spec => []TypeOK
<1>. SUFFICES ASSUME IInv(S) PROVE TypeOK
  BY InvariantOfSpec, PTL
<1>1. Table!TypeOK
  BY SameTable DEF IInv, TableInv, TableProofs!IInv
<1>2. turn \in 1..Len(session) /\ expected \in Types \cup {"null"}
  BY DEF IInv, Over, PlaceOver
<1>3. errors \in Nat /\ before \in 0..errors /\ ok \in BOOLEAN
  BY DEF IInv, Counted
<1>4. types \in Nat
  <2>1. Cardinality(TableSymbols) \in Nat /\ ExpectedType \in {0, 1} /\ types \in Int
    BY FS_CardinalityType DEF IInv, Owned, ExpectedType
  <2>2. types - (Cardinality(TableSymbols) + ExpectedType) >= 0
    BY <2>1, <1>3 DEF IInv, Owned
  <2>. QED
    BY <2>1, <2>2
<1>. QED
  BY <1>1, <1>2, <1>3, <1>4, Zenon DEF IInv, Walk, TypeOK

=============================================================================
