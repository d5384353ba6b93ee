-------------------------- MODULE SymbolTableProofs --------------------------
(***************************************************************************)
(* Proofs about SymbolTable, for every set of names and declarations and   *)
(* every initial capacity.  The inductive invariant is IInv: the type      *)
(* invariant, NoDuplicates, WithinCapacity, and InnermostExists, which     *)
(* gives the CHOOSE in Holder something to choose.                         *)
(***************************************************************************)
EXTENDS SymbolTable, SequenceTheorems, TLAPS

IInv == TypeOK /\ NoDuplicates /\ WithinCapacity /\ InnermostExists

-----------------------------------------------------------------------------
(* One scope *)

\* Adding a symbol appends it, in an array that has room for it.
LEMMA ExtendedProperties ==
  ASSUME NEW s \in Scope, NEW x \in Symbol, Len(s.symbols) <= s.capacity
  PROVE  /\ Extended(s, x) \in Scope
         /\ Extended(s, x).symbols = Append(s.symbols, x)
         /\ Len(Extended(s, x).symbols) = Len(s.symbols) + 1
         /\ Len(Extended(s, x).symbols) <= Extended(s, x).capacity
<1>1. s.symbols \in Seq(Symbol) /\ s.capacity \in Nat \ {0} /\ Len(s.symbols) \in Nat
  BY LenProperties DEF Scope
<1>2. /\ Append(s.symbols, x) \in Seq(Symbol)
      /\ Len(Append(s.symbols, x)) = Len(s.symbols) + 1
  BY <1>1, AppendProperties
<1>3. /\ Grown(s) \in Scope
      /\ Grown(s).symbols = s.symbols
      /\ Len(s.symbols) + 1 <= Grown(s).capacity
  BY <1>1 DEF Grown, Scope
<1>. QED
  BY <1>2, <1>3 DEF Extended, Scope

\* A name is found in the extended scope where it was found before, or at the end.
LEMMA PlacesOfExtended ==
  ASSUME NEW s \in Scope, NEW x \in Symbol, NEW n, Len(s.symbols) <= s.capacity
  PROVE  /\ \A k \in 1..Len(s.symbols) : Extended(s, x).symbols[k] = s.symbols[k]
         /\ Extended(s, x).symbols[Len(s.symbols) + 1] = x
         /\ x.name = n => Places(Extended(s, x), n) = Places(s, n) \cup {Len(s.symbols) + 1}
         /\ x.name # n => Places(Extended(s, x), n) = Places(s, n)
<1>1. s.symbols \in Seq(Symbol) /\ Len(s.symbols) \in Nat
  BY LenProperties DEF Scope
<1>2. /\ Extended(s, x).symbols = Append(s.symbols, x)
      /\ Len(Extended(s, x).symbols) = Len(s.symbols) + 1
  BY ExtendedProperties
<1>3. /\ \A k \in 1..Len(s.symbols) : Append(s.symbols, x)[k] = s.symbols[k]
      /\ Append(s.symbols, x)[Len(s.symbols) + 1] = x
  BY <1>1, AppendProperties
<1>4. \A k : k \in 1..Len(s.symbols) + 1 <=>
               k \in 1..Len(s.symbols) \/ k = Len(s.symbols) + 1
  BY <1>1
<1>. QED
  BY <1>1, <1>2, <1>3, <1>4 DEF Places

\* In a scope without duplicates the search returns the one symbol of the name.
LEMMA FindIsUnique ==
  ASSUME NEW s \in Scope, Distinct(s), NEW n, NEW k \in Places(s, n)
  PROVE  /\ Places(s, n) = {k}
         /\ Find(s, n) = s.symbols[k].decl
         /\ Find(s, n) \in Decls
<1>1. s.symbols \in Seq(Symbol) /\ Len(s.symbols) \in Nat
  BY LenProperties DEF Scope
<1>2. Places(s, n) = {k}
  BY <1>1 DEF Places, Distinct
<1>3. k \in Nat /\ k \in 1..Len(s.symbols)
  BY <1>1 DEF Places
<1>4. (CHOOSE i \in Places(s, n) : \A j \in Places(s, n) : i <= j) = k
  BY <1>2, <1>3
<1>5. s.symbols[k] \in Symbol
  BY <1>1, <1>3, ElementOfSeq
<1>. QED
  BY <1>2, <1>4, <1>5 DEF Find, Symbol

\* A symbol that is found is not NULL.
LEMMA LocalSearch ==
  ASSUME TypeOK, NoDuplicates, Allocated, NEW n \in Names
  PROVE  /\ Depth \in Nat /\ Depth >= 1 /\ scopes[Depth] \in Scope
         /\ LookupLocal(n) # NULL <=> Declares(scopes[Depth], n)
         /\ LookupLocal(n) \in Decls \cup {NULL}
<1>1. Depth \in Nat /\ Depth >= 1
  BY EmptySeq DEF TypeOK, Allocated, Depth
<1>2. scopes[Depth] \in Scope /\ Distinct(scopes[Depth])
  BY <1>1, ElementOfSeq DEF TypeOK, NoDuplicates, Depth
<1>3. CASE Declares(scopes[Depth], n)
  <2>1. PICK k : k \in Places(scopes[Depth], n)
    BY <1>3 DEF Declares
  <2>2. Find(scopes[Depth], n) \in Decls
    BY <1>2, <2>1, FindIsUnique
  <2>. QED
    BY <1>1, <1>2, <1>3, <2>2, NullAssumption DEF LookupLocal
<1>4. CASE ~Declares(scopes[Depth], n)
  BY <1>1, <1>2, <1>4 DEF LookupLocal
<1>. QED
  BY <1>3, <1>4

-----------------------------------------------------------------------------
(* The inductive invariant *)

\* The holders of a name among the scopes that a step leaves alone.
LEMMA HoldersKept ==
  ASSUME NEW d \in Nat, NEW n,
         \A i \in 1..d : scopes'[i] = scopes[i]
  PROVE  Holders(d, n)' = Holders(d, n)
  BY DEF Holders, Declares, Places

\* Depth as a number.
LEMMA DepthInNat == TypeOK => Depth \in Nat /\ (Allocated <=> Depth >= 1)
  BY LenProperties, EmptySeq DEF TypeOK, Allocated, Depth

\* What a push does to the scopes.
LEMMA PushEffect ==
  ASSUME TypeOK, PushScope
  PROVE  /\ Depth \in Nat /\ Depth' = Depth + 1 /\ Depth >= 1
         /\ scopes' \in Seq(Scope)
         /\ \A i \in 1..Depth : scopes'[i] = scopes[i]
         /\ scopes'[Depth + 1] = NewScope
         /\ Len(NewScope.symbols) = 0
         /\ \A n : Places(NewScope, n) = {}
<1>1. NewScope \in Scope /\ Len(NewScope.symbols) = 0
  BY CapacityAssumption, EmptySeq DEF NewScope, Scope
<1>2. scopes' = Append(scopes, NewScope)
  BY DEF PushScope
<1>3. \A n : Places(NewScope, n) = {}
  BY <1>1 DEF Places
<1>4. /\ Append(scopes, NewScope) \in Seq(Scope)
      /\ Len(Append(scopes, NewScope)) = Depth + 1
      /\ \A i \in 1..Depth : Append(scopes, NewScope)[i] = scopes[i]
      /\ Append(scopes, NewScope)[Depth + 1] = NewScope
  BY <1>1, AppendProperties DEF TypeOK, Depth
<1>5. Depth \in Nat /\ Depth >= 1
  BY DepthInNat DEF PushScope
<1>6. Depth' = Depth + 1
  BY <1>2, <1>4 DEF Depth
<1>. QED
  BY <1>1, <1>2, <1>3, <1>4, <1>5, <1>6

\* What a pop of an inner scope does to the scopes.
LEMMA PopEffect ==
  ASSUME TypeOK, PopScope, Depth > 1
  PROVE  /\ Depth \in Nat /\ Depth' = Depth - 1
         /\ scopes' \in Seq(Scope)
         /\ \A i \in 1..Depth - 1 : scopes'[i] = scopes[i]
<1>1. Depth \in Nat /\ Depth - 1 \in 1..Depth
  BY DepthInNat
<1>2. scopes' = SubSeq(scopes, 1, Depth - 1)
  BY DEF PopScope
<1>3. \A i \in 1..Depth - 1 : scopes[i] \in Scope
  BY <1>1, ElementOfSeq DEF TypeOK, Depth
<1>4. /\ SubSeq(scopes, 1, Depth - 1) \in Seq(Scope)
      /\ Len(SubSeq(scopes, 1, Depth - 1)) = Depth - 1
      /\ \A i \in 1..Depth - 1 : SubSeq(scopes, 1, Depth - 1)[i] = scopes[i]
  BY <1>1, <1>3, SubSeqProperties
<1>. QED
  BY <1>1, <1>2, <1>4 DEF Depth

\* What adding a new symbol does to the scopes.
LEMMA AddEffect ==
  ASSUME TypeOK, NoDuplicates, WithinCapacity, Allocated,
         NEW n \in Names, NEW d \in Decls, AddSymbol(n, d), LookupLocal(n) = NULL
  PROVE  /\ Depth \in Nat /\ Depth' = Depth /\ Depth >= 1
         /\ scopes' \in Seq(Scope)
         /\ scopes[Depth] \in Scope
         /\ Len(scopes[Depth].symbols) <= scopes[Depth].capacity
         /\ \A i \in 1..Depth - 1 : scopes'[i] = scopes[i]
         /\ scopes'[Depth] = Extended(scopes[Depth], [name |-> n, decl |-> d])
         /\ ~Declares(scopes[Depth], n)
         /\ answer' = TRUE
<1>1. /\ Depth \in Nat /\ Depth >= 1 /\ scopes[Depth] \in Scope
      /\ ~Declares(scopes[Depth], n)
  BY LocalSearch
<1>2. Len(scopes[Depth].symbols) <= scopes[Depth].capacity
  BY <1>1 DEF WithinCapacity
<1>. DEFINE new == Extended(scopes[Depth], [name |-> n, decl |-> d])
<1>3. new \in Scope
  BY <1>1, <1>2, ExtendedProperties DEF Symbol
<1>4. scopes' = [scopes EXCEPT ![Depth] = new] /\ answer' = TRUE
  BY DEF AddSymbol
<1>5. /\ [scopes EXCEPT ![Depth] = new] \in Seq(Scope)
      /\ Len([scopes EXCEPT ![Depth] = new]) = Depth
      /\ \A i \in 1..Depth :
           [scopes EXCEPT ![Depth] = new][i] = IF i = Depth THEN new ELSE scopes[i]
  <2>. HIDE DEF new
  <2>. QED
    BY <1>1, <1>3, ExceptSeq DEF TypeOK, Depth
<1>6. Depth' = Depth
  BY <1>4, <1>5 DEF Depth
<1>. HIDE DEF new
<1>7. /\ scopes' \in Seq(Scope)
      /\ \A i \in 1..Depth - 1 : scopes'[i] = scopes[i]
      /\ scopes'[Depth] = new
  BY <1>1, <1>4, <1>5
<1>. QED
  BY <1>1, <1>2, <1>4, <1>6, <1>7 DEF new

\* The invariant holds of the table symbol_table_create returns.
LEMMA InitIInv == Init => IInv
<1>. SUFFICES ASSUME Init PROVE IInv
  OBVIOUS
<1>1. NewScope \in Scope /\ Len(NewScope.symbols) = 0
  BY CapacityAssumption, EmptySeq DEF NewScope, Scope
<1>2. scopes = <<NewScope>> /\ Depth = 1 /\ scopes[1] = NewScope
  BY DEF Init, Depth
<1>3. TypeOK
  BY <1>1, <1>2, DepthAssumption DEF Init, TypeOK
<1>4. NoDuplicates /\ WithinCapacity
  BY <1>1, <1>2 DEF NoDuplicates, Distinct, WithinCapacity, Scope
<1>5. InnermostExists
  <2>1. \A n : Places(NewScope, n) = {}
    BY <1>1 DEF Places
  <2>. QED
    BY <1>2, <2>1 DEF InnermostExists, Holders, Declares
<1>. QED
  BY <1>3, <1>4, <1>5 DEF IInv

\* The invariant speaks of the scopes and of the last answer only.
LEMMA IInvOfAnswer ==
  ASSUME IInv, scopes' = scopes, answer' \in Decls \cup {NULL, TRUE, FALSE}
  PROVE  IInv'
  BY DEF IInv, TypeOK, NoDuplicates, WithinCapacity, InnermostExists, Depth, Holders

\* symbol_table_push_scope keeps the invariant.
LEMMA PushIInv == IInv /\ PushScope => IInv'
<1>. SUFFICES ASSUME IInv, PushScope PROVE IInv'
  OBVIOUS
<1>. USE DEF IInv
<1>1. /\ Depth \in Nat /\ Depth' = Depth + 1 /\ Depth >= 1
      /\ scopes' \in Seq(Scope)
      /\ \A i \in 1..Depth : scopes'[i] = scopes[i]
      /\ scopes'[Depth + 1] = NewScope
      /\ Len(NewScope.symbols) = 0
      /\ \A n : Places(NewScope, n) = {}
  BY PushEffect
<1>2. \A i \in 1..Depth' : i \in 1..Depth \/ i = Depth + 1
  BY <1>1
<1>3. TypeOK'
  <2>1. Depth' <= MaxDepth
    BY <1>1, DepthAssumption DEF PushScope
  <2>2. answer' \in Decls \cup {NULL, TRUE, FALSE}
    BY DEF TypeOK, PushScope
  <2>. QED
    BY <1>1, <2>1, <2>2 DEF TypeOK
<1>4. NoDuplicates'
  BY <1>1, <1>2 DEF NoDuplicates, Distinct
<1>5. WithinCapacity'
  <2>1. NewScope.capacity \in Nat
    BY CapacityAssumption DEF NewScope
  <2>. QED
    BY <1>1, <1>2, <2>1 DEF WithinCapacity
<1>6. InnermostExists'
  <2>. SUFFICES ASSUME NEW d \in 1..Depth', NEW n \in Names, Holders(d, n)' # {}
                PROVE  \E i \in Holders(d, n)' : \A j \in Holders(d, n)' : j <= i
    BY DEF InnermostExists
  <2>1. CASE d \in 1..Depth
    <3>1. Holders(d, n)' = Holders(d, n)
      BY <1>1, <2>1, HoldersKept
    <3>. QED
      BY <2>1, <3>1 DEF InnermostExists
  <2>2. CASE d = Depth + 1
    <3>1. d - 1 = Depth /\ d - 1 \in 1..Depth /\ \A i \in 1..d - 1 : scopes'[i] = scopes[i]
      BY <1>1, <2>2
    <3>2. Holders(d - 1, n)' = Holders(d - 1, n)
      BY <1>1, <3>1, HoldersKept
    <3>3. Holders(d, n)' = Holders(d - 1, n)'
      BY <1>1, <2>2 DEF Holders, Declares
    <3>. QED
      BY <3>1, <3>2, <3>3 DEF InnermostExists
  <2>. QED
    BY <1>2, <2>1, <2>2
<1>. QED
  BY <1>3, <1>4, <1>5, <1>6

\* symbol_table_pop_scope keeps the invariant.
LEMMA PopIInv == IInv /\ PopScope => IInv'
<1>. SUFFICES ASSUME IInv, PopScope PROVE IInv'
  OBVIOUS
<1>1. CASE Depth > 1
  <2>. USE DEF IInv
  <2>1. /\ Depth \in Nat /\ Depth' = Depth - 1
        /\ scopes' \in Seq(Scope)
        /\ \A i \in 1..Depth - 1 : scopes'[i] = scopes[i]
    BY <1>1, PopEffect
  <2>2. TypeOK'
    <3>1. Depth' <= MaxDepth
      BY <2>1, DepthAssumption DEF TypeOK
    <3>2. answer' \in Decls \cup {NULL, TRUE, FALSE}
      BY DEF TypeOK, PopScope
    <3>. QED
      BY <2>1, <3>1, <3>2 DEF TypeOK
  <2>3. NoDuplicates' /\ WithinCapacity'
    BY <2>1 DEF NoDuplicates, Distinct, WithinCapacity
  <2>4. InnermostExists'
    <3>. SUFFICES ASSUME NEW d \in 1..Depth', NEW n \in Names, Holders(d, n)' # {}
                  PROVE  \E i \in Holders(d, n)' : \A j \in Holders(d, n)' : j <= i
      BY DEF InnermostExists
    <3>1. d \in Nat /\ d \in 1..Depth /\ \A i \in 1..d : scopes'[i] = scopes[i]
      BY <2>1
    <3>2. Holders(d, n)' = Holders(d, n)
      BY <3>1, HoldersKept
    <3>. QED
      BY <3>1, <3>2 DEF InnermostExists
  <2>. QED
    BY <2>2, <2>3, <2>4
<1>2. CASE ~(Depth > 1)
  BY <1>2, IInvOfAnswer DEF PopScope, IInv, TypeOK
<1>. QED
  BY <1>1, <1>2

\* symbol_table_add_symbol keeps the invariant, whether it adds or refuses.
LEMMA AddIInv == ASSUME NEW n \in Names, NEW d \in Decls
                 PROVE  IInv /\ AddSymbol(n, d) => IInv'
<1>. SUFFICES ASSUME IInv, AddSymbol(n, d) PROVE IInv'
  OBVIOUS
<1>1. CASE LookupLocal(n) # NULL
  BY <1>1, IInvOfAnswer DEF AddSymbol
<1>2. CASE LookupLocal(n) = NULL
  <2>. USE DEF IInv
  <2>. DEFINE x   == [name |-> n, decl |-> d]
              old == scopes[Depth]
              new == Extended(old, x)
              len == Len(old.symbols)
  <2>1. /\ Depth \in Nat /\ Depth' = Depth /\ Depth >= 1
        /\ scopes' \in Seq(Scope)
        /\ old \in Scope
        /\ len <= old.capacity
        /\ \A i \in 1..Depth - 1 : scopes'[i] = scopes[i]
        /\ scopes'[Depth] = new
        /\ ~Declares(old, n)
        /\ answer' = TRUE
    <3>. Allocated
      BY DEF AddSymbol
    <3>. QED
      BY <1>2, AddEffect
  <2>2. x \in Symbol /\ x.name = n
    BY DEF Symbol
  <2>3. /\ new \in Scope
        /\ Len(new.symbols) = len + 1
        /\ Len(new.symbols) <= new.capacity
    BY <2>1, <2>2, ExtendedProperties
  <2>4. /\ \A k \in 1..len : new.symbols[k] = old.symbols[k]
        /\ new.symbols[len + 1] = x
        /\ \A m : m = n => Places(new, m) = Places(old, m) \cup {len + 1}
        /\ \A m : m # n => Places(new, m) = Places(old, m)
    <3>. HIDE DEF x, old
    <3>1. \A m : /\ \A k \in 1..len : new.symbols[k] = old.symbols[k]
                 /\ new.symbols[len + 1] = x
                 /\ x.name = m => Places(new, m) = Places(old, m) \cup {len + 1}
                 /\ x.name # m => Places(new, m) = Places(old, m)
      BY <2>1, <2>2, PlacesOfExtended
    <3>. QED
      BY <2>2, <3>1
  <2>5. len \in Nat
    BY <2>1, LenProperties DEF Scope
  <2>6. \A k \in 1..len : old.symbols[k].name # n
    BY <2>1 DEF Declares, Places
  <2>7. \A i \in 1..Depth : i \in 1..Depth - 1 \/ i = Depth
    BY <2>1
  <2>. HIDE DEF new, len, x, old
  <2>8. TypeOK'
    BY <2>1 DEF TypeOK
  <2>9. NoDuplicates'
    <3>1. Distinct(old)
      BY <2>1 DEF NoDuplicates, old
    <3>2. Distinct(new)
      <4>1. \A k \in 1..Len(new.symbols) : k \in 1..len \/ k = len + 1
        BY <2>3, <2>5
      <4>2. \A j, k \in 1..len : old.symbols[j].name = old.symbols[k].name => j = k
        BY <3>1 DEF Distinct, len
      <4>. QED
        BY <2>2, <2>4, <2>6, <4>1, <4>2 DEF Distinct
    <3>. QED
      BY <2>1, <2>7, <3>2 DEF NoDuplicates
  <2>10. WithinCapacity'
    BY <2>1, <2>3, <2>7 DEF WithinCapacity
  <2>11. InnermostExists'
    <3>. SUFFICES ASSUME NEW e \in 1..Depth', NEW m \in Names, Holders(e, m)' # {}
                  PROVE  \E i \in Holders(e, m)' : \A j \in Holders(e, m)' : j <= i
      BY DEF InnermostExists
    <3>1. CASE e \in 1..Depth - 1
      <4>1. Holders(e, m)' = Holders(e, m)
        BY <2>1, <3>1, HoldersKept
      <4>. QED
        BY <2>1, <2>7, <3>1, <4>1 DEF InnermostExists
    <3>2. CASE e = Depth /\ m = n
      <4>1. Depth \in Holders(e, m)'
        BY <2>1, <2>4, <3>2 DEF Holders, Declares
      <4>. QED
        BY <3>2, <4>1 DEF Holders
    <3>3. CASE e = Depth /\ m # n
      <4>1. \A i \in 1..Depth : Declares(scopes[i], m)' <=> Declares(scopes[i], m)
        <5>1. \A i \in 1..Depth - 1 : scopes'[i] = scopes[i]
          BY <2>1
        <5>2. Places(scopes'[Depth], m) = Places(scopes[Depth], m)
          BY <2>1, <2>4, <3>3 DEF old
        <5>. QED
          BY <2>1, <2>7, <5>1, <5>2 DEF Declares, Places
      <4>2. Holders(e, m)' = Holders(e, m)
        BY <3>3, <4>1 DEF Holders
      <4>. QED
        BY <2>1, <3>3, <4>2 DEF InnermostExists
    <3>. QED
      BY <2>1, <2>7, <3>1, <3>2, <3>3
  <2>. QED
    BY <2>8, <2>9, <2>10, <2>11
<1>. QED
  BY <1>1, <1>2

\* The answer of a lookup is a declaration or NULL.
LEMMA LookupAnswers ==
  ASSUME IInv, Allocated, NEW n \in Names
  PROVE  LookupFrom(Depth, n) \in Decls \cup {NULL}
<1>1. CASE Holders(Depth, n) = {}
  BY <1>1 DEF LookupFrom
<1>2. CASE Holders(Depth, n) # {}
  <2>1. Depth \in Nat /\ Depth >= 1 /\ Depth \in 1..Depth
    BY DepthInNat DEF IInv
  <2>2. Holder(Depth, n) \in Holders(Depth, n)
    BY <1>2, <2>1 DEF Holder, IInv, InnermostExists
  <2>. DEFINE s == scopes[Holder(Depth, n)]
  <2>3. Holder(Depth, n) \in 1..Depth /\ Declares(s, n)
    BY <2>2 DEF Holders
  <2>4. s \in Scope /\ Distinct(s)
    BY <2>3, ElementOfSeq DEF IInv, TypeOK, NoDuplicates, Depth
  <2>5. Find(s, n) \in Decls
    <3>1. PICK k : k \in Places(s, n)
      BY <2>3 DEF Declares
    <3>. HIDE DEF s
    <3>. QED
      BY <2>4, <3>1, FindIsUnique
  <2>. QED
    BY <1>2, <2>5 DEF LookupFrom
<1>. QED
  BY <1>1, <1>2

\* Every operation keeps the invariant.
LEMMA NextIInv == IInv /\ [Next]_vars => IInv'
<1>. SUFFICES ASSUME IInv, [Next]_vars PROVE IInv'
  OBVIOUS
<1>1. CASE PushScope
  BY <1>1, PushIInv
<1>2. CASE PopScope
  BY <1>2, PopIInv
<1>3. CASE FreeTable
  <2>1. scopes' = <<>> /\ answer' = answer
    BY <1>3 DEF FreeTable
  <2>2. Depth' = 0 /\ scopes' \in Seq(Scope)
    BY <2>1, EmptySeq DEF Depth
  <2>3. TypeOK'
    <3>1. answer' \in Decls \cup {NULL, TRUE, FALSE}
      BY <2>1 DEF IInv, TypeOK
    <3>2. Depth' <= MaxDepth
      BY <2>2, DepthAssumption
    <3>. QED
      BY <2>2, <3>1, <3>2 DEF TypeOK
  <2>4. \A i : i \notin 1..Depth'
    BY <2>2
  <2>. QED
    BY <2>3, <2>4 DEF IInv, NoDuplicates, WithinCapacity, InnermostExists
<1>4. CASE \E n \in Names : Lookup(n) \/ LookupInCurrent(n)
  <2>1. PICK n \in Names : Lookup(n) \/ LookupInCurrent(n)
    BY <1>4
  <2>2. Allocated /\ scopes' = scopes
    BY <2>1 DEF Lookup, LookupInCurrent
  <2>3. answer' \in Decls \cup {NULL}
    BY <2>1, <2>2, LookupAnswers, LocalSearch DEF IInv, Lookup, LookupInCurrent
  <2>. QED
    BY <2>2, <2>3, IInvOfAnswer
<1>5. CASE \E n \in Names, d \in Decls : AddSymbol(n, d)
  BY <1>5, AddIInv
<1>6. CASE UNCHANGED vars
  BY <1>6, IInvOfAnswer DEF vars, IInv, TypeOK
<1>. QED
  BY <1>1, <1>2, <1>3, <1>4, <1>5, <1>6 DEF Next

\* So the invariant holds at all times.
LEMMA SpecIInv == Spec => []IInv
<1>1. Init => IInv
  BY InitIInv
<1>2. IInv /\ [Next]_vars => IInv'
  BY NextIInv
<1>. QED
  BY <1>1, <1>2, PTL DEF Spec

\* Type correctness of src/symbol_table.c: the scopes hold symbols, a call
\* returns a declaration, NULL or a truth value.
THEOREM TypeCorrectness == Spec => []TypeOK
  BY SpecIInv, PTL DEF IInv

\* In no run does a scope get two symbols of one name: the search that guards
\* symbol_table_add_symbol is enough.
THEOREM NamesAreUnique == Spec => []NoDuplicates
  BY SpecIInv, PTL DEF IInv

\* No run writes a symbol behind the end of a scope's array, whatever
\* INITIAL_SCOPE_CAPACITY is.
THEOREM NoOverrun == Spec => []WithinCapacity
  BY SpecIInv, PTL DEF IInv

-----------------------------------------------------------------------------
(* Lexical scoping *)

\* The state of ScopedEnv that a state of the symbol table stands for.
Env == [d \in 1..Depth |-> EnvOf(d)]
Own == [d \in 1..Depth |-> OwnNames(d)]

\* The search from scope d depends on the scopes 1..d only.
LEMMA SameEnv ==
  ASSUME IInv, NEW d \in 1..Depth, \A i \in 1..d : scopes'[i] = scopes[i]
  PROVE  EnvOf(d)' = EnvOf(d) /\ OwnNames(d)' = OwnNames(d)
<1>1. Depth \in Nat /\ d \in Nat /\ d \in 1..d
  BY DepthInNat DEF IInv
<1>2. ASSUME NEW n \in Names PROVE LookupFrom(d, n)' = LookupFrom(d, n)
  <2>1. Holders(d, n)' = Holders(d, n)
    BY <1>1, HoldersKept
  <2>2. CASE Holders(d, n) = {}
    BY <2>1, <2>2 DEF LookupFrom
  <2>3. CASE Holders(d, n) # {}
    <3>1. Holder(d, n)' = Holder(d, n)
      BY <2>1 DEF Holder
    <3>2. Holder(d, n) \in Holders(d, n)
      BY <2>3 DEF Holder, IInv, InnermostExists
    <3>3. Holder(d, n) \in 1..d
      BY <3>2 DEF Holders
    <3>4. scopes'[Holder(d, n)] = scopes[Holder(d, n)]
      BY <3>3
    <3>. QED
      BY <2>1, <2>3, <3>1, <3>4 DEF LookupFrom, Find, Places
  <2>. QED
    BY <2>2, <2>3
<1>3. EnvOf(d)' = EnvOf(d)
  BY <1>2 DEF EnvOf
<1>4. OwnNames(d)' = OwnNames(d)
  BY <1>1 DEF OwnNames, Declares, Places
<1>. QED
  BY <1>3, <1>4

\* Env and Own as sequences.
LEMMA EnvIsSeq ==
  ASSUME Depth \in Nat
  PROVE  /\ Len(Env) = Depth /\ Len(Own) = Depth
         /\ DOMAIN Env = 1..Depth /\ DOMAIN Own = 1..Depth
         /\ \A d \in 1..Depth : Env[d] = EnvOf(d) /\ Own[d] = OwnNames(d)
  BY DEF Env, Own

\* Sequences that are given by their entries: one entry more, one entry less.
LEMMA Appended ==
  ASSUME NEW n \in Nat, NEW s, NEW t, NEW e,
         s = [i \in 1..n |-> s[i]],
         t = [i \in 1..n + 1 |-> t[i]],
         \A i \in 1..n : t[i] = s[i], t[n + 1] = e
  PROVE  t = Append(s, e)
  OBVIOUS

\* The same for one entry less.
LEMMA Shortened ==
  ASSUME NEW n \in Nat, NEW s
  PROVE  SubSeq(s, 1, n) = [i \in 1..n |-> s[i]]
  OBVIOUS

\* The entries of Env and Own that a step leaves alone.
LEMMA EnvEntries ==
  ASSUME IInv, IInv', NEW k \in Nat, k <= Depth, k <= Depth',
         \A i \in 1..k : scopes'[i] = scopes[i]
  PROVE  \A d \in 1..k : Env'[d] = Env[d] /\ Own'[d] = Own[d]
<1>. SUFFICES ASSUME NEW d \in 1..k PROVE Env'[d] = Env[d] /\ Own'[d] = Own[d]
  OBVIOUS
<1>1. Depth \in Nat /\ Depth' \in Nat
  BY LenProperties DEF IInv, TypeOK, Depth
<1>2. d \in 1..Depth /\ d \in 1..Depth' /\ \A i \in 1..d : scopes'[i] = scopes[i]
  BY <1>1
<1>3. EnvOf(d)' = EnvOf(d) /\ OwnNames(d)' = OwnNames(d)
  BY <1>2, SameEnv
<1>. QED
  BY <1>2, <1>3 DEF Env, Own

\* The current scope is the innermost block.
LEMMA CurrentEnv ==
  ASSUME IInv, Allocated
  PROVE  /\ Depth \in Nat /\ Depth >= 1 /\ Depth \in 1..Depth
         /\ Len(Env) = Depth /\ Len(Own) = Depth
         /\ Env[Depth] = EnvOf(Depth) /\ Own[Depth] = OwnNames(Depth)
<1>1. Depth \in Nat /\ Depth >= 1 /\ Depth \in 1..Depth
  BY DepthInNat DEF IInv
<1>. QED
  BY <1>1, EnvIsSeq

\* symbol_table_push_scope enters a block.
LEMMA PushRefines ==
  ASSUME IInv, IInv', PushScope
  PROVE  /\ Len(Env) \in 1..MaxDepth - 1
         /\ Env' = Append(Env, Env[Len(Env)])
         /\ Own' = Append(Own, {})
<1>1. /\ Depth \in Nat /\ Depth' = Depth + 1 /\ Depth >= 1
      /\ \A i \in 1..Depth : scopes'[i] = scopes[i]
      /\ scopes'[Depth + 1] = NewScope
      /\ \A n : Places(NewScope, n) = {}
  BY PushEffect DEF IInv
<1>2. /\ Len(Env) = Depth /\ Len(Own) = Depth
      /\ Env[Depth] = EnvOf(Depth)
  BY CurrentEnv DEF PushScope
<1>3. \A d \in 1..Depth : Env'[d] = Env[d] /\ Own'[d] = Own[d]
  BY <1>1, EnvEntries
<1>4. PICK k \in Nat : k = Depth
  BY <1>1
<1>5. ASSUME NEW n \in Names PROVE LookupFrom(k + 1, n)' = LookupFrom(k, n)
  <2>1. Holders(k + 1, n)' = Holders(k, n)'
    BY <1>1, <1>4 DEF Holders, Declares
  <2>2. LookupFrom(k + 1, n)' = LookupFrom(k, n)'
    <3>1. Holder(k + 1, n)' = Holder(k, n)'
      BY <2>1 DEF Holder
    <3>. QED
      BY <2>1, <3>1 DEF LookupFrom
  <2>3. EnvOf(k)' = EnvOf(k)
    <3>. k \in 1..Depth /\ \A i \in 1..k : scopes'[i] = scopes[i]
      BY <1>1, <1>4
    <3>. QED
      BY SameEnv
  <2>. QED
    BY <2>2, <2>3 DEF EnvOf
<1>6. EnvOf(k + 1)' = EnvOf(k) /\ OwnNames(k + 1)' = {}
  <2>1. EnvOf(k + 1)' = EnvOf(k)
    BY <1>5 DEF EnvOf
  <2>2. OwnNames(k + 1)' = {}
    BY <1>1, <1>4 DEF OwnNames, Declares
  <2>. QED
    BY <2>1, <2>2
<1>7. Env'[Depth + 1] = Env[Depth] /\ Own'[Depth + 1] = {}
  BY <1>1, <1>2, <1>4, <1>6 DEF Env, Own
<1>8. /\ Env = [d \in 1..k |-> Env[d]] /\ Env' = [d \in 1..k + 1 |-> Env'[d]]
      /\ Own = [d \in 1..k |-> Own[d]] /\ Own' = [d \in 1..k + 1 |-> Own'[d]]
  BY <1>1, <1>4 DEF Env, Own
<1>9. Env' = Append(Env, Env[Len(Env)]) /\ Own' = Append(Own, {})
  BY <1>2, <1>3, <1>4, <1>7, <1>8, Appended
<1>10. Len(Env) \in 1..MaxDepth - 1
  BY <1>1, <1>2, DepthAssumption DEF PushScope
<1>. QED
  BY <1>9, <1>10

\* symbol_table_pop_scope leaves a block, or does nothing at the outermost one.
LEMMA PopRefines ==
  ASSUME IInv, IInv', PopScope, Depth > 1
  PROVE  /\ Len(Env) > 1
         /\ Env' = SubSeq(Env, 1, Len(Env) - 1)
         /\ Own' = SubSeq(Own, 1, Len(Env) - 1)
<1>1. /\ Depth \in Nat /\ Depth' = Depth - 1
      /\ \A i \in 1..Depth - 1 : scopes'[i] = scopes[i]
  BY PopEffect DEF IInv
<1>2. Len(Env) = Depth /\ Len(Own) = Depth
  BY <1>1, EnvIsSeq
<1>3. \A d \in 1..Depth - 1 : Env'[d] = Env[d] /\ Own'[d] = Own[d]
  <2>. Depth - 1 \in Nat
    BY <1>1
  <2>1. PICK k \in Nat : k = Depth - 1
    OBVIOUS
  <2>. QED
    BY <1>1, <2>1, EnvEntries
<1>4. PICK k \in Nat : k + 1 = Depth /\ k = Depth - 1
  <2>. Depth - 1 \in Nat /\ (Depth - 1) + 1 = Depth
    BY <1>1
  <2>. QED
    OBVIOUS
<1>5. /\ Env = [d \in 1..k + 1 |-> Env[d]] /\ Env' = [d \in 1..k |-> Env'[d]]
      /\ Own = [d \in 1..k + 1 |-> Own[d]] /\ Own' = [d \in 1..k |-> Own'[d]]
  BY <1>1, <1>4 DEF Env, Own
<1>6. Env' = SubSeq(Env, 1, k) /\ Own' = SubSeq(Own, 1, k)
  <2>1. /\ \A d \in 1..k : Env'[d] = Env[d]
        /\ \A d \in 1..k : Own'[d] = Own[d]
    BY <1>3, <1>4
  <2>2. Env' = [d \in 1..k |-> Env[d]] /\ Own' = [d \in 1..k |-> Own[d]]
    BY <1>5, <2>1
  <2>. QED
    BY <2>2, Shortened
<1>. QED
  BY <1>2, <1>4, <1>6

\* symbol_table_add_symbol declares a name, or refuses one declared already.
LEMMA AddRefines ==
  ASSUME IInv, IInv', NEW n \in Names, NEW d \in Decls,
         AddSymbol(n, d), LookupLocal(n) = NULL
  PROVE  /\ Len(Env) > 0
         /\ n \notin Own[Len(Env)]
         /\ Env' = [Env EXCEPT ![Len(Env)][n] = d]
         /\ Own' = [Own EXCEPT ![Len(Env)] = @ \cup {n}]
         /\ answer' = TRUE
<1>. DEFINE x   == [name |-> n, decl |-> d]
            old == scopes[Depth]
            new == Extended(old, x)
            len == Len(old.symbols)
<1>. Allocated
  BY DEF AddSymbol
<1>1. /\ Depth \in Nat /\ Depth' = Depth /\ Depth >= 1
      /\ old \in Scope
      /\ len <= old.capacity
      /\ \A i \in 1..Depth - 1 : scopes'[i] = scopes[i]
      /\ scopes'[Depth] = new
      /\ ~Declares(old, n)
      /\ answer' = TRUE
  BY AddEffect DEF IInv
<1>2. x \in Symbol /\ x.name = n /\ x.decl = d
  BY DEF Symbol
<1>3. new \in Scope
  BY <1>1, <1>2, ExtendedProperties
<1>. HIDE DEF x, new, old
<1>4. \A m : /\ \A k \in 1..len : new.symbols[k] = old.symbols[k]
             /\ new.symbols[len + 1] = x
             /\ x.name = m => Places(new, m) = Places(old, m) \cup {len + 1}
             /\ x.name # m => Places(new, m) = Places(old, m)
  BY <1>1, <1>2, PlacesOfExtended DEF new
<1>. HIDE DEF len
<1>5. PICK k \in Nat : k = Depth /\ k >= 1
  BY <1>1
<1>6. \A i \in 1..k : i \in 1..k - 1 \/ i = k
  BY <1>5
<1>7. LookupFrom(k, n)' = d
  <2>1. k \in Holders(k, n)'
    BY <1>1, <1>2, <1>4, <1>5 DEF Holders, Declares
  <2>2. Holder(k, n)' = k
    BY <1>5, <2>1 DEF Holders, Holder
  <2>3. Distinct(new)
    BY <1>1 DEF IInv, NoDuplicates
  <2>4. len + 1 \in Places(new, n)
    BY <1>2, <1>4
  <2>5. Find(new, n) = d
    BY <1>2, <1>3, <1>4, <2>3, <2>4, FindIsUnique
  <2>. QED
    BY <1>1, <1>5, <2>1, <2>2, <2>5 DEF LookupFrom
<1>8. ASSUME NEW m \in Names, m # n PROVE LookupFrom(k, m)' = LookupFrom(k, m)
  <2>1. Places(new, m) = Places(old, m)
    BY <1>2, <1>4, <1>8
  <2>2. \A i \in 1..k : Declares(scopes[i], m)' <=> Declares(scopes[i], m)
    <3>1. \A i \in 1..k - 1 : scopes'[i] = scopes[i]
      BY <1>1, <1>5
    <3>2. Places(scopes'[k], m) = Places(scopes[k], m)
      BY <1>1, <1>5, <2>1 DEF old
    <3>. QED
      BY <1>6, <3>1, <3>2 DEF Declares, Places
  <2>3. Holders(k, m)' = Holders(k, m)
    BY <2>2 DEF Holders
  <2>4. CASE Holders(k, m) = {}
    BY <2>3, <2>4 DEF LookupFrom
  <2>5. CASE Holders(k, m) # {}
    <3>1. Holder(k, m)' = Holder(k, m)
      BY <2>3 DEF Holder
    <3>2. Holder(k, m) \in Holders(k, m)
      BY <1>5, <2>5 DEF Holder, IInv, InnermostExists
    <3>3. PICK h \in 1..k : h = Holder(k, m) /\ Declares(scopes[h], m)
      BY <3>2 DEF Holders
    <3>4. Find(scopes[h], m)' = Find(scopes[h], m)
      <4>1. CASE h \in 1..k - 1
        BY <1>1, <1>5, <4>1 DEF Find, Places
      <4>2. CASE h = k
        <5>1. PICK p : p \in Places(old, m)
          BY <1>5, <3>3, <4>2 DEF Declares, old
        <5>2. p \in Places(new, m) /\ p \in 1..len
          BY <2>1, <5>1 DEF Places, len
        <5>3. Distinct(old) /\ Distinct(new)
          BY <1>1 DEF IInv, NoDuplicates, old
        <5>4. Find(old, m) = old.symbols[p].decl /\ Find(new, m) = new.symbols[p].decl
          BY <1>1, <1>3, <5>1, <5>2, <5>3, FindIsUnique
        <5>5. Find(old, m) = Find(new, m)
          BY <1>4, <5>2, <5>4
        <5>. QED
          BY <1>1, <1>5, <4>2, <5>5 DEF old
      <4>. QED
        BY <1>6, <4>1, <4>2
    <3>. QED
      BY <2>3, <2>5, <3>1, <3>3, <3>4 DEF LookupFrom
  <2>. QED
    BY <2>4, <2>5
<1>9. EnvOf(k)' = [EnvOf(k) EXCEPT ![n] = d]
  BY <1>7, <1>8 DEF EnvOf
<1>10. OwnNames(k)' = OwnNames(k) \cup {n}
  <2>. SUFFICES ASSUME NEW m \in Names
                PROVE  Places(scopes'[k], m) # {} <=> Places(scopes[k], m) # {} \/ m = n
    BY DEF OwnNames, Declares
  <2>. QED
    BY <1>1, <1>2, <1>4, <1>5 DEF old
<1>11. \A e \in 1..k - 1 : Env'[e] = Env[e] /\ Own'[e] = Own[e]
  <2>. DEFINE j == k - 1
  <2>1. j \in Nat /\ j <= Depth /\ j <= Depth' /\ \A i \in 1..j : scopes'[i] = scopes[i]
    BY <1>1, <1>5
  <2>. QED
    BY <2>1, EnvEntries
<1>12. /\ Len(Env) = k /\ Env[k] = EnvOf(k) /\ Own[k] = OwnNames(k)
       /\ Env'[k] = EnvOf(k)' /\ Own'[k] = OwnNames(k)'
       /\ DOMAIN Env = 1..k /\ DOMAIN Env' = 1..k
       /\ DOMAIN Own = 1..k /\ DOMAIN Own' = 1..k
  BY <1>1, <1>5, EnvIsSeq DEF Env, Own
<1>13. n \notin Own[Len(Env)]
  BY <1>1, <1>5, <1>12 DEF OwnNames, old
<1>14. Env' = [Env EXCEPT ![k] = [@ EXCEPT ![n] = d]]
  BY <1>1, <1>5, <1>6, <1>9, <1>11, <1>12 DEF Env
<1>15. Own' = [Own EXCEPT ![k] = @ \cup {n}]
  BY <1>1, <1>5, <1>6, <1>10, <1>11, <1>12 DEF Own
<1>. QED
  BY <1>1, <1>5, <1>12, <1>13, <1>14, <1>15

\* The new table is the empty environment.
LEMMA InitRefines == Init => Lexical!Init
<1>. SUFFICES ASSUME Init PROVE Lexical!Init
  OBVIOUS
<1>1. scopes = <<NewScope>> /\ Depth = 1 /\ scopes[1] = NewScope /\ answer = NULL
  BY DEF Init, Depth
<1>2. \A n : Places(NewScope, n) = {}
  BY DEF NewScope, Places
<1>3. EnvOf(1) = [n \in Names |-> NULL] /\ OwnNames(1) = {}
  BY <1>1, <1>2 DEF EnvOf, OwnNames, LookupFrom, Holders, Declares
<1>. QED
  BY <1>1, <1>3 DEF Lexical!Init

\* Every operation is one of lexical scoping, or nothing a client sees.
LEMMA NextRefines ==
  IInv /\ IInv' /\ [Next]_vars => [Lexical!Next]_(Lexical!envvars)
<1>. SUFFICES ASSUME IInv, IInv', [Next]_vars
              PROVE  Lexical!Next \/ UNCHANGED Lexical!envvars
  OBVIOUS
<1>1. ASSUME scopes' = scopes PROVE Env' = Env /\ Own' = Own
  BY <1>1 DEF Env, Own, EnvOf, OwnNames, LookupFrom, Holder, Holders, Depth
<1>2. CASE PushScope
  BY <1>2, PushRefines DEF PushScope, Env, Own, Lexical!Next, Lexical!Enter, Lexical!Innermost
<1>3. CASE PopScope
  <2>1. CASE Depth > 1
    BY <1>3, <2>1, PopRefines
       DEF PopScope, Env, Own, Lexical!Next, Lexical!Leave, Lexical!Innermost
  <2>2. CASE ~(Depth > 1)
    BY <1>1, <1>3, <2>2 DEF PopScope, Env, Own, Lexical!envvars
  <2>. QED
    BY <2>1, <2>2
<1>4. CASE FreeTable
  <2>1. Len(Env) = Depth /\ Depth > 0
    BY <1>4, CurrentEnv DEF FreeTable
  <2>2. Env' = <<>> /\ Own' = <<>> /\ answer' = answer
    BY <1>4 DEF FreeTable, Env, Own, Depth
  <2>. QED
    BY <2>1, <2>2 DEF Env, Own, Lexical!Next, Lexical!Close, Lexical!Innermost
<1>5. ASSUME NEW n \in Names, Lookup(n)
      PROVE  Lexical!Resolve(n)
  <2>1. /\ Len(Env) = Depth /\ Depth > 0 /\ Env[Depth] = EnvOf(Depth)
        /\ Env' = Env /\ Own' = Own
    BY <1>1, <1>5, CurrentEnv DEF Lookup
  <2>2. answer' = Env[Len(Env)][n]
    BY <1>5, <2>1 DEF Lookup, EnvOf
  <2>. QED
    BY <2>1, <2>2 DEF Env, Own, Lexical!Resolve, Lexical!Innermost
<1>6. ASSUME NEW n \in Names, LookupInCurrent(n)
      PROVE  Lexical!ResolveOwn(n)
  <2>1. Allocated /\ answer' = LookupLocal(n) /\ Env' = Env /\ Own' = Own
    BY <1>1, <1>6 DEF LookupInCurrent
  <2>2. /\ Depth \in Nat /\ Depth >= 1
        /\ Len(Env) = Depth /\ Env[Depth] = EnvOf(Depth) /\ Own[Depth] = OwnNames(Depth)
    BY <2>1, CurrentEnv
  <2>3. n \in Own[Depth] <=> Declares(scopes[Depth], n)
    BY <2>2 DEF OwnNames
  <2>4. ASSUME Declares(scopes[Depth], n) PROVE LookupFrom(Depth, n) = Find(scopes[Depth], n)
    <3>1. Depth \in Holders(Depth, n)
      BY <2>2, <2>4 DEF Holders
    <3>2. Holder(Depth, n) = Depth
      BY <2>2, <3>1 DEF Holder, Holders
    <3>. QED
      BY <3>1, <3>2 DEF LookupFrom
  <2>5. answer' = IF n \in Own[Len(Env)] THEN Env[Len(Env)][n] ELSE NULL
    BY <2>1, <2>2, <2>3, <2>4 DEF LookupLocal, EnvOf
  <2>. QED
    BY <2>1, <2>2, <2>5 DEF Env, Own, Lexical!ResolveOwn, Lexical!Innermost
<1>7. ASSUME NEW n \in Names, NEW d \in Decls, AddSymbol(n, d)
      PROVE  Lexical!Declare(n, d) \/ Lexical!Refuse(n)
  <2>1. CASE LookupLocal(n) = NULL
    BY <1>7, <2>1, AddRefines DEF Env, Own, Lexical!Declare, Lexical!Innermost
  <2>2. CASE LookupLocal(n) # NULL
    <3>1. Allocated /\ answer' = FALSE /\ Env' = Env /\ Own' = Own
      BY <1>1, <1>7, <2>2 DEF AddSymbol
    <3>2. Declares(scopes[Depth], n)
      BY <2>2, <3>1, LocalSearch DEF IInv
    <3>3. Len(Env) > 0 /\ n \in Own[Len(Env)]
      BY <3>1, <3>2, CurrentEnv DEF OwnNames
    <3>. QED
      BY <3>1, <3>3 DEF Env, Own, Lexical!Refuse, Lexical!Innermost
  <2>. QED
    BY <2>1, <2>2
<1>8. CASE UNCHANGED vars
  BY <1>1, <1>8 DEF vars, Env, Own, Lexical!envvars
<1>. QED
  BY <1>2, <1>3, <1>4, <1>5, <1>6, <1>7, <1>8 DEF Next, Lexical!Next

\* src/symbol_table.c implements lexical scoping: whatever a client does, each
\* lookup returns the declaration of the innermost open block that has one,
\* and a block that is left takes its declarations with it.
THEOREM Refinement == Spec => ImplementsLexicalScoping
<1>1. Init => Lexical!Init
  BY InitRefines
<1>2. IInv /\ IInv' /\ [Next]_vars => [Lexical!Next]_(Lexical!envvars)
  BY NextRefines
<1>. QED
  BY <1>1, <1>2, SpecIInv, PTL DEF Spec, ImplementsLexicalScoping, Lexical!Spec
=============================================================================
