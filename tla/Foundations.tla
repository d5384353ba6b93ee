----------------------------- MODULE Foundations -----------------------------
(***************************************************************************)
(* Facts that the proofs about the components share: induction over the    *)
(* natural numbers, loops, and sequences of elements of no particular set. *)
(*                                                                         *)
(* The theorems of the library on induction have an operator as a          *)
(* parameter.  Here induction is stated of sets, so that a proof names the *)
(* set of the numbers for which its claim holds.                           *)
(***************************************************************************)
EXTENDS Integers, Loops, SequenceTheorems, WellFoundedInduction, TLAPS

-----------------------------------------------------------------------------
(* Induction *)

\* The order of the natural numbers.
LessThan == {p \in Nat \X Nat : p[1] < p[2]}

LEMMA LessThanWellFounded == IsWellFoundedOn(LessThan, Nat)
BY NatLessThanWellFounded DEF OpToRel, LessThan

\* A set of natural numbers that is not empty has a least element.
LEMMA LeastNumber ==
  ASSUME NEW T, T \subseteq Nat, T # {}
  PROVE  \E n \in T : \A m \in T : n <= m
<1>1. PICK n \in T : \A m \in T : <<m, n>> \notin LessThan
  BY LessThanWellFounded, WFMin
<1>2. ASSUME NEW m \in T, ~(n <= m) PROVE FALSE
  <2>1. m \in Nat /\ n \in Nat /\ m < n
    BY <1>2
  <2>2. <<m, n>> \in LessThan
    BY <2>1 DEF LessThan
  <2>. QED
    BY <1>1, <2>2
<1>. QED
  BY <1>2

\* A set with 0, and with n + 1 for each n in it, has all natural numbers.
LEMMA Induction ==
  ASSUME NEW S, 0 \in S, \A n \in Nat : n \in S => n + 1 \in S
  PROVE  Nat \subseteq S
<1>. SUFFICES ASSUME Nat \ S # {} PROVE FALSE
  OBVIOUS
<1>1. PICK n \in Nat \ S : \A m \in Nat \ S : n <= m
  BY LeastNumber
<1>2. n - 1 \in Nat /\ n - 1 + 1 = n
  OBVIOUS
<1>3. n - 1 \in S
  BY <1>1, <1>2
<1>. QED
  BY <1>2, <1>3

\* What n steps make of a start: each is told its number and what is there.
Unrolls(u, n, D, start, step) ==
  /\ u \in [0..n -> D] /\ u[0] = start
  /\ \A k \in 1..n : u[k] = step[<<k, u[k - 1]>>]

LEMMA UnrolledExists ==
  ASSUME NEW N \in Nat, NEW D, NEW start \in D, NEW step \in [(1..N) \X D -> D]
  PROVE  \E u : Unrolls(u, N, D, start, step)
<1>. DEFINE S == {n \in Nat : n <= N => \E u : Unrolls(u, n, D, start, step)}
<1>1. 0 \in S
  <2>. DEFINE u == [k \in 0..0 |-> start]
  <2>1. Unrolls(u, 0, D, start, step)
    BY DEF Unrolls
  <2>. QED
    BY <2>1
<1>2. ASSUME NEW n \in Nat, n \in S PROVE n + 1 \in S
  <2>. SUFFICES ASSUME n + 1 <= N PROVE \E v : Unrolls(v, n + 1, D, start, step)
    OBVIOUS
  <2>1. PICK u : Unrolls(u, n, D, start, step)
    BY <1>2
  <2>. DEFINE last == step[<<n + 1, u[n]>>]
              v == [k \in 0..n + 1 |-> IF k <= n THEN u[k] ELSE last]
  <2>2. last \in D
    BY <2>1 DEF Unrolls
  <2>. HIDE DEF last
  <2>3. v \in [0..n + 1 -> D] /\ v[0] = start
    BY <2>1, <2>2 DEF Unrolls
  <2>4. ASSUME NEW k \in 1..n + 1 PROVE v[k] = step[<<k, v[k - 1]>>]
    <3>1. CASE k <= n
      BY <2>1, <3>1 DEF Unrolls
    <3>2. CASE k = n + 1
      BY <3>2 DEF last
    <3>. QED
      BY <3>1, <3>2
  <2>. HIDE DEF v
  <2>5. Unrolls(v, n + 1, D, start, step)
    BY <2>3, <2>4 DEF Unrolls
  <2>. QED
    BY <2>5
<1>. HIDE DEF S
<1>3. N \in S
  BY <1>1, <1>2, Induction
<1>. QED
  BY <1>3 DEF S

-----------------------------------------------------------------------------
(* Loops *)

\* A loop of states D that comes closer to its end with every turn, as m measures.
IsLoop(D, goes, step, m) ==
  /\ DOMAIN step = D /\ m \in [D -> Nat]
  /\ \A k \in D : k \in goes => step[k] \in D /\ m[step[k]] < m[k]

\* f finds the end of the loop from every state that is measured below n.
Ends(f, n, D, goes, step, m) ==
  \A k \in D : m[k] < n => f[k] = IF k \in goes THEN f[step[k]] ELSE k

\* Two ways to find the end find the same.
LEMMA EndIsUnique ==
  ASSUME NEW D, NEW goes, NEW step, NEW m, IsLoop(D, goes, step, m),
         NEW f, NEW g, NEW i, NEW j, Ends(f, i, D, goes, step, m), Ends(g, j, D, goes, step, m),
         NEW k \in D, m[k] < i, m[k] < j, i \in Nat, j \in Nat
  PROVE  f[k] = g[k]
<1>. DEFINE Differ == {n \in Nat : \E x \in D : m[x] = n /\ n < i /\ n < j /\ f[x] # g[x]}
<1>. SUFFICES ASSUME f[k] # g[k] PROVE FALSE
  OBVIOUS
<1>1. m[k] \in Differ
  BY DEF IsLoop
<1>2. PICK n \in Differ : \A p \in Differ : n <= p
  <2>. HIDE DEF Differ
  <2>1. Differ \subseteq Nat
    BY DEF Differ
  <2>. QED
    BY <1>1, <2>1, LeastNumber
<1>3. PICK x \in D : m[x] = n /\ n < i /\ n < j /\ f[x] # g[x]
  BY <1>2
<1>4. f[x] = IF x \in goes THEN f[step[x]] ELSE x
  BY <1>3 DEF Ends
<1>5. g[x] = IF x \in goes THEN g[step[x]] ELSE x
  BY <1>3 DEF Ends
<1>6. x \in goes /\ f[step[x]] # g[step[x]]
  BY <1>3, <1>4, <1>5
<1>7. step[x] \in D /\ m[step[x]] < n /\ m[step[x]] \in Nat
  BY <1>3, <1>6 DEF IsLoop
<1>8. m[step[x]] \in Differ
  BY <1>3, <1>6, <1>7
<1>9. n <= m[step[x]]
  BY <1>2, <1>8
<1>. QED
  BY <1>7, <1>9

\* Below every measure there is a way to find the end.
LEMMA EndExists ==
  ASSUME NEW D, NEW goes, NEW step, NEW m, IsLoop(D, goes, step, m)
  PROVE  \A n \in Nat : \E f : Ends(f, n, D, goes, step, m)
<1>. DEFINE S == {n \in Nat : \E f : Ends(f, n, D, goes, step, m)}
<1>1. 0 \in S
  BY DEF Ends, IsLoop
<1>2. ASSUME NEW n \in Nat, n \in S PROVE n + 1 \in S
  <2>1. PICK f : Ends(f, n, D, goes, step, m)
    BY <1>2
  <2>. DEFINE g == [k \in D |-> IF k \in goes THEN f[step[k]] ELSE k]
  <2>2. \A k \in D : m[k] < n => g[k] = f[k]
    BY <2>1 DEF Ends
  <2>3. ASSUME NEW k \in D, m[k] < n + 1 PROVE g[k] = IF k \in goes THEN g[step[k]] ELSE k
    <3>1. CASE k \in goes
      <4>1. step[k] \in D /\ m[step[k]] < n
        BY <2>3, <3>1 DEF IsLoop
      <4>. QED
        BY <2>2, <3>1, <4>1
    <3>. QED
      BY <3>1
  <2>. HIDE DEF g
  <2>4. Ends(g, n + 1, D, goes, step, m)
    BY <2>3 DEF Ends
  <2>. QED
    BY <2>4
<1>. HIDE DEF S
<1>3. Nat \subseteq S
  BY <1>1, <1>2, Induction
<1>. QED
  BY <1>3 DEF S

\* The function that While is made of exists.
LEMMA EndFunction ==
  ASSUME NEW D, NEW goes, NEW step, NEW m, IsLoop(D, goes, step, m)
  PROVE  \E e : e = [k \in D |-> IF k \in goes THEN e[step[k]] ELSE k]
<1>. DEFINE a == [n \in Nat |-> CHOOSE f : Ends(f, n, D, goes, step, m)]
            e == [k \in D |-> a[m[k] + 1][k]]
<1>1. \A n \in Nat : Ends(a[n], n, D, goes, step, m)
  BY EndExists
<1>. HIDE DEF a
<1>2. ASSUME NEW k \in D PROVE e[k] = IF k \in goes THEN e[step[k]] ELSE k
  <2>1. m[k] \in Nat /\ m[k] < m[k] + 1 /\ m[k] + 1 \in Nat
    BY DEF IsLoop
  <2>2. a[m[k] + 1][k] = IF k \in goes THEN a[m[k] + 1][step[k]] ELSE k
    BY <1>1, <2>1 DEF Ends
  <2>3. CASE k \in goes
    <3>1. step[k] \in D /\ m[step[k]] \in Nat /\ m[step[k]] < m[k]
      BY <2>3 DEF IsLoop
    <3>2. m[step[k]] < m[step[k]] + 1 /\ m[step[k]] + 1 \in Nat /\ m[step[k]] < m[k] + 1
      BY <2>1, <3>1
    <3>3. a[m[k] + 1][step[k]] = a[m[step[k]] + 1][step[k]]
      BY <1>1, <2>1, <3>1, <3>2, EndIsUnique
    <3>. QED
      BY <2>2, <2>3, <3>1, <3>3
  <2>. QED
    BY <2>2, <2>3
<1>3. e = [k \in D |-> IF k \in goes THEN e[step[k]] ELSE k]
  BY <1>2
<1>. QED
  BY <1>3

\* A loop goes on while it should.
LEMMA WhileEquation ==
  ASSUME NEW D, NEW goes, NEW step, NEW m, IsLoop(D, goes, step, m), NEW s \in D
  PROVE  While(goes, step, s) = IF s \in goes THEN While(goes, step, step[s]) ELSE s
<1>. DEFINE e == CHOOSE e : e = [k \in DOMAIN step |-> IF k \in goes THEN e[step[k]] ELSE k]
<1>1. e = [k \in DOMAIN step |-> IF k \in goes THEN e[step[k]] ELSE k]
  <2>1. IsLoop(DOMAIN step, goes, step, m)
    BY DEF IsLoop
  <2>2. \E f : f = [k \in DOMAIN step |-> IF k \in goes THEN f[step[k]] ELSE k]
    BY <2>1, EndFunction
  <2>. QED
    BY <2>2
<1>2. \A x : While(goes, step, x) = e[x]
  BY DEF While
<1>. HIDE DEF e
<1>3. e[s] = IF s \in goes THEN e[step[s]] ELSE s
  BY <1>1 DEF IsLoop
<1>. QED
  BY <1>2, <1>3

\* A loop ends in a state of every set that it starts in and that no turn leaves,
\* and in one that it does not go on from.
LEMMA WhileInvariant ==
  ASSUME NEW D, NEW goes, NEW step, NEW m, IsLoop(D, goes, step, m),
         NEW I, I \subseteq D, \A k \in I : k \in goes => step[k] \in I, NEW s \in I
  PROVE  While(goes, step, s) \in I /\ While(goes, step, s) \notin goes
<1>. DEFINE w(x) == While(goes, step, x)
            Bad == {n \in Nat : \E x \in I : m[x] = n /\ ~(w(x) \in I /\ w(x) \notin goes)}
<1>. SUFFICES ASSUME ~(w(s) \in I /\ w(s) \notin goes) PROVE FALSE
  OBVIOUS
<1>1. \A x \in I : w(x) = IF x \in goes THEN w(step[x]) ELSE x
  BY WhileEquation
<1>. HIDE DEF w
<1>2. m[s] \in Bad
  BY DEF IsLoop
<1>3. PICK n \in Bad : \A p \in Bad : n <= p
  <2>. HIDE DEF Bad
  <2>1. Bad \subseteq Nat
    BY DEF Bad
  <2>. QED
    BY <1>2, <2>1, LeastNumber
<1>4. PICK x \in I : m[x] = n /\ ~(w(x) \in I /\ w(x) \notin goes)
  BY <1>3
<1>5. x \in goes /\ w(x) = w(step[x])
  BY <1>1, <1>4
<1>6. step[x] \in I /\ m[step[x]] \in Nat /\ m[step[x]] < n
  BY <1>4, <1>5 DEF IsLoop
<1>7. m[step[x]] \in Bad
  BY <1>4, <1>5, <1>6
<1>8. n <= m[step[x]]
  BY <1>3, <1>7
<1>. QED
  BY <1>6, <1>8

-----------------------------------------------------------------------------
(* Sequences of anything *)

\* s is a sequence, of whatever elements.
Listed(s) == Len(s) \in Nat /\ s = [i \in 1..Len(s) |-> s[i]]

\* What stands in it.
ElementsOf(s) == {s[i] : i \in 1..Len(s)}

\* What is listed is a sequence over any set that holds its elements.
LEMMA ListedInSeq ==
  ASSUME NEW s, Listed(s), NEW S, \A i \in 1..Len(s) : s[i] \in S
  PROVE  s \in Seq(S)
<1>. DEFINE n == Len(s)
            f == [i \in 1..n |-> s[i]]
<1>1. n \in Nat /\ s = f
  BY DEF Listed
<1>2. f \in [1..n -> S]
  OBVIOUS
<1>. QED
  BY <1>1, <1>2, IsASeq

\* Every sequence is listed.
LEMMA SeqIsListed ==
  ASSUME NEW S, NEW s \in Seq(S)
  PROVE  Listed(s)
BY LenProperties DEF Listed

\* There is one list without elements.
LEMMA EmptyListed == Listed(<<>>) /\ Len(<<>>) = 0
<1>1. <<>> \in Seq({})
  OBVIOUS
<1>. QED
  BY <1>1, SeqIsListed, LenProperties, EmptySeq

LEMMA ListedEmpty ==
  ASSUME NEW s, Listed(s), Len(s) = 0
  PROVE  s = <<>>
BY ListedInSeq, EmptySeq DEF ElementsOf

\* An element is put behind a list.
LEMMA AppendEffect ==
  ASSUME NEW s, Listed(s), NEW x
  PROVE  Listed(Append(s, x)) /\ Len(Append(s, x)) = Len(s) + 1
<1>. DEFINE S == ElementsOf(s) \cup {x}
<1>1. s \in Seq(S) /\ x \in S
  BY ListedInSeq DEF ElementsOf
<1>. HIDE DEF S
<1>. QED
  BY <1>1, AppendProperties, SeqIsListed

LEMMA AppendElements ==
  ASSUME NEW s, Listed(s), NEW x
  PROVE  /\ \A i \in 1..Len(s) : Append(s, x)[i] = s[i]
         /\ Append(s, x)[Len(s) + 1] = x
<1>. DEFINE S == ElementsOf(s) \cup {x}
<1>1. s \in Seq(S) /\ x \in S
  BY ListedInSeq DEF ElementsOf
<1>. HIDE DEF S
<1>. QED
  BY <1>1, AppendProperties

\* A list loses its last element.
LEMMA FrontEffect ==
  ASSUME NEW s, Listed(s), Len(s) >= 1
  PROVE  Listed(SubSeq(s, 1, Len(s) - 1)) /\ Len(SubSeq(s, 1, Len(s) - 1)) = Len(s) - 1
<1>. DEFINE S == ElementsOf(s)
            t == SubSeq(s, 1, Len(s) - 1)
<1>1. s \in Seq(S) /\ Len(s) \in Nat
  BY ListedInSeq DEF ElementsOf, Listed
<1>. HIDE DEF S
<1>2. \A i \in 1..Len(s) - 1 : s[i] \in S
  BY <1>1, ElementOfSeq
<1>3. t \in Seq(S) /\ Len(t) = Len(s) - 1
  <2>. DEFINE n == Len(s) - 1
  <2>1. n \in Nat /\ n \in Int /\ 1 \in Int
    BY <1>1
  <2>. HIDE DEF n
  <2>2. SubSeq(s, 1, n) \in Seq(S) /\ Len(SubSeq(s, 1, n)) = IF 1 <= n THEN n - 1 + 1 ELSE 0
    BY <1>2, <2>1, SubSeqProperties DEF n
  <2>3. Len(SubSeq(s, 1, n)) = n
    BY <2>1, <2>2
  <2>. QED
    BY <2>2, <2>3 DEF n
<1>. QED
  BY <1>3, SeqIsListed

\* An element of a list is changed.
LEMMA ExceptEffect ==
  ASSUME NEW s, Listed(s), NEW k \in 1..Len(s), NEW x
  PROVE  Listed([s EXCEPT ![k] = x]) /\ Len([s EXCEPT ![k] = x]) = Len(s)
<1>. DEFINE S == ElementsOf(s) \cup {x}
            t == [s EXCEPT ![k] = x]
<1>1. s \in Seq(S) /\ x \in S
  BY ListedInSeq DEF ElementsOf
<1>. HIDE DEF S
<1>2. t \in Seq(S) /\ Len(t) = Len(s)
  BY <1>1, ExceptSeq
<1>. QED
  BY <1>2, SeqIsListed

\* An element is put in front of a list.
LEMMA PushEffect ==
  ASSUME NEW s, Listed(s), NEW x
  PROVE  /\ Listed(<<x>> \o s) /\ Len(<<x>> \o s) = Len(s) + 1
         /\ (<<x>> \o s)[1] = x
         /\ \A i \in 1..Len(s) : (<<x>> \o s)[i + 1] = s[i]
<1>. DEFINE S == ElementsOf(s) \cup {x}
<1>1. s \in Seq(S) /\ x \in S
  BY ListedInSeq DEF ElementsOf
<1>. HIDE DEF S
<1>2. <<x>> \in Seq(S) /\ Len(<<x>>) = 1 /\ <<x>>[1] = x
  BY <1>1
<1>3. <<x>> \o s \in Seq(S) /\ Len(<<x>> \o s) = Len(s) + 1 /\ (<<x>> \o s)[1] = x
      /\ \A i \in 1..Len(s) : (<<x>> \o s)[i + 1] = s[i]
  BY <1>1, <1>2, ConcatProperties, LenProperties
<1>. QED
  BY <1>3, SeqIsListed

\* Two elements are put in front of a list.
LEMMA PushTwice ==
  ASSUME NEW s, Listed(s), NEW x, NEW y
  PROVE  <<x, y>> \o s = <<x>> \o (<<y>> \o s)
<1>. DEFINE S == ElementsOf(s) \cup {x, y}
<1>1. s \in Seq(S) /\ x \in S /\ y \in S
  BY ListedInSeq DEF ElementsOf
<1>. HIDE DEF S
<1>2. <<x>> \in Seq(S) /\ <<y>> \in Seq(S) /\ <<x, y>> \in Seq(S)
  BY <1>1
<1>4. <<x>> \o <<y>> = <<x, y>>
  <2>1. <<x>> \o <<y>> \in Seq(S) /\ Len(<<x>> \o <<y>>) = 2
        /\ (<<x>> \o <<y>>)[1] = x /\ (<<x>> \o <<y>>)[2] = y
    BY <1>2, ConcatProperties
  <2>2. Len(<<x, y>>) = 2 /\ <<x, y>>[1] = x /\ <<x, y>>[2] = y
    OBVIOUS
  <2>3. \A i \in 1..2 : (<<x>> \o <<y>>)[i] = <<x, y>>[i]
    BY <2>1, <2>2
  <2>. QED
    BY <1>2, <2>1, <2>2, <2>3, SeqEqual
<1>3. (<<x>> \o <<y>>) \o s = <<x>> \o (<<y>> \o s)
  BY <1>1, <1>2, ConcatAssociative
<1>. QED
  BY <1>3, <1>4

LEMMA PushTwiceEffect ==
  ASSUME NEW s, Listed(s), NEW x, NEW y, NEW v, v = <<x, y>> \o s
  PROVE  /\ Len(v) = Len(s) + 2 /\ v[1] = x /\ v[2] = y
         /\ \A i \in 1..Len(s) : v[i + 2] = s[i]
<1>. DEFINE t == <<y>> \o s
            u == <<x>> \o t
<1>1. /\ Listed(t) /\ Len(t) = Len(s) + 1 /\ t[1] = y
      /\ \A i \in 1..Len(s) : t[i + 1] = s[i]
  BY PushEffect
<1>2. v = u
  BY PushTwice
<1>. HIDE DEF t
<1>3. /\ Len(u) = Len(t) + 1 /\ u[1] = x
      /\ \A i \in 1..Len(t) : u[i + 1] = t[i]
  BY <1>1, PushEffect
<1>. HIDE DEF u
<1>4. Len(s) \in Nat
  BY DEF Listed
<1>5. u[2] = y
  <2>1. u[1 + 1] = t[1]
    BY <1>1, <1>3, <1>4
  <2>. QED
    BY <1>1, <2>1
<1>6. ASSUME NEW i \in 1..Len(s) PROVE u[i + 2] = s[i]
  <2>1. i + 1 \in 1..Len(t) /\ (i + 1) + 1 = i + 2
    BY <1>1, <1>4
  <2>2. u[(i + 1) + 1] = t[i + 1]
    BY <1>3, <2>1
  <2>. QED
    BY <1>1, <2>1, <2>2
<1>. QED
  BY <1>1, <1>2, <1>3, <1>4, <1>5, <1>6

\* A list loses its first element.
LEMMA TailEffect ==
  ASSUME NEW s, Listed(s), s # <<>>
  PROVE  /\ Len(s) >= 1 /\ Head(s) = s[1]
         /\ Listed(Tail(s)) /\ Len(Tail(s)) = Len(s) - 1
         /\ \A i \in 1..Len(Tail(s)) : Tail(s)[i] = s[i + 1]
<1>. DEFINE S == ElementsOf(s)
<1>1. s \in Seq(S)
  BY ListedInSeq DEF ElementsOf
<1>. HIDE DEF S
<1>2. Len(s) >= 1 /\ Head(s) = s[1]
  BY <1>1, EmptySeq, LenProperties
<1>3. Tail(s) \in Seq(S) /\ Len(Tail(s)) = Len(s) - 1
      /\ \A i \in 1..Len(Tail(s)) : Tail(s)[i] = s[i + 1]
  BY <1>1, HeadTailProperties
<1>. QED
  BY <1>2, <1>3, SeqIsListed

\* The first element of a list makes way for another.
LEMMA ReplaceEffect ==
  ASSUME NEW s, Listed(s), s # <<>>, NEW x
  PROVE  /\ Listed(<<x>> \o Tail(s)) /\ Len(<<x>> \o Tail(s)) = Len(s)
         /\ (<<x>> \o Tail(s))[1] = x
         /\ \A i \in 2..Len(s) : (<<x>> \o Tail(s))[i] = s[i]
<1>. DEFINE t == Tail(s)
            u == <<x>> \o t
<1>1. /\ Len(s) \in Nat /\ Listed(t) /\ Len(t) = Len(s) - 1
      /\ \A i \in 1..Len(t) : t[i] = s[i + 1]
  BY TailEffect DEF Listed
<1>. HIDE DEF t
<1>2. Listed(u) /\ Len(u) = Len(t) + 1 /\ u[1] = x /\ \A i \in 1..Len(t) : u[i + 1] = t[i]
  BY <1>1, PushEffect
<1>. HIDE DEF u
<1>3. ASSUME NEW i \in 2..Len(s) PROVE u[i] = s[i]
  <2>1. i - 1 \in 1..Len(t) /\ (i - 1) + 1 = i
    BY <1>1
  <2>. QED
    BY <1>1, <1>2, <2>1
<1>. QED
  BY <1>1, <1>2, <1>3 DEF t, u

=============================================================================
