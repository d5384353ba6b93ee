--------------------------- MODULE CompilerProofs ---------------------------
(***************************************************************************)
(* Proofs about Compiler, for all texts, all heaps and all options.        *)
(*                                                                         *)
(* What is measured of the nodes on the call stack is what the tokens      *)
(* consumed so far have of it, so that nothing of the text is lost in the  *)
(* tree; as many objects are in use as the nodes of the stack have and the *)
(* given-up declarations left; and the pieces of the header that are       *)
(* written and those to be written are the names of the text in order.     *)
(***************************************************************************)
EXTENDS Compiler, ParserProofs

-----------------------------------------------------------------------------
(* What the stack holds *)

\* All that is measured.
Words == Counted \cup {"refs"} \cup DeviceWords

\* The objects of a block and of a function are made when they are done.
LateKinds == {"block", "single", "function"}

\* What is under construction: a node with kids, or the statement behind '='.
FrameKinds == KidKinds \cup {"single"}

HeldOwn(w, f) == IF w = "objects" /\ f.kind \in LateKinds THEN 0 ELSE Own(w, f)

\* What a node under construction has, in the trees up to height h.
Held(w, h, f) == Plus(w, HeldOwn(w, f),
                      IF f.kind \in Outer(w) THEN Below(w, Amount(w, h), f.kids) ELSE None(w))

\* What a node of a kind has when it has received another.
Gained(w, h, kind, node) == IF kind \in Outer(w) THEN Amount(w, h)[node] ELSE None(w)

\* What all on the stack have, the outermost first.
Helds(w, h, s) == [b \in 1..Len(s) |-> Held(w, h, s[Len(s) + 1 - b])]
Stock(w, h, s) == All(w, Helds(w, h, s))

Deep(h, s) == Listed(s) /\ \A i \in 1..Len(s) : s[i].kids \in Seq(Trees[h])

LEMMA HeldAmount ==
  ASSUME NEW w, NEW h \in Nat, NEW f, f.kids \in Seq(Trees[h])
  PROVE  IsAmount(w, Held(w, h, f))
<1>. DEFINE m == Amount(w, h)
            T == Trees[h]
<1>1. \A t \in T : IsAmount(w, m[t])
  BY AmountEquation
<1>2. f.kids \in Seq(T)
  OBVIOUS
<1>. HIDE DEF m, T
<1>3. IsAmount(w, Below(w, m, f.kids))
  BY <1>1, <1>2, BelowAmount
<1>4. IsAmount(w, None(w))
  BY EmptyListed DEF IsAmount, None
<1>5. IsAmount(w, HeldOwn(w, f))
  BY OwnAmount DEF HeldOwn, IsAmount, Counted
<1>. QED
  BY <1>3, <1>4, <1>5, PlusAmount DEF Held, m

LEMMA HeldsAmount ==
  ASSUME NEW w, NEW h \in Nat, NEW s, Deep(h, s)
  PROVE  /\ Amounts(w, Helds(w, h, s)) /\ Len(Helds(w, h, s)) = Len(s)
         /\ \A b \in 1..Len(s) : Helds(w, h, s)[b] = Held(w, h, s[(Len(s) + 1) - b])
         /\ IsAmount(w, Stock(w, h, s))
<1>. DEFINE v == Helds(w, h, s)
            n == Len(s)
<1>1. n \in Nat
  BY DEF Deep, Listed
<1>2. v = [b \in 1..n |-> v[b]] /\ \A b \in 1..n : v[b] = Held(w, h, s[(n + 1) - b])
  BY DEF Helds
<1>. HIDE DEF v
<1>3. Listed(v) /\ Len(v) = n
  BY <1>1, <1>2, ListOf
<1>4. ASSUME NEW b \in 1..n PROVE IsAmount(w, v[b])
  <2>1. (n + 1) - b \in 1..n
    BY <1>1
  <2>2. s[(n + 1) - b].kids \in Seq(Trees[h])
    BY <2>1 DEF Deep
  <2>3. IsAmount(w, Held(w, h, s[(n + 1) - b]))
    BY <2>2, HeldAmount
  <2>. QED
    BY <1>2, <2>3
<1>5. Amounts(w, v)
  BY <1>3, <1>4 DEF Amounts
<1>. QED
  BY <1>2, <1>3, <1>5, AllAmount DEF v, Stock

LEMMA DeepPush ==
  ASSUME NEW h, NEW s, Deep(h, s), NEW g, g.kids \in Seq(Trees[h])
  PROVE  /\ Deep(h, <<g>> \o s) /\ Len(<<g>> \o s) = Len(s) + 1 /\ (<<g>> \o s)[1] = g
         /\ \A i \in 1..Len(s) : (<<g>> \o s)[i + 1] = s[i]
<1>. DEFINE t == <<g>> \o s
<1>1. Listed(t) /\ Len(t) = Len(s) + 1 /\ t[1] = g /\ \A i \in 1..Len(s) : t[i + 1] = s[i]
  BY PushEffect DEF Deep
<1>. HIDE DEF t
<1>2. Len(s) \in Nat
  BY DEF Deep, Listed
<1>3. ASSUME NEW i \in 1..Len(t) PROVE t[i].kids \in Seq(Trees[h])
  <2>1. CASE i = 1
    BY <1>1, <2>1
  <2>2. CASE i # 1
    <3>1. i - 1 \in 1..Len(s) /\ (i - 1) + 1 = i
      BY <1>1, <1>2, <2>2
    <3>2. t[(i - 1) + 1] = s[i - 1]
      BY <1>1, <3>1
    <3>. QED
      BY <3>1, <3>2 DEF Deep
  <2>. QED
    BY <2>1, <2>2
<1>. QED
  BY <1>1, <1>3 DEF Deep, t

\* A node that is begun.
LEMMA StockPush ==
  ASSUME NEW w, NEW h \in Nat, NEW s, Deep(h, s), NEW g, g.kids \in Seq(Trees[h])
  PROVE  Stock(w, h, <<g>> \o s) = Plus(w, Stock(w, h, s), Held(w, h, g))
<1>. DEFINE t == <<g>> \o s
            u == Helds(w, h, s)
            v == Helds(w, h, t)
            x == Held(w, h, g)
            st == Append(u, x)
<1>1. /\ Deep(h, t) /\ Len(t) = Len(s) + 1 /\ t[1] = g
      /\ \A i \in 1..Len(s) : t[i + 1] = s[i]
  BY DeepPush
<1>. HIDE DEF t
<1>2. Len(s) \in Nat
  BY DEF Deep, Listed
<1>3. /\ Amounts(w, u) /\ Len(u) = Len(s)
      /\ \A b \in 1..Len(s) : u[b] = Held(w, h, s[(Len(s) + 1) - b])
  BY HeldsAmount
<1>4. /\ Amounts(w, v) /\ Len(v) = Len(t)
      /\ \A b \in 1..Len(t) : v[b] = Held(w, h, t[(Len(t) + 1) - b])
  BY <1>1, HeldsAmount
<1>5. IsAmount(w, x)
  BY HeldAmount
<1>6. Stock(w, h, t) = All(w, v) /\ Stock(w, h, s) = All(w, u)
  BY DEF Stock
<1>. HIDE DEF u, v
<1>7. Listed(u) /\ Listed(v)
  BY <1>3, <1>4 DEF Amounts
<1>8. /\ Listed(st) /\ Len(st) = Len(u) + 1 /\ st[Len(u) + 1] = x
      /\ \A b \in 1..Len(u) : st[b] = u[b]
  <2>. HIDE DEF x
  <2>. QED
    BY <1>7, AppendEffect, AppendElements
<1>9. All(w, st) = Plus(w, All(w, u), x)
  <2>. HIDE DEF x
  <2>. QED
    BY <1>3, <1>5, AllAppend
<1>. HIDE DEF st
<1>10. ASSUME NEW b \in 1..Len(v) PROVE v[b] = st[b]
  <2>1. b \in 1..Len(t)
    BY <1>4
  <2>2. v[b] = Held(w, h, t[(Len(t) + 1) - b])
    BY <1>4, <2>1
  <2>3. CASE b = Len(s) + 1
    <3>1. (Len(t) + 1) - b = 1
      BY <1>1, <1>2, <2>3
    <3>. QED
      BY <1>1, <1>3, <1>8, <2>2, <2>3, <3>1 DEF x
  <2>4. CASE b # Len(s) + 1
    <3>. DEFINE i == (Len(s) + 1) - b
    <3>1. b \in 1..Len(s) /\ i \in 1..Len(s) /\ (Len(t) + 1) - b = i + 1
      BY <1>1, <1>2, <2>1, <2>4
    <3>2. u[b] = Held(w, h, s[i])
      BY <1>3, <3>1
    <3>. HIDE DEF i
    <3>3. t[i + 1] = s[i]
      BY <1>1, <3>1
    <3>. QED
      BY <1>3, <1>8, <2>2, <3>1, <3>2, <3>3
  <2>. QED
    BY <2>3, <2>4
<1>11. Len(v) = Len(st)
  BY <1>1, <1>3, <1>4, <1>8
<1>12. v = st
  BY <1>7, <1>8, <1>10, <1>11, ListEqual
<1>. QED
  BY <1>6, <1>9, <1>12 DEF t, x

\* The frame on top and those below it.
LEMMA TopAndRest ==
  ASSUME NEW h, NEW s, Deep(h, s), s # <<>>
  PROVE  /\ s = <<s[1]>> \o Tail(s) /\ Head(s) = s[1] /\ s[1].kids \in Seq(Trees[h])
         /\ Deep(h, Tail(s)) /\ Len(Tail(s)) = Len(s) - 1 /\ Len(s) \in Nat /\ Len(s) >= 1
         /\ \A i \in 1..Len(s) - 1 : Tail(s)[i] = s[i + 1]
<1>. DEFINE u == Tail(s)
            f == s[1]
            t == <<f>> \o u
<1>1. Listed(s) /\ Len(s) \in Nat
  BY DEF Deep, Listed
<1>2. /\ Len(s) >= 1 /\ Head(s) = s[1] /\ Listed(u) /\ Len(u) = Len(s) - 1
      /\ \A i \in 1..Len(u) : u[i] = s[i + 1]
  BY <1>1, TailEffect
<1>. HIDE DEF u, f
<1>3. Listed(t) /\ Len(t) = Len(u) + 1 /\ t[1] = f /\ \A i \in 1..Len(u) : t[i + 1] = u[i]
  BY <1>2, PushEffect
<1>. HIDE DEF t
<1>4. ASSUME NEW i \in 1..Len(s) PROVE s[i] = t[i]
  <2>1. CASE i = 1
    BY <1>3, <2>1 DEF f
  <2>2. CASE i # 1
    <3>1. i - 1 \in 1..Len(u) /\ (i - 1) + 1 = i
      BY <1>1, <1>2, <2>2
    <3>2. t[(i - 1) + 1] = u[i - 1] /\ u[i - 1] = s[(i - 1) + 1]
      BY <1>2, <1>3, <3>1
    <3>. QED
      BY <3>1, <3>2
  <2>. QED
    BY <2>1, <2>2
<1>5. Len(t) = Len(s)
  BY <1>1, <1>2, <1>3
<1>6. s = t
  BY <1>1, <1>3, <1>4, <1>5, ListEqual
<1>7. ASSUME NEW i \in 1..Len(u) PROVE u[i].kids \in Seq(Trees[h])
  <2>1. i + 1 \in 1..Len(s)
    BY <1>1, <1>2
  <2>2. s[i + 1].kids \in Seq(Trees[h])
    BY <2>1 DEF Deep
  <2>. QED
    BY <1>2, <2>2
<1>8. f.kids \in Seq(Trees[h])
  <2>1. 1 \in 1..Len(s)
    BY <1>1, <1>2
  <2>. QED
    BY <2>1 DEF Deep, f
<1>. QED
  BY <1>1, <1>2, <1>6, <1>7, <1>8 DEF Deep, t, u, f

LEMMA HeldGive ==
  ASSUME NEW w, NEW h \in Nat, NEW f, f.kids \in Seq(Trees[h]), NEW node \in Trees[h],
         f.kind \in FrameKinds
  PROVE  /\ Received(f, node).kids \in Seq(Trees[h])
         /\ IsAmount(w, Gained(w, h, f.kind, node))
         /\ Held(w, h, Received(f, node)) = Plus(w, Held(w, h, f), Gained(w, h, f.kind, node))
<1>. DEFINE m == Amount(w, h)
            T == Trees[h]
            g == Received(f, node)
            old == f.kids
<1>1. \A t \in T : IsAmount(w, m[t])
  BY AmountEquation
<1>2. old \in Seq(T) /\ node \in T
  OBVIOUS
<1>3. g.kind = f.kind /\ g.head = f.head /\ g.kids = Append(old, node)
  BY DEF Received, With
<1>4. HeldOwn(w, g) = HeldOwn(w, f)
  <2>1. CASE w = "objects" /\ f.kind \in LateKinds
    BY <1>3, <2>1 DEF HeldOwn
  <2>2. CASE ~(w = "objects" /\ f.kind \in LateKinds)
    <3>0. f.kind \in LateKinds <=> g.kind \in LateKinds
      BY <1>3
    <3>1. HeldOwn(w, g) = Own(w, g) /\ HeldOwn(w, f) = Own(w, f)
      BY <2>2, <3>0 DEF HeldOwn
    <3>2. Own(w, g) = Own(w, f)
      <4>. HIDE DEF g
      <4>. QED
        BY <1>3 DEF Own, FrameKinds, KidKinds
    <3>. QED
      BY <3>1, <3>2
  <2>. QED
    BY <2>1, <2>2
<1>. HIDE DEF m, T, g, old
<1>5. IsAmount(w, HeldOwn(w, f)) /\ IsAmount(w, None(w))
  BY OwnAmount, EmptyListed DEF HeldOwn, IsAmount, Counted, None
<1>6. g.kids \in Seq(T) /\ Below(w, m, g.kids) = Plus(w, Below(w, m, old), m[node])
  BY <1>1, <1>2, <1>3, BelowAppend
<1>7. IsAmount(w, Below(w, m, old)) /\ IsAmount(w, m[node])
  BY <1>1, <1>2, BelowAmount
<1>8. CASE f.kind \in Outer(w)
  <2>1. Held(w, h, f) = Plus(w, HeldOwn(w, f), Below(w, m, old))
    BY <1>8 DEF Held, m, old
  <2>2. Held(w, h, g) = Plus(w, HeldOwn(w, f), Below(w, m, g.kids))
    BY <1>3, <1>4, <1>8 DEF Held, m
  <2>3. Gained(w, h, f.kind, node) = m[node]
    BY <1>8 DEF Gained, m
  <2>4. Plus(w, Plus(w, HeldOwn(w, f), Below(w, m, old)), m[node])
          = Plus(w, HeldOwn(w, f), Plus(w, Below(w, m, old), m[node]))
    BY <1>5, <1>7, PlusTwice
  <2>. QED
    BY <1>6, <1>7, <2>1, <2>2, <2>3, <2>4 DEF g, T
<1>9. CASE f.kind \notin Outer(w)
  <2>1. Held(w, h, f) = Plus(w, HeldOwn(w, f), None(w))
    BY <1>9 DEF Held
  <2>2. Held(w, h, g) = Plus(w, HeldOwn(w, f), None(w))
    BY <1>3, <1>4, <1>9 DEF Held
  <2>3. Gained(w, h, f.kind, node) = None(w)
    BY <1>9 DEF Gained
  <2>4. IsAmount(w, Held(w, h, f))
    BY <1>5, <2>1, PlusAmount
  <2>5. Plus(w, Held(w, h, f), None(w)) = Held(w, h, f)
    BY <2>4, PlusNone
  <2>. QED
    BY <1>5, <1>6, <2>1, <2>2, <2>3, <2>5 DEF g, T
<1>. QED
  BY <1>8, <1>9

\* A node that is received.
LEMMA StockGive ==
  ASSUME NEW w, NEW h \in Nat, NEW s, Deep(h, s), s # <<>>, NEW node \in Trees[h],
         s[1].kind \in FrameKinds
  PROVE  /\ Deep(h, Give(node, s))
         /\ IsAmount(w, Gained(w, h, s[1].kind, node))
         /\ Stock(w, h, Give(node, s)) = Plus(w, Stock(w, h, s), Gained(w, h, s[1].kind, node))
<1>. DEFINE f == s[1]
            u == Tail(s)
            g == Received(f, node)
            x == Gained(w, h, f.kind, node)
<1>1. /\ s = <<f>> \o u /\ Head(s) = f /\ f.kids \in Seq(Trees[h]) /\ Deep(h, u)
      /\ f.kind \in FrameKinds
  BY TopAndRest
<1>2. Give(node, s) = <<g>> \o u
  BY <1>1 DEF Give, Received
<1>. HIDE DEF u, f
<1>3. g.kids \in Seq(Trees[h]) /\ IsAmount(w, x) /\ Held(w, h, g) = Plus(w, Held(w, h, f), x)
  BY <1>1, HeldGive
<1>. HIDE DEF g, x
<1>4. Stock(w, h, <<g>> \o u) = Plus(w, Stock(w, h, u), Held(w, h, g)) /\ Deep(h, <<g>> \o u)
  BY <1>1, <1>3, StockPush, DeepPush
<1>5. Stock(w, h, <<f>> \o u) = Plus(w, Stock(w, h, u), Held(w, h, f))
  BY <1>1, StockPush
<1>6. IsAmount(w, Stock(w, h, u)) /\ IsAmount(w, Held(w, h, f))
  BY <1>1, HeldsAmount, HeldAmount
<1>7. Plus(w, Plus(w, Stock(w, h, u), Held(w, h, f)), x) = Plus(w, Stock(w, h, u), Plus(w, Held(w, h, f), x))
  BY <1>3, <1>6, PlusTwice
<1>. QED
  BY <1>1, <1>2, <1>3, <1>4, <1>5, <1>7 DEF x, f


\* What a frame is when it is done.
Closed(f) == [kind |-> IF f.kind = "single" THEN "block" ELSE f.kind,
              head |-> f.head, kids |-> f.kids]

\* An object that is made when a frame is done.
Late(w, kind) == IF w = "objects" /\ kind \in LateKinds THEN 1 ELSE None(w)

\* Of a node that is closed there is what it had under construction.
LEMMA ClosedAmount ==
  ASSUME NEW w \in Words, NEW h \in Nat, NEW f, f.kids \in Seq(Trees[h]), f.kind \in FrameKinds,
         Closed(f) \in Trees[h]
  PROVE  /\ IsAmount(w, Late(w, f.kind))
         /\ Amount(w, h)[Closed(f)] = Plus(w, Held(w, h, f), Late(w, f.kind))
<1>. DEFINE n == Closed(f)
            m == Amount(w, h)
            below == Below(w, m, f.kids)
<1>1. n.head = f.head /\ n.kids = f.kids /\ n.kind = IF f.kind = "single" THEN "block" ELSE f.kind
  BY DEF Closed
<1>2. n \in Trees[h]
  OBVIOUS
<1>. HIDE DEF n
<1>3. m[n] = Meas(w, m, n)
  BY <1>2, AmountEquation
<1>4. n.kind \in KidKinds
  BY <1>1 DEF FrameKinds, KidKinds
<1>5. f.kind \in Outer(w) <=> n.kind \in Outer(w)
  BY <1>1 DEF Outer, FrameKinds, KidKinds, Words, Counted, DeviceWords
<1>6. Parts(w, n) = IF f.kind \in Outer(w) THEN f.kids ELSE <<>>
  <2>1. n.kind \in Outer(w) => Parts(w, n) = n.kids
    BY <1>4 DEF Parts, KidKinds
  <2>2. n.kind \notin Outer(w) => Parts(w, n) = <<>>
    BY <1>4 DEF Parts, KidKinds
  <2>. QED
    BY <1>1, <1>5, <2>1, <2>2
<1>7. Below(w, m, <<>>) = None(w)
  BY BelowNone
<1>8. IsAmount(w, Late(w, f.kind)) /\ IsAmount(w, HeldOwn(w, f)) /\ IsAmount(w, None(w))
  BY OwnAmount, EmptyListed DEF HeldOwn, IsAmount, Counted, None, Late
<1>9. Own(w, n) = Plus(w, HeldOwn(w, f), Late(w, f.kind))
  <2>1. CASE w = "objects"
    <3>1. Own(w, n) = 1
      BY <1>4, <2>1 DEF Own, KidKinds
    <3>2. f.kind \notin LateKinds => Own(w, f) = 1
      BY <2>1 DEF Own, FrameKinds, KidKinds
    <3>. QED
      BY <2>1, <3>1, <3>2 DEF HeldOwn, Late, Plus, Counted, None
  <2>2. CASE w # "objects"
    <3>1. HeldOwn(w, f) = Own(w, f) /\ Late(w, f.kind) = None(w)
      BY <2>2 DEF HeldOwn, Late
    <3>2. Own(w, n) = Own(w, f)
      BY <1>1, <1>4, <2>2 DEF Own, FrameKinds, KidKinds
    <3>. QED
      BY <1>8, <3>1, <3>2, PlusNone
  <2>. QED
    BY <2>1, <2>2
<1>10. Meas(w, m, n) = Plus(w, Own(w, n), IF f.kind \in Outer(w) THEN below ELSE None(w))
  BY <1>6, <1>7 DEF Meas
<1>11. Held(w, h, f) = Plus(w, HeldOwn(w, f), IF f.kind \in Outer(w) THEN below ELSE None(w))
  BY DEF Held
<1>12. IsAmount(w, below)
  <2>1. \A t \in Trees[h] : IsAmount(w, m[t])
    BY AmountEquation
  <2>. HIDE DEF m
  <2>. QED
    BY <2>1, BelowAmount
<1>. DEFINE b == IF f.kind \in Outer(w) THEN below ELSE None(w)
            x == HeldOwn(w, f)
            y == Late(w, f.kind)
<1>13. IsAmount(w, b)
  BY <1>8, <1>12
<1>14. IsAmount(w, x) /\ IsAmount(w, y) /\ y = IF w = "objects" THEN y ELSE None(w)
  BY <1>8 DEF Late
<1>15. m[n] = Plus(w, Plus(w, x, y), b) /\ Held(w, h, f) = Plus(w, x, b)
  BY <1>3, <1>9, <1>10, <1>11
<1>. HIDE DEF b, x, y, m, below
<1>16. Plus(w, Plus(w, x, y), b) = Plus(w, Plus(w, x, b), y)
  <2>1. CASE w = "objects"
    BY <1>13, <1>14, <2>1 DEF IsAmount, Plus, Counted
  <2>2. CASE w # "objects"
    <3>1. y = None(w)
      BY <1>14, <2>2
    <3>2. Plus(w, x, y) = x
      BY <1>14, <3>1, PlusNone
    <3>3. Plus(w, Plus(w, x, b), y) = Plus(w, x, b)
      BY <1>13, <1>14, <3>1, PlusAmount, PlusNone
    <3>. QED
      BY <3>2, <3>3
  <2>. QED
    BY <2>1, <2>2
<1>. QED
  BY <1>14, <1>15, <1>16 DEF n, m, y

\* What is not received of a callee is not there.
LEMMA ReturnedAll ==
  ASSUME NEW w \in Words, NEW h, NEW f, NEW kind, <<kind, f.kind>> \in Calls,
         kind \notin Outer(w)
  PROVE  Held(w, h, f) = None(w) /\ Late(w, f.kind) = None(w)
<1>1. w # "objects" /\ w # "refs"
  BY DEF Calls, Outer, KidKinds
<1>2. w # "types"
  BY DEF Calls, Outer, KidKinds
<1>3. f.kind \notin Outer(w)
  BY <1>1, <1>2 DEF Calls, Outer, Words, Counted, DeviceWords
<1>4. Own(w, f) = None(w)
  BY <1>1, <1>2 DEF Calls, Outer, Words, Counted, DeviceWords, Own, None
<1>5. HeldOwn(w, f) = None(w) /\ Late(w, f.kind) = None(w)
  BY <1>1, <1>4 DEF HeldOwn, Late
<1>6. IsAmount(w, None(w))
  BY PlusAmount, EmptyListed DEF IsAmount, None
<1>. QED
  BY <1>3, <1>5, <1>6, PlusNone DEF Held

\* A function that returns.
LEMMA StockReturn ==
  ASSUME NEW w \in Words, NEW h \in Nat, NEW s, Deep(h, s), Len(s) > 1,
         <<s[2].kind, s[1].kind>> \in Calls, Closed(s[1]) \in Trees[h]
  PROVE  /\ Deep(h, Give(Closed(s[1]), Tail(s)))
         /\ IsAmount(w, Late(w, s[1].kind))
         /\ Stock(w, h, Give(Closed(s[1]), Tail(s))) = Plus(w, Stock(w, h, s), Late(w, s[1].kind))
<1>. DEFINE f == s[1]
            u == Tail(s)
            n == Closed(f)
            kind == u[1].kind
            x == Gained(w, h, kind, n)
            y == Late(w, f.kind)
<1>1. s # <<>> /\ Len(s) \in Nat
  BY EmptyListed DEF Deep, Listed
<1>2. /\ s = <<f>> \o u /\ f.kids \in Seq(Trees[h]) /\ Deep(h, u) /\ Len(u) = Len(s) - 1
      /\ \A i \in 1..Len(s) - 1 : u[i] = s[i + 1]
  BY <1>1, TopAndRest
<1>. HIDE DEF u
<1>3. u[1] = s[2] /\ u # <<>>
  <2>1. u[1] = s[1 + 1]
    BY <1>1, <1>2
  <2>2. Len(u) # 0
    BY <1>1, <1>2
  <2>. QED
    BY <2>1, <2>2, EmptyListed
<1>4. <<kind, f.kind>> \in Calls /\ f.kind \in FrameKinds /\ kind \in FrameKinds
  <2>1. <<kind, f.kind>> \in Calls
    BY <1>3
  <2>. QED
    BY <2>1 DEF Calls, FrameKinds, KidKinds
<1>5. n \in Trees[h]
  OBVIOUS
<1>. HIDE DEF f
<1>6. Amount(w, h)[n] = Plus(w, Held(w, h, f), y) /\ IsAmount(w, y)
  BY <1>2, <1>4, <1>5, ClosedAmount
<1>7. kind \notin Outer(w) => Held(w, h, f) = None(w) /\ y = None(w)
  BY <1>4, ReturnedAll
<1>. HIDE DEF n
<1>8. Deep(h, Give(n, u)) /\ Stock(w, h, Give(n, u)) = Plus(w, Stock(w, h, u), x)
  BY <1>2, <1>3, <1>4, <1>5, StockGive
<1>9. Stock(w, h, <<f>> \o u) = Plus(w, Stock(w, h, u), Held(w, h, f))
  BY <1>2, StockPush
<1>10. IsAmount(w, Held(w, h, f)) /\ IsAmount(w, Stock(w, h, u)) /\ IsAmount(w, None(w))
  <2>1. IsAmount(w, None(w))
    BY EmptyListed DEF IsAmount, None
  <2>. QED
    BY <1>2, <2>1, HeldAmount, HeldsAmount
<1>. HIDE DEF y
<1>11. x = Plus(w, Held(w, h, f), y)
  <2>1. CASE kind \in Outer(w)
    BY <1>6, <2>1 DEF Gained
  <2>2. CASE kind \notin Outer(w)
    <3>1. x = None(w) /\ Held(w, h, f) = None(w) /\ y = None(w)
      BY <1>7, <2>2 DEF Gained
    <3>2. Plus(w, None(w), None(w)) = None(w)
      BY <1>10, PlusNone
    <3>. QED
      BY <3>1, <3>2
  <2>. QED
    BY <2>1, <2>2
<1>12. Plus(w, Plus(w, Stock(w, h, u), Held(w, h, f)), y)
         = Plus(w, Stock(w, h, u), Plus(w, Held(w, h, f), y))
  BY <1>6, <1>10, PlusTwice
<1>13. Stock(w, h, s) = Plus(w, Stock(w, h, u), Held(w, h, f))
  BY <1>2, <1>9
<1>. HIDE DEF x
<1>. QED
  BY <1>6, <1>8, <1>11, <1>12, <1>13 DEF f, u, n, y

-----------------------------------------------------------------------------
(* Nodes under construction *)

Heads(kind) ==
  CASE kind = "function"   -> [name : Nat, type : TypeNames]
    [] kind = "register"   -> [name : Nat, type : TypeNames, offset : Nat]
    [] kind = "peripheral" -> [name : Nat, base : Nat]
    [] OTHER               -> {<<>>}

IsFrame(f, T) == f \in [kind : FrameKinds, head : Heads(f.kind), kids : Seq(T)]

\* How many more tokens there are before position p than activations.
Slack(p, s) == (p + 1) - Len(s)

\* A register may be begun without a token, all else consumes one: what is on the
\* stack is no higher than the text so far is long.
Framed(p, s) ==
  /\ Slack(p, s) \in Nat /\ (s[1].kind # "register" => Slack(p, s) >= 1)
  /\ \A i \in 1..Len(s) : IsFrame(s[i], Trees[Slack(p, s) + i])

LEMMA FrameKids ==
  ASSUME NEW f, NEW T, IsFrame(f, T)
  PROVE  /\ f.kind \in FrameKinds /\ f.head \in Heads(f.kind) /\ f.kids \in Seq(T) /\ Listed(f.kids)
         /\ f = [kind |-> f.kind, head |-> f.head, kids |-> f.kids]
<1>1. /\ f.kind \in FrameKinds /\ f.head \in Heads(f.kind) /\ f.kids \in Seq(T)
      /\ f = [kind |-> f.kind, head |-> f.head, kids |-> f.kids]
  BY DEF IsFrame
<1>. QED
  BY <1>1, SeqIsListed

LEMMA FrameGrows ==
  ASSUME NEW g \in Nat, NEW h \in Nat, g <= h, NEW f, IsFrame(f, Trees[g])
  PROVE  IsFrame(f, Trees[h])
<1>1. Trees[g] \subseteq Trees[h]
  BY TreesMonotonic
<1>2. f.kids \in Seq(Trees[g])
  BY FrameKids
<1>3. Seq(Trees[g]) \subseteq Seq(Trees[h])
  BY <1>1
<1>. QED
  BY <1>2, <1>3 DEF IsFrame

\* A frame that is done is a tree.
LEMMA FrameTree ==
  ASSUME NEW k \in Nat, NEW f, IsFrame(f, Trees[k])
  PROVE  /\ Closed(f) \in Trees[k + 1]
         /\ f.kind \in KidKinds => Closed(f) = f
<1>. DEFINE T == Trees[k]
            n == Closed(f)
<1>1. /\ f.kind \in FrameKinds /\ f.head \in Heads(f.kind) /\ f.kids \in Seq(T)
      /\ f = [kind |-> f.kind, head |-> f.head, kids |-> f.kids]
  BY FrameKids
<1>. HIDE DEF T
<1>6. n \in Above(T)
  <2>2. CASE f.kind \in {"block", "program", "single"}
    <3>1. n = [kind |-> n.kind, head |-> <<>>, kids |-> f.kids] /\ n.kind \in {"block", "program"}
      BY <1>1, <2>2 DEF Closed, Heads
    <3>2. n \in [kind : {"block", "program"}, head : {<<>>}, kids : Seq(T)]
      BY <1>1, <3>1
    <3>. HIDE DEF n
    <3>. QED
      BY <3>2 DEF Above
  <2>3. CASE f.kind = "function"
    <3>1. n = [kind |-> "function", head |-> f.head, kids |-> f.kids]
          /\ f.head \in [name : Nat, type : TypeNames]
      BY <1>1, <2>3 DEF Closed, Heads
    <3>2. n \in [kind : {"function"}, head : [name : Nat, type : TypeNames], kids : Seq(T)]
      BY <1>1, <3>1
    <3>. HIDE DEF n
    <3>. QED
      BY <3>2 DEF Above
  <2>4. CASE f.kind = "register"
    <3>1. n = [kind |-> "register", head |-> f.head, kids |-> f.kids]
          /\ f.head \in [name : Nat, type : TypeNames, offset : Nat]
      BY <1>1, <2>4 DEF Closed, Heads
    <3>2. n \in [kind : {"register"}, head : [name : Nat, type : TypeNames, offset : Nat], kids : Seq(T)]
      BY <1>1, <3>1
    <3>. HIDE DEF n
    <3>. QED
      BY <3>2 DEF Above
  <2>5. CASE f.kind = "peripheral"
    <3>1. n = [kind |-> "peripheral", head |-> f.head, kids |-> f.kids]
          /\ f.head \in [name : Nat, base : Nat]
      BY <1>1, <2>5 DEF Closed, Heads
    <3>2. n \in [kind : {"peripheral"}, head : [name : Nat, base : Nat], kids : Seq(T)]
      BY <1>1, <3>1
    <3>. HIDE DEF n
    <3>. QED
      BY <3>2 DEF Above
  <2>. HIDE DEF n
  <2>. QED
    BY <1>1, <2>2, <2>3, <2>4, <2>5 DEF FrameKinds, KidKinds
<1>7. Trees[k + 1] = Leaves \cup Above(T)
  BY TreesEquation DEF T
<1>8. f.kind \in KidKinds => n = f
  BY <1>1 DEF Closed, KidKinds
<1>. HIDE DEF n
<1>. QED
  BY <1>6, <1>7, <1>8 DEF n

LEMMA FrameReceives ==
  ASSUME NEW T, NEW f, IsFrame(f, T), NEW node \in T
  PROVE  IsFrame(Received(f, node), T) /\ Received(f, node).kind = f.kind
<1>1. f.kids \in Seq(T) /\ f.kind \in FrameKinds /\ f.head \in Heads(f.kind)
  BY FrameKids
<1>2. Append(f.kids, node) \in Seq(T)
  BY <1>1, AppendProperties
<1>. QED
  BY <1>1, <1>2 DEF Received, With, IsFrame

\* A frame that is begun, whatever is below.
LEMMA FrameBegins ==
  ASSUME NEW T, NEW kind \in FrameKinds, NEW head \in Heads(kind)
  PROVE  IsFrame(Node(kind, head), T) /\ Node(kind, head).kind = kind /\ Node(kind, head).head = head
BY EmptySeq DEF IsFrame, Node

LEMMA FramedPush ==
  ASSUME NEW p \in Nat, NEW q \in Nat, p <= q, NEW s, Listed(s), s # <<>>, Framed(p, s),
         s[1].kind # "register", NEW g, \A T : IsFrame(g, T), p < q \/ g.kind = "register"
  PROVE  Framed(q, <<g>> \o s) /\ Listed(<<g>> \o s) /\ <<g>> \o s # <<>> /\ (<<g>> \o s)[1] = g
<1>. DEFINE t == <<g>> \o s
            k == Slack(p, s)
            l == Slack(q, t)
<1>1. /\ Listed(t) /\ Len(t) = Len(s) + 1 /\ t[1] = g /\ \A i \in 1..Len(s) : t[i + 1] = s[i]
  BY PushEffect
<1>. HIDE DEF t
<1>2. Len(s) \in Nat /\ k \in Nat /\ k >= 1
  BY DEF Listed, Framed
<1>3. l = (k + (q - p)) - 1
  BY <1>1, <1>2 DEF Slack
<1>4. l \in Nat /\ k - 1 <= l /\ (g.kind # "register" => l >= 1)
  <2>. HIDE DEF k, l
  <2>. QED
    BY <1>2, <1>3
<1>5. ASSUME NEW i \in 1..Len(t) PROVE IsFrame(t[i], Trees[l + i])
  <2>1. CASE i = 1
    BY <1>1, <2>1
  <2>2. CASE i # 1
    <3>. DEFINE j == i - 1
    <3>1. j \in 1..Len(s) /\ j + 1 = i
      BY <1>1, <1>2, <2>2
    <3>2. IsFrame(s[j], Trees[k + j])
      BY <3>1 DEF Framed
    <3>3. t[j + 1] = s[j]
      BY <1>1, <3>1
    <3>. HIDE DEF k, l
    <3>4. k + j <= l + i /\ k + j \in Nat /\ l + i \in Nat
      BY <1>2, <1>4, <3>1
    <3>. HIDE DEF j
    <3>. QED
      BY <3>1, <3>2, <3>3, <3>4, FrameGrows
  <2>. QED
    BY <2>1, <2>2
<1>6. t # <<>>
  BY <1>1, <1>2, EmptyListed
<1>7. t[1].kind # "register" => l >= 1
  BY <1>1, <1>4
<1>8. Framed(q, t)
  BY <1>4, <1>5, <1>7 DEF Framed
<1>. QED
  BY <1>1, <1>6, <1>8 DEF t

LEMMA FramedStays ==
  ASSUME NEW p \in Nat, NEW q \in Nat, p <= q, NEW s, Listed(s), Framed(p, s)
  PROVE  Framed(q, s) /\ Slack(q, s) = Slack(p, s) + (q - p)
<1>1. Len(s) \in Nat /\ Slack(p, s) \in Nat
  BY DEF Listed, Framed
<1>2. Slack(q, s) = Slack(p, s) + (q - p)
  BY <1>1 DEF Slack
<1>3. Slack(q, s) \in Nat /\ Slack(p, s) <= Slack(q, s)
  BY <1>1, <1>2
<1>4. ASSUME NEW i \in 1..Len(s) PROVE IsFrame(s[i], Trees[Slack(q, s) + i])
  <2>1. IsFrame(s[i], Trees[Slack(p, s) + i])
    BY DEF Framed
  <2>2. Slack(p, s) + i <= Slack(q, s) + i /\ Slack(p, s) + i \in Nat /\ Slack(q, s) + i \in Nat
    BY <1>1, <1>3
  <2>. QED
    BY <2>1, <2>2, FrameGrows
<1>5. s[1].kind # "register" => Slack(q, s) >= 1
  BY <1>1, <1>3 DEF Framed
<1>. QED
  BY <1>2, <1>3, <1>4, <1>5 DEF Framed

LEMMA FramedGive ==
  ASSUME NEW p \in Nat, NEW q \in Nat, p <= q, NEW s, Listed(s), s # <<>>, Framed(p, s),
         NEW node \in Trees[(q - p) + 1]
  PROVE  Framed(q, Give(node, s)) /\ Listed(Give(node, s))
<1>. DEFINE t == Give(node, s)
            l == Slack(q, s)
            g == Received(s[1], node)
<1>1. Head(s) = s[1] /\ Len(s) \in Nat /\ Len(s) >= 1
  BY TailEffect DEF Listed
<1>2. t = <<g>> \o Tail(s)
  BY <1>1 DEF Give, Received
<1>. HIDE DEF g, t
<1>3. Listed(t) /\ Len(t) = Len(s) /\ t[1] = g /\ \A i \in 2..Len(s) : t[i] = s[i]
  BY <1>2, ReplaceEffect
<1>4. Framed(q, s) /\ l = Slack(p, s) + (q - p) /\ Slack(p, s) \in Nat
  BY FramedStays DEF Framed
<1>5. Slack(q, t) = l
  BY <1>3 DEF Slack
<1>. HIDE DEF l
<1>6. l \in Nat /\ (q - p) + 1 <= l + 1 /\ (q - p) + 1 \in Nat /\ l + 1 \in Nat
  BY <1>4
<1>7. node \in Trees[l + 1]
  <2>1. Trees[(q - p) + 1] \subseteq Trees[l + 1]
    BY <1>6, TreesMonotonic
  <2>. QED
    BY <2>1
<1>8. IsFrame(s[1], Trees[l + 1])
  BY <1>1, <1>4 DEF Framed, l
<1>9. IsFrame(g, Trees[l + 1]) /\ g.kind = s[1].kind
  BY <1>7, <1>8, FrameReceives DEF g
<1>10. ASSUME NEW i \in 1..Len(t) PROVE IsFrame(t[i], Trees[l + i])
  <2>1. CASE i = 1
    BY <1>3, <1>9, <2>1
  <2>2. CASE i # 1
    <3>1. t[i] = s[i]
      BY <1>1, <1>3, <2>2
    <3>2. IsFrame(s[i], Trees[l + i])
      BY <1>3, <1>4 DEF Framed, l
    <3>. QED
      BY <3>1, <3>2
  <2>. QED
    BY <2>1, <2>2
<1>11. t[1].kind # "register" => l >= 1
  BY <1>3, <1>4, <1>9 DEF Framed, l
<1>12. Framed(q, t)
  BY <1>5, <1>6, <1>10, <1>11 DEF Framed
<1>. QED
  BY <1>3, <1>12 DEF t

LEMMA FramedReturn ==
  ASSUME NEW p \in Nat, NEW q \in Nat, p <= q, NEW s, Listed(s), Len(s) > 1, Framed(p, s)
  PROVE  /\ Framed(q, Give(Closed(s[1]), Tail(s))) /\ Listed(Give(Closed(s[1]), Tail(s)))
         /\ Head(s) = s[1] /\ (s[1].kind \in KidKinds => Closed(s[1]) = s[1])
<1>. DEFINE u == Tail(s)
            n == Closed(s[1])
            k == Slack(p, s)
<1>1. /\ Head(s) = s[1] /\ Listed(u) /\ Len(u) = Len(s) - 1 /\ Len(s) \in Nat
      /\ \A i \in 1..Len(u) : u[i] = s[i + 1]
  <2>1. s # <<>> /\ Len(s) \in Nat
    BY EmptyListed DEF Listed
  <2>. QED
    BY <2>1, TailEffect
<1>. HIDE DEF u
<1>2. k \in Nat /\ Slack(p, u) = k + 1
  BY <1>1 DEF Framed, Slack
<1>3. IsFrame(s[1], Trees[k + 1])
  BY <1>1 DEF Framed
<1>. HIDE DEF k
<1>4. k + 1 \in Nat /\ (k + 1) + 1 = k + 2 /\ k + 2 \in Nat
  BY <1>2
<1>5. n \in Trees[k + 2] /\ (s[1].kind \in KidKinds => n = s[1])
  BY <1>3, <1>4, FrameTree
<1>. HIDE DEF n
<1>6. ASSUME NEW i \in 1..Len(u) PROVE IsFrame(u[i], Trees[(k + 1) + i])
  <2>1. i + 1 \in 1..Len(s) /\ k + (i + 1) = (k + 1) + i
    BY <1>1, <1>2
  <2>2. IsFrame(s[i + 1], Trees[k + (i + 1)])
    BY <2>1 DEF Framed, k
  <2>. QED
    BY <1>1, <2>1, <2>2
<1>7. Framed(p, u)
  <2>1. Slack(p, u) \in Nat /\ Slack(p, u) >= 1
    BY <1>2
  <2>2. \A i \in 1..Len(u) : IsFrame(u[i], Trees[Slack(p, u) + i])
    BY <1>2, <1>6
  <2>. QED
    BY <2>1, <2>2 DEF Framed
<1>8. Framed(q, u) /\ Slack(q, u) = (k + 1) + (q - p)
  BY <1>1, <1>2, <1>7, FramedStays, ZenonT(60)
<1>9. Len(u) # 0
  BY <1>1
<1>10. u # <<>>
  BY <1>9, EmptyListed
<1>. DEFINE t == Give(n, u)
            g == Received(u[1], n)
            l == (k + 1) + (q - p)
<1>11. Head(u) = u[1]
  BY <1>1, <1>10, TailEffect
<1>12. t = <<g>> \o Tail(u)
  BY <1>11 DEF Give, Received
<1>. HIDE DEF g, t
<1>13. Listed(t) /\ Len(t) = Len(u) /\ t[1] = g /\ \A i \in 2..Len(u) : t[i] = u[i]
  BY <1>1, <1>10, <1>12, ReplaceEffect
<1>14. Slack(q, t) = l
  BY <1>8, <1>13 DEF Slack
<1>. HIDE DEF l
<1>15. l \in Nat /\ l >= 1 /\ k + 2 <= l + 1 /\ l + 1 \in Nat
  BY <1>2 DEF l
<1>16. n \in Trees[l + 1]
  <2>1. Trees[k + 2] \subseteq Trees[l + 1]
    BY <1>4, <1>15, TreesMonotonic
  <2>. QED
    BY <1>5, <2>1
<1>17. 1 \in 1..Len(u)
  BY <1>1
<1>18. IsFrame(u[1], Trees[l + 1])
  BY <1>8, <1>17 DEF Framed, l
<1>19. IsFrame(g, Trees[l + 1])
  BY <1>16, <1>18, FrameReceives DEF g
<1>20. ASSUME NEW i \in 1..Len(t) PROVE IsFrame(t[i], Trees[l + i])
  <2>1. CASE i = 1
    BY <1>13, <1>19, <2>1
  <2>2. CASE i # 1
    <3>1. t[i] = u[i]
      BY <1>1, <1>13, <2>2
    <3>2. IsFrame(u[i], Trees[l + i])
      BY <1>8, <1>13 DEF Framed, l
    <3>. QED
      BY <3>1, <3>2
  <2>. QED
    BY <2>1, <2>2
<1>21. Framed(q, t)
  BY <1>14, <1>15, <1>20 DEF Framed
<1>. QED
  BY <1>1, <1>5, <1>13, <1>21 DEF t, u, n

\* What is on the stack is among the trees of the text.
LEMMA FramedDeep ==
  ASSUME NEW c, IsCursor(c), NEW s, Listed(s), Framed(c.pos, s)
  PROVE  /\ Height(c.src) \in Nat /\ Deep(Height(c.src), s)
         /\ \A i \in 1..Len(s) : Closed(s[i]) \in Trees[Height(c.src)]
<1>. DEFINE h == Height(c.src)
            k == Slack(c.pos, s)
<1>1. c.pos \in Nat /\ c.pos <= Len(c.src) + 1 /\ Len(c.src) \in Nat
  BY DEF IsCursor
<1>2. h \in Nat /\ h = Len(c.src) + 3
  BY <1>1 DEF Height
<1>3. Len(s) \in Nat /\ k \in Nat /\ k + Len(s) = c.pos + 1
  BY <1>1 DEF Listed, Framed, Slack
<1>. HIDE DEF h, k
<1>4. ASSUME NEW i \in 1..Len(s)
      PROVE  s[i].kids \in Seq(Trees[h]) /\ Closed(s[i]) \in Trees[h]
  <2>1. k + i \in Nat /\ k + i <= h /\ (k + i) + 1 \in Nat /\ (k + i) + 1 <= h
    BY <1>1, <1>2, <1>3
  <2>2. IsFrame(s[i], Trees[k + i])
    BY DEF Framed, k
  <2>3. IsFrame(s[i], Trees[h])
    BY <1>2, <2>1, <2>2, FrameGrows
  <2>4. Closed(s[i]) \in Trees[(k + i) + 1]
    BY <2>1, <2>2, FrameTree
  <2>5. Trees[(k + i) + 1] \subseteq Trees[h]
    BY <1>2, <2>1, TreesMonotonic
  <2>. QED
    BY <2>3, <2>4, <2>5, FrameKids
<1>. QED
  BY <1>2, <1>4 DEF Deep, h

-----------------------------------------------------------------------------
(* Parts of a text *)

\* A text of tokens that do not count.
LEMMA SpanPlain ==
  ASSUME NEW w, NEW src, NEW i \in Nat, NEW j \in Nat, i <= j,
         \A k \in i..j - 1 : Mark(w, src, i, k) = None(w)
  PROVE  Span(w, src, i, j) = None(w)
<1>. DEFINE s == Marks(w, src, i, j)
<1>1. /\ Listed(s) /\ Len(s) = j - i /\ Span(w, src, i, j) = All(w, s)
      /\ \A k \in 1..j - i : s[k] = Mark(w, src, i, i + (k - 1))
  BY SpanMarks
<1>. HIDE DEF s
<1>2. ASSUME NEW k \in 1..Len(s) PROVE s[k] = None(w)
  <2>1. i + (k - 1) \in i..j - 1 /\ k \in 1..j - i
    BY <1>1
  <2>. QED
    BY <1>1, <2>1
<1>. QED
  BY <1>1, <1>2, AllNone

\* A token that does not count, and one that does.
LEMMA SpanQuiet ==
  ASSUME NEW w, NEW src, NEW i \in Nat, NEW j \in Nat, i <= j, Mark(w, src, i, j) = None(w)
  PROVE  Span(w, src, i, j + 1) = Span(w, src, i, j)
<1>1. IsAmount(w, Span(w, src, i, j))
  BY SpanAmount
<1>2. Span(w, src, i, j + 1) = Plus(w, Span(w, src, i, j), None(w))
  BY SpanStep
<1>. QED
  BY <1>1, <1>2, PlusNone

\* The parser comes from c to d over tokens of a set.
Within(c, d, S) == Onward(c, d) /\ \A i \in c.pos..d.pos - 1 : c.src[i] \in S

LEMMA WithinSame ==
  ASSUME NEW c, IsCursor(c), NEW S
  PROVE  Within(c, c, S)
BY OnwardReflexive DEF Within, IsCursor

LEMMA WithinAdvance ==
  ASSUME NEW c, IsCursor(c), NEW d, NEW S, Within(c, d, S)
  PROVE  /\ Within(c, Fail(d), S)
         /\ Current(d) \in S => Within(c, Advance(d), S)
<1>1. Onward(c, d) /\ IsCursor(d) /\ d.src = c.src /\ c.pos \in Nat /\ d.pos \in Nat
  BY OnwardIsCursor DEF Within, Onward, IsCursor
<1>2. Onward(d, Fail(d)) /\ Onward(d, Advance(d)) /\ Fail(d).pos = d.pos
  BY <1>1, FailGoesOn, AdvanceGoesOn
<1>3. Onward(c, Fail(d)) /\ Onward(c, Advance(d))
  BY <1>1, <1>2, OnwardTransitive
<1>4. ASSUME Current(d) \in S, NEW i \in c.pos..Advance(d).pos - 1 PROVE c.src[i] \in S
  <2>1. i \in c.pos..d.pos - 1 \/ (i = d.pos /\ d.pos <= Len(d.src))
    BY <1>1 DEF Advance, IsCursor
  <2>. QED
    BY <1>1, <1>4, <2>1 DEF Within, Current
<1>. QED
  BY <1>2, <1>3, <1>4 DEF Within

LEMMA WithinExpect ==
  ASSUME NEW c, IsCursor(c), NEW d, NEW S, Within(c, d, S), NEW t \in S
  PROVE  Within(c, Expect(d, t), S) /\ Within(c, Match(d, t), S)
BY WithinAdvance DEF Expect, Match, MatchAny

LEMMA WithinMatch ==
  ASSUME NEW c, IsCursor(c), NEW d, NEW S, Within(c, d, S), NEW words, words \subseteq S
  PROVE  Within(c, MatchAny(d, words), S)
BY WithinAdvance DEF MatchAny

LEMMA CoversWithin ==
  ASSUME NEW c, NEW d, Covers(c, d)
  PROVE  Within(c, d, BodyTokens)
BY DEF Covers, Within, Passes

\* What must be there is there when there is no error.
LEMMA ExpectThere ==
  ASSUME NEW c, IsCursor(c), NEW t, t # "EOF", NEW d, d = Expect(c, t), d.err = 0
  PROVE  /\ c.err = 0 /\ IsCursor(d) /\ d.src = c.src /\ d.pos = c.pos + 1
         /\ c.src[c.pos] = t /\ c.pos \in Nat /\ c.pos >= 1 /\ d = Advance(c)
<1>1. Current(c) = t /\ d = Advance(c)
  BY ExpectedIsThere
<1>2. c.pos <= Len(c.src) /\ c.src[c.pos] = t
  BY <1>1 DEF Current
<1>. QED
  BY <1>1, <1>2 DEF Advance, IsCursor

LEMMA AdvanceThere ==
  ASSUME NEW c, IsCursor(c), Current(c) # "EOF"
  PROVE  /\ IsCursor(Advance(c)) /\ Advance(c).src = c.src /\ Advance(c).pos = c.pos + 1
         /\ Advance(c).err = c.err /\ c.src[c.pos] = Current(c) /\ c.pos \in Nat /\ c.pos >= 1
BY DEF Advance, IsCursor, Current

\* No role is given behind tokens of statements.
LEMMA CoversRole ==
  ASSUME NEW c, IsCursor(c), NEW d, Covers(c, d), ~AfterRole(c)
  PROVE  ~AfterRole(d)
<1>1. d.src = c.src /\ c.pos \in Nat /\ d.pos \in Nat /\ c.pos <= d.pos
  BY DEF Covers, Passes, Onward, IsCursor
<1>2. CASE d.pos = c.pos
  BY <1>1, <1>2 DEF AfterRole
<1>3. CASE d.pos # c.pos
  <2>1. d.pos - 1 \in c.pos..d.pos - 1
    BY <1>1, <1>3
  <2>2. c.src[d.pos - 1] \in BodyTokens
    BY <2>1 DEF Covers
  <2>. QED
    BY <1>1, <2>2, BodyIsPlain DEF AfterRole
<1>. QED
  BY <1>2, <1>3

\* The place behind the '=' of a declaration, or behind all of it.
LEMMA ExprStartIs ==
  ASSUME NEW src, NEW i \in Nat, NEW j \in Nat, NEW k \in i + 1..j, src[i] \in {"LET", "VAR"},
         k = j \/ src[k - 1] = "ASSIGN", \A m \in i..k - 2 : src[m] # "ASSIGN"
  PROVE  ExprStart(src, i, j) = k
<1>. DEFINE P(x) == /\ x = j \/ src[x - 1] = "ASSIGN"
                    /\ \A m \in i..x - 2 : src[m] # "ASSIGN"
<1>1. P(k)
  OBVIOUS
<1>2. ASSUME NEW x \in i + 1..j, P(x) PROVE x = k
  <2>1. x \in Nat /\ k \in Nat /\ x - 1 \in Nat /\ k - 1 \in Nat
    OBVIOUS
  <2>2. CASE x < k
    <3>1. src[x - 1] = "ASSIGN" /\ x - 1 \in i..k - 2
      BY <1>2, <2>1, <2>2
    <3>. QED
      BY <3>1
  <2>3. CASE k < x
    <3>1. src[k - 1] = "ASSIGN" /\ k - 1 \in i..x - 2
      BY <2>1, <2>3
    <3>. QED
      BY <1>2, <3>1
  <2>. QED
    BY <2>1, <2>2, <2>3
<1>3. ExprStart(src, i, j) = CHOOSE x \in i + 1..j : P(x)
  BY DEF ExprStart
<1>. HIDE DEF P
<1>. QED
  BY <1>1, <1>2, <1>3

\* What the text of a statement makes is measured of it.
LEMMA MadeIsSpan ==
  ASSUME NEW src, NEW i, NEW j
  PROVE  /\ ExprObjects(src, i, j) = Span("objects", src, i, j)
         /\ DeclaredTypes(src, i, j) = Span("types", src, i, j)
         /\ Referred(src, i, j) = Span("refs", src, i, j)
<1>1. \A k : Mark("objects", src, i, k) = ObjectsAt(src, i, k)
  BY DEF Mark, DeviceWords
<1>2. \A k : Mark("types", src, i, k) = IF src[k] \in TypeNames THEN 1 ELSE 0
  BY DEF Mark, DeviceWords
<1>3. \A k : Mark("refs", src, i, k) = RefAt(src, k)
  BY DEF Mark, DeviceWords
<1>4. All("objects", Marks("objects", src, i, j)) = Total(Marks("objects", src, i, j))
      /\ All("types", Marks("types", src, i, j)) = Total(Marks("types", src, i, j))
      /\ All("refs", Marks("refs", src, i, j)) = FlattenSeq(Marks("refs", src, i, j))
  BY DEF All, Counted
<1>5. Marks("objects", src, i, j) = [k \in 1..j - i |-> ObjectsAt(src, i, i + k - 1)]
  BY <1>1 DEF Marks
<1>6. Marks("types", src, i, j) = [k \in 1..j - i |-> IF src[i + k - 1] \in TypeNames THEN 1 ELSE 0]
  BY <1>2 DEF Marks
<1>7. Marks("refs", src, i, j) = [k \in 1..j - i |-> RefAt(src, i + k - 1)]
  BY <1>3 DEF Marks
<1>8. \A w : Span(w, src, i, j) = All(w, Marks(w, src, i, j))
  BY DEF Span, Marks
<1>. QED
  BY <1>4, <1>5, <1>6, <1>7, <1>8 DEF ExprObjects, DeclaredTypes, Referred

LEMMA TreesBelow ==
  ASSUME NEW src, Len(src) \in Nat, NEW k \in Nat, k <= Len(src) + 3
  PROVE  Height(src) \in Nat /\ Trees[k] \subseteq Trees[Height(src)]
BY TreesMonotonic DEF Height

\* What only the node itself has.
LEMMA OwnOnly ==
  ASSUME NEW w, w \notin Both, NEW h \in Nat, NEW n \in Trees[h], n.kind \notin Outer(w)
  PROVE  Amount(w, h)[n] = Own(w, n)
<1>1. Parts(w, n) = <<>>
  BY DEF Parts, Both
<1>2. IsAmount(w, Own(w, n))
  BY OwnAmount
<1>. QED
  BY <1>1, <1>2, AmountEquation, BelowNone, PlusNone DEF Meas

-----------------------------------------------------------------------------
(* Statements *)

MadeObjects(c, r) ==
  LET from == IF r.c.pos = c.pos THEN c.pos ELSE ExprStart(c.src, c.pos, r.c.pos)
  IN  ExprObjects(c.src, from, r.c.pos) + IF r.node = NullNode THEN 0 ELSE 1

MadeTypes(c, r) ==
  IF Current(c) \in {"LET", "VAR"} THEN DeclaredTypes(c.src, c.pos, r.c.pos) ELSE 0

\* What is made for a statement is in its node, but for the Type of a declaration
\* that is given up, and so is what its text refers to.
Keeps(c, d, n) ==
  d.err = 0 /\ ~AfterRole(c) =>
    /\ Amount("refs", Height(c.src))[n] = Span("refs", c.src, c.pos, d.pos)
    /\ ~AfterRole(d)

Statement(c, r) ==
  /\ Onward(c, r.c) /\ r.node \in Trees[(r.c.pos - c.pos) + 1]
  /\ Amount("objects", Height(c.src))[r.node] = MadeObjects(c, r)
  /\ \/ MadeTypes(c, r) = Amount("types", Height(c.src))[r.node]
     \/ /\ MadeTypes(c, r) = Amount("types", Height(c.src))[r.node] + 1
        /\ r.c.err # 0 /\ c.pos < r.c.pos /\ Current(c) \in {"LET", "VAR"}
  /\ Keeps(c, r.c, r.node)

LEMMA CursorFacts ==
  ASSUME NEW c, IsCursor(c)
  PROVE  /\ c.src \in Seq(STRING) /\ Len(c.src) \in Nat /\ c \in Cursors(c.src)
         /\ c.pos \in Nat /\ c.pos >= 1 /\ c.pos <= Len(c.src) + 1
BY CursorsAreCursors DEF IsCursor

LEMMA StatementOf ==
  ASSUME NEW c, IsCursor(c), Current(c) \notin {"LET", "VAR"}, NEW d, Covers(c, d),
         NEW x \in Trees[d.pos - c.pos],
         \A w \in Both : Counts(w, c, d, Amount(w, Height(c.src))[x]),
         NEW n \in {[kind |-> "expr", expr |-> x], [kind |-> "return", value |-> x]}
  PROVE  Statement(c, Result(d, n))
<1>. DEFINE src == c.src
            h == Height(src)
            k == d.pos - c.pos
            i == c.pos
            j == d.pos
<1>1. /\ src \in Seq(STRING) /\ Len(src) \in Nat /\ c \in Cursors(src)
      /\ i \in Nat /\ i >= 1 /\ i <= Len(src) + 1
  BY CursorFacts
<1>2. Onward(c, d) /\ IsCursor(d) /\ d.src = src /\ j \in Nat /\ i <= j /\ j <= Len(src) + 1
  BY <1>1, CursorFacts, OnwardIsCursor DEF Covers, Passes, Onward
<1>. HIDE DEF src
<1>3. k \in Nat /\ k <= Len(src) /\ k + 1 \in Nat /\ k + 1 <= Len(src) + 3
  BY <1>1, <1>2
<1>4. x \in Trees[k]
  OBVIOUS
<1>. HIDE DEF i, j, k
<1>5. n \in Above(Trees[k])
  BY <1>4 DEF Above
<1>6. n \in Trees[k + 1]
  BY <1>3, <1>5, TreesEquation
<1>7. h \in Nat /\ n \in Trees[h]
  BY <1>1, <1>3, <1>6, TreesBelow
<1>8. n # NullNode /\ n.kind \in {"expr", "return"} /\ (n.kind = "expr" => n.expr = x)
      /\ (n.kind = "return" => n.value = x)
  BY DEF NullNode
<1>. HIDE DEF h
<1>9. ASSUME NEW w \in Both PROVE Amount(w, h)[n] = Plus(w, Own(w, n), Amount(w, h)[x])
  <2>1. ByKind(w, Amount(w, h), n, Amount(w, h)[n])
    BY <1>7, AmountByKind
  <2>. QED
    BY <1>8, <2>1 DEF ByKind
<1>10. /\ Counts("objects", c, d, Amount("objects", h)[x])
       /\ Counts("refs", c, d, Amount("refs", h)[x])
  BY DEF Both, h, src
<1>11. Amount("objects", h)[x] = Span("objects", src, i, j) /\ Amount("objects", h)[x] \in Nat
  BY <1>10 DEF Counts, Tells, IsAmount, Counted, src, i, j
<1>12. Amount("objects", h)[n] = Span("objects", src, i, j) + 1
  <2>1. Own("objects", n) = 1
    BY <1>8 DEF Own
  <2>2. Amount("objects", h)[n] = Plus("objects", Own("objects", n), Amount("objects", h)[x])
    BY <1>9 DEF Both
  <2>. QED
    BY <1>11, <2>1, <2>2 DEF Plus, Counted
<1>. DEFINE r == Result(d, n)
<1>13. r.c = d /\ r.node = n
  BY DEF Result
<1>. HIDE DEF r
<1>14. MadeObjects(c, r) = Span("objects", src, i, j) + 1
  <2>1. ExprObjects(src, i, j) = Span("objects", src, i, j)
    BY MadeIsSpan
  <2>2. CASE j = i
    BY <1>8, <1>13, <2>1, <2>2 DEF MadeObjects, src, i, j
  <2>3. CASE j # i
    <3>1. i <= Len(src)
      BY <1>1, <1>2, <2>3
    <3>2. src[i] \notin {"LET", "VAR"}
      BY <3>1 DEF Current, src, i
    <3>3. ExprStart(src, i, j) = i
      BY <3>2 DEF ExprStart
    <3>. QED
      BY <1>8, <1>13, <2>1, <2>3, <3>3 DEF MadeObjects, src, i, j
  <2>. QED
    BY <2>2, <2>3
<1>15. MadeTypes(c, r) = Amount("types", h)[n]
  <2>1. MadeTypes(c, r) = 0
    BY DEF MadeTypes
  <2>2. n.kind \notin Outer("types") /\ "types" \notin Both /\ Own("types", n) = 0
    BY <1>8 DEF Outer, KidKinds, Both, Own
  <2>. QED
    BY <1>7, <2>1, <2>2, OwnOnly
<1>16. Keeps(c, d, n)
  <2>. SUFFICES ASSUME d.err = 0, ~AfterRole(c)
                PROVE  Amount("refs", h)[n] = Span("refs", src, i, j) /\ ~AfterRole(d)
    BY DEF Keeps, h, src, i, j
  <2>1. Amount("refs", h)[x] = Span("refs", src, i, j) /\ IsAmount("refs", Amount("refs", h)[x])
    BY <1>10 DEF Counts, Tells, src, i, j
  <2>2. Own("refs", n) = None("refs")
    BY <1>8 DEF Own, None, Counted
  <2>3. Amount("refs", h)[n] = Plus("refs", Own("refs", n), Amount("refs", h)[x])
    BY <1>9 DEF Both
  <2>. QED
    BY <2>1, <2>2, <2>3, PlusNone, CoversRole
<1>. QED
  BY <1>2, <1>6, <1>12, <1>13, <1>14, <1>15, <1>16 DEF Statement, h, src, i, j, k, r

LEMMA ExprStatementKept ==
  ASSUME NEW c, IsCursor(c), Current(c) \notin {"LET", "VAR"}
  PROVE  Statement(c, ExprStatement(c))
<1>. DEFINE src == c.src
            e == Expression(c)
            m == e.c
            d == Match(m, "SEMICOLON")
            h == Height(src)
            x == e.node
<1>1. src \in Seq(STRING) /\ c \in Cursors(src)
  BY CursorFacts
<1>2. /\ Covers(c, m) /\ x \in Trees[m.pos - c.pos]
      /\ \A w \in Both : Counts(w, c, m, Amount(w, h)[x])
  BY ExpressionFine DEF GoodOperand
<1>3. ExprStatement(c) = Result(d, [kind |-> "expr", expr |-> x])
  BY DEF ExprStatement
<1>. HIDE DEF src, e, m, x
<1>4. m \in Cursors(src) /\ m.src = src /\ m.pos \in Nat /\ c.pos \in Nat /\ c.pos <= m.pos
  BY <1>1, <1>2, CoversPositions
<1>5. Covers(m, d) /\ \A w \in Both : Counts(w, m, d, None(w))
  BY <1>1, <1>4, ExpectFine DEF QuietTokens
<1>. HIDE DEF d
<1>6. ASSUME NEW w \in Both PROVE Covers(c, d) /\ Counts(w, c, d, Amount(w, h)[x])
  <2>. HIDE DEF h
  <2>. QED
    BY <1>1, <1>2, <1>5, QuietCounts
<1>7. Covers(c, d) /\ \A w \in Both : Counts(w, c, d, Amount(w, h)[x])
  BY <1>6 DEF Both
<1>8. d.pos \in Nat /\ m.pos <= d.pos
  BY <1>1, <1>4, <1>5, CoversPositions
<1>9. x \in Trees[d.pos - c.pos]
  <2>. DEFINE k == m.pos - c.pos
              l == d.pos - c.pos
  <2>1. k \in Nat /\ l \in Nat /\ k <= l
    BY <1>4, <1>8
  <2>. HIDE DEF k, l
  <2>2. x \in Trees[k]
    BY <1>2 DEF k
  <2>. QED
    BY <2>1, <2>2, TreesMonotonic DEF l
<1>10. Statement(c, Result(d, [kind |-> "expr", expr |-> x]))
  BY <1>7, <1>9, StatementOf DEF src
<1>. QED
  BY <1>3, <1>10 DEF d

LEMMA ReturnKept ==
  ASSUME NEW c, IsCursor(c), Current(c) = "RETURN"
  PROVE  Statement(c, Return(c))
<1>. DEFINE src == c.src
            next == Advance(c)
            value == IF Current(next) \in {"SEMICOLON", "RBRACE", "EOF"}
                     THEN Result(next, NullNode)
                     ELSE Expression(next)
            m == value.c
            d == Match(m, "SEMICOLON")
            h == Height(src)
            x == value.node
<1>1. src \in Seq(STRING) /\ c \in Cursors(src) /\ Len(src) \in Nat
  BY CursorFacts
<1>2. Return(c) = Result(d, [kind |-> "return", value |-> x])
  BY DEF Return
<1>3. /\ Covers(c, next) /\ next \in Cursors(src) /\ next.pos = c.pos + 1
      /\ \A w \in Both : Counts(w, c, next, None(w))
  <2>1. Current(c) \in QuietTokens /\ Current(c) \notin OpTokens
    BY DEF QuietTokens, OpTokens, NodeTokens
  <2>. QED
    BY <1>1, <2>1, StepCovers
<1>4. IsCursor(next) /\ next.src = src /\ c.pos \in Nat
  BY <1>1, <1>3, CursorsAreCursors DEF IsCursor
<1>. HIDE DEF next
<1>5. GoodOperand(next, value)
  <2>1. CASE Current(next) \in {"SEMICOLON", "RBRACE", "EOF"}
    <3>1. value.c = next /\ x = NullNode
      BY <2>1 DEF Result
    <3>2. Covers(next, next) /\ \A w : Counts(w, next, next, None(w))
      BY <1>1, <1>3, CoversNothing
    <3>3. NullNode \in Trees[0] /\ h \in Nat /\ NullNode \in Trees[h]
      <4>1. Trees[0] = Leaves /\ NullNode \in Leaves
        BY TreesEquation DEF Leaves
      <4>2. 0 \in Nat /\ 0 <= Len(src) + 3
        BY <1>1
      <4>. QED
        BY <1>1, <4>1, <4>2, TreesBelow
    <3>4. next.pos - next.pos = 0
      BY <1>3, <1>4
    <3>. HIDE DEF h
    <3>5. ASSUME NEW w \in Both PROVE Amount(w, h)[NullNode] = None(w)
      <4>1. ByKind(w, Amount(w, h), NullNode, Amount(w, h)[NullNode])
        BY <3>3, AmountByKind
      <4>2. NullNode.kind = "null" /\ NullNode.kind \in LeafKinds
        BY DEF NullNode, LeafKinds
      <4>. QED
        BY <4>1, <4>2 DEF ByKind, Own, None, Both, Counted
    <3>. QED
      BY <1>4, <3>1, <3>2, <3>3, <3>4, <3>5 DEF GoodOperand, h
  <2>2. CASE Current(next) \notin {"SEMICOLON", "RBRACE", "EOF"}
    BY <1>4, <2>2, ExpressionFine
  <2>. QED
    BY <2>1, <2>2
<1>6. /\ Covers(next, m) /\ x \in Trees[m.pos - next.pos]
      /\ \A w \in Both : Counts(w, next, m, Amount(w, h)[x])
  BY <1>4, <1>5 DEF GoodOperand
<1>. HIDE DEF src, value, m, x
<1>7. /\ m \in Cursors(src) /\ m.src = src /\ m.pos \in Nat /\ next.pos <= m.pos
      /\ next.pos \in Nat
  BY <1>1, <1>3, <1>6, CoversPositions
<1>8. Covers(m, d) /\ \A w \in Both : Counts(w, m, d, None(w))
  BY <1>1, <1>7, ExpectFine DEF QuietTokens
<1>. HIDE DEF d
<1>9. ASSUME NEW w \in Both PROVE Covers(c, d) /\ Counts(w, c, d, Amount(w, h)[x])
  <2>. DEFINE a == Amount(w, h)[x]
  <2>1. Counts(w, next, m, a) /\ Counts(w, c, next, None(w))
    BY <1>3, <1>6
  <2>. HIDE DEF a
  <2>2. Counts(w, c, m, Plus(w, None(w), a)) /\ Covers(c, m)
    BY <1>1, <1>3, <1>6, <2>1, CountsJoin, CoversJoin
  <2>3. Plus(w, None(w), a) = a
    BY <2>1, PlusNone DEF Counts
  <2>4. Covers(c, d) /\ Counts(w, c, d, a)
    BY <1>1, <1>8, <2>2, <2>3, QuietCounts
  <2>. QED
    BY <2>4 DEF a
<1>10. Covers(c, d) /\ \A w \in Both : Counts(w, c, d, Amount(w, h)[x])
  BY <1>9 DEF Both
<1>11. d.pos \in Nat /\ m.pos <= d.pos
  BY <1>1, <1>7, <1>8, CoversPositions
<1>12. x \in Trees[d.pos - c.pos]
  <2>. DEFINE k == m.pos - next.pos
              l == d.pos - c.pos
  <2>1. k \in Nat /\ l \in Nat /\ k <= l
    BY <1>3, <1>4, <1>7, <1>11
  <2>. HIDE DEF k, l
  <2>2. x \in Trees[k]
    BY <1>6 DEF k
  <2>. QED
    BY <2>1, <2>2, TreesMonotonic DEF l
<1>13. Statement(c, Result(d, [kind |-> "return", value |-> x]))
  BY <1>10, <1>12, StatementOf DEF src
<1>. QED
  BY <1>2, <1>13 DEF d

-----------------------------------------------------------------------------
(* Declarations *)

HeadWords == {"LET", "VAR", "IDENTIFIER", "COLON"}

\* From let to the type.
LEMMA VarHead ==
  ASSUME NEW c, IsCursor(c), Current(c) \in {"LET", "VAR"},
         NEW d, d = Expect(Expect(Advance(c), "IDENTIFIER"), "COLON")
  PROVE  /\ Within(c, d, HeadWords) /\ c.pos + 1 <= d.pos
         /\ d.err = 0 => /\ d.pos = c.pos + 3 /\ c.src[c.pos] = Current(c)
                         /\ c.src[c.pos + 1] = "IDENTIFIER" /\ c.src[c.pos + 2] = "COLON"
<1>. DEFINE next == Advance(c)
            name == Expect(next, "IDENTIFIER")
<1>1. /\ IsCursor(next) /\ next.src = c.src /\ next.pos = c.pos + 1 /\ c.pos \in Nat
      /\ c.src[c.pos] = Current(c)
  BY AdvanceThere
<1>2. Within(c, next, HeadWords)
  BY WithinSame, WithinAdvance DEF HeadWords
<1>3. Onward(next, name)
  BY <1>1, ExpectGoesOn, ProgressIsOnward
<1>. HIDE DEF next
<1>4. Within(c, name, HeadWords) /\ IsCursor(name)
  BY <1>2, <1>3, WithinExpect, OnwardIsCursor DEF HeadWords
<1>5. d = Expect(name, "COLON")
  BY DEF next
<1>6. name.err = 0 => name.pos = next.pos + 1 /\ name.src = next.src /\ next.src[next.pos] = "IDENTIFIER"
  BY <1>1, ExpectThere
<1>. HIDE DEF name
<1>7. Within(c, d, HeadWords) /\ Onward(name, d)
  BY <1>4, <1>5, WithinExpect, ExpectGoesOn, ProgressIsOnward DEF HeadWords
<1>8. d.err = 0 => d.pos = name.pos + 1 /\ name.err = 0 /\ name.src[name.pos] = "COLON"
  BY <1>4, <1>5, ExpectThere
<1>9. next.pos <= name.pos /\ name.pos <= d.pos
  BY <1>3, <1>7 DEF Onward
<1>10. d.err = 0 => d.pos = c.pos + 3 /\ name.pos = c.pos + 2
  BY <1>1, <1>6, <1>8
<1>11. name.pos \in Nat /\ d.pos \in Nat
  BY <1>3, <1>7 DEF Onward, IsCursor
<1>. QED
  BY <1>1, <1>6, <1>7, <1>8, <1>9, <1>10, <1>11

LEMMA HeadIsPlain ==
  /\ HeadWords \cap TypeNames = {} /\ "ASSIGN" \notin HeadWords /\ "ASSIGN" \notin TypeNames
  /\ "ASSIGN" \in BodyTokens
BY DEF HeadWords, TypeNames, BodyTokens

\* Of tokens that are no types none is made.
LEMMA NoTypes ==
  ASSUME NEW src, NEW i \in Nat, NEW j \in Nat, i <= j, \A k \in i..j - 1 : src[k] \notin TypeNames
  PROVE  Span("types", src, i, j) = 0
<1>1. ASSUME NEW k \in i..j - 1 PROVE Mark("types", src, i, k) = None("types")
  BY DEF Mark, None, Counted, DeviceWords
<1>2. Span("types", src, i, j) = None("types")
  BY <1>1, SpanPlain
<1>. QED
  BY <1>2 DEF None, Counted

\* Nothing is in the node of a statement that is given up.
LEMMA NullAmounts ==
  ASSUME NEW h \in Nat
  PROVE  /\ NullNode \in Trees[h]
         /\ Amount("objects", h)[NullNode] = 0 /\ Amount("types", h)[NullNode] = 0
<1>1. NullNode \in Trees[h]
  BY LeafTree DEF Leaves
<1>2. NullNode.kind = "null" /\ NullNode.kind \in LeafKinds
  BY DEF NullNode, LeafKinds
<1>3. Amount("objects", h)[NullNode] = 0
  <2>1. ByKind("objects", Amount("objects", h), NullNode, Amount("objects", h)[NullNode])
    BY <1>1, AmountByKind DEF Both
  <2>. QED
    BY <1>2, <2>1 DEF ByKind, Own
<1>4. Amount("types", h)[NullNode] = 0
  <2>1. NullNode.kind \notin Outer("types") /\ "types" \notin Both /\ Own("types", NullNode) = 0
    BY <1>2 DEF Outer, KidKinds, Both, Own
  <2>. QED
    BY <1>1, <2>1, OwnOnly
<1>. QED
  BY <1>1, <1>3, <1>4

\* The types and the beginning of the expression, for a declaration that is given
\* up at e, where its type is, if it has one, the last token.
LEMMA GivenUp ==
  ASSUME NEW c, IsCursor(c), Current(c) \in {"LET", "VAR"},
         NEW d, Within(c, d, HeadWords), c.pos + 1 <= d.pos,
         NEW e, \/ Current(d) \in TypeNames /\ e = Advance(d)
                \/ Current(d) \notin TypeNames /\ e = d
  PROVE  Statement(c, Result(Fail(e), NullNode))
<1>. DEFINE src == c.src
            h == Height(src)
            i == c.pos
            j == e.pos
            f == Fail(e)
            r == Result(f, NullNode)
<1>1. /\ src \in Seq(STRING) /\ Len(src) \in Nat /\ i \in Nat /\ i >= 1 /\ h \in Nat
      /\ src[i] \in {"LET", "VAR"}
  BY CursorFacts, AdvanceThere DEF Height
<1>2. Onward(c, d) /\ IsCursor(d) /\ d.src = src /\ d.pos \in Nat
  BY OnwardIsCursor DEF Within, Onward, IsCursor
<1>3. /\ IsCursor(e) /\ Onward(c, e) /\ e.src = src /\ j \in Nat /\ d.pos <= j
      /\ Current(d) \in TypeNames => j = d.pos + 1 /\ src[d.pos] = Current(d)
      /\ Current(d) \notin TypeNames => j = d.pos
  <2>1. CASE Current(d) \in TypeNames /\ e = Advance(d)
    <3>1. Current(d) # "EOF"
      BY <2>1 DEF TypeNames
    <3>2. Onward(d, e) /\ e.pos = d.pos + 1 /\ src[d.pos] = Current(d) /\ e.src = src
      BY <1>2, <2>1, <3>1, AdvanceThere, AdvanceGoesOn
    <3>3. Onward(c, e) /\ IsCursor(e)
      BY <1>2, <3>2, OnwardTransitive, OnwardIsCursor
    <3>4. j = d.pos + 1 /\ d.pos <= j /\ j \in Nat
      BY <1>2, <3>2
    <3>. HIDE DEF src, j
    <3>. QED
      BY <2>1, <3>2, <3>3, <3>4
  <2>2. CASE Current(d) \notin TypeNames /\ e = d
    BY <1>2, <2>2
  <2>. QED
    BY <2>1, <2>2
<1>4. Onward(c, f) /\ f.err # 0 /\ f.pos = j
  BY <1>3, FailGoesOn, OnwardTransitive
<1>5. r.c = f /\ r.node = NullNode
  BY DEF Result
<1>6. \A k \in i..d.pos - 1 : src[k] \in HeadWords
  BY DEF Within
<1>. HIDE DEF src, i, j, f, r, h
<1>7. i + 1 <= j
  BY <1>1, <1>2, <1>3 DEF i
<1>8. \A k \in i..j - 2 : src[k] # "ASSIGN"
  <2>. SUFFICES ASSUME NEW k \in i..j - 2 PROVE src[k] # "ASSIGN"
    OBVIOUS
  <2>1. k \in i..d.pos - 1
    BY <1>1, <1>2, <1>3
  <2>. QED
    BY <1>6, <2>1, HeadIsPlain
<1>9. ExprStart(src, i, j) = j
  BY <1>1, <1>3, <1>7, <1>8, ExprStartIs
<1>10. MadeObjects(c, r) = 0
  <2>1. ExprObjects(src, j, j) = Span("objects", src, j, j) /\ Span("objects", src, j, j) = 0
    BY <1>3, MadeIsSpan, SpanNone DEF None, Counted
  <2>2. MadeObjects(c, r) = ExprObjects(src, j, j) + 0
    BY <1>1, <1>4, <1>5, <1>7, <1>9 DEF MadeObjects, src, i
  <2>. QED
    BY <2>1, <2>2
<1>11. MadeTypes(c, r) = Span("types", src, i, j)
  BY <1>4, <1>5, MadeIsSpan DEF MadeTypes, src, i
<1>12. Span("types", src, i, d.pos) = 0
  <2>1. \A k \in i..d.pos - 1 : src[k] \notin TypeNames
    BY <1>6, HeadIsPlain
  <2>2. i <= d.pos
    BY <1>1, <1>2 DEF i
  <2>. QED
    BY <1>1, <1>2, <2>1, <2>2, NoTypes
<1>13. Span("types", src, i, j) = IF Current(d) \in TypeNames THEN 1 ELSE 0
  <2>1. CASE Current(d) \in TypeNames
    <3>1. Mark("types", src, i, d.pos) = 1
      BY <1>3, <2>1 DEF Mark, DeviceWords
    <3>2. i <= d.pos
      BY <1>1, <1>2 DEF i
    <3>3. Span("types", src, i, d.pos + 1) = Plus("types", Span("types", src, i, d.pos), Mark("types", src, i, d.pos))
      BY <1>1, <1>2, <3>2, SpanStep
    <3>. QED
      BY <1>3, <1>12, <2>1, <3>1, <3>3 DEF Plus, Counted
  <2>2. CASE Current(d) \notin TypeNames
    BY <1>3, <1>12, <2>2
  <2>. QED
    BY <2>1, <2>2
<1>14. Amount("objects", h)[NullNode] = 0 /\ Amount("types", h)[NullNode] = 0
  BY <1>1, NullAmounts DEF h
<1>15. NullNode \in Trees[(f.pos - c.pos) + 1]
  <2>1. (f.pos - c.pos) + 1 \in Nat
    BY <1>1, <1>3, <1>4, <1>7 DEF i
  <2>. QED
    BY <2>1, NullAmounts
<1>16. \/ MadeTypes(c, r) = Amount("types", h)[NullNode]
       \/ /\ MadeTypes(c, r) = Amount("types", h)[NullNode] + 1
          /\ f.err # 0 /\ c.pos < f.pos
  BY <1>1, <1>3, <1>4, <1>7, <1>11, <1>13, <1>14 DEF i
<1>17. Keeps(c, f, NullNode)
  BY <1>4 DEF Keeps
<1>. QED
  BY <1>4, <1>5, <1>10, <1>14, <1>15, <1>16, <1>17 DEF Statement, r, f, h, src

\* The name and the type of a declaration, in front of its expression.
LEMMA VarRefs ==
  ASSUME NEW src, NEW i \in Nat, i >= 1, src[i] \in {"LET", "VAR"}, src[i + 1] = "IDENTIFIER",
         src[i + 2] = "COLON", src[i + 3] \in TypeNames, src[i + 4] = "ASSIGN"
  PROVE  Span("refs", src, i, i + 5) = <<Ref("variable", i + 1), Ref("type", i + 3)>>
<1>1. Mark("refs", src, i, i) = <<>>
  BY DEF Mark, RefAt, IsReferred, TypeNames
<1>2. Mark("refs", src, i, i + 1) = <<Ref("variable", i + 1)>>
  <2>1. IsReferred(src, i + 1) /\ i + 1 # 1 /\ src[(i + 1) - 1] = src[i]
    BY DEF IsReferred
  <2>2. RoleAt(src, i + 1) = "variable"
    BY <2>1 DEF RoleAt, FunctionWords
  <2>. QED
    BY <2>1, <2>2 DEF Mark, RefAt, DeviceWords
<1>3. Mark("refs", src, i, i + 2) = <<>>
  BY DEF Mark, RefAt, IsReferred, TypeNames
<1>4. Mark("refs", src, i, i + 3) = <<Ref("type", i + 3)>>
  <2>1. (i + 3) - 3 = i /\ i + 3 > 3 /\ i + 3 # 1 /\ (i + 3) - 1 = i + 2
    OBVIOUS
  <2>2. IsReferred(src, i + 3) /\ src[i + 3] # "NUMBER"
    BY <2>1 DEF IsReferred, TypeNames
  <2>3. RoleAt(src, i + 3) = "type"
    BY <2>1, <2>2 DEF RoleAt, FunctionWords
  <2>. QED
    BY <2>2, <2>3 DEF Mark, RefAt, DeviceWords
<1>5. Mark("refs", src, i, i + 4) = <<>>
  BY DEF Mark, RefAt, IsReferred, TypeNames
<1>6. None("refs") = <<>>
  BY DEF None, Counted
<1>. DEFINE a == <<Ref("variable", i + 1)>>
            b == <<Ref("type", i + 3)>>
            s(k) == Span("refs", src, i, i + k)
<1>7. s(0) = <<>> /\ s(1) = s(0)
  <2>1. Span("refs", src, i, i) = <<>>
    BY <1>6, SpanNone
  <2>2. Span("refs", src, i, i + 1) = Span("refs", src, i, i)
    BY <1>1, <1>6, SpanQuiet
  <2>. QED
    BY <2>1, <2>2
<1>8. s(2) = s(1) \o a
  <2>1. Span("refs", src, i, (i + 1) + 1) = Plus("refs", Span("refs", src, i, i + 1), Mark("refs", src, i, i + 1))
    <3>. i + 1 \in Nat /\ i <= i + 1
      OBVIOUS
    <3>. QED
      BY SpanStep
  <2>2. (i + 1) + 1 = i + 2
    OBVIOUS
  <2>. QED
    BY <1>2, <2>1, <2>2 DEF Plus, Counted
<1>9. s(3) = s(2)
  <2>1. i + 2 \in Nat /\ i <= i + 2 /\ (i + 2) + 1 = i + 3
    OBVIOUS
  <2>2. Span("refs", src, i, (i + 2) + 1) = Span("refs", src, i, i + 2)
    BY <1>3, <1>6, <2>1, SpanQuiet
  <2>. QED
    BY <2>1, <2>2
<1>10. s(4) = s(3) \o b
  <2>1. i + 3 \in Nat /\ i <= i + 3 /\ (i + 3) + 1 = i + 4
    OBVIOUS
  <2>2. Span("refs", src, i, (i + 3) + 1) = Plus("refs", Span("refs", src, i, i + 3), Mark("refs", src, i, i + 3))
    BY <2>1, SpanStep
  <2>. QED
    BY <1>4, <2>1, <2>2 DEF Plus, Counted
<1>11. s(5) = s(4)
  <2>1. i + 4 \in Nat /\ i <= i + 4 /\ (i + 4) + 1 = i + 5
    OBVIOUS
  <2>2. Span("refs", src, i, (i + 4) + 1) = Span("refs", src, i, i + 4)
    BY <1>5, <1>6, <2>1, SpanQuiet
  <2>. QED
    BY <2>1, <2>2
<1>. HIDE DEF s, a, b
<1>12. Listed(a) /\ <<>> \o a = a
  BY OneListed, ConcatUnits DEF a
<1>13. s(5) = a \o b
  BY <1>7, <1>8, <1>9, <1>10, <1>11, <1>12
<1>. QED
  BY <1>13, PairIsBehind DEF s, a, b

\* A declaration with its type and its expression.
LEMMA DeclaredKept ==
  ASSUME NEW c, IsCursor(c), Current(c) \in {"LET", "VAR"},
         NEW named, named = Expect(Expect(Advance(c), "IDENTIFIER"), "COLON"),
         Current(named) \in TypeNames,
         NEW typed, typed = Advance(named), Current(typed) = "ASSIGN",
         NEW start, start = Advance(typed), NEW d, Covers(start, d),
         NEW x \in Trees[d.pos - start.pos],
         \A w \in Both : Counts(w, start, d, Amount(w, Height(c.src))[x]),
         NEW mut \in BOOLEAN,
         NEW n, n = [kind |-> "var", name |-> c.pos + 1, type |-> named.pos,
                     mut |-> mut, init |-> x]
  PROVE  Statement(c, Result(d, n))
<1>. DEFINE src == c.src
            h == Height(src)
            i == c.pos
            j == d.pos
            k == start.pos
            l == named.pos
            r == Result(d, n)
<1>1. /\ src \in Seq(STRING) /\ Len(src) \in Nat /\ i \in Nat /\ i >= 1 /\ h \in Nat
      /\ src[i] \in {"LET", "VAR"}
  BY CursorFacts, AdvanceThere DEF Height
<1>2. /\ Within(c, named, HeadWords) /\ i + 1 <= l
      /\ named.err = 0 => l = i + 3 /\ src[i + 1] = "IDENTIFIER" /\ src[i + 2] = "COLON"
  BY VarHead
<1>3. IsCursor(named) /\ named.src = src /\ Onward(c, named) /\ l \in Nat
  BY <1>2, OnwardIsCursor DEF Within, Onward, IsCursor
<1>4. /\ IsCursor(typed) /\ typed.src = src /\ typed.pos = l + 1 /\ typed.err = named.err
      /\ src[l] = Current(named) /\ Onward(named, typed)
  <2>1. Current(named) # "EOF"
    BY DEF TypeNames
  <2>. QED
    BY <1>3, <2>1, AdvanceThere, AdvanceGoesOn
<1>5. /\ IsCursor(start) /\ start.src = src /\ k = l + 2 /\ start.err = named.err
      /\ src[l + 1] = "ASSIGN" /\ Onward(typed, start)
  BY <1>3, <1>4, AdvanceThere, AdvanceGoesOn
<1>6. /\ Onward(start, d) /\ d.src = src /\ j \in Nat /\ k <= j /\ j <= Len(src) + 1
      /\ \A m \in k..j - 1 : src[m] \in BodyTokens
  <2>1. Onward(start, d) /\ \A m \in k..j - 1 : start.src[m] \in BodyTokens
    BY DEF Covers, Passes
  <2>2. IsCursor(d) /\ d.src = src /\ k <= j
    BY <1>5, <2>1, OnwardIsCursor DEF Onward
  <2>. QED
    BY <1>5, <2>1, <2>2, CursorFacts
<1>7. Onward(c, d)
  BY <1>3, <1>4, <1>5, <1>6, OnwardTransitive
<1>8. \A m \in i..l - 1 : src[m] \in HeadWords
  BY <1>2 DEF Within
<1>9. r.c = d /\ r.node = n
  BY DEF Result
<1>10. d.err = 0 => named.err = 0
  BY <1>5, <1>6, NoErrorBefore
<1>11. \A w \in Both : Counts(w, start, d, Amount(w, h)[x])
  OBVIOUS
<1>12. /\ n.kind = "var" /\ n.init = x /\ n.name = i + 1 /\ n.type = l /\ n # NullNode
       /\ n = [kind |-> "var", name |-> i + 1, type |-> l, mut |-> mut, init |-> x]
  BY DEF NullNode
<1>13. x \in Trees[j - k]
  OBVIOUS
<1>14. d.err = 0 => start.err = 0
  BY <1>5, <1>10
<1>. HIDE DEF src, h, i, j, k, l, r
<1>15. Current(c) = src[i] /\ src[l] \in TypeNames /\ c.pos = i /\ c.src = src
  BY <1>4, AdvanceThere DEF src, i
<1>16. ExprStart(src, i, j) = k /\ j # i
  <2>1. k \in i + 1..j /\ k - 1 = l + 1 /\ j # i
    BY <1>1, <1>2, <1>3, <1>5, <1>6
  <2>2. \A m \in i..k - 2 : src[m] # "ASSIGN"
    <3>. SUFFICES ASSUME NEW m \in i..k - 2 PROVE src[m] # "ASSIGN"
      OBVIOUS
    <3>1. m \in i..l - 1 \/ m = l
      BY <1>1, <1>3, <1>5
    <3>. QED
      BY <1>8, <1>15, <3>1, HeadIsPlain
  <2>3. ExprStart(src, i, j) = k
    BY <1>1, <1>5, <1>6, <2>1, <2>2, ExprStartIs
  <2>. QED
    BY <2>1, <2>3
<1>17. n \in Trees[(j - k) + 1] /\ (j - k) + 1 \in Nat /\ (j - k) + 1 <= Len(src) + 3
       /\ (j - k) + 1 <= (j - i) + 1 /\ (j - i) + 1 \in Nat
  <2>. DEFINE T == Trees[j - k]
  <2>1. x \in T /\ i + 1 \in Nat /\ l \in Nat
    BY <1>1, <1>3, <1>13
  <2>. HIDE DEF T
  <2>2. n \in [kind : {"var"}, name : Nat, type : Nat, mut : BOOLEAN, init : T]
    BY <1>12, <2>1
  <2>3. n \in Above(T)
    BY <2>2 DEF Above
  <2>4. j - k \in Nat /\ (j - k) + 1 \in Nat /\ (j - k) + 1 <= Len(src) + 3
        /\ (j - k) + 1 <= (j - i) + 1 /\ (j - i) + 1 \in Nat
    BY <1>1, <1>2, <1>3, <1>5, <1>6
  <2>5. n \in Trees[(j - k) + 1]
    BY <2>3, <2>4, TreesEquation DEF T
  <2>. QED
    BY <2>4, <2>5
<1>18. n \in Trees[(j - i) + 1] /\ n \in Trees[h]
  <2>1. Trees[(j - k) + 1] \subseteq Trees[(j - i) + 1]
    BY <1>17, TreesMonotonic
  <2>2. Trees[(j - k) + 1] \subseteq Trees[h]
    BY <1>1, <1>17, TreesBelow DEF h
  <2>. QED
    BY <1>17, <2>1, <2>2
<1>19. ASSUME NEW w \in Both PROVE Amount(w, h)[n] = Plus(w, Own(w, n), Amount(w, h)[x])
  <2>1. ByKind(w, Amount(w, h), n, Amount(w, h)[n])
    BY <1>1, <1>18, AmountByKind
  <2>. QED
    BY <1>12, <2>1 DEF ByKind
<1>20. Amount("objects", h)[n] = MadeObjects(c, r)
  <2>1. Counts("objects", start, d, Amount("objects", h)[x])
    BY <1>11 DEF Both
  <2>2. Amount("objects", h)[x] = Span("objects", src, k, j) /\ Amount("objects", h)[x] \in Nat
    BY <1>5, <2>1 DEF Counts, Tells, IsAmount, Counted, j, k
  <2>3. Own("objects", n) = 1
    BY <1>12 DEF Own
  <2>4. Amount("objects", h)[n] = Plus("objects", Own("objects", n), Amount("objects", h)[x])
    BY <1>19 DEF Both
  <2>5. Amount("objects", h)[n] = Span("objects", src, k, j) + 1
    BY <2>2, <2>3, <2>4 DEF Plus, Counted
  <2>6. ExprObjects(src, k, j) = Span("objects", src, k, j)
    BY MadeIsSpan
  <2>. QED
    BY <1>9, <1>12, <1>15, <1>16, <2>5, <2>6 DEF MadeObjects, j
<1>21. MadeTypes(c, r) = Amount("types", h)[n]
  <2>1. MadeTypes(c, r) = Span("types", src, i, j)
    BY <1>9, <1>15, MadeIsSpan DEF MadeTypes, j
  <2>2. Span("types", src, i, l) = 0
    <3>1. \A m \in i..l - 1 : src[m] \notin TypeNames
      BY <1>8, HeadIsPlain
    <3>2. i <= l
      BY <1>1, <1>2, <1>3
    <3>. QED
      BY <1>1, <1>3, <3>1, <3>2, NoTypes
  <2>3. Span("types", src, i, l + 1) = 1
    <3>1. Mark("types", src, i, l) = 1
      BY <1>15 DEF Mark, DeviceWords
    <3>2. i <= l
      BY <1>1, <1>2, <1>3
    <3>3. Span("types", src, i, l + 1) = Plus("types", Span("types", src, i, l), Mark("types", src, i, l))
      BY <1>1, <1>3, <3>2, SpanStep
    <3>. QED
      BY <2>2, <3>1, <3>3 DEF Plus, Counted
  <2>4. Span("types", src, l + 1, j) = 0
    <3>1. ASSUME NEW m \in l + 1..j - 1 PROVE src[m] \notin TypeNames
      <4>1. m = l + 1 \/ m \in k..j - 1
        BY <1>3, <1>5, <1>6
      <4>. QED
        BY <1>5, <1>6, <4>1, BodyIsPlain, HeadIsPlain
    <3>2. l + 1 <= j /\ l + 1 \in Nat
      BY <1>3, <1>5, <1>6
    <3>. QED
      BY <1>6, <3>1, <3>2, NoTypes
  <2>5. Span("types", src, i, j) = 1
    <3>1. l + 1 \in Nat /\ i <= l + 1 /\ l + 1 <= j
      BY <1>1, <1>2, <1>3, <1>5, <1>6
    <3>2. Span("types", src, i, j) = Plus("types", Span("types", src, i, l + 1), Span("types", src, l + 1, j))
      BY <1>1, <1>6, <3>1, SpanSplit
    <3>. QED
      BY <2>3, <2>4, <3>2 DEF Plus, Counted
  <2>6. n.kind \notin Outer("types") /\ "types" \notin Both /\ Own("types", n) = 1
    BY <1>12 DEF Outer, KidKinds, Both, Own
  <2>. QED
    BY <1>1, <1>18, <2>1, <2>5, <2>6, OwnOnly
<1>22. Keeps(c, d, n)
  <2>. SUFFICES ASSUME d.err = 0, ~AfterRole(c)
                PROVE  Amount("refs", h)[n] = Span("refs", src, i, j) /\ ~AfterRole(d)
    BY <1>15 DEF Keeps, h, j
  <2>1. l = i + 3 /\ src[i + 1] = "IDENTIFIER" /\ src[i + 2] = "COLON" /\ src[i + 4] = "ASSIGN"
        /\ k = i + 5
    <3>1. l = i + 3 /\ src[i + 1] = "IDENTIFIER" /\ src[i + 2] = "COLON"
      BY <1>2, <1>10
    <3>2. l + 1 = i + 4 /\ k = i + 5
      BY <1>1, <1>5, <3>1
    <3>. QED
      BY <1>5, <3>1, <3>2
  <2>2. ~AfterRole(start)
    <3>1. start.src[start.pos - 1] = "ASSIGN"
      <4>1. k - 1 = l + 1
        BY <1>3, <1>5
      <4>. QED
        BY <1>5, <4>1 DEF k
    <3>. QED
      BY <3>1 DEF AfterRole, RoleWords, FunctionWords
  <2>3. Counts("refs", start, d, Amount("refs", h)[x])
    BY <1>11 DEF Both
  <2>4. Amount("refs", h)[x] = Span("refs", src, k, j)
    BY <1>5, <2>2, <2>3 DEF Counts, Tells, j, k
  <2>5. Span("refs", src, i, i + 5) = <<Ref("variable", i + 1), Ref("type", i + 3)>>
    BY <1>1, <1>15, <2>1, VarRefs
  <2>6. Span("refs", src, i, j) = Span("refs", src, i, k) \o Span("refs", src, k, j)
    <3>1. i <= k /\ k <= j /\ k \in Nat
      BY <1>1, <1>5, <1>6, <2>1
    <3>2. Span("refs", src, i, j) = Plus("refs", Span("refs", src, i, k), Span("refs", src, k, j))
      BY <1>1, <1>6, <3>1, SpanSplit
    <3>. QED
      BY <3>2 DEF Plus, Counted
  <2>7. Own("refs", n) = <<Ref("variable", i + 1), Ref("type", i + 3)>>
    BY <1>12, <2>1 DEF Own
  <2>8. Amount("refs", h)[n] = Own("refs", n) \o Amount("refs", h)[x]
    BY <1>19 DEF Both, Plus, Counted
  <2>. QED
    BY <1>5, <2>1, <2>2, <2>4, <2>5, <2>6, <2>7, <2>8, CoversRole
<1>. QED
  BY <1>7, <1>9, <1>15, <1>18, <1>20, <1>21, <1>22 DEF Statement, r, h, j

LEMMA VarDeclKept ==
  ASSUME NEW c, IsCursor(c), Current(c) \in {"LET", "VAR"}
  PROVE  Statement(c, VarDecl(c))
<1>. DEFINE src == c.src
            named == Expect(Expect(Advance(c), "IDENTIFIER"), "COLON")
            typed == Advance(named)
            start == Advance(typed)
            e == Expression(start)
            m == e.c
            d == Match(m, "SEMICOLON")
            h == Height(src)
            x == e.node
            mut == Current(c) = "VAR"
            n == [kind |-> "var", name |-> c.pos + 1, type |-> named.pos, mut |-> mut, init |-> x]
<1>1. src \in Seq(STRING) /\ c \in Cursors(src) /\ Len(src) \in Nat
  BY CursorFacts
<1>2. Within(c, named, HeadWords) /\ c.pos + 1 <= named.pos
  BY VarHead
<1>3. IsCursor(named) /\ named.src = src
  BY <1>2, OnwardIsCursor DEF Within, Onward
<1>4. CASE ~(Current(named) \in TypeNames /\ Current(typed) = "ASSIGN")
  <2>. DEFINE last == IF Current(named) \in TypeNames THEN typed ELSE named
  <2>1. VarDecl(c) = Result(Fail(last), NullNode)
    BY <1>4 DEF VarDecl
  <2>2. \/ Current(named) \in TypeNames /\ last = Advance(named)
        \/ Current(named) \notin TypeNames /\ last = named
    OBVIOUS
  <2>. HIDE DEF named, last
  <2>3. Statement(c, Result(Fail(last), NullNode))
    BY <1>2, <2>2, GivenUp
  <2>. QED
    BY <2>1, <2>3
<1>5. CASE Current(named) \in TypeNames /\ Current(typed) = "ASSIGN"
  <2>1. VarDecl(c) = Result(d, n)
    BY <1>5 DEF VarDecl
  <2>. HIDE DEF named
  <2>2. IsCursor(start) /\ start.src = src
    <3>1. Current(named) # "EOF"
      BY <1>5 DEF TypeNames
    <3>2. IsCursor(typed) /\ typed.src = src /\ Current(typed) # "EOF"
      BY <1>3, <1>5, <3>1, AdvanceThere
    <3>. HIDE DEF typed
    <3>. QED
      BY <3>2, AdvanceThere
  <2>. HIDE DEF start, typed
  <2>3. start \in Cursors(src)
    BY <1>1, <2>2, CursorsAreCursors
  <2>4. /\ Covers(start, m) /\ x \in Trees[m.pos - start.pos]
        /\ \A w \in Both : Counts(w, start, m, Amount(w, h)[x])
    BY <2>2, ExpressionFine DEF GoodOperand
  <2>. HIDE DEF src, e, m, x
  <2>5. m \in Cursors(src) /\ m.src = src /\ m.pos \in Nat /\ start.pos \in Nat /\ start.pos <= m.pos
    BY <1>1, <2>3, <2>4, CoversPositions
  <2>6. Covers(m, d) /\ \A w \in Both : Counts(w, m, d, None(w))
    BY <1>1, <2>5, ExpectFine DEF QuietTokens
  <2>. HIDE DEF d
  <2>7. ASSUME NEW w \in Both PROVE Covers(start, d) /\ Counts(w, start, d, Amount(w, h)[x])
    <3>. DEFINE a == Amount(w, h)[x]
    <3>1. Counts(w, start, m, a) /\ Counts(w, m, d, None(w))
      BY <2>4, <2>6
    <3>. HIDE DEF a
    <3>2. Covers(start, d) /\ Counts(w, start, d, a)
      BY <1>1, <2>3, <2>4, <2>6, <3>1, QuietCounts
    <3>. QED
      BY <3>2 DEF a
  <2>8. Covers(start, d) /\ \A w \in Both : Counts(w, start, d, Amount(w, h)[x])
    BY <2>7 DEF Both
  <2>9. d.pos \in Nat /\ m.pos <= d.pos
    BY <1>1, <2>5, <2>6, CoversPositions
  <2>10. x \in Trees[d.pos - start.pos]
    <3>. DEFINE k == m.pos - start.pos
                l == d.pos - start.pos
    <3>1. k \in Nat /\ l \in Nat /\ k <= l
      BY <2>5, <2>9
    <3>. HIDE DEF k, l
    <3>2. x \in Trees[k]
      BY <2>4 DEF k
    <3>. QED
      BY <3>1, <3>2, TreesMonotonic DEF l
  <2>11. mut \in BOOLEAN
    OBVIOUS
  <2>12. named = Expect(Expect(Advance(c), "IDENTIFIER"), "COLON") /\ typed = Advance(named)
         /\ start = Advance(typed) /\ Current(named) \in TypeNames /\ Current(typed) = "ASSIGN"
    BY <1>5 DEF named, typed, start
  <2>13. n = [kind |-> "var", name |-> c.pos + 1, type |-> named.pos, mut |-> mut, init |-> x]
    OBVIOUS
  <2>. HIDE DEF n, mut
  <2>14. Statement(c, Result(d, n))
    BY <2>8, <2>10, <2>11, <2>12, <2>13, DeclaredKept DEF h, src
  <2>. QED
    BY <2>1, <2>14
<1>. QED
  BY <1>4, <1>5

-----------------------------------------------------------------------------
(* What a trip does to the stack *)

\* What all on the stack have after a trip.
Tall == Height(cursor.src)
Adds(w, x) == /\ IsAmount(w, x) /\ IsAmount(w, Stock(w, Tall, stack))
              /\ Stock(w, Tall, stack') = Plus(w, Stock(w, Tall, stack), x)

LEMMA StackFacts ==
  ASSUME IInv, Framed(cursor.pos, stack), stack # <<>>
  PROVE  /\ IsCursor(cursor) /\ cursor.pos \in Nat /\ cursor.pos >= 1 /\ Len(cursor.src) \in Nat
         /\ Listed(stack) /\ Len(stack) \in Nat /\ Len(stack) >= 1 /\ Top = stack[1]
         /\ Tall \in Nat /\ Deep(Tall, stack) /\ Top.kind \in FrameKinds
         /\ \A w : IsAmount(w, Stock(w, Tall, stack))
         /\ Len(stack) > 1 => /\ <<stack[2].kind, stack[1].kind>> \in Calls
                              /\ Closed(Top) \in Trees[Tall]
<1>1. IsCursor(cursor) /\ cursor.pos \in Nat /\ cursor.pos >= 1 /\ Len(cursor.src) \in Nat
  BY CursorFacts DEF IInv
<1>2. Listed(stack) /\ Len(stack) \in Nat /\ Len(stack) >= 1 /\ Top = stack[1]
  BY TailEffect DEF IInv, Stacked, Listed, Top
<1>3. /\ Tall \in Nat /\ Deep(Tall, stack)
      /\ \A i \in 1..Len(stack) : Closed(stack[i]) \in Trees[Tall]
  BY <1>1, <1>2, FramedDeep DEF Tall
<1>4. IsFrame(stack[1], Trees[Slack(cursor.pos, stack) + 1])
  BY <1>2 DEF Framed
<1>5. Top.kind \in FrameKinds
  BY <1>2, <1>4, FrameKids
<1>6. Len(stack) > 1 => <<stack[1 + 1].kind, stack[1].kind>> \in Calls
  BY <1>2 DEF IInv, Stacked
<1>7. Closed(Top) \in Trees[Tall]
  BY <1>2, <1>3
<1>. HIDE DEF Top, Tall
<1>8. \A w : IsAmount(w, Stock(w, Tall, stack))
  BY <1>3, HeldsAmount
<1>. QED
  BY <1>1, <1>2, <1>3, <1>5, <1>6, <1>7, <1>8

\* A frame that is begun has its own only.
LEMMA HeldAtFirst ==
  ASSUME NEW w, NEW h, NEW g, g.kids = <<>>
  PROVE  Held(w, h, g) = HeldOwn(w, g) /\ IsAmount(w, HeldOwn(w, g))
<1>1. IsAmount(w, HeldOwn(w, g)) /\ IsAmount(w, None(w))
  BY OwnAmount, EmptyListed DEF HeldOwn, IsAmount, Counted, None
<1>2. Below(w, Amount(w, h), g.kids) = None(w)
  BY BelowNone
<1>. QED
  BY <1>1, <1>2, PlusNone DEF Held

LEMMA PushMove ==
  ASSUME IInv, Framed(cursor.pos, stack), stack # <<>>, Top.kind # "register",
         NEW g, stack' = <<g>> \o stack, \A T : IsFrame(g, T), g.kids = <<>>,
         Onward(cursor, cursor'), cursor.pos < cursor'.pos \/ g.kind = "register"
  PROVE  /\ Framed(cursor'.pos, stack')
         /\ \A w \in Words : Adds(w, HeldOwn(w, g))
<1>1. /\ cursor.pos \in Nat /\ Listed(stack) /\ Top = stack[1] /\ Tall \in Nat
      /\ Deep(Tall, stack) /\ \A w : IsAmount(w, Stock(w, Tall, stack))
  BY StackFacts
<1>2. cursor'.pos \in Nat /\ cursor.pos <= cursor'.pos
  BY DEF Onward, IsCursor
<1>3. Framed(cursor'.pos, <<g>> \o stack)
  BY <1>1, <1>2, FramedPush
<1>4. g.kids \in Seq(Trees[Tall])
  BY EmptySeq
<1>5. ASSUME NEW w \in Words PROVE Adds(w, HeldOwn(w, g))
  <2>1. Stock(w, Tall, <<g>> \o stack) = Plus(w, Stock(w, Tall, stack), Held(w, Tall, g))
    BY <1>1, <1>4, StockPush
  <2>2. Held(w, Tall, g) = HeldOwn(w, g) /\ IsAmount(w, HeldOwn(w, g))
    BY HeldAtFirst
  <2>. QED
    BY <1>1, <2>1, <2>2 DEF Adds
<1>. QED
  BY <1>3, <1>5

\* A function and its body are begun together.
LEMMA CallMove ==
  ASSUME IInv, Framed(cursor.pos, stack), stack # <<>>, Top.kind # "register",
         NEW f, NEW g, stack' = <<g, f>> \o stack,
         \A T : IsFrame(f, T), f.kids = <<>>, f.kind # "register",
         \A T : IsFrame(g, T), g.kids = <<>>, cursor'.pos \in Nat, cursor.pos + 2 <= cursor'.pos
  PROVE  /\ Framed(cursor'.pos, stack')
         /\ \A w \in Words : Adds(w, Plus(w, HeldOwn(w, f), HeldOwn(w, g)))
<1>. DEFINE p == cursor.pos
            mid == <<f>> \o stack
<1>1. /\ p \in Nat /\ Listed(stack) /\ Top = stack[1] /\ Tall \in Nat
      /\ Deep(Tall, stack) /\ \A w : IsAmount(w, Stock(w, Tall, stack))
  BY StackFacts
<1>2. p + 1 \in Nat /\ p <= p + 1 /\ p < p + 1 /\ cursor'.pos \in Nat /\ p + 1 <= cursor'.pos
      /\ p + 1 < cursor'.pos
  BY <1>1
<1>3. Framed(p + 1, mid) /\ Listed(mid) /\ mid # <<>> /\ mid[1] = f
  BY <1>1, <1>2, FramedPush
<1>4. f.kids \in Seq(Trees[Tall]) /\ g.kids \in Seq(Trees[Tall])
  BY EmptySeq
<1>5. Deep(Tall, mid)
  BY <1>1, <1>4, DeepPush
<1>6. stack' = <<g>> \o mid
  BY <1>1, PushTwice
<1>7. ASSUME NEW w \in Words PROVE Adds(w, Plus(w, HeldOwn(w, f), HeldOwn(w, g)))
  <2>1. Stock(w, Tall, mid) = Plus(w, Stock(w, Tall, stack), Held(w, Tall, f))
    BY <1>1, <1>4, StockPush
  <2>. HIDE DEF mid
  <2>2. Stock(w, Tall, <<g>> \o mid) = Plus(w, Stock(w, Tall, mid), Held(w, Tall, g))
    BY <1>1, <1>4, <1>5, StockPush
  <2>3. Held(w, Tall, g) = HeldOwn(w, g) /\ IsAmount(w, HeldOwn(w, g))
    BY HeldAtFirst
  <2>4. Held(w, Tall, f) = HeldOwn(w, f) /\ IsAmount(w, HeldOwn(w, f))
    BY HeldAtFirst
  <2>5. Plus(w, Plus(w, Stock(w, Tall, stack), HeldOwn(w, f)), HeldOwn(w, g))
          = Plus(w, Stock(w, Tall, stack), Plus(w, HeldOwn(w, f), HeldOwn(w, g)))
    BY <1>1, <2>3, <2>4, PlusTwice
  <2>6. IsAmount(w, Plus(w, HeldOwn(w, f), HeldOwn(w, g)))
    BY <2>3, <2>4, PlusAmount
  <2>. QED
    BY <1>1, <1>6, <2>1, <2>2, <2>3, <2>4, <2>5, <2>6 DEF Adds
<1>. HIDE DEF mid, p
<1>8. Framed(cursor'.pos, <<g>> \o mid)
  BY <1>2, <1>3, FramedPush
<1>. QED
  BY <1>6, <1>7, <1>8

LEMMA GiveMove ==
  ASSUME IInv, Framed(cursor.pos, stack), stack # <<>>, NEW node, stack' = Give(node, stack),
         Onward(cursor, cursor'), node \in Trees[(cursor'.pos - cursor.pos) + 1]
  PROVE  /\ Framed(cursor'.pos, stack') /\ node \in Trees[Tall]
         /\ \A w \in Words : Adds(w, Gained(w, Tall, Top.kind, node))
<1>. DEFINE k == (cursor'.pos - cursor.pos) + 1
<1>1. /\ cursor.pos \in Nat /\ Listed(stack) /\ Top = stack[1] /\ Tall \in Nat
      /\ Deep(Tall, stack) /\ \A w : IsAmount(w, Stock(w, Tall, stack))
      /\ cursor.pos >= 1 /\ Len(cursor.src) \in Nat /\ Top.kind \in FrameKinds
  BY StackFacts
<1>2. /\ cursor'.pos \in Nat /\ cursor.pos <= cursor'.pos
      /\ cursor'.pos <= Len(cursor.src) + 1
  BY DEF Onward, IsCursor
<1>3. Framed(cursor'.pos, Give(node, stack))
  BY <1>1, <1>2, FramedGive
<1>4. k \in Nat /\ k <= Len(cursor.src) + 3
  BY <1>1, <1>2
<1>5. node \in Trees[k]
  OBVIOUS
<1>. HIDE DEF k
<1>6. node \in Trees[Tall]
  BY <1>1, <1>4, <1>5, TreesBelow DEF Tall
<1>7. ASSUME NEW w \in Words PROVE Adds(w, Gained(w, Tall, Top.kind, node))
  BY <1>1, <1>6, StockGive DEF Adds
<1>. QED
  BY <1>3, <1>6, <1>7

LEMMA ReturnMove ==
  ASSUME IInv, Framed(cursor.pos, stack), stack # <<>>, Top.kind # "program",
         stack' = Give(Closed(Top), Tail(stack)), Onward(cursor, cursor')
  PROVE  /\ Framed(cursor'.pos, stack')
         /\ \A w \in Words : Adds(w, Late(w, Top.kind))
<1>1. /\ cursor.pos \in Nat /\ Listed(stack) /\ Top = stack[1] /\ Tall \in Nat
      /\ Deep(Tall, stack) /\ \A w : IsAmount(w, Stock(w, Tall, stack))
      /\ Len(stack) \in Nat /\ Len(stack) >= 1
      /\ Len(stack) > 1 => /\ <<stack[2].kind, stack[1].kind>> \in Calls
                           /\ Closed(Top) \in Trees[Tall]
  BY StackFacts
<1>2. cursor'.pos \in Nat /\ cursor.pos <= cursor'.pos
  BY DEF Onward, IsCursor
<1>3. Len(stack) > 1
  <2>1. Len(stack) # 0 => stack[Len(stack)].kind = "program"
    BY DEF IInv, Stacked
  <2>. QED
    BY <1>1, <2>1
<1>4. Framed(cursor'.pos, Give(Closed(stack[1]), Tail(stack)))
  BY <1>1, <1>2, <1>3, FramedReturn
<1>5. ASSUME NEW w \in Words PROVE Adds(w, Late(w, Top.kind))
  BY <1>1, <1>3, StockReturn DEF Adds
<1>. QED
  BY <1>1, <1>4, <1>5

\* A frame on top of another kind than that of the statement behind '=' is the
\* node that it becomes.
LEMMA TopClosed ==
  ASSUME IInv, Framed(cursor.pos, stack), stack # <<>>, Top.kind # "single"
  PROVE  Closed(Top) = Top
<1>1. Top = stack[1] /\ Top.kind \in FrameKinds /\ 1 \in 1..Len(stack)
  BY StackFacts
<1>2. Slack(cursor.pos, stack) + 1 \in Nat /\ IsFrame(stack[1], Trees[Slack(cursor.pos, stack) + 1])
  BY <1>1 DEF Framed
<1>3. stack[1].kind \in KidKinds
  BY <1>1 DEF FrameKinds
<1>. QED
  BY <1>1, <1>2, <1>3, FrameTree

-----------------------------------------------------------------------------
(* What a trip makes, and what it tells of the text *)

\* So many objects and Types are made.
Makes2(n, t) ==
  /\ Stock("objects", Tall, stack') = Stock("objects", Tall, stack) + n
  /\ Stock("types", Tall, stack') + Stock("functions", Tall, stack')
       = (Stock("types", Tall, stack) + Stock("functions", Tall, stack)) + t

\* What is listed of a text.
ToldWords == {"refs"} \cup DeviceWords

\* What is on the stack is what the text so far has.
Told(c, s) ==
  c.err = 0 =>
    /\ ~AfterRole(c)
    /\ \A w \in ToldWords : Stock(w, Height(c.src), s) = Span(w, c.src, 1, c.pos)

\* And so it is when a trip adds what is in the tokens that it consumes.
LEMMA ToldAfter ==
  ASSUME IsCursor(cursor), Told(cursor, stack), Onward(cursor, cursor'), cursor'.err = 0,
         ~AfterRole(cursor)',
         \A w \in ToldWords : Adds(w, Span(w, cursor.src, cursor.pos, cursor'.pos))
  PROVE  Told(cursor', stack')
<1>. DEFINE i == cursor.pos
            j == cursor'.pos
            src == cursor.src
<1>1. /\ cursor'.src = src /\ i \in Nat /\ j \in Nat /\ 1 <= i /\ i <= j /\ cursor.err = 0
  BY CursorFacts, NoErrorBefore DEF Onward, IsCursor
<1>2. Height(cursor'.src) = Tall
  BY <1>1 DEF Tall
<1>3. ASSUME NEW w \in ToldWords PROVE Stock(w, Tall, stack') = Span(w, src, 1, j)
  <2>1. Stock(w, Tall, stack) = Span(w, src, 1, i)
    BY <1>1 DEF Told, Tall
  <2>2. Stock(w, Tall, stack') = Plus(w, Stock(w, Tall, stack), Span(w, src, i, j))
    BY DEF Adds
  <2>3. w # "objects"
    BY DEF ToldWords, DeviceWords
  <2>. HIDE DEF i, j, src
  <2>4. Span(w, src, 1, j) = Plus(w, Span(w, src, 1, i), Span(w, src, i, j))
    BY <1>1, <2>3, SpanSplit
  <2>. QED
    BY <2>1, <2>2, <2>4
<1>. QED
  BY <1>1, <1>2, <1>3 DEF Told

-----------------------------------------------------------------------------
(* The heads of constructs in the text *)

\* What nothing is listed of.
IsQuiet(type) == type \notin {"IDENTIFIER", "NUMBER", "TRUE", "FALSE"} \cup TypeNames \cup DeviceWords

LEMMA QuietNext ==
  ASSUME NEW src, NEW i \in Nat, NEW k \in Nat, i <= k, NEW l, l = k + 1, IsQuiet(src[k]),
         NEW w \in ToldWords
  PROVE  Span(w, src, i, l) = Span(w, src, i, k)
<1>1. Mark(w, src, i, k) = None(w)
  <2>1. CASE w = "refs"
    BY <2>1 DEF Mark, None, Counted, IsQuiet, RefAt, IsReferred, DeviceWords
  <2>2. CASE w \in DeviceWords
    BY <2>2 DEF Mark, None, Counted, IsQuiet, DeviceWords
  <2>. QED
    BY <2>1, <2>2 DEF ToldWords
<1>. QED
  BY <1>1, SpanQuiet

\* A word that begins a part of a device.
LEMMA WordNext ==
  ASSUME NEW src, NEW i \in Nat, NEW l, l = i + 1, NEW word \in DeviceWords, src[i] = word,
         NEW w \in ToldWords
  PROVE  Span(w, src, i, l) = IF w = word THEN <<i + 1>> ELSE <<>>
<1>1. Mark(w, src, i, i) = IF w = word THEN <<i + 1>> ELSE <<>>
  <2>1. CASE w = "refs"
    BY <2>1 DEF Mark, RefAt, IsReferred, DeviceWords, TypeNames
  <2>2. CASE w \in DeviceWords
    BY <2>2 DEF Mark, DeviceWords
  <2>. QED
    BY <2>1, <2>2 DEF ToldWords
<1>. QED
  BY <1>1, SpanOne

\* A name or a number.
LEMMA NameNext ==
  ASSUME NEW src, NEW i \in Nat, NEW k \in Nat, i <= k, k > 1, NEW l, l = k + 1,
         src[k] \in {"IDENTIFIER", "NUMBER"}, NEW w \in ToldWords
  PROVE  Span(w, src, i, l) = IF w = "refs" THEN Span(w, src, i, k) \o <<Ref(RoleAt(src, k), k)>>
                              ELSE Span(w, src, i, k)
<1>1. CASE w = "refs"
  <2>1. Mark(w, src, i, k) = <<Ref(RoleAt(src, k), k)>>
    BY <1>1 DEF Mark, RefAt, IsReferred, DeviceWords
  <2>2. Span(w, src, i, k + 1) = Plus(w, Span(w, src, i, k), Mark(w, src, i, k))
    BY SpanStep
  <2>. QED
    BY <1>1, <2>1, <2>2 DEF Plus, Counted
<1>2. CASE w \in DeviceWords
  <2>1. Mark(w, src, i, k) = None(w)
    BY <1>2 DEF Mark, None, Counted, DeviceWords
  <2>. QED
    BY <1>2, <2>1, SpanQuiet DEF DeviceWords
<1>. QED
  BY <1>1, <1>2 DEF ToldWords

LEMMA ListsOfRefs ==
  ASSUME NEW a, NEW b, NEW c
  PROVE  <<>> \o <<a>> = <<a>> /\ <<a>> \o <<b>> = <<a, b>> /\ <<a, b>> \o <<c>> = <<a, b, c>>
<1>1. <<>> \o <<a>> = <<a>>
  BY OneListed, ConcatUnits
<1>. DEFINE S == {a, b, c}
<1>2. a \in S /\ b \in S /\ c \in S
  OBVIOUS
<1>. HIDE DEF S
<1>3. <<a>> \in Seq(S) /\ <<b>> \in Seq(S) /\ <<c>> \in Seq(S) /\ <<a, b>> \in Seq(S) /\ <<a, b, c>> \in Seq(S)
  BY <1>2
<1>4. <<a>> \o <<b>> = <<a, b>>
  <2>1. <<a>> \o <<b>> \in Seq(S) /\ Len(<<a>> \o <<b>>) = 2
        /\ (<<a>> \o <<b>>)[1] = a /\ (<<a>> \o <<b>>)[2] = b
    BY <1>3, ConcatProperties
  <2>2. Len(<<a, b>>) = 2 /\ <<a, b>>[1] = a /\ <<a, b>>[2] = b
    OBVIOUS
  <2>3. \A i \in 1..2 : (<<a>> \o <<b>>)[i] = <<a, b>>[i]
    BY <2>1, <2>2
  <2>. QED
    BY <1>3, <2>1, <2>2, <2>3, SeqEqual
<1>5. <<a, b>> \o <<c>> = <<a, b, c>>
  <2>1. <<a, b>> \o <<c>> \in Seq(S) /\ Len(<<a, b>> \o <<c>>) = 3
        /\ (<<a, b>> \o <<c>>)[1] = a /\ (<<a, b>> \o <<c>>)[2] = b /\ (<<a, b>> \o <<c>>)[3] = c
    BY <1>3, ConcatProperties
  <2>2. Len(<<a, b, c>>) = 3 /\ <<a, b, c>>[1] = a /\ <<a, b, c>>[2] = b /\ <<a, b, c>>[3] = c
    OBVIOUS
  <2>3. \A i \in 1..3 : (<<a, b>> \o <<c>>)[i] = <<a, b, c>>[i]
    BY <2>1, <2>2
  <2>. QED
    BY <1>3, <2>1, <2>2, <2>3, SeqEqual
<1>. QED
  BY <1>1, <1>4, <1>5

\* peripheral NAME @ NUMBER {
LEMMA PeripheralText ==
  ASSUME NEW src, NEW i \in Nat, i >= 1, src[i] = "PERIPHERAL", src[i + 1] = "IDENTIFIER",
         src[i + 2] = "AT", src[i + 3] = "NUMBER", src[i + 4] = "LBRACE", NEW w \in ToldWords
  PROVE  Span(w, src, i, i + 5) =
           CASE w = "refs"       -> <<Ref("peripheral", i + 1), Ref("address", i + 3)>>
             [] w = "PERIPHERAL" -> <<i + 1>>
             [] OTHER            -> <<>>
<1>. DEFINE a == Ref("peripheral", i + 1)
            b == Ref("address", i + 3)
            s(k) == Span(w, src, i, k)
<1>1. s(i + 1) = IF w = "PERIPHERAL" THEN <<i + 1>> ELSE <<>>
  BY WordNext DEF DeviceWords
<1>2. RoleAt(src, i + 1) = "peripheral" /\ RoleAt(src, i + 3) = "address"
  <2>1. i + 1 # 1 /\ i + 3 # 1 /\ (i + 1) - 1 = i /\ (i + 3) - 1 = i + 2
    OBVIOUS
  <2>. QED
    BY <2>1 DEF RoleAt, FunctionWords
<1>3. s(i + 2) = IF w = "refs" THEN s(i + 1) \o <<a>> ELSE s(i + 1)
  <2>1. i + 1 \in Nat /\ i <= i + 1 /\ i + 1 > 1 /\ i + 2 = (i + 1) + 1
    OBVIOUS
  <2>2. src[i + 1] \in {"IDENTIFIER", "NUMBER"}
    OBVIOUS
  <2>3. Span(w, src, i, i + 2) = IF w = "refs" THEN Span(w, src, i, i + 1) \o <<Ref(RoleAt(src, i + 1), i + 1)>>
                             ELSE Span(w, src, i, i + 1)
    BY <2>1, <2>2, NameNext, ZenonT(60)
  <2>. QED
    BY <1>2, <2>3
<1>4. s(i + 3) = s(i + 2)
  <2>1. i + 2 \in Nat /\ i <= i + 2 /\ i + 3 = (i + 2) + 1 /\ IsQuiet(src[i + 2])
    BY DEF IsQuiet, TypeNames, DeviceWords
  <2>. QED
    BY <2>1, QuietNext
<1>5. s(i + 4) = IF w = "refs" THEN s(i + 3) \o <<b>> ELSE s(i + 3)
  <2>1. i + 3 \in Nat /\ i <= i + 3 /\ i + 3 > 1 /\ i + 4 = (i + 3) + 1
    OBVIOUS
  <2>2. src[i + 3] \in {"IDENTIFIER", "NUMBER"}
    OBVIOUS
  <2>3. Span(w, src, i, i + 4) = IF w = "refs" THEN Span(w, src, i, i + 3) \o <<Ref(RoleAt(src, i + 3), i + 3)>>
                             ELSE Span(w, src, i, i + 3)
    BY <2>1, <2>2, NameNext, ZenonT(60)
  <2>. QED
    BY <1>2, <2>3
<1>6. s(i + 5) = s(i + 4)
  <2>1. i + 4 \in Nat /\ i <= i + 4 /\ i + 5 = (i + 4) + 1 /\ IsQuiet(src[i + 4])
    BY DEF IsQuiet, TypeNames, DeviceWords
  <2>. QED
    BY <2>1, QuietNext
<1>. HIDE DEF s, a, b
<1>7. s(i + 5) = CASE w = "refs" -> <<a, b>> [] w = "PERIPHERAL" -> <<i + 1>> [] OTHER -> <<>>
  <2>1. CASE w = "refs"
    BY <1>1, <1>3, <1>4, <1>5, <1>6, <2>1, ListsOfRefs
  <2>2. CASE w # "refs"
    BY <1>1, <1>3, <1>4, <1>5, <1>6, <2>2
  <2>. QED
    BY <2>1, <2>2
<1>. QED
  BY <1>7 DEF s, a, b

\* register NAME : [TYPE] @ NUMBER {, with the '@' at k.
LEMMA RegisterText ==
  ASSUME NEW src, NEW i \in Nat, i >= 1, src[i] = "REGISTER", src[i + 1] = "IDENTIFIER",
         src[i + 2] = "COLON", NEW k,
         \/ k = i + 3
         \/ k = i + 4 /\ src[i + 3] \in RegisterTypes,
         src[k] = "AT", src[k + 1] = "NUMBER", src[k + 2] = "LBRACE", NEW w \in ToldWords
  PROVE  Span(w, src, i, k + 3) =
           CASE w = "refs"     -> <<Ref("register", i + 1), Ref("address", k + 1)>>
             [] w = "REGISTER" -> <<i + 1>>
             [] OTHER          -> <<>>
<1>. DEFINE a == Ref("register", i + 1)
            b == Ref("address", k + 1)
            s(x) == Span(w, src, i, x)
<1>0. k \in Nat /\ i + 3 <= k
  OBVIOUS
<1>1. s(i + 1) = IF w = "REGISTER" THEN <<i + 1>> ELSE <<>>
  BY WordNext DEF DeviceWords
<1>2. RoleAt(src, i + 1) = "register" /\ RoleAt(src, k + 1) = "address"
  <2>1. i + 1 # 1 /\ k + 1 # 1 /\ (i + 1) - 1 = i /\ (k + 1) - 1 = k
    BY <1>0
  <2>. QED
    BY <2>1 DEF RoleAt, FunctionWords
<1>3. s(i + 2) = IF w = "refs" THEN s(i + 1) \o <<a>> ELSE s(i + 1)
  <2>1. i + 1 \in Nat /\ i <= i + 1 /\ i + 1 > 1 /\ i + 2 = (i + 1) + 1
    OBVIOUS
  <2>2. src[i + 1] \in {"IDENTIFIER", "NUMBER"}
    OBVIOUS
  <2>3. Span(w, src, i, i + 2) = IF w = "refs" THEN Span(w, src, i, i + 1) \o <<Ref(RoleAt(src, i + 1), i + 1)>>
                             ELSE Span(w, src, i, i + 1)
    BY <2>1, <2>2, NameNext, ZenonT(60)
  <2>. QED
    BY <1>2, <2>3
<1>4. s(i + 3) = s(i + 2)
  <2>1. i + 2 \in Nat /\ i <= i + 2 /\ i + 3 = (i + 2) + 1 /\ IsQuiet(src[i + 2])
    BY DEF IsQuiet, TypeNames, DeviceWords
  <2>. QED
    BY <2>1, QuietNext
<1>5. s(k) = s(i + 3)
  <2>1. CASE k = i + 3
    BY <2>1
  <2>2. CASE k = i + 4 /\ src[i + 3] \in RegisterTypes
    <3>1. i + 3 \in Nat /\ i <= i + 3 /\ k = (i + 3) + 1 /\ (i + 3) - 3 = i
      BY <2>2
    <3>2. Mark(w, src, i, i + 3) = None(w)
      <4>1. src[i + 3] \notin {"IDENTIFIER", "NUMBER", "TRUE", "FALSE"} \cup DeviceWords
        BY <2>2 DEF RegisterTypes, DeviceWords
      <4>2. ~IsReferred(src, i + 3)
        BY <3>1, <4>1 DEF IsReferred
      <4>3. CASE w = "refs"
        BY <4>2, <4>3 DEF Mark, RefAt, None, Counted, DeviceWords
      <4>4. CASE w \in DeviceWords
        BY <4>1, <4>4 DEF Mark, None, Counted, DeviceWords
      <4>. QED
        BY <4>3, <4>4 DEF ToldWords
    <3>3. Span(w, src, i, (i + 3) + 1) = Span(w, src, i, i + 3)
      BY <3>1, <3>2, SpanQuiet
    <3>. QED
      BY <3>1, <3>3
  <2>. QED
    BY <2>1, <2>2
<1>6. s(k + 1) = s(k)
  <2>1. i <= k /\ IsQuiet(src[k])
    BY <1>0 DEF IsQuiet, TypeNames, DeviceWords
  <2>. QED
    BY <1>0, <2>1, QuietNext
<1>7. s(k + 2) = IF w = "refs" THEN s(k + 1) \o <<b>> ELSE s(k + 1)
  <2>1. k + 1 \in Nat /\ i <= k + 1 /\ k + 1 > 1 /\ k + 2 = (k + 1) + 1
    BY <1>0
  <2>2. src[k + 1] \in {"IDENTIFIER", "NUMBER"}
    OBVIOUS
  <2>3. Span(w, src, i, k + 2) = IF w = "refs" THEN Span(w, src, i, k + 1) \o <<Ref(RoleAt(src, k + 1), k + 1)>>
                             ELSE Span(w, src, i, k + 1)
    BY <2>1, <2>2, NameNext, ZenonT(60)
  <2>. QED
    BY <1>2, <2>3
<1>8. s(k + 3) = s(k + 2)
  <2>1. k + 2 \in Nat /\ i <= k + 2 /\ k + 3 = (k + 2) + 1 /\ IsQuiet(src[k + 2])
    BY <1>0 DEF IsQuiet, TypeNames, DeviceWords
  <2>. QED
    BY <2>1, QuietNext
<1>. HIDE DEF s, a, b
<1>9. s(k + 3) = CASE w = "refs" -> <<a, b>> [] w = "REGISTER" -> <<i + 1>> [] OTHER -> <<>>
  <2>1. CASE w = "refs"
    BY <1>1, <1>3, <1>4, <1>5, <1>6, <1>7, <1>8, <2>1, ListsOfRefs
  <2>2. CASE w # "refs"
    BY <1>1, <1>3, <1>4, <1>5, <1>6, <1>7, <1>8, <2>2
  <2>. QED
    BY <2>1, <2>2
<1>. QED
  BY <1>9 DEF s, a, b

\* field NAME : [ NUMBER : NUMBER ]
LEMMA FieldText ==
  ASSUME NEW src, NEW i \in Nat, i >= 1, src[i] = "FIELD", src[i + 1] = "IDENTIFIER",
         src[i + 2] = "COLON", src[i + 3] = "LBRACKET", src[i + 4] = "NUMBER",
         src[i + 5] = "COLON", src[i + 6] = "NUMBER", src[i + 7] = "RBRACKET", NEW w \in ToldWords
  PROVE  Span(w, src, i, i + 8) =
           CASE w = "refs"  -> <<Ref("field", i + 1), Ref("low", i + 4), Ref("high", i + 6)>>
             [] w = "FIELD" -> <<i + 1>>
             [] OTHER       -> <<>>
<1>. DEFINE a == Ref("field", i + 1)
            b == Ref("low", i + 4)
            c == Ref("high", i + 6)
            s(x) == Span(w, src, i, x)
<1>1. s(i + 1) = IF w = "FIELD" THEN <<i + 1>> ELSE <<>>
  BY WordNext DEF DeviceWords
<1>2. /\ RoleAt(src, i + 1) = "field" /\ RoleAt(src, i + 4) = "low"
      /\ RoleAt(src, i + 6) = "high"
  <2>1. i + 1 # 1 /\ i + 4 # 1 /\ i + 6 # 1 /\ (i + 1) - 1 = i /\ (i + 4) - 1 = i + 3
        /\ (i + 6) - 1 = i + 5
    OBVIOUS
  <2>. QED
    BY <2>1 DEF RoleAt, FunctionWords
<1>3. s(i + 2) = IF w = "refs" THEN s(i + 1) \o <<a>> ELSE s(i + 1)
  <2>1. i + 1 \in Nat /\ i <= i + 1 /\ i + 1 > 1 /\ i + 2 = (i + 1) + 1
    OBVIOUS
  <2>2. src[i + 1] \in {"IDENTIFIER", "NUMBER"}
    OBVIOUS
  <2>3. Span(w, src, i, i + 2) = IF w = "refs" THEN Span(w, src, i, i + 1) \o <<Ref(RoleAt(src, i + 1), i + 1)>>
                             ELSE Span(w, src, i, i + 1)
    BY <2>1, <2>2, NameNext, ZenonT(60)
  <2>. QED
    BY <1>2, <2>3
<1>4. s(i + 3) = s(i + 2)
  <2>1. i + 2 \in Nat /\ i <= i + 2 /\ i + 3 = (i + 2) + 1 /\ IsQuiet(src[i + 2])
    BY DEF IsQuiet, TypeNames, DeviceWords
  <2>. QED
    BY <2>1, QuietNext
<1>5. s(i + 4) = s(i + 3)
  <2>1. i + 3 \in Nat /\ i <= i + 3 /\ i + 4 = (i + 3) + 1 /\ IsQuiet(src[i + 3])
    BY DEF IsQuiet, TypeNames, DeviceWords
  <2>. QED
    BY <2>1, QuietNext
<1>6. s(i + 5) = IF w = "refs" THEN s(i + 4) \o <<b>> ELSE s(i + 4)
  <2>1. i + 4 \in Nat /\ i <= i + 4 /\ i + 4 > 1 /\ i + 5 = (i + 4) + 1
    OBVIOUS
  <2>2. src[i + 4] \in {"IDENTIFIER", "NUMBER"}
    OBVIOUS
  <2>3. Span(w, src, i, i + 5) = IF w = "refs" THEN Span(w, src, i, i + 4) \o <<Ref(RoleAt(src, i + 4), i + 4)>>
                             ELSE Span(w, src, i, i + 4)
    BY <2>1, <2>2, NameNext, ZenonT(60)
  <2>. QED
    BY <1>2, <2>3
<1>7. s(i + 6) = s(i + 5)
  <2>1. i + 5 \in Nat /\ i <= i + 5 /\ i + 6 = (i + 5) + 1 /\ IsQuiet(src[i + 5])
    BY DEF IsQuiet, TypeNames, DeviceWords
  <2>. QED
    BY <2>1, QuietNext
<1>8. s(i + 7) = IF w = "refs" THEN s(i + 6) \o <<c>> ELSE s(i + 6)
  <2>1. i + 6 \in Nat /\ i <= i + 6 /\ i + 6 > 1 /\ i + 7 = (i + 6) + 1
    OBVIOUS
  <2>2. src[i + 6] \in {"IDENTIFIER", "NUMBER"}
    OBVIOUS
  <2>3. Span(w, src, i, i + 7) = IF w = "refs" THEN Span(w, src, i, i + 6) \o <<Ref(RoleAt(src, i + 6), i + 6)>>
                             ELSE Span(w, src, i, i + 6)
    BY <2>1, <2>2, NameNext, ZenonT(60)
  <2>. QED
    BY <1>2, <2>3
<1>9. s(i + 8) = s(i + 7)
  <2>1. i + 7 \in Nat /\ i <= i + 7 /\ i + 8 = (i + 7) + 1 /\ IsQuiet(src[i + 7])
    BY DEF IsQuiet, TypeNames, DeviceWords
  <2>. QED
    BY <2>1, QuietNext
<1>. HIDE DEF s, a, b, c
<1>10. s(i + 8) = CASE w = "refs" -> <<a, b, c>> [] w = "FIELD" -> <<i + 1>> [] OTHER -> <<>>
  <2>1. CASE w = "refs"
    <3>1. s(i + 4) = <<a>>
      BY <1>1, <1>3, <1>4, <1>5, <2>1, ListsOfRefs
    <3>2. s(i + 6) = <<a, b>>
      BY <1>6, <1>7, <2>1, <3>1, ListsOfRefs
    <3>3. s(i + 8) = <<a, b, c>>
      BY <1>8, <1>9, <2>1, <3>2, ListsOfRefs
    <3>. QED
      BY <2>1, <3>3
  <2>2. CASE w # "refs"
    BY <1>1, <1>3, <1>4, <1>5, <1>6, <1>7, <1>8, <1>9, <2>2
  <2>. QED
    BY <2>1, <2>2
<1>. QED
  BY <1>10 DEF s, a, b, c

\* fn NAME ( ) -> TYPE and '=' or '{'.
LEMMA FunctionText ==
  ASSUME NEW src, NEW i \in Nat, i >= 1, src[i] \in FunctionWords, src[i + 1] = "IDENTIFIER",
         src[i + 2] = "LPAREN", src[i + 3] = "RPAREN", src[i + 4] \in {"ARROW", "COLON"},
         src[i + 5] \in TypeNames, src[i + 6] \in {"ASSIGN", "LBRACE"}, NEW w \in ToldWords
  PROVE  Span(w, src, i, i + 7) = IF w = "refs" THEN <<Ref("function", i + 1)>> ELSE <<>>
<1>. DEFINE a == Ref("function", i + 1)
            s(x) == Span(w, src, i, x)
<1>1. s(i + 1) = <<>>
  <2>1. None(w) = <<>>
    BY DEF ToldWords, None, Counted, DeviceWords
  <2>2. IsQuiet(src[i])
    BY DEF IsQuiet, FunctionWords, TypeNames, DeviceWords
  <2>3. Span(w, src, i, i) = None(w) /\ Span(w, src, i, i + 1) = Span(w, src, i, i)
    BY <2>2, QuietNext, SpanNone
  <2>. QED
    BY <2>1, <2>3
<1>2. RoleAt(src, i + 1) = "function"
  <2>1. i + 1 # 1 /\ (i + 1) - 1 = i
    OBVIOUS
  <2>. QED
    BY <2>1 DEF RoleAt, FunctionWords
<1>3. s(i + 2) = IF w = "refs" THEN s(i + 1) \o <<a>> ELSE s(i + 1)
  <2>1. i + 1 \in Nat /\ i <= i + 1 /\ i + 1 > 1 /\ i + 2 = (i + 1) + 1
    OBVIOUS
  <2>2. src[i + 1] \in {"IDENTIFIER", "NUMBER"}
    OBVIOUS
  <2>3. Span(w, src, i, i + 2) = IF w = "refs" THEN Span(w, src, i, i + 1) \o <<Ref(RoleAt(src, i + 1), i + 1)>>
                             ELSE Span(w, src, i, i + 1)
    BY <2>1, <2>2, NameNext, ZenonT(60)
  <2>. QED
    BY <1>2, <2>3
<1>4. s(i + 3) = s(i + 2)
  <2>1. i + 2 \in Nat /\ i <= i + 2 /\ i + 3 = (i + 2) + 1 /\ IsQuiet(src[i + 2])
    BY DEF IsQuiet, TypeNames, DeviceWords
  <2>. QED
    BY <2>1, QuietNext
<1>5. s(i + 4) = s(i + 3)
  <2>1. i + 3 \in Nat /\ i <= i + 3 /\ i + 4 = (i + 3) + 1 /\ IsQuiet(src[i + 3])
    BY DEF IsQuiet, TypeNames, DeviceWords
  <2>. QED
    BY <2>1, QuietNext
<1>6. s(i + 5) = s(i + 4)
  <2>1. i + 4 \in Nat /\ i <= i + 4 /\ i + 5 = (i + 4) + 1 /\ IsQuiet(src[i + 4])
    BY DEF IsQuiet, TypeNames, DeviceWords
  <2>. QED
    BY <2>1, QuietNext
<1>7. s(i + 6) = s(i + 5)
  <2>1. i + 5 \in Nat /\ i <= i + 5 /\ i + 6 = (i + 5) + 1 /\ (i + 5) - 3 = i + 2
    OBVIOUS
  <2>2. Mark(w, src, i, i + 5) = None(w)
    <3>1. src[i + 5] \notin {"IDENTIFIER", "NUMBER", "TRUE", "FALSE"} \cup DeviceWords
      BY DEF TypeNames, DeviceWords
    <3>2. ~IsReferred(src, i + 5)
      BY <2>1, <3>1 DEF IsReferred
    <3>3. CASE w = "refs"
      BY <3>2, <3>3 DEF Mark, RefAt, None, Counted, DeviceWords
    <3>4. CASE w \in DeviceWords
      BY <3>1, <3>4 DEF Mark, None, Counted, DeviceWords
    <3>. QED
      BY <3>3, <3>4 DEF ToldWords
  <2>3. Span(w, src, i, (i + 5) + 1) = Span(w, src, i, i + 5)
    BY <2>1, <2>2, SpanQuiet
  <2>. QED
    BY <2>1, <2>3
<1>8. s(i + 7) = s(i + 6)
  <2>1. i + 6 \in Nat /\ i <= i + 6 /\ i + 7 = (i + 6) + 1 /\ IsQuiet(src[i + 6])
    BY DEF IsQuiet, TypeNames, DeviceWords
  <2>. QED
    BY <2>1, QuietNext
<1>. HIDE DEF s, a
<1>. QED
  BY <1>1, <1>3, <1>4, <1>5, <1>6, <1>7, <1>8, ListsOfRefs DEF s, a

-----------------------------------------------------------------------------
(* Trips in the body of a function *)

\* A trip that makes so many objects and Types, and puts on the stack what is in
\* the tokens that it consumes.
Moved(n, t) ==
  /\ Framed(cursor'.pos, stack')
  /\ Makes2(n, t)
  /\ cursor'.err = 0 /\ ~AfterRole(cursor) =>
       /\ ~AfterRole(cursor')
       /\ \A w \in ToldWords : Adds(w, Span(w, cursor.src, cursor.pos, cursor'.pos))

\* One of a loop that turns for ever.
Still == cursor' = cursor /\ stack' = stack /\ cursor.err # 0

LEMMA MakesOf ==
  ASSUME NEW n, NEW a, NEW b, Adds("objects", n), Adds("types", a), Adds("functions", b)
  PROVE  Makes2(n, a + b)
<1>1. /\ Stock("objects", Tall, stack') = Stock("objects", Tall, stack) + n
      /\ Stock("types", Tall, stack') = Stock("types", Tall, stack) + a
      /\ Stock("functions", Tall, stack') = Stock("functions", Tall, stack) + b
      /\ Stock("types", Tall, stack) \in Nat /\ Stock("functions", Tall, stack) \in Nat
      /\ a \in Nat /\ b \in Nat
  BY DEF Adds, Plus, IsAmount, Counted
<1>. QED
  BY <1>1 DEF Makes2

\* What has no device word in it names no device.
LEMMA PlainSpan ==
  ASSUME NEW c, IsCursor(c), NEW d, Passes(c, d), d.err = 0, NEW w \in DeviceWords
  PROVE  Span(w, c.src, c.pos, d.pos) = None(w)
<1>1. c.pos \in Nat /\ d.pos \in Nat /\ c.pos <= d.pos
  BY DEF Passes, Onward, IsCursor
<1>2. ASSUME NEW k \in c.pos..d.pos - 1 PROVE Mark(w, c.src, c.pos, k) = None(w)
  <2>1. c.src[k] # w
    BY DEF Passes, Plain
  <2>. QED
    BY <2>1 DEF Mark, None, Counted, DeviceWords
<1>. QED
  BY <1>1, <1>2, SpanPlain

\* Braces.
LEMMA QuietStep ==
  ASSUME NEW c, IsCursor(c), NEW d, d = Advance(c), Current(c) # "EOF", IsQuiet(Current(c)),
         Current(c) \notin RoleWords
  PROVE  ~AfterRole(d) /\ \A w \in ToldWords : Span(w, c.src, c.pos, d.pos) = None(w)
<1>1. d.src = c.src /\ d.pos = c.pos + 1 /\ c.src[c.pos] = Current(c) /\ c.pos \in Nat
  BY AdvanceThere
<1>2. ~AfterRole(d)
  <2>1. d.pos - 1 = c.pos
    BY <1>1
  <2>. QED
    BY <1>1, <2>1 DEF AfterRole
<1>3. ASSUME NEW w \in ToldWords PROVE Span(w, c.src, c.pos, d.pos) = None(w)
  <2>1. Span(w, c.src, c.pos, d.pos) = Span(w, c.src, c.pos, c.pos)
    BY <1>1, QuietNext
  <2>. QED
    BY <1>1, <2>1, SpanNone
<1>. QED
  BY <1>2, <1>3

LEMMA BraceStep ==
  ASSUME NEW c, IsCursor(c), NEW d, NEW t \in {"LBRACE", "RBRACE"}, d = Expect(c, t), d.err = 0
  PROVE  ~AfterRole(d) /\ \A w \in ToldWords : Span(w, c.src, c.pos, d.pos) = None(w)
<1>1. d = Advance(c) /\ Current(c) = t
  BY ExpectedIsThere
<1>2. IsQuiet(t) /\ t \notin RoleWords /\ t # "EOF"
  BY DEF IsQuiet, RoleWords, FunctionWords, TypeNames, DeviceWords
<1>. QED
  BY <1>1, <1>2, QuietStep

\* A statement that is given to a block.
LEMMA StatementMoves ==
  ASSUME IInv, Framed(cursor.pos, stack), stack # <<>>, Top.kind \in {"block", "single"},
         NEW r, Statement(cursor, r), Consumes(cursor, r.c), Makes(r)
  PROVE  \/ Still /\ Framed(cursor'.pos, stack')
         \/ /\ stack' = Give(r.node, stack) /\ cursor' = r.c
            /\ \E t \in Nat : /\ Moved(MadeObjects(cursor, r), t)
                              /\ \/ MadeTypes(cursor, r) = t
                                 \/ /\ MadeTypes(cursor, r) = t + 1
                                    /\ cursor'.err # 0 /\ cursor.pos < cursor'.pos
                                    /\ Current(cursor) \in {"LET", "VAR"}
<1>. DEFINE n == r.node
<1>1. cursor' = r.c
  BY DEF Makes, Step
<1>2. IsCursor(cursor) /\ Onward(cursor, cursor') /\ n \in Trees[(cursor'.pos - cursor.pos) + 1]
  BY <1>1 DEF Statement, IInv
<1>3. CASE stack' = stack /\ r.c = cursor
  BY <1>1, <1>3 DEF Still, Consumes, Progress
<1>4. CASE stack' = Give(n, stack)
  <2>1. /\ Framed(cursor'.pos, stack') /\ n \in Trees[Tall]
        /\ \A w \in Words : Adds(w, Gained(w, Tall, Top.kind, n))
    BY <1>2, <1>4, GiveMove
  <2>2. \A w \in {"objects", "refs", "types"} : Gained(w, Tall, Top.kind, n) = Amount(w, Tall)[n]
    BY DEF Gained, Outer, KidKinds
  <2>3. \A w \in DeviceWords \cup {"functions"} : Gained(w, Tall, Top.kind, n) = None(w)
    BY DEF Gained, Outer, KidKinds, DeviceWords
  <2>4. /\ Adds("objects", Amount("objects", Tall)[n]) /\ Adds("types", Amount("types", Tall)[n])
        /\ Adds("functions", 0)
    <3>1. "objects" \in Words /\ "types" \in Words /\ "functions" \in Words /\ None("functions") = 0
      BY DEF Words, Counted, None
    <3>. QED
      BY <2>1, <2>2, <2>3, <3>1
  <2>. DEFINE a == Amount("objects", Tall)[n]
              t == Amount("types", Tall)[n]
  <2>5. t \in Nat /\ t + 0 = t
    BY <2>4 DEF Adds, IsAmount, Counted
  <2>6. Makes2(a, t + 0)
    BY <2>4, MakesOf
  <2>7. a = MadeObjects(cursor, r)
    BY DEF Statement, Tall
  <2>8. \/ MadeTypes(cursor, r) = t
        \/ /\ MadeTypes(cursor, r) = t + 1
           /\ cursor'.err # 0 /\ cursor.pos < cursor'.pos
           /\ Current(cursor) \in {"LET", "VAR"}
    BY <1>1 DEF Statement, Tall
  <2>9. ASSUME cursor'.err = 0, ~AfterRole(cursor)
        PROVE  /\ ~AfterRole(cursor')
               /\ \A w \in ToldWords : Adds(w, Span(w, cursor.src, cursor.pos, cursor'.pos))
    <3>1. /\ Amount("refs", Tall)[n] = Span("refs", cursor.src, cursor.pos, cursor'.pos)
          /\ ~AfterRole(cursor')
      BY <1>1, <2>9 DEF Statement, Keeps, Tall
    <3>2. ASSUME NEW w \in DeviceWords PROVE Span(w, cursor.src, cursor.pos, cursor'.pos) = None(w)
      BY <1>1, <1>2, <2>9, ConsumesIsPasses, PlainSpan
    <3>3. ASSUME NEW w \in ToldWords PROVE Adds(w, Span(w, cursor.src, cursor.pos, cursor'.pos))
      <4>1. w \in Words
        BY DEF ToldWords, Words
      <4>2. CASE w = "refs"
        BY <2>1, <2>2, <3>1, <4>1, <4>2
      <4>3. CASE w \in DeviceWords
        BY <2>1, <2>3, <3>2, <4>1, <4>3
      <4>. QED
        BY <4>2, <4>3 DEF ToldWords
    <3>. QED
      BY <3>1, <3>3
  <2>. HIDE DEF a, t
  <2>10. Moved(MadeObjects(cursor, r), t)
    BY <2>1, <2>5, <2>6, <2>7, <2>9 DEF Moved
  <2>. QED
    BY <1>1, <1>4, <2>5, <2>8, <2>10
<1>. QED
  BY <1>3, <1>4 DEF Makes, Step

LEMMA SimpleStatementMoves ==
  ASSUME IInv, Framed(cursor.pos, stack), SimpleStatement
  PROVE  \/ Still /\ Framed(cursor'.pos, stack')
         \/ \E r : /\ stack' = Give(r.node, stack) /\ cursor' = r.c
                   /\ \E t \in Nat : /\ Moved(MadeObjects(cursor, r), t)
                                     /\ \/ MadeTypes(cursor, r) = t
                                        \/ /\ MadeTypes(cursor, r) = t + 1
                                           /\ cursor'.err # 0 /\ cursor.pos < cursor'.pos
                                           /\ Current(cursor) \in {"LET", "VAR"}
<1>1. stack # <<>> /\ Top.kind \in {"block", "single"} /\ IsCursor(cursor)
  BY DEF SimpleStatement, InStatements, In, IInv
<1>2. PICK r : Makes(r) /\ Statement(cursor, r) /\ Consumes(cursor, r.c)
  <2>1. CASE Ahead \in {"LET", "VAR"} /\ Makes(VarDecl(cursor))
    BY <1>1, <2>1, VarDeclKept, VarDeclConsumes DEF Ahead
  <2>2. CASE Ahead = "RETURN" /\ Makes(Return(cursor))
    BY <1>1, <2>2, ReturnKept, ReturnConsumes DEF Ahead
  <2>3. CASE Ahead \notin {"LET", "VAR", "RETURN", "LBRACE"} /\ Makes(ExprStatement(cursor))
    BY <1>1, <2>3, ExprStatementKept, ExprStatementConsumes DEF Ahead
  <2>. QED
    BY <2>1, <2>2, <2>3 DEF SimpleStatement
<1>3. \/ Still /\ Framed(cursor'.pos, stack')
      \/ /\ stack' = Give(r.node, stack) /\ cursor' = r.c
         /\ \E t \in Nat : /\ Moved(MadeObjects(cursor, r), t)
                           /\ \/ MadeTypes(cursor, r) = t
                              \/ /\ MadeTypes(cursor, r) = t + 1
                                 /\ cursor'.err # 0 /\ cursor.pos < cursor'.pos
                                 /\ Current(cursor) \in {"LET", "VAR"}
  BY <1>1, <1>2, StatementMoves
<1>. QED
  BY <1>3

LEMMA OpenBlockMoves ==
  ASSUME IInv, Framed(cursor.pos, stack), OpenBlock
  PROVE  Moved(0, 0)
<1>. DEFINE g == Node("block", <<>>)
<1>1. stack # <<>> /\ Top.kind \in {"block", "single"} /\ IsCursor(cursor)
  BY DEF OpenBlock, InStatements, In, IInv
<1>2. cursor' = Advance(cursor) /\ stack' = <<g>> \o stack /\ Current(cursor) = "LBRACE"
  BY DEF OpenBlock, Step, Ahead
<1>3. Onward(cursor, cursor') /\ cursor.pos < cursor'.pos
  BY <1>1, <1>2, AdvanceThere, AdvanceGoesOn
<1>4. g.kind = "block" /\ g.kids = <<>> /\ \A T : IsFrame(g, T)
  <2>1. "block" \in FrameKinds /\ <<>> \in Heads("block")
    BY DEF FrameKinds, KidKinds, Heads
  <2>. QED
    BY <2>1, FrameBegins DEF Node
<1>. HIDE DEF g
<1>5. Framed(cursor'.pos, stack') /\ \A w \in Words : Adds(w, HeldOwn(w, g))
  BY <1>1, <1>2, <1>3, <1>4, PushMove
<1>6. ASSUME NEW w \in Words PROVE HeldOwn(w, g) = None(w)
  BY <1>4 DEF HeldOwn, Own, None, Words, Counted, DeviceWords, LateKinds
<1>7. Makes2(0, 0)
  <2>1. Adds("objects", 0) /\ Adds("types", 0) /\ Adds("functions", 0)
    BY <1>5, <1>6 DEF Words, Counted, None
  <2>2. Makes2(0, 0 + 0)
    BY <2>1, MakesOf
  <2>. QED
    BY <2>2
<1>8. ~AfterRole(cursor') /\ \A w \in ToldWords : Span(w, cursor.src, cursor.pos, cursor'.pos) = None(w)
  BY <1>1, <1>2, QuietStep DEF IsQuiet, RoleWords, FunctionWords, TypeNames, DeviceWords
<1>9. ToldWords \subseteq Words
  BY DEF ToldWords, Words
<1>. QED
  BY <1>5, <1>6, <1>7, <1>8, <1>9 DEF Moved

\* A frame that is done goes to the caller, with or without a '}'.
LEMMA ReturnMoves ==
  ASSUME IInv, Framed(cursor.pos, stack), stack # <<>>, Top.kind # "program",
         stack' = Give(Closed(Top), Tail(stack)),
         cursor' = cursor \/ cursor' = Expect(cursor, "RBRACE")
  PROVE  Moved(IF Top.kind \in LateKinds THEN 1 ELSE 0, 0)
<1>. DEFINE n == IF Top.kind \in LateKinds THEN 1 ELSE 0
<1>1. IsCursor(cursor)
  BY DEF IInv
<1>2. Onward(cursor, cursor')
  BY <1>1, ExpectGoesOn, ProgressIsOnward, OnwardReflexive
<1>3. Framed(cursor'.pos, stack') /\ \A w \in Words : Adds(w, Late(w, Top.kind))
  BY <1>2, ReturnMove
<1>4. /\ Late("objects", Top.kind) = n
      /\ \A w \in Words \ {"objects"} : Late(w, Top.kind) = None(w)
  BY DEF Late, None, Counted
<1>. HIDE DEF n
<1>5. Makes2(n, 0)
  <2>1. Adds("objects", n) /\ Adds("types", 0) /\ Adds("functions", 0)
    BY <1>3, <1>4 DEF Words, Counted, None
  <2>2. Makes2(n, 0 + 0)
    BY <2>1, MakesOf
  <2>. QED
    BY <2>2
<1>6. ToldWords \subseteq Words \ {"objects"}
  BY DEF ToldWords, Words, DeviceWords
<1>7. ASSUME cursor'.err = 0, ~AfterRole(cursor)
      PROVE  /\ ~AfterRole(cursor')
             /\ \A w \in ToldWords : Span(w, cursor.src, cursor.pos, cursor'.pos) = None(w)
  <2>1. CASE cursor' = cursor
    <3>1. cursor.pos \in Nat
      BY <1>1, CursorFacts
    <3>. QED
      BY <1>7, <2>1, <3>1, SpanNone
  <2>2. CASE cursor' = Expect(cursor, "RBRACE")
    BY <1>1, <1>7, <2>2, BraceStep
  <2>. QED
    BY <2>1, <2>2
<1>8. Moved(n, 0)
  BY <1>3, <1>4, <1>5, <1>6, <1>7 DEF Moved
<1>. QED
  BY <1>8 DEF n

LEMMA CloseMoves ==
  ASSUME IInv, Framed(cursor.pos, stack)
  PROVE  /\ CloseBlock \/ CloseSingle \/ FinishFunction => Moved(1, 0)
         /\ CloseRegister \/ ClosePeripheral => Moved(0, 0)
<1>1. ASSUME CloseBlock \/ CloseSingle \/ FinishFunction PROVE Moved(1, 0)
  <2>1. /\ stack # <<>> /\ Top.kind \in {"block", "single", "function"}
        /\ cursor' = cursor \/ cursor' = Expect(cursor, "RBRACE")
    BY <1>1 DEF CloseBlock, CloseSingle, FinishFunction, In, Step
  <2>2. stack' = Give(Closed(Top), Tail(stack))
    <3>1. CASE CloseBlock \/ FinishFunction
      <4>1. stack' = Give(Top, Tail(stack)) /\ Top.kind # "single"
        BY <3>1 DEF CloseBlock, FinishFunction, In, Step
      <4>. QED
        BY <2>1, <4>1, TopClosed
    <3>2. CASE CloseSingle
      BY <3>2 DEF CloseSingle, In, Step, Closed
    <3>. QED
      BY <1>1, <3>1, <3>2
  <2>3. Moved(IF Top.kind \in LateKinds THEN 1 ELSE 0, 0)
    BY <2>1, <2>2, ReturnMoves
  <2>. QED
    BY <2>1, <2>3 DEF LateKinds
<1>2. ASSUME CloseRegister \/ ClosePeripheral PROVE Moved(0, 0)
  <2>1. /\ stack # <<>> /\ Top.kind \in {"register", "peripheral"}
        /\ cursor' = Expect(cursor, "RBRACE") /\ stack' = Give(Top, Tail(stack))
    BY <1>2 DEF CloseRegister, ClosePeripheral, In, Step
  <2>2. stack' = Give(Closed(Top), Tail(stack))
    BY <2>1, TopClosed
  <2>3. Moved(IF Top.kind \in LateKinds THEN 1 ELSE 0, 0)
    BY <2>1, <2>2, ReturnMoves
  <2>. QED
    BY <2>1, <2>3 DEF LateKinds
<1>. QED
  BY <1>1, <1>2

-----------------------------------------------------------------------------
(* Trips at the heads of constructs *)

\* What is behind a token that was expected.
LEMMA ExpectNext ==
  ASSUME NEW c, IsCursor(c), NEW t, t # "EOF", NEW d, d = Expect(c, t)
  PROVE  /\ Onward(c, d) /\ IsCursor(d) /\ d.src = c.src
         /\ d.err = 0 => c.err = 0 /\ d.pos = c.pos + 1 /\ c.src[c.pos] = t
<1>1. Onward(c, d)
  BY ExpectGoesOn, ProgressIsOnward
<1>. QED
  BY <1>1, OnwardIsCursor, ExpectThere DEF Onward

\* No role is given behind a token that gives none.
LEMMA RoleBefore ==
  ASSUME NEW c, NEW p, p \in Nat, c.pos = p + 1, c.src[p] \notin RoleWords
  PROVE  ~AfterRole(c)
<1>1. c.pos - 1 = p
  OBVIOUS
<1>. QED
  BY <1>1 DEF AfterRole

LEMMA ParsePeripheralMoves ==
  ASSUME IInv, Framed(cursor.pos, stack), ParsePeripheral
  PROVE  Moved(1, 0)
<1>. DEFINE name  == Advance(cursor)
            at    == Expect(name, "IDENTIFIER")
            base  == Expect(at, "AT")
            open  == Expect(base, "NUMBER")
            after == Expect(open, "LBRACE")
            g     == Node("peripheral", [name |-> name.pos, base |-> base.pos])
            src   == cursor.src
            i     == cursor.pos
<1>1. /\ stack # <<>> /\ Top.kind = "program" /\ IsCursor(cursor) /\ Current(cursor) = "PERIPHERAL"
      /\ cursor' = after /\ stack' = <<g>> \o stack
  BY DEF ParsePeripheral, In, IInv, Ahead, Step
<1>2. /\ IsCursor(name) /\ name.src = src /\ name.pos = i + 1 /\ name.err = cursor.err
      /\ src[i] = "PERIPHERAL" /\ i \in Nat /\ i >= 1 /\ Onward(cursor, name)
  BY <1>1, AdvanceThere, AdvanceGoesOn
<1>3. /\ g.kind = "peripheral" /\ g.kids = <<>> /\ g.head = [name |-> name.pos, base |-> base.pos]
  BY DEF Node
<1>. HIDE DEF name
<1>4. /\ Onward(name, at) /\ IsCursor(at) /\ at.src = name.src
      /\ at.err = 0 => name.err = 0 /\ at.pos = name.pos + 1 /\ name.src[name.pos] = "IDENTIFIER"
  BY <1>2, ExpectNext
<1>5. \A T : IsFrame(g, T)
  <2>1. base.pos \in Nat
    <3>. HIDE DEF at
    <3>1. IsCursor(base)
      BY <1>4, ExpectNext
    <3>. QED
      BY <3>1 DEF IsCursor
  <2>2. "peripheral" \in FrameKinds /\ [name |-> name.pos, base |-> base.pos] \in Heads("peripheral")
    BY <1>2, <2>1 DEF FrameKinds, KidKinds, Heads
  <2>. QED
    BY <2>2, FrameBegins
<1>. HIDE DEF at
<1>6. /\ Onward(at, base) /\ IsCursor(base) /\ base.src = at.src
      /\ base.err = 0 => at.err = 0 /\ base.pos = at.pos + 1 /\ at.src[at.pos] = "AT"
  BY <1>4, ExpectNext
<1>. HIDE DEF base, g
<1>7. /\ Onward(base, open) /\ IsCursor(open) /\ open.src = base.src
      /\ open.err = 0 => base.err = 0 /\ open.pos = base.pos + 1 /\ base.src[base.pos] = "NUMBER"
  BY <1>6, ExpectNext
<1>. HIDE DEF open
<1>8. /\ Onward(open, after) /\ IsCursor(after) /\ after.src = open.src
      /\ after.err = 0 => open.err = 0 /\ after.pos = open.pos + 1 /\ open.src[open.pos] = "LBRACE"
  BY <1>7, ExpectNext
<1>. HIDE DEF after
<1>9. Onward(cursor, cursor')
  <2>1. Onward(cursor, base)
    BY <1>1, <1>2, <1>4, <1>6, OnwardTransitive
  <2>. QED
    BY <1>1, <1>7, <1>8, <2>1, OnwardTransitive
<1>10. cursor.pos < cursor'.pos
  <2>1. name.pos <= at.pos /\ at.pos <= base.pos /\ base.pos <= open.pos /\ open.pos <= after.pos
    BY <1>4, <1>6, <1>7, <1>8 DEF Onward
  <2>2. name.pos \in Nat /\ at.pos \in Nat /\ base.pos \in Nat /\ open.pos \in Nat /\ after.pos \in Nat
    BY <1>2, <1>4, <1>6, <1>7, <1>8, CursorFacts
  <2>. QED
    BY <1>1, <1>2, <2>1, <2>2
<1>11. Framed(cursor'.pos, stack') /\ \A w \in Words : Adds(w, HeldOwn(w, g))
  BY <1>1, <1>3, <1>5, <1>9, <1>10, PushMove
<1>12. Makes2(1, 0)
  <2>1. HeldOwn("objects", g) = 1 /\ HeldOwn("types", g) = 0 /\ HeldOwn("functions", g) = 0
    BY <1>3 DEF HeldOwn, Own, LateKinds
  <2>2. Adds("objects", 1) /\ Adds("types", 0) /\ Adds("functions", 0)
    BY <1>11, <2>1 DEF Words, Counted
  <2>3. Makes2(1, 0 + 0)
    BY <2>2, MakesOf
  <2>. QED
    BY <2>3
<1>13. ASSUME cursor'.err = 0
       PROVE  /\ ~AfterRole(cursor')
              /\ \A w \in ToldWords : Adds(w, Span(w, src, i, cursor'.pos))
  <2>1. /\ at.pos = i + 2 /\ base.pos = i + 3 /\ open.pos = i + 4 /\ cursor'.pos = i + 5
        /\ src[i + 1] = "IDENTIFIER" /\ src[i + 2] = "AT" /\ src[i + 3] = "NUMBER"
        /\ src[i + 4] = "LBRACE" /\ cursor'.src = src
    <3>1. after.err = 0 /\ open.err = 0 /\ base.err = 0 /\ at.err = 0
      BY <1>1, <1>6, <1>7, <1>8, <1>13
    <3>2. /\ at.pos = name.pos + 1 /\ base.pos = at.pos + 1 /\ open.pos = base.pos + 1
          /\ after.pos = open.pos + 1
          /\ src[name.pos] = "IDENTIFIER" /\ src[at.pos] = "AT" /\ src[base.pos] = "NUMBER"
          /\ src[open.pos] = "LBRACE" /\ after.src = src
      BY <1>2, <1>4, <1>6, <1>7, <1>8, <3>1
    <3>3. at.pos = i + 2 /\ base.pos = i + 3 /\ open.pos = i + 4 /\ after.pos = i + 5
      BY <1>2, <3>2
    <3>. QED
      BY <1>1, <1>2, <3>2, <3>3
  <2>2. ~AfterRole(cursor')
    <3>1. i + 4 \in Nat /\ cursor'.pos = (i + 4) + 1
      BY <1>2, <2>1
    <3>2. "LBRACE" \notin RoleWords
      BY DEF RoleWords, FunctionWords
    <3>. QED
      BY <2>1, <3>1, <3>2, RoleBefore
  <2>. HIDE DEF src, i
  <2>3. ASSUME NEW w \in ToldWords PROVE Adds(w, Span(w, src, i, cursor'.pos))
    <3>1. Span(w, src, i, i + 5) =
            CASE w = "refs"       -> <<Ref("peripheral", i + 1), Ref("address", i + 3)>>
              [] w = "PERIPHERAL" -> <<i + 1>>
              [] OTHER            -> <<>>
      BY <1>2, <2>1, PeripheralText
    <3>2. g.head.name = i + 1 /\ g.head.base = i + 3
      BY <1>2, <1>3, <2>1
    <3>3. HeldOwn(w, g) = Span(w, src, i, i + 5)
      BY <1>3, <3>1, <3>2 DEF HeldOwn, Own, ToldWords, DeviceWords
    <3>4. w \in Words
      BY DEF ToldWords, Words
    <3>. QED
      BY <1>11, <2>1, <3>3, <3>4
  <2>. QED
    BY <2>2, <2>3
<1>. QED
  BY <1>11, <1>12, <1>13 DEF Moved, src, i

LEMMA ParseRegisterMoves ==
  ASSUME IInv, Framed(cursor.pos, stack), ParseRegister
  PROVE  Moved(1, 1)
<1>. DEFINE name   == Expect(cursor, "REGISTER")
            called == Expect(name, "IDENTIFIER")
            colon  == Expect(called, "COLON")
            typed  == MatchAny(colon, RegisterTypes)
            offset == Expect(typed, "AT")
            open   == Expect(offset, "NUMBER")
            after  == Expect(open, "LBRACE")
            type   == IF Current(colon) \in RegisterTypes THEN Current(colon) ELSE "U32"
            head   == [name |-> name.pos, type |-> type, offset |-> offset.pos]
            g      == Node("register", head)
            src    == cursor.src
            i      == cursor.pos
<1>1. /\ stack # <<>> /\ Top.kind = "peripheral" /\ IsCursor(cursor)
      /\ cursor' = after /\ stack' = <<g>> \o stack
  BY DEF ParseRegister, In, IInv, Step
<1>2. g.kind = "register" /\ g.kids = <<>> /\ g.head = head
  BY DEF Node
<1>3. i \in Nat /\ i >= 1
  BY <1>1, CursorFacts
<1>4. /\ Onward(cursor, name) /\ IsCursor(name) /\ name.src = src
      /\ name.err = 0 => cursor.err = 0 /\ name.pos = i + 1 /\ src[i] = "REGISTER"
  BY <1>1, ExpectNext
<1>. HIDE DEF name
<1>5. /\ Onward(name, called) /\ IsCursor(called) /\ called.src = name.src
      /\ called.err = 0 => name.err = 0 /\ called.pos = name.pos + 1 /\ name.src[name.pos] = "IDENTIFIER"
  BY <1>4, ExpectNext
<1>. HIDE DEF called
<1>6. /\ Onward(called, colon) /\ IsCursor(colon) /\ colon.src = called.src
      /\ colon.err = 0 => called.err = 0 /\ colon.pos = called.pos + 1 /\ called.src[called.pos] = "COLON"
  BY <1>5, ExpectNext
<1>. HIDE DEF colon
<1>7. /\ Onward(colon, typed) /\ IsCursor(typed) /\ typed.src = colon.src /\ typed.err = colon.err
      /\ \/ typed.pos = colon.pos
         \/ typed.pos = colon.pos + 1 /\ colon.src[colon.pos] \in RegisterTypes
  <2>1. CASE Current(colon) \in RegisterTypes
    <3>1. Current(colon) # "EOF"
      BY <2>1 DEF RegisterTypes
    <3>2. typed = Advance(colon)
      BY <2>1 DEF MatchAny
    <3>. HIDE DEF typed
    <3>. QED
      BY <1>6, <2>1, <3>1, <3>2, AdvanceThere, AdvanceGoesOn
  <2>2. CASE Current(colon) \notin RegisterTypes
    <3>1. typed = colon
      BY <2>2 DEF MatchAny
    <3>. HIDE DEF typed
    <3>. QED
      BY <1>6, <3>1, OnwardReflexive DEF IsCursor
  <2>. QED
    BY <2>1, <2>2
<1>8. type \in TypeNames
  BY DEF RegisterTypes, TypeNames
<1>. HIDE DEF typed, type
<1>9. /\ Onward(typed, offset) /\ IsCursor(offset) /\ offset.src = typed.src
      /\ offset.err = 0 => typed.err = 0 /\ offset.pos = typed.pos + 1 /\ typed.src[typed.pos] = "AT"
  BY <1>7, ExpectNext
<1>. HIDE DEF offset
<1>10. /\ Onward(offset, open) /\ IsCursor(open) /\ open.src = offset.src
       /\ open.err = 0 => offset.err = 0 /\ open.pos = offset.pos + 1 /\ offset.src[offset.pos] = "NUMBER"
  BY <1>9, ExpectNext
<1>. HIDE DEF open
<1>11. /\ Onward(open, after) /\ IsCursor(after) /\ after.src = open.src
       /\ after.err = 0 => open.err = 0 /\ after.pos = open.pos + 1 /\ open.src[open.pos] = "LBRACE"
  <2>1. IsCursor(open) /\ after = Expect(open, "LBRACE")
    BY <1>10
  <2>. HIDE DEF after
  <2>. QED
    BY <2>1, ExpectNext
<1>. HIDE DEF after
<1>12. \A T : IsFrame(g, T)
  <2>1. name.pos \in Nat /\ offset.pos \in Nat
    BY <1>4, <1>9 DEF IsCursor
  <2>2. "register" \in FrameKinds /\ head \in Heads("register")
    BY <1>8, <2>1 DEF FrameKinds, KidKinds, Heads
  <2>. QED
    BY <2>2, FrameBegins
<1>. HIDE DEF g
<1>13. Onward(cursor, cursor')
  <2>1. Onward(cursor, called)
    BY <1>1, <1>4, <1>5, OnwardTransitive
  <2>2. Onward(cursor, typed)
    BY <1>1, <1>6, <1>7, <2>1, OnwardTransitive
  <2>3. Onward(cursor, open)
    BY <1>1, <1>9, <1>10, <2>2, OnwardTransitive
  <2>. QED
    BY <1>1, <1>11, <2>3, OnwardTransitive
<1>14. Framed(cursor'.pos, stack') /\ \A w \in Words : Adds(w, HeldOwn(w, g))
  BY <1>1, <1>2, <1>12, <1>13, PushMove
<1>15. Makes2(1, 1)
  <2>1. HeldOwn("objects", g) = 1 /\ HeldOwn("types", g) = 1 /\ HeldOwn("functions", g) = 0
    BY <1>2 DEF HeldOwn, Own, LateKinds
  <2>2. Adds("objects", 1) /\ Adds("types", 1) /\ Adds("functions", 0)
    BY <1>14, <2>1 DEF Words, Counted
  <2>3. Makes2(1, 1 + 0)
    BY <2>2, MakesOf
  <2>. QED
    BY <2>3
<1>16. ASSUME cursor'.err = 0
       PROVE  /\ ~AfterRole(cursor')
              /\ \A w \in ToldWords : Adds(w, Span(w, src, i, cursor'.pos))
  <2>. DEFINE k == typed.pos
  <2>1. /\ name.pos = i + 1 /\ k \in Nat
        /\ \/ k = i + 3
           \/ k = i + 4 /\ src[i + 3] \in RegisterTypes
        /\ offset.pos = k + 1 /\ cursor'.pos = k + 3
        /\ src[i] = "REGISTER" /\ src[i + 1] = "IDENTIFIER" /\ src[i + 2] = "COLON" /\ src[k] = "AT"
        /\ src[k + 1] = "NUMBER" /\ src[k + 2] = "LBRACE" /\ cursor'.src = src
    <3>1. after.err = 0 /\ open.err = 0 /\ offset.err = 0 /\ colon.err = 0 /\ called.err = 0 /\ name.err = 0
      BY <1>1, <1>5, <1>6, <1>7, <1>9, <1>10, <1>11, <1>16
    <3>2. /\ name.pos = i + 1 /\ called.pos = name.pos + 1 /\ colon.pos = called.pos + 1
          /\ offset.pos = k + 1 /\ open.pos = offset.pos + 1 /\ after.pos = open.pos + 1
          /\ src[i] = "REGISTER" /\ src[name.pos] = "IDENTIFIER" /\ src[called.pos] = "COLON"
          /\ src[k] = "AT" /\ src[offset.pos] = "NUMBER" /\ src[open.pos] = "LBRACE"
          /\ after.src = src
      BY <1>4, <1>5, <1>6, <1>7, <1>9, <1>10, <1>11, <3>1
    <3>3. /\ \/ k = colon.pos
             \/ k = colon.pos + 1 /\ src[colon.pos] \in RegisterTypes
          /\ k \in Nat
      BY <1>4, <1>5, <1>6, <1>7, CursorFacts
    <3>. HIDE DEF k
    <3>4. /\ called.pos = i + 2 /\ colon.pos = i + 3 /\ open.pos = k + 2 /\ after.pos = k + 3
          /\ \/ k = i + 3
             \/ k = i + 4 /\ src[i + 3] \in RegisterTypes
      BY <1>3, <3>2, <3>3
    <3>. QED
      BY <1>1, <3>2, <3>3, <3>4
  <2>. HIDE DEF k
  <2>2. ~AfterRole(cursor')
    <3>1. k + 2 \in Nat /\ cursor'.pos = (k + 2) + 1
      BY <2>1
    <3>2. "LBRACE" \notin RoleWords
      BY DEF RoleWords, FunctionWords
    <3>. QED
      BY <2>1, <3>1, <3>2, RoleBefore
  <2>. HIDE DEF src, i
  <2>3. ASSUME NEW w \in ToldWords PROVE Adds(w, Span(w, src, i, cursor'.pos))
    <3>1. Span(w, src, i, k + 3) =
            CASE w = "refs"     -> <<Ref("register", i + 1), Ref("address", k + 1)>>
              [] w = "REGISTER" -> <<i + 1>>
              [] OTHER          -> <<>>
      <4>1. \/ k = i + 3
            \/ k = i + 4 /\ src[i + 3] \in RegisterTypes
        BY <2>1
      <4>2. /\ i \in Nat /\ i >= 1 /\ src[i] = "REGISTER" /\ src[i + 1] = "IDENTIFIER"
            /\ src[i + 2] = "COLON" /\ src[k] = "AT" /\ src[k + 1] = "NUMBER" /\ src[k + 2] = "LBRACE"
        BY <1>3, <2>1
      <4>. QED
        BY <4>1, <4>2, RegisterText, ZenonT(60)
    <3>2. g.head.name = i + 1 /\ g.head.offset = k + 1
      BY <1>2, <2>1
    <3>3. HeldOwn(w, g) = Span(w, src, i, k + 3)
      BY <1>2, <3>1, <3>2 DEF HeldOwn, Own, ToldWords, DeviceWords
    <3>4. w \in Words
      BY DEF ToldWords, Words
    <3>. QED
      BY <1>14, <2>1, <3>3, <3>4
  <2>. QED
    BY <2>2, <2>3
<1>. QED
  BY <1>14, <1>15, <1>16 DEF Moved, src, i

\* A token that may be there and means nothing.
LEMMA MatchQuiet ==
  ASSUME NEW c, IsCursor(c), NEW words, \A t \in words : IsQuiet(t) /\ t \notin RoleWords,
         "EOF" \notin words, NEW d, d = MatchAny(c, words), NEW i \in Nat, i <= c.pos
  PROVE  /\ Onward(c, d) /\ IsCursor(d) /\ d.src = c.src /\ d.err = c.err
         /\ ~AfterRole(c) => ~AfterRole(d)
         /\ \A w \in ToldWords : Span(w, c.src, i, d.pos) = Span(w, c.src, i, c.pos)
<1>1. CASE Current(c) \in words
  <2>1. d = Advance(c) /\ Current(c) # "EOF"
    BY <1>1 DEF MatchAny
  <2>2. /\ IsCursor(d) /\ d.src = c.src /\ d.pos = c.pos + 1 /\ d.err = c.err
        /\ c.src[c.pos] = Current(c) /\ c.pos \in Nat /\ Onward(c, d)
    BY <2>1, AdvanceThere, AdvanceGoesOn
  <2>3. ~AfterRole(d)
    BY <1>1, <2>2, RoleBefore
  <2>4. \A w \in ToldWords : Span(w, c.src, i, d.pos) = Span(w, c.src, i, c.pos)
    BY <1>1, <2>2, QuietNext
  <2>. QED
    BY <2>2, <2>3, <2>4
<1>2. CASE Current(c) \notin words
  <2>1. d = c
    BY <1>2 DEF MatchAny
  <2>. QED
    BY <2>1, OnwardReflexive DEF IsCursor
<1>. QED
  BY <1>1, <1>2

\* What a field has.
LEMMA FieldAmounts ==
  ASSUME NEW h \in Nat, NEW n, NEW a \in Nat, NEW b \in Nat, NEW e \in Nat, NEW x \in AccessKinds,
         n = [kind |-> "field", name |-> a, start |-> b, end |-> e, access |-> x],
         NEW w \in Words
  PROVE  /\ n \in Trees[h]
         /\ Gained(w, h, "register", n) =
              CASE w = "objects" -> 1
                [] w = "refs"    -> <<Ref("field", a), Ref("low", b), Ref("high", e)>>
                [] w = "FIELD"   -> <<a>>
                [] OTHER         -> None(w)
<1>1. n \in Leaves
  BY DEF Leaves
<1>2. n \in Trees[h]
  BY <1>1, LeafTree
<1>3. n.kind = "field" /\ n.name = a /\ n.start = b /\ n.end = e
  OBVIOUS
<1>. HIDE DEF Leaves
<1>4. CASE w \in {"objects", "refs", "FIELD"}
  <2>1. Amount(w, h)[n] = Own(w, n)
    <3>1. CASE w \in Both
      <4>1. ByKind(w, Amount(w, h), n, Amount(w, h)[n])
        BY <1>2, <3>1, AmountByKind
      <4>. QED
        BY <1>3, <4>1 DEF ByKind, LeafKinds
    <3>2. CASE w \notin Both
      <4>1. n.kind \notin Outer(w)
        BY <1>3, OuterKinds DEF KidKinds
      <4>. QED
        BY <1>2, <3>2, <4>1, OwnOnly
    <3>. QED
      BY <3>1, <3>2
  <2>2. "register" \in Outer(w)
    BY <1>4 DEF Outer, KidKinds
  <2>3. Gained(w, h, "register", n) = Own(w, n)
    BY <2>1, <2>2 DEF Gained
  <2>4. CASE w = "objects"
    BY <1>2, <1>3, <2>3, <2>4 DEF Own
  <2>5. CASE w = "refs"
    BY <1>2, <1>3, <2>3, <2>5 DEF Own
  <2>6. CASE w = "FIELD"
    BY <1>2, <1>3, <2>3, <2>6 DEF Own
  <2>. QED
    BY <1>4, <2>4, <2>5, <2>6
<1>5. CASE w \in {"types", "functions", "PERIPHERAL", "REGISTER"}
  <2>1. "register" \notin Outer(w)
    BY <1>5 DEF Outer, KidKinds
  <2>2. Gained(w, h, "register", n) = None(w)
    BY <2>1 DEF Gained
  <2>. QED
    BY <1>2, <1>5, <2>2
<1>. QED
  BY <1>4, <1>5 DEF Words, Counted, DeviceWords

LEMMA ParseFieldMoves ==
  ASSUME IInv, Framed(cursor.pos, stack), ParseField
  PROVE  \/ Still /\ Framed(cursor'.pos, stack')
         \/ stack' # stack /\ Moved(1, 0)
<1>. DEFINE name   == Expect(cursor, "FIELD")
            called == Expect(name, "IDENTIFIER")
            colon  == Expect(called, "COLON")
            low    == Expect(colon, "LBRACKET")
            first  == Expect(low, "NUMBER")
            high   == Expect(first, "COLON")
            last   == Expect(high, "NUMBER")
            access == Expect(last, "RBRACKET")
            bits   == MatchAny(access, AccessKinds)
            after  == Match(bits, "SEMICOLON")
            kind   == IF Current(access) \in AccessKinds THEN Current(access) ELSE "RW"
            n      == [kind |-> "field", name |-> name.pos, start |-> low.pos, end |-> high.pos,
                       access |-> kind]
            src    == cursor.src
            i      == cursor.pos
<1>1. /\ stack # <<>> /\ Top.kind = "register" /\ IsCursor(cursor)
      /\ Makes(Result(after, n))
  BY DEF ParseField, In, IInv
<1>2. /\ cursor' = after
      /\ \/ stack' = stack /\ after = cursor
         \/ stack' = Give(n, stack)
  BY <1>1 DEF Makes, Step, Result
<1>3. i \in Nat /\ i >= 1
  BY <1>1, CursorFacts
<1>4. /\ Onward(cursor, name) /\ IsCursor(name) /\ name.src = src
      /\ name.err = 0 => cursor.err = 0 /\ name.pos = i + 1 /\ src[i] = "FIELD"
  BY <1>1, ExpectNext
<1>. HIDE DEF name
<1>5. /\ Onward(name, called) /\ IsCursor(called) /\ called.src = name.src
      /\ called.err = 0 => name.err = 0 /\ called.pos = name.pos + 1 /\ name.src[name.pos] = "IDENTIFIER"
  BY <1>4, ExpectNext
<1>. HIDE DEF called
<1>6. /\ Onward(called, colon) /\ IsCursor(colon) /\ colon.src = called.src
      /\ colon.err = 0 => called.err = 0 /\ colon.pos = called.pos + 1 /\ called.src[called.pos] = "COLON"
  BY <1>5, ExpectNext
<1>. HIDE DEF colon
<1>7. /\ Onward(colon, low) /\ IsCursor(low) /\ low.src = colon.src
      /\ low.err = 0 => colon.err = 0 /\ low.pos = colon.pos + 1 /\ colon.src[colon.pos] = "LBRACKET"
  BY <1>6, ExpectNext
<1>. HIDE DEF low
<1>8. /\ Onward(low, first) /\ IsCursor(first) /\ first.src = low.src
      /\ first.err = 0 => low.err = 0 /\ first.pos = low.pos + 1 /\ low.src[low.pos] = "NUMBER"
  BY <1>7, ExpectNext
<1>. HIDE DEF first
<1>9. /\ Onward(first, high) /\ IsCursor(high) /\ high.src = first.src
      /\ high.err = 0 => first.err = 0 /\ high.pos = first.pos + 1 /\ first.src[first.pos] = "COLON"
  BY <1>8, ExpectNext
<1>. HIDE DEF high
<1>10. /\ Onward(high, last) /\ IsCursor(last) /\ last.src = high.src
       /\ last.err = 0 => high.err = 0 /\ last.pos = high.pos + 1 /\ high.src[high.pos] = "NUMBER"
  BY <1>9, ExpectNext
<1>. HIDE DEF last
<1>11. /\ Onward(last, access) /\ IsCursor(access) /\ access.src = last.src
       /\ access.err = 0 => last.err = 0 /\ access.pos = last.pos + 1 /\ last.src[last.pos] = "RBRACKET"
  BY <1>10, ExpectNext
<1>12. kind \in AccessKinds
  BY DEF AccessKinds
<1>. HIDE DEF access, kind
<1>13. Onward(name, access)
  <2>1. Onward(name, low)
    BY <1>4, <1>5, <1>6, <1>7, OnwardTransitive
  <2>2. Onward(name, high)
    BY <1>4, <1>8, <1>9, <2>1, OnwardTransitive
  <2>. QED
    BY <1>4, <1>10, <1>11, <2>2, OnwardTransitive
<1>14. i <= access.pos /\ access.pos \in Nat
  <2>1. i <= name.pos /\ name.pos <= access.pos /\ name.pos \in Nat /\ access.pos \in Nat
    BY <1>4, <1>11, <1>13, CursorFacts DEF Onward
  <2>. QED
    BY <1>3, <2>1
<1>15. /\ Onward(access, bits) /\ IsCursor(bits) /\ bits.src = access.src /\ bits.err = access.err
       /\ ~AfterRole(access) => ~AfterRole(bits)
       /\ \A w \in ToldWords : Span(w, access.src, i, bits.pos) = Span(w, access.src, i, access.pos)
  <2>1. \A t \in AccessKinds : IsQuiet(t) /\ t \notin RoleWords
    BY DEF AccessKinds, IsQuiet, RoleWords, FunctionWords, TypeNames, DeviceWords
  <2>2. "EOF" \notin AccessKinds
    BY DEF AccessKinds
  <2>. QED
    BY <1>3, <1>11, <1>14, <2>1, <2>2, MatchQuiet
<1>16. i <= bits.pos
  <2>1. access.pos <= bits.pos /\ bits.pos \in Nat
    BY <1>15, CursorFacts DEF Onward
  <2>. QED
    BY <1>3, <1>14, <2>1
<1>. HIDE DEF bits
<1>17. /\ Onward(bits, after) /\ after.src = bits.src /\ after.err = bits.err
       /\ ~AfterRole(bits) => ~AfterRole(after)
       /\ \A w \in ToldWords : Span(w, bits.src, i, after.pos) = Span(w, bits.src, i, bits.pos)
  <2>1. \A t \in {"SEMICOLON"} : IsQuiet(t) /\ t \notin RoleWords
    BY DEF IsQuiet, RoleWords, FunctionWords, TypeNames, DeviceWords
  <2>2. after = MatchAny(bits, {"SEMICOLON"})
    BY DEF Match
  <2>. QED
    BY <1>3, <1>15, <1>16, <2>1, <2>2, MatchQuiet
<1>. HIDE DEF after
<1>18. Onward(name, after)
  <2>1. Onward(name, bits)
    BY <1>4, <1>13, <1>15, OnwardTransitive
  <2>. QED
    BY <1>4, <1>17, <2>1, OnwardTransitive
<1>19. Onward(cursor, cursor')
  BY <1>1, <1>2, <1>4, <1>18, OnwardTransitive
<1>20. CASE stack' = stack /\ after = cursor
  <2>1. after.err # 0
    <3>. SUFFICES ASSUME after.err = 0 PROVE FALSE
      OBVIOUS
    <3>1. name.err = 0
      BY <1>18, NoErrorBefore
    <3>2. name.pos = i + 1 /\ name.pos <= after.pos /\ after.pos = i
      BY <1>4, <1>18, <1>20, <3>1 DEF Onward
    <3>. QED
      BY <1>3, <3>2
  <2>. QED
    BY <1>2, <1>20, <2>1 DEF Still
<1>21. CASE stack' = Give(n, stack)
  <2>1. name.pos \in Nat /\ low.pos \in Nat /\ high.pos \in Nat
    BY <1>4, <1>7, <1>9, CursorFacts
  <2>2. stack' # stack
    <3>1. Listed(stack) /\ stack[1].kids \in Seq(Trees[Tall]) /\ Stacked(stack)
      BY <1>1, StackFacts DEF Deep, IInv
    <3>2. stack'[1] = Received(stack[1], n)
      BY <1>1, <1>21, <3>1, GiveFrames
    <3>3. Received(stack[1], n).kids = Append(stack[1].kids, n)
      BY DEF Received, With
    <3>. HIDE DEF n
    <3>4. Len(Append(stack[1].kids, n)) = Len(stack[1].kids) + 1 /\ Len(stack[1].kids) \in Nat
      BY <3>1, SeqIsListed, AppendEffect DEF Listed
    <3>. QED
      BY <3>2, <3>3, <3>4
  <2>. DEFINE k == (cursor'.pos - cursor.pos) + 1
  <2>3. k \in Nat
    BY <1>1, <1>19, CursorFacts DEF Onward
  <2>. HIDE DEF k
  <2>4. n = [kind |-> "field", name |-> name.pos, start |-> low.pos, end |-> high.pos, access |-> kind]
    OBVIOUS
  <2>. HIDE DEF n
  <2>5. n \in Trees[k]
    BY <1>12, <2>1, <2>3, <2>4, FieldAmounts DEF Words, Counted
  <2>6. Framed(cursor'.pos, stack') /\ \A w \in Words : Adds(w, Gained(w, Tall, "register", n))
    BY <1>1, <1>19, <1>21, <2>5, GiveMove DEF k
  <2>7. Tall \in Nat
    BY <1>1, StackFacts
  <2>8. ASSUME NEW w \in Words
        PROVE  Gained(w, Tall, "register", n) =
                 CASE w = "objects" -> 1
                   [] w = "refs"    -> <<Ref("field", name.pos), Ref("low", low.pos), Ref("high", high.pos)>>
                   [] w = "FIELD"   -> <<name.pos>>
                   [] OTHER         -> None(w)
    BY <1>12, <2>1, <2>4, <2>7, FieldAmounts
  <2>9. Makes2(1, 0)
    <3>1. "objects" \in Words /\ "types" \in Words /\ "functions" \in Words
      BY DEF Words, Counted
    <3>2. /\ Gained("objects", Tall, "register", n) = 1
          /\ Gained("types", Tall, "register", n) = 0
          /\ Gained("functions", Tall, "register", n) = 0
      BY <2>8, <3>1 DEF None, Counted
    <3>3. Adds("objects", 1) /\ Adds("types", 0) /\ Adds("functions", 0)
      BY <2>6, <3>1, <3>2
    <3>4. Makes2(1, 0 + 0)
      BY <3>3, MakesOf
    <3>. QED
      BY <3>4
  <2>10. ASSUME cursor'.err = 0
         PROVE  /\ ~AfterRole(cursor')
                /\ \A w \in ToldWords : Adds(w, Span(w, src, i, cursor'.pos))
    <3>1. /\ name.pos = i + 1 /\ low.pos = i + 4 /\ high.pos = i + 6 /\ access.pos = i + 8
          /\ src[i] = "FIELD" /\ src[i + 1] = "IDENTIFIER" /\ src[i + 2] = "COLON"
          /\ src[i + 3] = "LBRACKET" /\ src[i + 4] = "NUMBER" /\ src[i + 5] = "COLON"
          /\ src[i + 6] = "NUMBER" /\ src[i + 7] = "RBRACKET" /\ access.src = src
      <4>1. access.err = 0 /\ last.err = 0 /\ high.err = 0 /\ first.err = 0
        BY <1>2, <1>9, <1>10, <1>11, <1>15, <1>17, <2>10
      <4>2. low.err = 0 /\ colon.err = 0 /\ called.err = 0 /\ name.err = 0
        BY <1>5, <1>6, <1>7, <1>8, <1>9, <4>1
      <4>3. /\ name.pos = i + 1 /\ called.pos = name.pos + 1 /\ colon.pos = called.pos + 1
            /\ low.pos = colon.pos + 1 /\ first.pos = low.pos + 1 /\ high.pos = first.pos + 1
            /\ last.pos = high.pos + 1 /\ access.pos = last.pos + 1
        BY <1>4, <1>5, <1>6, <1>7, <1>8, <1>9, <1>10, <1>11, <4>1, <4>2
      <4>4. /\ src[i] = "FIELD" /\ src[name.pos] = "IDENTIFIER" /\ src[called.pos] = "COLON"
            /\ src[colon.pos] = "LBRACKET" /\ src[low.pos] = "NUMBER" /\ src[first.pos] = "COLON"
            /\ src[high.pos] = "NUMBER" /\ src[last.pos] = "RBRACKET" /\ access.src = src
        BY <1>4, <1>5, <1>6, <1>7, <1>8, <1>9, <1>10, <1>11, <4>1, <4>2
      <4>5. /\ called.pos = i + 2 /\ colon.pos = i + 3 /\ low.pos = i + 4 /\ first.pos = i + 5
            /\ high.pos = i + 6 /\ last.pos = i + 7 /\ access.pos = i + 8
        BY <1>3, <4>3
      <4>. QED
        BY <4>3, <4>4, <4>5
    <3>2. ~AfterRole(access)
      <4>1. i + 7 \in Nat /\ access.pos = (i + 7) + 1
        BY <1>3, <3>1
      <4>2. "RBRACKET" \notin RoleWords
        BY DEF RoleWords, FunctionWords
      <4>. QED
        BY <3>1, <4>1, <4>2, RoleBefore
    <3>3. ~AfterRole(cursor')
      BY <1>2, <1>15, <1>17, <3>2
    <3>. HIDE DEF src, i
    <3>4. ASSUME NEW w \in ToldWords PROVE Adds(w, Span(w, src, i, cursor'.pos))
      <4>1. Span(w, src, i, cursor'.pos) = Span(w, src, i, i + 8)
        BY <1>2, <1>15, <1>17, <3>1
      <4>2. Span(w, src, i, i + 8) =
              CASE w = "refs"  -> <<Ref("field", i + 1), Ref("low", i + 4), Ref("high", i + 6)>>
                [] w = "FIELD" -> <<i + 1>>
                [] OTHER       -> <<>>
        BY <1>3, <3>1, FieldText
      <4>3. w \in Words /\ w # "objects" /\ None(w) = <<>>
        BY DEF ToldWords, Words, None, Counted, DeviceWords
      <4>4. Gained(w, Tall, "register", n) = Span(w, src, i, i + 8)
        BY <2>8, <3>1, <4>2, <4>3
      <4>. QED
        BY <2>6, <4>1, <4>3, <4>4
    <3>. QED
      BY <3>3, <3>4
  <2>. QED
    BY <2>2, <2>6, <2>9, <2>10 DEF Moved, src, i
<1>. QED
  BY <1>2, <1>20, <1>21

\* The head of a function.
LEMMA SignatureText ==
  ASSUME NEW c, IsCursor(c), Current(c) \in FunctionWords, NEW f, f = Signature(c)
  PROVE  /\ IsCursor(f.c) /\ Onward(c, f.c) /\ c.pos < f.c.pos /\ f.c.src = c.src
         /\ f.node.kind = "function" /\ f.node.kids = <<>> /\ f.node.head.name = c.pos + 1
         /\ \A T : IsFrame(f.node, T)
         /\ f.c.err = 0 =>
              /\ f.c.pos = c.pos + 6
              /\ c.src[c.pos] \in FunctionWords /\ c.src[c.pos + 1] = "IDENTIFIER"
              /\ c.src[c.pos + 2] = "LPAREN" /\ c.src[c.pos + 3] = "RPAREN"
              /\ c.src[c.pos + 4] \in {"ARROW", "COLON"} /\ c.src[c.pos + 5] \in TypeNames
<1>. DEFINE word   == Advance(c)
            name   == Expect(word, "IDENTIFIER")
            open   == Expect(name, "LPAREN")
            params == Expect(open, "RPAREN")
            mark   == IF Current(c) = "FN" THEN "ARROW" ELSE "COLON"
            marked == Expect(params, mark)
            typed  == Current(marked) \in TypeNames
            after  == IF typed THEN Advance(marked) ELSE Fail(marked)
            head   == [name |-> c.pos + 1, type |-> IF typed THEN Current(marked) ELSE "U32"]
            src    == c.src
            i      == c.pos
<1>1. f = [c |-> after, node |-> Node("function", head)]
  BY DEF Signature, Result
<1>2. i \in Nat /\ i >= 1 /\ src[i] = Current(c)
  BY AdvanceThere DEF FunctionWords
<1>3. /\ Onward(c, word) /\ IsCursor(word) /\ word.src = src /\ word.pos = i + 1 /\ word.err = c.err
  <2>1. Current(c) # "EOF"
    BY DEF FunctionWords
  <2>. QED
    BY <2>1, AdvanceThere, AdvanceGoesOn
<1>. HIDE DEF word
<1>4. /\ Onward(word, name) /\ IsCursor(name) /\ name.src = word.src
      /\ name.err = 0 => word.err = 0 /\ name.pos = word.pos + 1 /\ word.src[word.pos] = "IDENTIFIER"
  BY <1>3, ExpectNext
<1>. HIDE DEF name
<1>5. /\ Onward(name, open) /\ IsCursor(open) /\ open.src = name.src
      /\ open.err = 0 => name.err = 0 /\ open.pos = name.pos + 1 /\ name.src[name.pos] = "LPAREN"
  BY <1>4, ExpectNext
<1>. HIDE DEF open
<1>6. /\ Onward(open, params) /\ IsCursor(params) /\ params.src = open.src
      /\ params.err = 0 => open.err = 0 /\ params.pos = open.pos + 1 /\ open.src[open.pos] = "RPAREN"
  BY <1>5, ExpectNext
<1>. HIDE DEF params
<1>7. mark \in {"ARROW", "COLON"}
  OBVIOUS
<1>. HIDE DEF mark
<1>8. /\ Onward(params, marked) /\ IsCursor(marked) /\ marked.src = params.src
      /\ marked.err = 0 => params.err = 0 /\ marked.pos = params.pos + 1 /\ params.src[params.pos] = mark
  <2>1. mark # "EOF"
    BY <1>7
  <2>. QED
    BY <1>6, <2>1, ExpectNext
<1>. HIDE DEF marked
<1>9. head \in Heads("function") /\ "function" \in FrameKinds /\ head.name = i + 1
  BY <1>2 DEF Heads, TypeNames, FrameKinds, KidKinds
<1>10. /\ Onward(marked, after) /\ after.src = marked.src /\ IsCursor(after)
       /\ after.err = 0 => /\ marked.err = 0 /\ after.pos = marked.pos + 1
                           /\ marked.src[marked.pos] \in TypeNames
  <2>1. CASE typed
    <3>1. Current(marked) # "EOF"
      BY <2>1 DEF TypeNames
    <3>2. after = Advance(marked)
      BY <2>1
    <3>. HIDE DEF after
    <3>. QED
      BY <1>8, <2>1, <3>1, <3>2, AdvanceThere, AdvanceGoesOn
  <2>2. CASE ~typed
    <3>1. after = Fail(marked)
      BY <2>2
    <3>. HIDE DEF after
    <3>2. Onward(marked, after) /\ after.err # 0
      BY <1>8, <3>1, FailGoesOn
    <3>. QED
      BY <1>8, <3>2, OnwardIsCursor DEF Onward
  <2>. QED
    BY <2>1, <2>2
<1>. HIDE DEF after, head, typed
<1>11. Onward(word, after)
  <2>1. Onward(word, params)
    BY <1>3, <1>4, <1>5, <1>6, OnwardTransitive
  <2>. QED
    BY <1>3, <1>8, <1>10, <2>1, OnwardTransitive
<1>12. Onward(c, after) /\ i < after.pos
  <2>1. Onward(c, after)
    BY <1>3, <1>11, OnwardTransitive
  <2>2. word.pos <= after.pos /\ after.pos \in Nat
    BY <1>10, <1>11, CursorFacts DEF Onward
  <2>. QED
    BY <1>2, <1>3, <2>1, <2>2
<1>13. /\ f.c = after /\ f.node = Node("function", head)
  BY <1>1
<1>14. \A T : IsFrame(Node("function", head), T)
  BY <1>9, FrameBegins
<1>15. Node("function", head).kind = "function" /\ Node("function", head).kids = <<>>
       /\ Node("function", head).head = head
  BY DEF Node
<1>16. ASSUME after.err = 0
       PROVE  /\ after.pos = i + 6
              /\ src[i] \in FunctionWords /\ src[i + 1] = "IDENTIFIER"
              /\ src[i + 2] = "LPAREN" /\ src[i + 3] = "RPAREN"
              /\ src[i + 4] \in {"ARROW", "COLON"} /\ src[i + 5] \in TypeNames
  <2>1. marked.err = 0 /\ params.err = 0 /\ open.err = 0 /\ name.err = 0
    BY <1>5, <1>6, <1>8, <1>10, <1>16
  <2>2. /\ name.pos = word.pos + 1 /\ open.pos = name.pos + 1 /\ params.pos = open.pos + 1
        /\ marked.pos = params.pos + 1 /\ after.pos = marked.pos + 1
    BY <1>4, <1>5, <1>6, <1>8, <1>10, <1>16, <2>1
  <2>3. /\ src[word.pos] = "IDENTIFIER" /\ src[name.pos] = "LPAREN" /\ src[open.pos] = "RPAREN"
        /\ src[params.pos] = mark /\ src[marked.pos] \in TypeNames
    BY <1>3, <1>4, <1>5, <1>6, <1>8, <1>10, <1>16, <2>1
  <2>4. /\ name.pos = i + 2 /\ open.pos = i + 3 /\ params.pos = i + 4 /\ marked.pos = i + 5
        /\ after.pos = i + 6
    BY <1>2, <1>3, <2>2
  <2>. QED
    BY <1>2, <1>3, <1>7, <2>3, <2>4
<1>17. /\ f.node.kind = "function" /\ f.node.kids = <<>> /\ f.node.head.name = c.pos + 1
       /\ \A T : IsFrame(f.node, T)
  BY <1>9, <1>13, <1>14, <1>15
<1>18. IsCursor(f.c) /\ Onward(c, f.c) /\ c.pos < f.c.pos /\ f.c.src = c.src
  BY <1>10, <1>12, <1>13 DEF Onward
<1>19. f.c.err = 0 =>
         /\ f.c.pos = c.pos + 6
         /\ c.src[c.pos] \in FunctionWords /\ c.src[c.pos + 1] = "IDENTIFIER"
         /\ c.src[c.pos + 2] = "LPAREN" /\ c.src[c.pos + 3] = "RPAREN"
         /\ c.src[c.pos + 4] \in {"ARROW", "COLON"} /\ c.src[c.pos + 5] \in TypeNames
  BY <1>13, <1>16
<1>. QED
  BY <1>17, <1>18, <1>19

\* A function without a body gets an empty block.
LEMMA EmptyFunction ==
  ASSUME NEW h \in Nat, h >= 2, NEW head \in Heads("function"), NEW b, b = Node("block", <<>>),
         NEW n, n = [kind |-> "function", head |-> head, kids |-> <<b>>]
  PROVE  /\ n \in Trees[h]
         /\ Amount("objects", h)[n] = 2 /\ Amount("types", h)[n] = 0
         /\ Amount("functions", h)[n] = 1
<1>1. b \in Above(Trees[0])
  BY EmptySeq DEF Above, Node
<1>2. 0 \in Nat /\ 1 \in Nat /\ 0 < h /\ 0 < 1 /\ 1 < h
  OBVIOUS
<1>3. b \in Trees[1] /\ b \in Trees[h]
  BY <1>1, <1>2, HigherTree
<1>4. <<b>> \in Seq(Trees[1])
  <2>1. \A T, x : x \in T => <<x>> \in Seq(T)
    OBVIOUS
  <2>. QED
    BY <1>3, <2>1
<1>5. n \in Above(Trees[1])
  <2>1. head \in [name : Nat, type : TypeNames]
    BY DEF Heads
  <2>. QED
    BY <1>4, <2>1 DEF Above
<1>6. n \in Trees[h]
  BY <1>2, <1>5, HigherTree
<1>7. b.kind = "block" /\ b.kids = <<>> /\ n.kind = "function" /\ n.kids = <<b>>
  BY DEF Node
<1>8. Amount("functions", h)[n] = 1
  <2>1. "functions" \notin Both /\ "function" \notin Outer("functions") /\ Own("functions", n) = 1
    BY <1>7 DEF Both, Outer, KidKinds, Own
  <2>. QED
    BY <1>6, <1>7, <2>1, OwnOnly
<1>9. ASSUME NEW w \in {"objects", "types"}
      PROVE  Amount(w, h)[n] = Plus(w, Own(w, n), Own(w, b))
  <2>1. "function" \in Outer(w) /\ "block" \in Outer(w)
    BY DEF Outer, KidKinds
  <2>2. Parts(w, n) = <<b>> /\ Parts(w, b) = <<>>
    BY <1>7, <2>1 DEF Parts
  <2>3. /\ Amount(w, h)[b] = Meas(w, Amount(w, h), b) /\ IsAmount(w, Amount(w, h)[b])
        /\ Amount(w, h)[n] = Meas(w, Amount(w, h), n)
    BY <1>3, <1>6, AmountEquation
  <2>4. Amount(w, h)[b] = Own(w, b)
    BY <2>2, <2>3, OwnAmount, BelowNone, PlusNone DEF Meas
  <2>5. Below(w, Amount(w, h), <<b>>) = Own(w, b)
    BY <2>3, <2>4, BelowOne
  <2>. QED
    BY <2>2, <2>3, <2>5 DEF Meas
<1>10. /\ Own("objects", n) = 1 /\ Own("objects", b) = 1
       /\ Own("types", n) = 0 /\ Own("types", b) = 0
  BY <1>7 DEF Own
<1>11. Plus("objects", 1, 1) = 2 /\ Plus("types", 0, 0) = 0
  BY DEF Plus, Counted
<1>. QED
  BY <1>6, <1>8, <1>9, <1>10, <1>11

\* Parser: a function without a body is stored, and an error reported.
LEMMA ParseFunctionMoves ==
  ASSUME IInv, Framed(cursor.pos, stack), ParseFunction
  PROVE  \/ Len(stack') # Len(stack) /\ Moved(0, 1)
         \/ Len(stack') = Len(stack) /\ Moved(2, 1)
<1>. DEFINE f == Signature(cursor)
            c == f.c
            empty == With(f.node, <<Node("block", <<>>)>>)
            src == cursor.src
            i == cursor.pos
<1>1. stack # <<>> /\ Top.kind = "program" /\ IsCursor(cursor) /\ Current(cursor) \in FunctionWords
  BY DEF ParseFunction, In, IInv, Ahead
<1>2. \/ \E body \in {"single", "block"} : /\ stack' = <<Node(body, <<>>), f.node>> \o stack
                                           /\ Current(c) \in {"ASSIGN", "LBRACE"}
                                           /\ cursor' = Advance(c)
      \/ cursor' = Fail(c) /\ stack' = Give(empty, stack)
  BY DEF ParseFunction, Step
<1>3. /\ IsCursor(c) /\ Onward(cursor, c) /\ i < c.pos /\ c.src = src
      /\ f.node.kind = "function" /\ f.node.kids = <<>> /\ f.node.head.name = i + 1
      /\ \A T : IsFrame(f.node, T)
      /\ c.err = 0 =>
           /\ c.pos = i + 6
           /\ src[i] \in FunctionWords /\ src[i + 1] = "IDENTIFIER"
           /\ src[i + 2] = "LPAREN" /\ src[i + 3] = "RPAREN"
           /\ src[i + 4] \in {"ARROW", "COLON"} /\ src[i + 5] \in TypeNames
  BY <1>1, SignatureText
<1>. HIDE DEF f
<1>4. /\ i \in Nat /\ i >= 1 /\ c.pos \in Nat /\ Tall \in Nat /\ Listed(stack) /\ Len(stack) \in Nat
      /\ \A w : IsAmount(w, Stock(w, Tall, stack))
  BY <1>1, <1>3, StackFacts, CursorFacts
<1>5. ASSUME NEW body \in {"single", "block"}, stack' = <<Node(body, <<>>), f.node>> \o stack,
             Current(c) \in {"ASSIGN", "LBRACE"}, cursor' = Advance(c)
      PROVE  Len(stack') # Len(stack) /\ Moved(0, 1)
  <2>. DEFINE g == Node(body, <<>>)
  <2>1. Current(c) # "EOF"
    BY <1>5
  <2>2. /\ cursor'.src = src /\ cursor'.pos = c.pos + 1 /\ cursor'.err = c.err
        /\ src[c.pos] = Current(c)
    BY <1>3, <1>5, <2>1, AdvanceThere
  <2>3. cursor'.pos \in Nat /\ i + 2 <= cursor'.pos
    BY <1>3, <1>4, <2>2
  <2>4. /\ \A T : IsFrame(g, T)
        /\ g.kind = body /\ g.kids = <<>>
    <3>1. body \in FrameKinds /\ <<>> \in Heads(body)
      BY DEF FrameKinds, KidKinds, Heads
    <3>2. g.kids = <<>> /\ g.kind = body
      BY DEF Node
    <3>. QED
      BY <3>1, <3>2, FrameBegins
  <2>5. Len(stack') # Len(stack)
    <3>1. stack' = <<g, f.node>> \o stack
      BY <1>5
    <3>. HIDE DEF g
    <3>2. Len(stack') = Len(stack) + 2
      BY <1>4, <3>1, PushTwiceEffect
    <3>. QED
      BY <1>4, <3>2
  <2>6. stack' = <<g, f.node>> \o stack
    BY <1>5
  <2>. HIDE DEF g
  <2>7. /\ Framed(cursor'.pos, stack')
        /\ \A w \in Words : Adds(w, Plus(w, HeldOwn(w, f.node), HeldOwn(w, g)))
    BY <1>1, <1>3, <2>3, <2>4, <2>6, CallMove
  <2>8. Makes2(0, 1)
    <3>1. /\ HeldOwn("objects", f.node) = 0 /\ HeldOwn("objects", g) = 0
          /\ HeldOwn("types", f.node) = 0 /\ HeldOwn("types", g) = 0
          /\ HeldOwn("functions", f.node) = 1 /\ HeldOwn("functions", g) = 0
      BY <1>3, <2>4 DEF HeldOwn, Own, LateKinds
    <3>2. Plus("objects", 0, 0) = 0 /\ Plus("types", 0, 0) = 0 /\ Plus("functions", 1, 0) = 1
      BY DEF Plus, Counted
    <3>3. Adds("objects", 0) /\ Adds("types", 0) /\ Adds("functions", 1)
      BY <2>7, <3>1, <3>2 DEF Words, Counted
    <3>4. Makes2(0, 0 + 1)
      BY <3>3, MakesOf
    <3>. QED
      BY <3>4
  <2>9. ASSUME cursor'.err = 0
        PROVE  /\ ~AfterRole(cursor')
               /\ \A w \in ToldWords : Adds(w, Span(w, src, i, cursor'.pos))
    <3>1. /\ c.pos = i + 6 /\ cursor'.pos = i + 7 /\ src[i + 6] \in {"ASSIGN", "LBRACE"}
          /\ src[i] \in FunctionWords /\ src[i + 1] = "IDENTIFIER"
          /\ src[i + 2] = "LPAREN" /\ src[i + 3] = "RPAREN"
          /\ src[i + 4] \in {"ARROW", "COLON"} /\ src[i + 5] \in TypeNames
      <4>1. c.err = 0
        BY <2>2, <2>9
      <4>2. c.pos = i + 6 /\ src[c.pos] \in {"ASSIGN", "LBRACE"} /\ cursor'.pos = c.pos + 1
        BY <1>3, <1>5, <2>2, <4>1
      <4>3. cursor'.pos = i + 7
        BY <1>4, <4>2
      <4>. QED
        BY <1>3, <4>1, <4>2, <4>3
    <3>2. ~AfterRole(cursor')
      <4>1. i + 6 \in Nat /\ cursor'.pos = (i + 6) + 1
        BY <1>4, <3>1
      <4>2. src[i + 6] \notin RoleWords
        BY <3>1 DEF RoleWords, FunctionWords
      <4>. QED
        BY <2>2, <4>1, <4>2, RoleBefore
    <3>. HIDE DEF src, i
    <3>3. ASSUME NEW w \in ToldWords PROVE Adds(w, Span(w, src, i, cursor'.pos))
      <4>1. Span(w, src, i, i + 7) = IF w = "refs" THEN <<Ref("function", i + 1)>> ELSE <<>>
        BY <1>4, <3>1, FunctionText
      <4>2. HeldOwn(w, f.node) = IF w = "refs" THEN <<Ref("function", i + 1)>> ELSE <<>>
        BY <1>3 DEF HeldOwn, Own, ToldWords, DeviceWords
      <4>3. HeldOwn(w, g) = None(w)
        BY <2>4 DEF HeldOwn, Own, ToldWords, DeviceWords, None, Counted
      <4>4. IsAmount(w, HeldOwn(w, f.node))
        BY <1>3, HeldAtFirst
      <4>5. Plus(w, HeldOwn(w, f.node), HeldOwn(w, g)) = HeldOwn(w, f.node)
        BY <4>3, <4>4, PlusNone
      <4>6. w \in Words
        BY DEF ToldWords, Words
      <4>. QED
        BY <2>7, <3>1, <4>1, <4>2, <4>5, <4>6
    <3>. QED
      BY <3>2, <3>3
  <2>. QED
    BY <2>5, <2>7, <2>8, <2>9 DEF Moved, src, i
<1>6. ASSUME cursor' = Fail(c), stack' = Give(empty, stack)
      PROVE  Len(stack') = Len(stack) /\ Moved(2, 1)
  <2>. DEFINE b == Node("block", <<>>)
  <2>1. Onward(c, cursor') /\ cursor'.err # 0 /\ cursor'.pos = c.pos
    BY <1>3, <1>6, FailGoesOn
  <2>2. Onward(cursor, cursor') /\ i < cursor'.pos /\ cursor'.pos \in Nat
    BY <1>1, <1>3, <1>4, <2>1, OnwardTransitive
  <2>. DEFINE k == (cursor'.pos - cursor.pos) + 1
  <2>3. k \in Nat /\ k >= 2
    BY <1>4, <2>2
  <2>. HIDE DEF k
  <2>4. empty = [kind |-> "function", head |-> f.node.head, kids |-> <<b>>]
        /\ f.node.head \in Heads("function")
    <3>1. IsFrame(f.node, {})
      BY <1>3
    <3>. QED
      BY <1>3, <3>1, FrameKids DEF With
  <2>. HIDE DEF empty
  <2>5. b = Node("block", <<>>)
    OBVIOUS
  <2>. HIDE DEF b
  <2>6. empty \in Trees[k]
    BY <2>3, <2>4, <2>5, EmptyFunction
  <2>7. Tall >= 2
    <3>1. Len(cursor.src) \in Nat
      BY <1>1, StackFacts
    <3>. QED
      BY <3>1 DEF Tall, Height
  <2>8. /\ Amount("objects", Tall)[empty] = 2 /\ Amount("types", Tall)[empty] = 0
        /\ Amount("functions", Tall)[empty] = 1
    BY <1>4, <2>4, <2>5, <2>7, EmptyFunction
  <2>9. Framed(cursor'.pos, stack') /\ \A w \in Words : Adds(w, Gained(w, Tall, "program", empty))
    BY <1>1, <1>6, <2>2, <2>6, GiveMove DEF k
  <2>10. Makes2(2, 1)
    <3>1. \A w \in {"objects", "types", "functions"} : "program" \in Outer(w)
      BY DEF Outer, KidKinds
    <3>2. Adds("objects", 2) /\ Adds("types", 0) /\ Adds("functions", 1)
      BY <2>8, <2>9, <3>1 DEF Gained, Words, Counted
    <3>3. Makes2(2, 0 + 1)
      BY <3>2, MakesOf
    <3>. QED
      BY <3>3
  <2>11. Len(stack') = Len(stack)
    BY <1>1, <1>6, GiveFrames DEF IInv
  <2>. QED
    BY <2>1, <2>9, <2>10, <2>11 DEF Moved
<1>. QED
  BY <1>2, <1>5, <1>6

-----------------------------------------------------------------------------
(* Nothing is lost *)

\* The program alone is what there is.
LEMMA StockOne ==
  ASSUME NEW w, NEW h \in Nat, NEW f, f.kids \in Seq(Trees[h])
  PROVE  Stock(w, h, <<f>>) = Held(w, h, f)
<1>. DEFINE s == Helds(w, h, <<f>>)
<1>1. Len(<<f>>) = 1 /\ <<f>>[1] = f
  BY OneListed
<1>2. s = [b \in 1..1 |-> s[b]] /\ s[1] = Held(w, h, f)
  BY <1>1 DEF Helds
<1>. HIDE DEF s
<1>3. Listed(s) /\ Len(s) = 1
  BY <1>2, ListOf
<1>. DEFINE x == Held(w, h, f)
<1>4. IsAmount(w, x)
  BY HeldAmount
<1>. HIDE DEF x
<1>5. Listed(<<x>>) /\ Len(<<x>>) = 1 /\ <<x>>[1] = x
  BY OneListed
<1>6. s = <<x>>
  <2>1. s[1] = <<x>>[1]
    BY <1>2, <1>5 DEF x
  <2>2. \A k \in 1..Len(s) : s[k] = <<x>>[k]
    BY <1>3, <2>1
  <2>. QED
    BY <1>3, <1>5, <2>2, ListEqual
<1>. QED
  BY <1>4, <1>6, AllOne DEF Stock, s, x

\* The tree that parser_parse_program returns has what was on the stack.
LEMMA EndMoves ==
  ASSUME IInv, Framed(cursor.pos, stack), EndOfProgram \/ RejectToken
  PROVE  /\ program' \in Trees[Tall] /\ cursor'.src = cursor.src /\ cursor'.pos = cursor.pos
         /\ \A w \in Words : Amount(w, Tall)[program'] = Stock(w, Tall, stack)
         /\ cursor'.err = 0 => cursor'.err = cursor.err /\ Current(cursor') = "EOF"
         /\ Top.kind = "program" /\ stack # <<>> /\ stack' = <<>>
<1>1. /\ stack # <<>> /\ Top.kind = "program" /\ program' = Top /\ stack' = <<>>
      /\ \/ cursor' = Fail(cursor)
         \/ cursor' = cursor /\ Current(cursor) = "EOF"
  BY DEF EndOfProgram, RejectToken, In, Step, Ahead
<1>2. /\ IsCursor(cursor) /\ Listed(stack) /\ Len(stack) \in Nat /\ Len(stack) >= 1 /\ Top = stack[1]
      /\ Tall \in Nat /\ Deep(Tall, stack) /\ Top.kind \in FrameKinds
      /\ \A w : IsAmount(w, Stock(w, Tall, stack))
  BY <1>1, StackFacts
<1>3. Len(stack) = 1
  BY <1>1, <1>2, StackShapes DEF IInv
<1>4. stack = <<Top>>
  <2>. HIDE DEF Top
  <2>1. Listed(<<Top>>) /\ Len(<<Top>>) = 1 /\ <<Top>>[1] = Top
    BY OneListed
  <2>2. \A k \in 1..Len(stack) : stack[k] = <<Top>>[k]
    BY <1>2, <1>3, <2>1
  <2>. QED
    BY <1>2, <1>3, <2>1, <2>2, ListEqual
<1>5. Closed(Top) = Top
  BY <1>1, TopClosed
<1>6. Closed(stack[1]) \in Trees[Tall]
  BY <1>2, FramedDeep DEF Tall
<1>7. Top \in Trees[Tall]
  BY <1>2, <1>5, <1>6
<1>8. Top.kids \in Seq(Trees[Tall])
  BY <1>2 DEF Deep
<1>. HIDE DEF Top
<1>9. ASSUME NEW w \in Words PROVE Amount(w, Tall)[Top] = Stock(w, Tall, stack)
  <2>. DEFINE h == Tall
              f == Top
  <2>1. h \in Nat /\ f.kids \in Seq(Trees[h]) /\ f.kind \in FrameKinds /\ Closed(f) \in Trees[h]
    BY <1>2, <1>5, <1>7, <1>8
  <2>2. Amount(w, h)[Closed(f)] = Plus(w, Held(w, h, f), Late(w, f.kind))
    BY <2>1, ClosedAmount
  <2>3. Late(w, f.kind) = None(w)
    BY <1>1 DEF Late, LateKinds
  <2>4. Held(w, h, f) = Stock(w, h, stack)
    <3>1. Stock(w, h, <<f>>) = Held(w, h, f)
      BY <2>1, StockOne
    <3>. QED
      BY <1>4, <3>1
  <2>5. Plus(w, Stock(w, h, stack), None(w)) = Stock(w, h, stack)
    BY <1>2, PlusNone
  <2>. QED
    BY <1>5, <2>2, <2>3, <2>4, <2>5
<1>10. CASE cursor' = cursor /\ Current(cursor) = "EOF"
  BY <1>1, <1>7, <1>9, <1>10
<1>11. CASE cursor' = Fail(cursor)
  <2>1. cursor'.err # 0 /\ cursor'.src = cursor.src /\ cursor'.pos = cursor.pos
    BY <1>2, <1>11, FailGoesOn DEF Onward
  <2>. QED
    BY <1>1, <1>7, <1>9, <2>1
<1>. QED
  BY <1>1, <1>10, <1>11

\* A trip keeps what the stack tells of the text.
LEMMA MovedTells ==
  ASSUME IInv, Onward(cursor, cursor'), Told(cursor, stack), NEW n, NEW t, Moved(n, t)
  PROVE  Framed(cursor'.pos, stack') /\ Told(cursor', stack')
<1>1. CASE cursor'.err = 0
  <2>1. cursor.err = 0 /\ IsCursor(cursor)
    BY <1>1, NoErrorBefore DEF IInv
  <2>2. ~AfterRole(cursor)
    BY <2>1 DEF Told
  <2>3. /\ ~AfterRole(cursor')
        /\ \A w \in ToldWords : Adds(w, Span(w, cursor.src, cursor.pos, cursor'.pos))
    BY <1>1, <2>2 DEF Moved
  <2>. QED
    BY <1>1, <2>1, <2>3, ToldAfter DEF Moved
<1>2. CASE cursor'.err # 0
  BY <1>2 DEF Told, Moved
<1>. QED
  BY <1>1, <1>2

LEMMA StillTells ==
  ASSUME Still, Told(cursor, stack)
  PROVE  Told(cursor', stack')
BY DEF Still, Told

LEMMA TripTells ==
  ASSUME IInv, Framed(cursor.pos, stack), Told(cursor, stack), Next
  PROVE  \/ Framed(cursor'.pos, stack') /\ Told(cursor', stack')
         \/ EndOfProgram \/ RejectToken
<1>1. Onward(cursor, cursor')
  BY TripEffect
<1>2. CASE SimpleStatement
  <2>1. \/ Still /\ Framed(cursor'.pos, stack')
        \/ \E n, t : Moved(n, t)
    BY <1>2, SimpleStatementMoves
  <2>. QED
    BY <1>1, <2>1, MovedTells, StillTells
<1>3. CASE OpenBlock
  BY <1>1, <1>3, OpenBlockMoves, MovedTells
<1>4. CASE CloseBlock \/ CloseSingle \/ FinishFunction
  BY <1>1, <1>4, CloseMoves, MovedTells
<1>5. CASE CloseRegister \/ ClosePeripheral
  BY <1>1, <1>5, CloseMoves, MovedTells
<1>6. CASE ParseFunction
  BY <1>1, <1>6, ParseFunctionMoves, MovedTells
<1>7. CASE ParsePeripheral
  BY <1>1, <1>7, ParsePeripheralMoves, MovedTells
<1>8. CASE ParseRegister
  BY <1>1, <1>8, ParseRegisterMoves, MovedTells
<1>9. CASE ParseField
  BY <1>1, <1>9, ParseFieldMoves, MovedTells, StillTells
<1>. QED
  BY <1>2, <1>3, <1>4, <1>5, <1>6, <1>7, <1>8, <1>9 DEF Next

\* What all that is under construction has below it, and what a program that is
\* accepted has, is what the text has so far.
Kept ==
  /\ cursor.src \in Inputs
  /\ ~Done => Framed(cursor.pos, stack) /\ Told(cursor, stack)
  /\ Done /\ cursor.err = 0 =>
       /\ Current(cursor) = "EOF" /\ program \in Trees[Tall]
       /\ \A w \in ToldWords : Amount(w, Tall)[program] = Span(w, cursor.src, 1, cursor.pos)

LEMMA ProgramBegins ==
  ASSUME NEW tokens, NEW c, c = Start(tokens), Len(tokens) \in Nat, NEW s, s = <<Node("program", <<>>)>>
  PROVE  /\ Framed(c.pos, s)
         /\ \A w \in Words : Stock(w, Height(tokens), s) = HeldOwn(w, Node("program", <<>>))
         /\ Told(c, s)
<1>. DEFINE f == Node("program", <<>>)
            h == Height(tokens)
<1>1. \A T : IsFrame(f, T)
  <2>1. "program" \in FrameKinds /\ <<>> \in Heads("program")
    BY DEF FrameKinds, KidKinds, Heads
  <2>. QED
    BY <2>1, FrameBegins
<1>2. f.kind = "program" /\ f.kids = <<>>
  BY DEF Node
<1>. HIDE DEF f
<1>3. c.pos = 1 /\ c.src = tokens /\ h \in Nat
  BY DEF Start, Height
<1>4. Len(s) = 1 /\ s[1] = f
  BY OneListed DEF f
<1>5. Framed(c.pos, s)
  <2>1. Slack(c.pos, s) = 1
    BY <1>3, <1>4 DEF Slack
  <2>. QED
    BY <1>1, <1>4, <2>1 DEF Framed
<1>. HIDE DEF h
<1>6. ASSUME NEW w \in Words PROVE Stock(w, h, s) = HeldOwn(w, f)
  <2>1. f.kids \in Seq(Trees[h])
    BY <1>2, EmptySeq
  <2>2. Stock(w, h, <<f>>) = Held(w, h, f)
    BY <1>3, <2>1, StockOne
  <2>3. Held(w, h, f) = HeldOwn(w, f)
    BY <1>2, HeldAtFirst
  <2>. QED
    BY <2>2, <2>3 DEF f
<1>7. ASSUME NEW w \in ToldWords PROVE Stock(w, h, s) = Span(w, tokens, 1, 1)
  <2>1. Span(w, tokens, 1, 1) = None(w)
    BY SpanNone
  <2>2. HeldOwn(w, f) = None(w)
    BY <1>2 DEF HeldOwn, Own, ToldWords, DeviceWords, None, Counted
  <2>3. w \in Words
    BY DEF ToldWords, Words
  <2>. QED
    BY <1>6, <2>1, <2>2, <2>3
<1>8. Told(c, s)
  BY <1>3, <1>7 DEF Told, AfterRole, h
<1>. QED
  BY <1>5, <1>6, <1>8 DEF h, f

LEMMA KeptHolds == Spec => []Kept
<1>1. Init => Kept
  <2>. SUFFICES ASSUME Init PROVE Kept
    OBVIOUS
  <2>1. PICK tokens \in Inputs : cursor = Start(tokens)
    BY DEF Init
  <2>2. Len(tokens) \in Nat /\ cursor.src = tokens
    BY <2>1, InputsAssumption DEF Start
  <2>3. stack = <<Node("program", <<>>)>>
    BY DEF Init
  <2>4. stack # <<>>
    <3>. DEFINE f == Node("program", <<>>)
    <3>1. stack = <<f>>
      BY <2>3
    <3>. HIDE DEF f
    <3>. QED
      BY <3>1
  <2>. QED
    BY <2>1, <2>2, <2>3, <2>4, ProgramBegins DEF Kept, Done
<1>2. IInv /\ Kept /\ [Next]_vars => Kept'
  <2>. SUFFICES ASSUME IInv, Kept, [Next]_vars PROVE Kept'
    OBVIOUS
  <2>1. CASE Next
    <3>1. Onward(cursor, cursor') /\ IInv'
      BY <2>1, TripEffect
    <3>2. cursor'.src \in Inputs /\ cursor'.src = cursor.src
      BY <3>1 DEF Onward, Kept
    <3>3. ~Done
      BY <2>1 DEF Next, Done, SimpleStatement, InStatements, In, OpenBlock, CloseBlock,
         CloseSingle, ParseFunction, FinishFunction, ParsePeripheral, ParseRegister,
         ParseField, CloseRegister, ClosePeripheral, EndOfProgram, RejectToken
    <3>4. Framed(cursor.pos, stack) /\ Told(cursor, stack)
      BY <3>3 DEF Kept
    <3>5. CASE EndOfProgram \/ RejectToken
      <4>1. /\ program' \in Trees[Tall] /\ cursor'.src = cursor.src /\ cursor'.pos = cursor.pos
            /\ \A w \in Words : Amount(w, Tall)[program'] = Stock(w, Tall, stack)
            /\ cursor'.err = 0 => cursor'.err = cursor.err /\ Current(cursor') = "EOF"
            /\ stack' = <<>>
        BY <3>4, <3>5, EndMoves
      <4>2. Tall' = Tall
        BY <4>1 DEF Tall
      <4>3. ASSUME cursor'.err = 0, NEW w \in ToldWords
            PROVE  Amount(w, Tall)[program'] = Span(w, cursor.src, 1, cursor.pos)
        <5>1. w \in Words
          BY DEF ToldWords, Words
        <5>2. cursor.err = 0
          BY <4>1, <4>3
        <5>. QED
          BY <3>4, <4>1, <5>1, <5>2 DEF Told, Tall
      <4>. HIDE DEF Tall
      <4>. QED
        BY <3>2, <4>1, <4>2, <4>3 DEF Kept, Done
    <3>6. CASE Framed(cursor'.pos, stack') /\ Told(cursor', stack') /\ ~(EndOfProgram \/ RejectToken)
      <4>1. stack' # <<>>
        <5>1. program' = program
          BY <2>1, <3>6 DEF Next, SimpleStatement, OpenBlock, CloseBlock, CloseSingle,
             ParseFunction, FinishFunction, ParsePeripheral, ParseRegister, ParseField,
             CloseRegister, ClosePeripheral
        <5>. QED
          BY <3>1, <3>3, <5>1 DEF IInv, Done
      <4>. QED
        BY <3>2, <3>6, <4>1 DEF Kept, Done
    <3>. QED
      BY <2>1, <3>4, <3>5, <3>6, TripTells
  <2>2. CASE UNCHANGED vars
    BY <2>2 DEF vars, Kept, Done, Told, Tall
  <2>. QED
    BY <2>1, <2>2
<1>. QED
  BY <1>1, <1>2, InvariantHolds, PTL DEF Spec

\* In every program that is accepted, however long it is and whatever it mixes,
\* each name, each literal and each type of a declaration is in the tree, in the
\* role that the text has it in, once and in the order of the text: what the
\* grammar functions build and hand to the ast_*_add_* calls is all of what they
\* consume.
THEOREM NothingIsLost == Spec => []NothingLost
<1>1. IInv /\ Kept => NothingLost
  <2>. SUFFICES ASSUME IInv, Kept, Accepted
                PROVE  Frontier(Height(cursor.src), program) =
                         Referred(cursor.src, 1, Len(cursor.src) + 1)
    BY DEF NothingLost
  <2>1. /\ Current(cursor) = "EOF" /\ program \in Trees[Tall]
        /\ \A w \in ToldWords : Amount(w, Tall)[program] = Span(w, cursor.src, 1, cursor.pos)
    BY DEF Accepted, Kept
  <2>2. /\ cursor.src \in Seq(STRING \ {"EOF"}) /\ Len(cursor.src) \in Nat
        /\ cursor.pos \in 1..Len(cursor.src) + 1
    BY InputsAssumption DEF Kept, IInv, IsCursor
  <2>3. cursor.pos = Len(cursor.src) + 1
    BY <2>1, <2>2 DEF Current
  <2>4. Tall \in Nat
    BY <2>2 DEF Tall, Height
  <2>5. Frontier(Tall, program) = Amount("refs", Tall)[program]
    BY <2>1, <2>4, WalkedAmounts
  <2>6. Amount("refs", Tall)[program] = Span("refs", cursor.src, 1, cursor.pos)
    BY <2>1 DEF ToldWords
  <2>7. Span("refs", cursor.src, 1, cursor.pos) = Referred(cursor.src, 1, cursor.pos)
    BY MadeIsSpan
  <2>. QED
    BY <2>3, <2>5, <2>6, <2>7 DEF Tall
<1>. QED
  BY <1>1, InvariantHolds, KeptHolds, PTL

-----------------------------------------------------------------------------
(* What is below what *)

\* A peripheral has registers below it, a register fields, a program functions
\* and peripherals.
IsRegister(n)   == n.kind = "register" /\ \A k \in 1..Len(n.kids) : n.kids[k].kind = "field"
IsPeripheral(n) == n.kind = "peripheral" /\ \A k \in 1..Len(n.kids) : IsRegister(n.kids[k])

Belongs(kind, n) ==
  /\ kind = "program"    => n.kind = "function" \/ IsPeripheral(n)
  /\ kind = "peripheral" => IsRegister(n)
  /\ kind = "register"   => n.kind = "field"

Ordered(f) == \A k \in 1..Len(f.kids) : Belongs(f.kind, f.kids[k])
Shaped(s)  == \A i \in 1..Len(s) : Ordered(s[i])

LEMMA OrderedEmpty ==
  ASSUME NEW f, f.kids = <<>>
  PROVE  Ordered(f)
BY EmptyListed DEF Ordered

LEMMA ShapedPush ==
  ASSUME NEW s, Listed(s), Shaped(s), NEW g, g.kids = <<>>
  PROVE  Shaped(<<g>> \o s)
<1>. DEFINE t == <<g>> \o s
<1>1. Len(t) = Len(s) + 1 /\ t[1] = g /\ Len(s) \in Nat /\ \A i \in 1..Len(s) : t[i + 1] = s[i]
  BY PushEffect DEF Listed
<1>. HIDE DEF t
<1>2. ASSUME NEW i \in 1..Len(t) PROVE Ordered(t[i])
  <2>1. CASE i = 1
    BY <1>1, <2>1, OrderedEmpty
  <2>2. CASE i # 1
    <3>1. i - 1 \in 1..Len(s) /\ (i - 1) + 1 = i
      BY <1>1, <2>2
    <3>2. t[(i - 1) + 1] = s[i - 1]
      BY <1>1, <3>1
    <3>. QED
      BY <3>1, <3>2 DEF Shaped
  <2>. QED
    BY <2>1, <2>2
<1>. QED
  BY <1>2 DEF Shaped, t

LEMMA OrderedReceived ==
  ASSUME NEW f, Listed(f.kids), Ordered(f), NEW n, Belongs(f.kind, n)
  PROVE  Ordered(Received(f, n))
<1>. DEFINE g == Received(f, n)
<1>1. g.kind = f.kind /\ g.kids = Append(f.kids, n)
  BY DEF Received, With
<1>2. /\ Len(g.kids) = Len(f.kids) + 1 /\ g.kids[Len(f.kids) + 1] = n /\ Len(f.kids) \in Nat
      /\ \A k \in 1..Len(f.kids) : g.kids[k] = f.kids[k]
  BY <1>1, AppendEffect, AppendElements DEF Listed
<1>. HIDE DEF g
<1>3. ASSUME NEW k \in 1..Len(g.kids) PROVE Belongs(g.kind, g.kids[k])
  <2>1. k = Len(f.kids) + 1 \/ k \in 1..Len(f.kids)
    BY <1>2
  <2>. QED
    BY <1>1, <1>2, <2>1 DEF Ordered
<1>. QED
  BY <1>3 DEF Ordered, g

LEMMA ShapedGive ==
  ASSUME NEW s, Stacked(s), s # <<>>, Shaped(s), NEW n, Belongs(s[1].kind, n)
  PROVE  Shaped(Give(n, s))
<1>. DEFINE t == Give(n, s)
<1>1. /\ Len(t) = Len(s) /\ Len(s) >= 1 /\ t[1] = Received(s[1], n)
      /\ \A i \in 2..Len(s) : t[i] = s[i]
  BY GiveFrames
<1>. HIDE DEF t
<1>2. Len(s) \in Nat /\ Listed(s[1].kids) /\ Ordered(s[1])
  <2>1. Len(s) \in Nat
    BY DEF Stacked, Listed
  <2>2. 1 \in 1..Len(s)
    BY <1>1, <2>1
  <2>. QED
    BY <2>1, <2>2 DEF Stacked, Fits, Shaped
<1>3. Ordered(t[1])
  BY <1>1, <1>2, OrderedReceived
<1>4. ASSUME NEW i \in 2..Len(s) PROVE Ordered(t[i])
  <2>1. i \in 1..Len(s) /\ t[i] = s[i]
    BY <1>1
  <2>. QED
    BY <2>1 DEF Shaped
<1>5. \A i \in 1..Len(t) : i = 1 \/ i \in 2..Len(s)
  BY <1>1, <1>2
<1>. QED
  BY <1>3, <1>4, <1>5 DEF Shaped, t

\* What a function returns belongs below its caller's node.
LEMMA CalleeBelongs ==
  ASSUME NEW s, Stacked(s), Len(s) > 1, Shaped(s)
  PROVE  Belongs(s[2].kind, Closed(s[1]))
<1>1. Len(s) \in Nat /\ 1 \in 1..Len(s) - 1
  BY DEF Stacked, Listed
<1>2. <<s[1 + 1].kind, s[1].kind>> \in Calls
  BY <1>1 DEF Stacked
<1>3. Ordered(s[1])
  BY <1>1 DEF Shaped
<1>. DEFINE f == s[1]
            n == Closed(f)
<1>4. n.kids = f.kids /\ n.kind = IF f.kind = "single" THEN "block" ELSE f.kind
  BY DEF Closed
<1>. HIDE DEF n
<1>5. <<s[2].kind, f.kind>> \in Calls /\ Ordered(f)
  BY <1>2, <1>3
<1>. DEFINE c == s[2].kind
<1>. HIDE DEF f, c
<1>6. /\ c = "program" => f.kind \in {"peripheral", "function"}
      /\ c = "peripheral" => f.kind = "register"
      /\ c # "register"
  BY <1>5 DEF Calls, c
<1>7. f.kind = "register" => IsRegister(n)
  BY <1>4, <1>5 DEF IsRegister, Ordered, Belongs
<1>8. f.kind = "peripheral" => IsPeripheral(n)
  BY <1>4, <1>5 DEF IsPeripheral, Ordered, Belongs
<1>9. f.kind = "function" => n.kind = "function"
  BY <1>4
<1>. QED
  BY <1>6, <1>7, <1>8, <1>9 DEF Belongs, n, f, c

LEMMA ShapedReturn ==
  ASSUME NEW s, Stacked(s), Len(s) > 1, Shaped(s)
  PROVE  Shaped(Give(Closed(s[1]), Tail(s)))
<1>. DEFINE n == Closed(s[1])
            t == Give(n, Tail(s))
<1>1. Belongs(s[2].kind, n)
  BY CalleeBelongs
<1>. HIDE DEF n
<1>2. /\ Len(t) = Len(s) - 1 /\ t[1] = Received(s[2], n)
      /\ \A i \in 2..Len(s) - 1 : t[i] = s[i + 1]
  BY ReturnFrames
<1>. HIDE DEF t
<1>3. Len(s) \in Nat
  BY DEF Stacked, Listed
<1>4. 2 \in 1..Len(s)
  BY <1>3
<1>5. Listed(s[2].kids) /\ Ordered(s[2])
  BY <1>4 DEF Stacked, Fits, Shaped
<1>6. Ordered(t[1])
  BY <1>1, <1>2, <1>5, OrderedReceived
<1>7. ASSUME NEW i \in 2..Len(s) - 1 PROVE Ordered(t[i])
  <2>1. i + 1 \in 1..Len(s) /\ t[i] = s[i + 1]
    BY <1>2, <1>3
  <2>. QED
    BY <2>1 DEF Shaped
<1>8. \A i \in 1..Len(t) : i = 1 \/ i \in 2..Len(s) - 1
  BY <1>2, <1>3
<1>. QED
  BY <1>6, <1>7, <1>8 DEF Shaped, t, n

\* Every trip keeps it so.
LEMMA TripShapes ==
  ASSUME IInv, Framed(cursor.pos, stack), Shaped(stack), Next
  PROVE  Shaped(stack')
<1>1. stack # <<>>
  BY DEF Next, SimpleStatement, InStatements, In, OpenBlock, CloseBlock,
     CloseSingle, ParseFunction, FinishFunction, ParsePeripheral, ParseRegister,
     ParseField, CloseRegister, ClosePeripheral, EndOfProgram, RejectToken
<1>2. Stacked(stack) /\ Listed(stack) /\ Top = stack[1] /\ Len(stack) \in Nat /\ Len(stack) >= 1
  BY <1>1, StackFacts DEF IInv
<1>3. CASE \E n : stack' = Give(n, stack) /\ Top.kind \in {"block", "single"}
  <2>1. PICK n : stack' = Give(n, stack) /\ stack[1].kind \in {"block", "single"}
    BY <1>2, <1>3
  <2>2. Belongs(stack[1].kind, n)
    BY <2>1 DEF Belongs
  <2>. QED
    BY <1>1, <1>2, <2>1, <2>2, ShapedGive
<1>4. CASE \E n : /\ stack' = Give(n, stack)
                  /\ \/ Top.kind = "register" /\ n.kind = "field"
                     \/ Top.kind = "program" /\ n.kind = "function"
  <2>1. PICK n : /\ stack' = Give(n, stack)
                 /\ \/ stack[1].kind = "register" /\ n.kind = "field"
                    \/ stack[1].kind = "program" /\ n.kind = "function"
    BY <1>2, <1>4
  <2>2. Belongs(stack[1].kind, n)
    BY <2>1 DEF Belongs
  <2>. QED
    BY <1>1, <1>2, <2>1, <2>2, ShapedGive
<1>5. CASE \E kind, head : stack' = <<Node(kind, head)>> \o stack
  <2>1. PICK kind, head : stack' = <<Node(kind, head)>> \o stack
    BY <1>5
  <2>2. Node(kind, head).kids = <<>>
    BY DEF Node
  <2>. QED
    BY <1>2, <2>1, <2>2, ShapedPush
<1>6. CASE \E kind, head, f : stack' = <<Node(kind, head), f>> \o stack /\ f.kids = <<>>
  <2>1. PICK kind, head, f : stack' = <<Node(kind, head), f>> \o stack /\ f.kids = <<>>
    BY <1>6
  <2>. DEFINE g == Node(kind, head)
              mid == <<f>> \o stack
  <2>2. g.kids = <<>> /\ stack' = <<g>> \o mid
    <3>1. g.kids = <<>> /\ stack' = <<g, f>> \o stack
      BY <2>1 DEF Node
    <3>. HIDE DEF g
    <3>. QED
      BY <1>2, <3>1, PushTwice
  <2>. HIDE DEF g
  <2>3. Shaped(mid) /\ Listed(mid)
    BY <1>2, <2>1, ShapedPush, PushEffect
  <2>. HIDE DEF mid
  <2>. QED
    BY <2>2, <2>3, ShapedPush
<1>7. CASE stack' = Give(Closed(Top), Tail(stack)) /\ Top.kind # "program"
  <2>1. Len(stack) > 1
    <3>1. Len(stack) # 0 => stack[Len(stack)].kind = "program"
      BY <1>2 DEF Stacked
    <3>. QED
      BY <1>2, <1>7, <3>1
  <2>2. stack' = Give(Closed(stack[1]), Tail(stack))
    BY <1>2, <1>7
  <2>. HIDE DEF Top
  <2>. QED
    BY <1>2, <2>1, <2>2, ShapedReturn
<1>8. CASE stack' = stack \/ stack' = <<>>
  BY <1>8, EmptyListed DEF Shaped
<1>9. CASE SimpleStatement
  <2>1. Top.kind \in {"block", "single"}
    BY <1>9 DEF SimpleStatement, InStatements, In
  <2>2. stack' = stack \/ \E n : stack' = Give(n, stack)
    BY <1>9 DEF SimpleStatement, Makes, Step
  <2>. QED
    BY <1>3, <1>8, <2>1, <2>2
<1>10. CASE ParseField
  <2>1. Top.kind = "register"
    BY <1>10 DEF ParseField, In
  <2>2. stack' = stack \/ \E n : stack' = Give(n, stack) /\ n.kind = "field"
    BY <1>10 DEF ParseField, Makes, Step, Result
  <2>. QED
    BY <1>4, <1>8, <2>1, <2>2
<1>11. CASE ParseFunction
  <2>. DEFINE f == Signature(cursor).node
  <2>1. f.kids = <<>> /\ f.kind = "function"
    BY DEF Signature, Result, Node
  <2>2. /\ Top.kind = "program"
        /\ \/ \E body : stack' = <<Node(body, <<>>), f>> \o stack
           \/ stack' = Give(With(f, <<Node("block", <<>>)>>), stack)
    BY <1>11 DEF ParseFunction, Step, In
  <2>3. With(f, <<Node("block", <<>>)>>).kind = "function"
    BY <2>1 DEF With
  <2>. HIDE DEF f
  <2>. QED
    BY <1>4, <1>6, <2>1, <2>2, <2>3
<1>12. CASE OpenBlock \/ ParsePeripheral \/ ParseRegister
  BY <1>5, <1>12 DEF OpenBlock, ParsePeripheral, ParseRegister, Step
<1>13. CASE CloseBlock \/ FinishFunction \/ CloseRegister \/ ClosePeripheral
  <2>1. stack' = Give(Top, Tail(stack)) /\ Top.kind \notin {"single", "program"}
    BY <1>13 DEF CloseBlock, FinishFunction, CloseRegister, ClosePeripheral, In, Step
  <2>. QED
    BY <1>1, <1>7, <2>1, TopClosed
<1>14. CASE CloseSingle
  <2>1. stack' = Give(Closed(Top), Tail(stack)) /\ Top.kind = "single"
    BY <1>14 DEF CloseSingle, In, Step, Closed
  <2>. QED
    BY <1>7, <2>1
<1>15. CASE EndOfProgram \/ RejectToken
  BY <1>8, <1>15 DEF EndOfProgram, RejectToken, Step
<1>. QED
  BY <1>9, <1>10, <1>11, <1>12, <1>13, <1>14, <1>15 DEF Next

-----------------------------------------------------------------------------
(* Counts *)

\* What lists have behind each other is as long as they are together.
LEMMA LengthOfAll ==
  ASSUME NEW s, Listed(s), \A k \in 1..Len(s) : Listed(s[k])
  PROVE  Len(FlattenSeq(s)) = Total([k \in 1..Len(s) |-> Len(s[k])])
<1>. DEFINE n == Len(s)
            l == [k \in 1..n |-> Len(s[k])]
<1>1. n \in Nat /\ \A k \in 1..n : Len(s[k]) \in Nat
  BY DEF Listed
<1>2. l = [k \in 1..n |-> l[k]] /\ \A k \in 1..n : l[k] = Len(s[k])
  OBVIOUS
<1>3. Amounts("refs", s)
  BY DEF Amounts, IsAmount, Counted
<1>4. PICK u : Sums("refs", s, u)
  BY <1>3, SumsExist
<1>. DEFINE v == [k \in 0..n |-> Len(u[k])]
<1>5. \A k \in 0..n : v[k] = Len(u[k])
  OBVIOUS
<1>. HIDE DEF l, v
<1>6. Listed(l) /\ Len(l) = n
  BY <1>1, <1>2, ListOf
<1>7. Amounts("functions", l)
  BY <1>1, <1>2, <1>6 DEF Amounts, IsAmount, Counted
<1>8. u[0] = <<>> /\ v[0] = 0
  BY <1>1, <1>4, <1>5, EmptyListed DEF Sums, None, Counted
<1>9. ASSUME NEW k \in 1..n PROVE v[k] = v[k - 1] + l[k] /\ v[k] \in Nat
  <2>1. k - 1 \in 0..n /\ k \in 0..n /\ (k - 1 = 0 \/ k - 1 \in 1..n)
    BY <1>1
  <2>2. u[k] = u[k - 1] \o s[k] /\ Listed(u[k])
    BY <1>4 DEF Sums, Plus, IsAmount, Counted
  <2>3. Listed(u[k - 1])
    BY <1>4, <1>8, <2>1, EmptyListed DEF Sums, IsAmount, Counted
  <2>4. Len(u[k]) = Len(u[k - 1]) + Len(s[k]) /\ Len(u[k]) \in Nat
    BY <2>2, <2>3, ConcatEffect DEF Listed
  <2>. QED
    BY <1>2, <1>5, <2>1, <2>4
<1>10. Sums("functions", l, v)
  BY <1>6, <1>8, <1>9 DEF Sums, None, Plus, IsAmount, Counted
<1>11. All("functions", l) = v[n] /\ All("refs", s) = u[n]
  BY <1>3, <1>4, <1>6, <1>7, <1>10, AllIsLast
<1>12. v[n] = Len(u[n])
  BY <1>1, <1>5
<1>. QED
  BY <1>11, <1>12 DEF All, Counted, l

\* The functions of a program.
LEMMA FunctionsCounted ==
  ASSUME NEW h \in Nat, NEW n \in Trees[h], n.kind = "program", Ordered(n)
  PROVE  Amount("functions", h)[n] = Len(OfKind(n.kids, "function"))
<1>. DEFINE m == Amount("functions", h)
            kids == n.kids
            s == [k \in 1..Len(kids) |-> IF kids[k].kind = "function" THEN <<kids[k]>> ELSE <<>>]
<1>1. kids \in Seq(Trees[h])
  <2>1. n \in Trees[h + 1] /\ h + 1 \in Nat
    BY TreesGrow
  <2>2. n \in Leaves \cup Above(Trees[h])
    BY <2>1, TreesEquation
  <2>. QED
    BY <2>2, NodeShapes DEF KidKinds
<1>2. Len(kids) \in Nat /\ \A k \in 1..Len(kids) : kids[k] \in Trees[h]
  BY <1>1
<1>3. \A k \in 1..Len(kids) : m[kids[k]] = IF kids[k].kind = "function" THEN 1 ELSE 0
  <2>. SUFFICES ASSUME NEW k \in 1..Len(kids)
                PROVE  m[kids[k]] = IF kids[k].kind = "function" THEN 1 ELSE 0
    OBVIOUS
  <2>1. kids[k].kind # "program"
    BY DEF Ordered, Belongs, IsPeripheral
  <2>2. "functions" \notin Both /\ Outer("functions") = {"program"}
    BY DEF Both, Outer
  <2>3. m[kids[k]] = Own("functions", kids[k])
    BY <1>2, <2>1, <2>2, OwnOnly
  <2>. QED
    BY <2>3 DEF Own
<1>4. m[n] = Below("functions", m, kids)
  <2>1. m[n] = Meas("functions", m, n) /\ IsAmount("functions", m[n])
    BY AmountEquation
  <2>2. Own("functions", n) = 0
    BY DEF Own
  <2>3. Parts("functions", n) = kids
    BY DEF Parts, Outer
  <2>4. \A t \in Trees[h] : IsAmount("functions", m[t])
    BY AmountEquation
  <2>. HIDE DEF m, kids
  <2>5. IsAmount("functions", Below("functions", m, kids))
    BY <1>1, <2>4, BelowAmount
  <2>6. Plus("functions", 0, Below("functions", m, kids)) = Below("functions", m, kids)
    BY <2>5 DEF Plus, IsAmount, Counted
  <2>. QED
    BY <2>1, <2>2, <2>3, <2>6 DEF Meas
<1>5. /\ s = [k \in 1..Len(kids) |-> s[k]]
      /\ \A k \in 1..Len(kids) : s[k] = IF kids[k].kind = "function" THEN <<kids[k]>> ELSE <<>>
  OBVIOUS
<1>6. OfKind(kids, "function") = FlattenSeq(s)
  BY DEF OfKind
<1>. HIDE DEF s, m, kids
<1>7. Listed(s) /\ Len(s) = Len(kids)
  BY <1>2, <1>5, ListOf
<1>8. \A k \in 1..Len(s) : Listed(s[k]) /\ Len(s[k]) = m[kids[k]]
  <2>. SUFFICES ASSUME NEW k \in 1..Len(s) PROVE Listed(s[k]) /\ Len(s[k]) = m[kids[k]]
    OBVIOUS
  <2>1. k \in 1..Len(kids)
    BY <1>7
  <2>2. CASE kids[k].kind = "function"
    BY <1>3, <1>5, <2>1, <2>2, OneListed
  <2>3. CASE kids[k].kind # "function"
    BY <1>3, <1>5, <2>1, <2>3, EmptyListed
  <2>. QED
    BY <2>2, <2>3
<1>9. Len(FlattenSeq(s)) = Total([k \in 1..Len(s) |-> Len(s[k])])
  BY <1>7, <1>8, LengthOfAll
<1>10. [k \in 1..Len(s) |-> Len(s[k])] = [k \in 1..Len(kids) |-> m[kids[k]]]
  BY <1>7, <1>8
<1>11. Below("functions", m, kids) = Total([k \in 1..Len(kids) |-> m[kids[k]]])
  BY DEF Below, All, Counted
<1>. QED
  BY <1>4, <1>6, <1>9, <1>10, <1>11 DEF m, kids

\* Where a let or var is before a place.
LetsBefore(src, p) == {k \in 1..Len(src) : k < p /\ src[k] \in {"LET", "VAR"}}
Lets(c) == Cardinality(LetsBefore(c.src, c.pos))

LEMMA LetsGrow ==
  ASSUME NEW c, IsCursor(c), NEW d, Onward(c, d)
  PROVE  /\ Lets(c) \in Nat /\ Lets(d) \in Nat /\ Lets(c) <= Lets(d)
         /\ c.pos < d.pos /\ Current(c) \in {"LET", "VAR"} => Lets(c) + 1 <= Lets(d)
         /\ Lets(d) <= Cardinality({k \in 1..Len(c.src) : c.src[k] \in {"LET", "VAR"}})
<1>. DEFINE src == c.src
            n == Len(src)
            A == LetsBefore(src, c.pos)
            B == LetsBefore(src, d.pos)
            C == {k \in 1..n : src[k] \in {"LET", "VAR"}}
<1>1. /\ n \in Nat /\ c.pos \in Nat /\ c.pos >= 1 /\ d.pos \in Nat /\ c.pos <= d.pos /\ d.src = src
  BY CursorFacts DEF Onward
<1>2. A \subseteq B /\ B \subseteq C /\ C \subseteq 1..n
  BY <1>1 DEF LetsBefore
<1>3. ASSUME c.pos < d.pos, Current(c) \in {"LET", "VAR"}
      PROVE  c.pos \in B /\ c.pos \notin A
  <2>1. c.pos <= n /\ src[c.pos] \in {"LET", "VAR"}
    BY <1>3 DEF Current
  <2>. QED
    BY <1>1, <1>3, <2>1 DEF LetsBefore
<1>4. Lets(c) = Cardinality(A) /\ Lets(d) = Cardinality(B)
  BY <1>1 DEF Lets
<1>. HIDE DEF A, B, C, n
<1>5. IsFiniteSet(1..n)
  BY <1>1, FS_Interval
<1>6. IsFiniteSet(C)
  BY <1>2, <1>5, FS_Subset
<1>7. IsFiniteSet(B) /\ Cardinality(B) <= Cardinality(C)
  BY <1>2, <1>6, FS_Subset
<1>8. IsFiniteSet(A) /\ Cardinality(A) <= Cardinality(B)
  BY <1>2, <1>7, FS_Subset
<1>9. Cardinality(A) \in Nat /\ Cardinality(B) \in Nat
  BY <1>7, <1>8, FS_CardinalityType
<1>10. ASSUME c.pos < d.pos, Current(c) \in {"LET", "VAR"}
       PROVE  Cardinality(A) + 1 <= Cardinality(B)
  <2>1. A \cup {c.pos} \subseteq B /\ c.pos \notin A
    BY <1>2, <1>3, <1>10
  <2>2. Cardinality(A \cup {c.pos}) = Cardinality(A) + 1
    BY <1>8, <2>1, FS_AddElement
  <2>3. Cardinality(A \cup {c.pos}) <= Cardinality(B)
    BY <1>7, <2>1, FS_Subset
  <2>. QED
    BY <2>2, <2>3
<1>11. Cardinality(C) = Cardinality({k \in 1..Len(c.src) : c.src[k] \in {"LET", "VAR"}})
  BY DEF C, n
<1>. QED
  BY <1>4, <1>7, <1>8, <1>9, <1>10, <1>11

-----------------------------------------------------------------------------
(* What is made, and what it is kept in *)

\* Every object is in something under construction, and every Type but those of
\* declarations that were given up.
Balance(c, s, made, owned) ==
  /\ made = Stock("objects", Height(c.src), s)
  /\ \E g \in Nat :
       /\ owned = (Stock("types", Height(c.src), s) + Stock("functions", Height(c.src), s)) + g
       /\ g <= Lets(c) /\ (c.err = 0 => g = 0)

LEMMA MovedBalances ==
  ASSUME IInv, Framed(cursor.pos, stack), stack # <<>>, Onward(cursor, cursor'),
         Balance(cursor, stack, objects, types),
         NEW n, NEW t \in Nat, NEW m, Moved(n, t), objects' = objects + n, types' = types + m,
         \/ m = t
         \/ /\ m = t + 1 /\ cursor'.err # 0 /\ cursor.pos < cursor'.pos
            /\ Current(cursor) \in {"LET", "VAR"}
  PROVE  Balance(cursor', stack', objects', types')
<1>. DEFINE made(s)  == Stock("objects", Tall, s)
            owned(s) == Stock("types", Tall, s) + Stock("functions", Tall, s)
<1>1. Height(cursor'.src) = Tall /\ Height(cursor.src) = Tall
  BY DEF Onward, Tall
<1>2. owned(stack) \in Nat
  <2>1. Stock("types", Tall, stack) \in Nat /\ Stock("functions", Tall, stack) \in Nat
    BY StackFacts DEF IsAmount, Counted
  <2>. QED
    BY <2>1
<1>3. made(stack') = made(stack) + n /\ owned(stack') = owned(stack) + t
  BY DEF Moved, Makes2
<1>4. /\ Lets(cursor) \in Nat /\ Lets(cursor') \in Nat /\ Lets(cursor) <= Lets(cursor')
      /\ cursor.pos < cursor'.pos /\ Current(cursor) \in {"LET", "VAR"}
            => Lets(cursor) + 1 <= Lets(cursor')
  BY LetsGrow DEF IInv
<1>5. cursor'.err = 0 => cursor.err = 0
  BY NoErrorBefore
<1>6. PICK g \in Nat : types = owned(stack) + g /\ g <= Lets(cursor) /\ (cursor.err = 0 => g = 0)
  BY <1>1 DEF Balance
<1>7. objects' = made(stack')
  BY <1>1, <1>3 DEF Balance
<1>. HIDE DEF made, owned
<1>8. CASE m = t
  <2>1. types' = owned(stack') + g /\ g <= Lets(cursor') /\ (cursor'.err = 0 => g = 0)
    BY <1>2, <1>3, <1>4, <1>5, <1>6, <1>8
  <2>. QED
    BY <1>1, <1>7, <2>1 DEF Balance, made, owned
<1>9. CASE /\ m = t + 1 /\ cursor'.err # 0 /\ cursor.pos < cursor'.pos
           /\ Current(cursor) \in {"LET", "VAR"}
  <2>1. /\ types' = owned(stack') + (g + 1) /\ g + 1 <= Lets(cursor') /\ g + 1 \in Nat
        /\ cursor'.err # 0
    BY <1>2, <1>3, <1>4, <1>6, <1>9
  <2>. QED
    BY <1>1, <1>7, <2>1 DEF Balance, made, owned
<1>. QED
  BY <1>8, <1>9

\* The stack is another one when something is stored in it.
LEMMA GiveDiffers ==
  ASSUME NEW s, Stacked(s), s # <<>>, NEW n
  PROVE  /\ Give(n, s) # s
         /\ Head(Give(n, s)).kids[Len(Head(Give(n, s)).kids)] = n
<1>. DEFINE t == Give(n, s)
            kids == s[1].kids
<1>1. Len(t) = Len(s) /\ Len(s) >= 1 /\ t[1] = Received(s[1], n) /\ Head(s) = s[1]
  BY GiveFrames
<1>2. Len(s) \in Nat /\ Listed(s)
  BY DEF Stacked, Listed
<1>3. Listed(kids)
  <2>1. 1 \in 1..Len(s)
    BY <1>1, <1>2
  <2>. QED
    BY <2>1 DEF Stacked, Fits
<1>4. Head(t) = t[1]
  <2>1. t = <<With(Head(s), Append(Head(s).kids, n))>> \o Tail(s)
    BY DEF Give
  <2>2. Listed(Tail(s))
    BY <1>2, TailEffect
  <2>. HIDE DEF t
  <2>3. Listed(t)
    BY <2>1, <2>2, PushEffect
  <2>4. t # <<>>
    BY <1>1, <1>2, EmptyListed
  <2>. QED
    BY <2>3, <2>4, TailEffect
<1>5. t[1].kids = Append(kids, n)
  BY <1>1 DEF Received, With
<1>. HIDE DEF t, kids
<1>6. Len(Append(kids, n)) = Len(kids) + 1 /\ Len(kids) \in Nat /\ Append(kids, n)[Len(kids) + 1] = n
  BY <1>3, AppendEffect, AppendElements DEF Listed
<1>7. t # s
  <2>. SUFFICES ASSUME t = s PROVE FALSE
    OBVIOUS
  <2>1. Len(t[1].kids) = Len(kids)
    BY DEF kids
  <2>. QED
    BY <1>5, <1>6, <2>1
<1>. QED
  BY <1>4, <1>5, <1>6, <1>7 DEF t

LEMMA ReturnDiffers ==
  ASSUME NEW s, Stacked(s), Len(s) > 1, NEW n
  PROVE  Give(n, Tail(s)) # s
<1>1. Len(Give(n, Tail(s))) = Len(s) - 1 /\ Len(s) \in Nat
  BY ReturnFrames DEF Stacked, Listed
<1>2. Len(Give(n, Tail(s))) # Len(s)
  BY <1>1
<1>. QED
  BY <1>2, Zenon

LEMMA StatementBalances ==
  ASSUME IInv, Framed(cursor.pos, stack), Balance(cursor, stack, objects, types),
         SimpleStatement, MakeStatement
  PROVE  Balance(cursor', stack', objects', types')
<1>1. stack # <<>> /\ Stacked(stack) /\ Onward(cursor, cursor')
  BY TripEffect DEF SimpleStatement, InStatements, In, IInv, Next
<1>2. CASE Still
  <2>1. UNCHANGED <<cursor, stack>>
    BY <1>2 DEF Still
  <2>2. UNCHANGED <<objects, types>>
    BY <2>1 DEF MakeStatement, Made
  <2>. QED
    BY <2>1, <2>2
<1>3. CASE \E r : /\ stack' = Give(r.node, stack) /\ cursor' = r.c
                  /\ \E t \in Nat : /\ Moved(MadeObjects(cursor, r), t)
                                    /\ \/ MadeTypes(cursor, r) = t
                                       \/ /\ MadeTypes(cursor, r) = t + 1
                                          /\ cursor'.err # 0 /\ cursor.pos < cursor'.pos
                                          /\ Current(cursor) \in {"LET", "VAR"}
  <2>1. PICK r : /\ stack' = Give(r.node, stack) /\ cursor' = r.c
                 /\ \E t \in Nat : /\ Moved(MadeObjects(cursor, r), t)
                                   /\ \/ MadeTypes(cursor, r) = t
                                      \/ /\ MadeTypes(cursor, r) = t + 1
                                         /\ cursor'.err # 0 /\ cursor.pos < cursor'.pos
                                         /\ Current(cursor) \in {"LET", "VAR"}
    BY <1>3
  <2>2. /\ stack' # stack
        /\ Head(stack').kids[Len(Head(stack').kids)] = r.node
    BY <1>1, <2>1, GiveDiffers
  <2>3. Made(MadeObjects(cursor, r), MadeTypes(cursor, r))
    BY <2>1, <2>2 DEF MakeStatement, MadeObjects, MadeTypes
  <2>4. objects' = objects + MadeObjects(cursor, r) /\ types' = types + MadeTypes(cursor, r)
    BY <2>2, <2>3 DEF Made
  <2>. QED
    BY <1>1, <2>1, <2>4, MovedBalances
<1>. QED
  BY <1>2, <1>3, SimpleStatementMoves

\* What a step of main makes in a trip of the parser is what the trip puts on the
\* stack.
LEMMA TripBalances ==
  ASSUME IInv, Framed(cursor.pos, stack), Balance(cursor, stack, objects, types), Parse,
         ~EndOfProgram, ~RejectToken
  PROVE  Balance(cursor', stack', objects', types')
<1>1. Next /\ stack # <<>>
  BY DEF Parse, Next, SimpleStatement, InStatements, In, OpenBlock, CloseBlock,
     CloseSingle, ParseFunction, FinishFunction, ParsePeripheral, ParseRegister,
     ParseField, CloseRegister, ClosePeripheral
<1>2. Onward(cursor, cursor') /\ Stacked(stack)
  BY <1>1, TripEffect DEF IInv
<1>3. ASSUME NEW n, NEW t \in Nat, Moved(n, t), Made(n, t), stack' # stack
      PROVE  Balance(cursor', stack', objects', types')
  <2>1. objects' = objects + n /\ types' = types + t
    BY <1>3 DEF Made
  <2>. QED
    BY <1>1, <1>2, <1>3, <2>1, MovedBalances
<1>4. ASSUME Stacked(stack), NEW n, stack' = Give(n, Tail(stack)), Top.kind # "program"
      PROVE  stack' # stack
  <2>1. Top = stack[1] /\ Len(stack) \in Nat /\ Len(stack) >= 1
    BY <1>1, StackFacts
  <2>2. Len(stack) # 0 => stack[Len(stack)].kind = "program"
    BY <1>2 DEF Stacked
  <2>3. Len(stack) > 1
    BY <1>4, <2>1, <2>2
  <2>. QED
    BY <1>2, <1>4, <2>3, ReturnDiffers
<1>5. ASSUME NEW g, stack' = <<g>> \o stack PROVE stack' # stack
  <2>1. Len(stack') = Len(stack) + 1 /\ Len(stack) \in Nat
    BY <1>2, <1>5, PushEffect DEF Stacked, Listed
  <2>. QED
    BY <2>1
<1>6. CASE SimpleStatement /\ MakeStatement
  BY <1>6, StatementBalances
<1>7. CASE ParseFunction /\ MakeFunction
  <2>1. \/ Len(stack') # Len(stack) /\ Moved(0, 1)
        \/ Len(stack') = Len(stack) /\ Moved(2, 1)
    BY <1>7, ParseFunctionMoves
  <2>2. stack' # stack
    <3>. DEFINE f == Signature(cursor)
                empty == With(f.node, <<Node("block", <<>>)>>)
    <3>1. \/ Len(stack') # Len(stack)
          \/ stack' = Give(empty, stack)
          \/ \E g : stack' = <<g, f.node>> \o stack
      BY <1>7 DEF ParseFunction, Step
    <3>. HIDE DEF f, empty
    <3>2. CASE stack' = Give(empty, stack)
      BY <1>1, <1>2, <3>2, GiveDiffers
    <3>3. CASE \E g : stack' = <<g, f.node>> \o stack
      <4>1. PICK g : stack' = <<g, f.node>> \o stack
        BY <3>3
      <4>2. Len(stack') = Len(stack) + 2 /\ Len(stack) \in Nat
        BY <1>2, <4>1, PushTwiceEffect DEF Stacked, Listed
      <4>. QED
        BY <4>2
    <3>. QED
      BY <3>1, <3>2, <3>3
  <2>3. CASE Len(stack') # Len(stack) /\ Moved(0, 1)
    BY <1>3, <1>7, <2>2, <2>3 DEF MakeFunction
  <2>4. CASE Len(stack') = Len(stack) /\ Moved(2, 1)
    BY <1>3, <1>7, <2>2, <2>4 DEF MakeFunction
  <2>. QED
    BY <2>1, <2>3, <2>4
<1>8. CASE (CloseBlock \/ CloseSingle \/ FinishFunction) /\ Made(1, 0)
  <2>1. (\E n : stack' = Give(n, Tail(stack))) /\ Top.kind # "program"
    BY <1>8 DEF CloseBlock, CloseSingle, FinishFunction, Step, In
  <2>2. Moved(1, 0)
    BY <1>8, CloseMoves
  <2>. QED
    BY <1>2, <1>3, <1>4, <1>8, <2>1, <2>2
<1>9. CASE ParsePeripheral /\ Made(1, 0)
  <2>1. \E g : stack' = <<g>> \o stack
    BY <1>9 DEF ParsePeripheral, Step
  <2>. QED
    BY <1>3, <1>5, <1>9, <2>1, ParsePeripheralMoves
<1>10. CASE ParseField /\ Made(1, 0)
  <2>1. CASE Still
    <3>1. UNCHANGED <<cursor, stack>>
      BY <2>1 DEF Still
    <3>2. UNCHANGED <<objects, types>>
      BY <1>10, <3>1 DEF Made
    <3>. QED
      BY <3>1, <3>2
  <2>2. CASE stack' # stack /\ Moved(1, 0)
    BY <1>3, <1>10, <2>2
  <2>. QED
    BY <1>10, <2>1, <2>2, ParseFieldMoves
<1>11. CASE ParseRegister /\ Made(1, 1)
  <2>1. \E g : stack' = <<g>> \o stack
    BY <1>11 DEF ParseRegister, Step
  <2>. QED
    BY <1>3, <1>5, <1>11, <2>1, ParseRegisterMoves
<1>12. CASE (OpenBlock \/ CloseRegister \/ ClosePeripheral) /\ Made(0, 0)
  <2>1. Moved(0, 0)
    BY <1>12, OpenBlockMoves, CloseMoves
  <2>2. stack' # stack
    <3>1. CASE OpenBlock
      BY <1>5, <3>1 DEF OpenBlock, Step
    <3>2. CASE CloseRegister \/ ClosePeripheral
      <4>1. (\E n : stack' = Give(n, Tail(stack))) /\ Top.kind # "program"
        BY <3>2 DEF CloseRegister, ClosePeripheral, Step, In
      <4>. QED
        BY <1>2, <1>4, <4>1
    <3>. QED
      BY <1>12, <3>1, <3>2
  <2>. QED
    BY <1>3, <1>12, <2>1, <2>2
<1>. QED
  BY <1>6, <1>7, <1>8, <1>9, <1>10, <1>11, <1>12 DEF Parse

-----------------------------------------------------------------------------
(* main *)

Phases == {"arguments", "lex", "parse", "generate", "cleanup", "exit"}

\* What is compiled is a text that main can come by.
Reading ==
  /\ source \in Texts /\ before \in Disks
  /\ phase \in {"arguments", "lex", "parse"} => disk = before
  /\ phase = "arguments" => args \in Seq(Texts)

\* What is allocated in each phase, the tree apart.
Allocated ==
  /\ phase = "arguments" => live = {}
  /\ phase = "lex" => live \subseteq {"source"}
  /\ phase \in {"parse", "cleanup"} => live \subseteq {"source", "parser"}
  /\ phase = "generate" => live \subseteq {"source", "parser", "context", "output", "target"}

\* Before the parser is made.
Unparsed == stack = <<>> /\ program = NullNode /\ objects = 0 /\ types = 0

\* While it runs.
Parsing == /\ Framed(cursor.pos, stack) /\ Told(cursor, stack) /\ Shaped(stack)
           /\ Balance(cursor, stack, objects, types)

\* The tree that it has built has all objects and the Types but for those that
\* are lost, and what the text has if there is no error.
Parsed ==
  /\ program \in Trees[Tall] /\ program.kind = "program" /\ Ordered(program)
  /\ objects = FreedObjects(Tall, program)
  /\ \E g \in Nat :
       /\ types = (FreedTypes(Tall, program) + Len(OfKind(program.kids, "function"))) + g
       /\ g <= Lets(cursor) /\ (cursor.err = 0 => g = 0)
  /\ cursor.err = 0 =>
       /\ Current(cursor) = "EOF"
       /\ \A w \in ToldWords : Amount(w, Tall)[program] = Span(w, cursor.src, 1, cursor.pos)

Built == /\ IInv /\ cursor.src = TokensOf(source)
         /\ IF Done THEN Parsed ELSE Parsing

MainInv ==
  /\ phase \in Phases /\ (phase # "exit" => exit = "running") /\ lap \in {0, 1}
  /\ Reading /\ Allocated
  /\ phase \in {"arguments", "lex"} => Unparsed
  /\ phase \in {"parse", "generate", "cleanup"} => Built
  /\ phase \in {"generate", "cleanup"} => Done
  /\ OnlyTypesStay

\* Steps that leave the parser and the tree alone.
LEMMA BuiltStays ==
  ASSUME Built, UNCHANGED <<cursor, stack, program, objects, types, source>>, lap' \in {0, 1}
  PROVE  Built'
<1>1. IInv'
  BY DEF Built, IInv, Done
<1>2. Done' = Done /\ Tall' = Tall
  BY DEF Done, Tall
<1>3. Parsing => Parsing'
  BY DEF Parsing
<1>4. Parsed => Parsed'
  BY <1>2 DEF Parsed
<1>. QED
  BY <1>1, <1>2, <1>3, <1>4 DEF Built

LEMMA LapTurns ==
  ASSUME lap \in {0, 1}, lap' = 1 - lap
  PROVE  lap' \in {0, 1}
OBVIOUS

\* The words of argv are taken from the front.
LEMMA ArgumentsTaken ==
  ASSUME args \in Seq(Texts), ReadArgument
  PROVE  args' \in Seq(Texts) /\ (Head(args) = "-c" => args[2] \in Texts)
<1>. DEFINE n == Taken(Head(args))
<1>1. args # <<>> /\ n \in {1, 2} /\ args' = SubSeq(args, n + 1, Len(args))
      /\ (n = 2 => Len(args) # 1) /\ (Head(args) = "-c" => n = 2)
  BY DEF ReadArgument, Taken, WithArgument
<1>. HIDE DEF n
<1>2. Len(args) \in Nat /\ Len(args) >= 1
  <2>1. Listed(args)
    BY SeqIsListed
  <2>. QED
    BY <1>1, <2>1, TailEffect DEF Listed
<1>3. /\ (n + 1) \in 1..(Len(args) + 1)
      /\ Len(args) \in ((n + 1) - 1)..Len(args)
      /\ n = 2 => args[2] \in Texts
  <2>1. CASE n = 1
    BY <1>2, <2>1
  <2>2. CASE n = 2
    <3>1. Len(args) >= 2
      <4>1. Len(args) # 1
        BY <1>1, <2>2
      <4>2. \A m \in Nat : m >= 1 /\ m # 1 => m >= 2
        OBVIOUS
      <4>. QED
        BY <1>2, <4>1, <4>2
    <3>2. 2 \in 1..Len(args)
      BY <1>2, <3>1
    <3>3. args[2] \in Texts
      BY <3>2, SeqIsListed DEF Listed
    <3>. QED
      BY <1>2, <2>2, <3>1, <3>3
  <2>. QED
    BY <1>1, <2>1, <2>2
<1>4. SubSeq(args, n + 1, Len(args)) \in Seq(Texts)
  BY <1>3, SubSeqProperties
<1>. QED
  BY <1>1, <1>3, <1>4

LEMMA ArgumentSteps ==
  ASSUME MainInv,
         ReadArgument \/ MissingArgument \/ NoFile \/ LoadFile \/ InputFails
  PROVE  MainInv'
<1>1. /\ phase = "arguments" /\ exit = "running" /\ Unparsed /\ live = {} /\ args \in Seq(Texts)
      /\ source \in Texts /\ before \in Disks /\ disk = before /\ lap \in {0, 1}
  BY DEF MainInv, Reading, Allocated, ReadArgument, MissingArgument, NoFile, LoadFile, InputFails
<1>2. /\ UNCHANGED <<cursor, stack, program, disk, before, objects, types>> /\ lap' = 1 - lap
      /\ Unparsed'
  BY <1>1 DEF ReadArgument, MissingArgument, NoFile, LoadFile, InputFails, Compiling, heap,
     Stays, Goes, Exits, Unparsed
<1>3. lap' \in {0, 1}
  BY <1>1, <1>2, LapTurns
<1>4. CASE ReadArgument
  <2>1. /\ phase' = "arguments" /\ exit' = exit /\ live' = live
        /\ source' = IF Head(args) = "-c" THEN args[2] ELSE source
    BY <1>1, <1>4 DEF ReadArgument, Stays, Compiling, heap
  <2>2. args' \in Seq(Texts) /\ source' \in Texts
    BY <1>1, <1>4, <2>1, ArgumentsTaken
  <2>. QED
    BY <1>1, <1>2, <1>3, <2>1, <2>2 DEF MainInv, Phases, Reading, Allocated, OnlyTypesStay
<1>5. CASE MissingArgument \/ InputFails
  <2>1. /\ phase' = "exit" /\ exit' = "failed" /\ live' = live /\ source' = source
    BY <1>5 DEF MissingArgument, InputFails, Exits, Compiling, heap
  <2>2. OnlyTypesStay'
    BY <1>1, <1>2, <2>1 DEF OnlyTypesStay, Unparsed
  <2>. QED
    BY <1>1, <1>2, <1>3, <2>1, <2>2 DEF MainInv, Phases, Reading, Allocated
<1>6. CASE NoFile
  <2>1. /\ phase' = "lex" /\ exit' = exit /\ live' = live /\ source' = source
    BY <1>6 DEF NoFile, Goes, Compiling, heap
  <2>. QED
    BY <1>1, <1>2, <1>3, <2>1 DEF MainInv, Phases, Reading, Allocated, OnlyTypesStay
<1>7. CASE LoadFile
  <2>1. /\ phase' = "lex" /\ exit' = exit /\ live' = live \cup {"source"}
        /\ source' = disk[options.input].text /\ options.input \in DOMAIN disk
        /\ disk[options.input].has = "text"
    BY <1>7 DEF LoadFile, Goes
  <2>2. source' \in Texts
    <3>1. source' \in TextsOn(disk)
      BY <2>1 DEF TextsOn
    <3>2. TextsOn(disk) \in {TextsOn(files) : files \in Disks}
      BY <1>1
    <3>3. source' \in UNION {TextsOn(files) : files \in Disks}
      BY <3>1, <3>2
    <3>. QED
      BY <3>3 DEF Texts
  <2>. QED
    BY <1>1, <1>2, <1>3, <2>1, <2>2 DEF MainInv, Phases, Reading, Allocated, OnlyTypesStay
<1>. QED
  BY <1>4, <1>5, <1>6, <1>7

LEMMA StartSteps ==
  ASSUME MainInv, StartParser
  PROVE  MainInv'
<1>. DEFINE c == Start(TokensOf(source))
            f == Node("program", <<>>)
            s == <<f>>
<1>1. /\ phase = "lex" /\ exit = "running" /\ Unparsed /\ live \subseteq {"source"}
      /\ source \in Texts /\ before \in Disks /\ disk = before /\ lap \in {0, 1}
  BY DEF MainInv, Reading, Allocated, StartParser
<1>2. /\ cursor' = c /\ stack' = s /\ live' = live \cup {"parser"} /\ objects' = 1 /\ types' = 0
      /\ phase' = "parse" /\ exit' = exit /\ lap' = 1 - lap /\ program' = NullNode
      /\ UNCHANGED <<args, source, disk, before>>
  BY <1>1 DEF StartParser, Goes, Driver, Unparsed
<1>3. TokensOf(source) \in Seq(STRING \ {"EOF"}) /\ Len(TokensOf(source)) \in Nat
  BY <1>1, TokensAssumption
<1>4. IsCursor(c) /\ c.src = TokensOf(source) /\ c.err = 0
  BY <1>3 DEF IsCursor, Start
<1>5. Stacked(s) /\ s # <<>> /\ Len(s) = 1 /\ s[1] = f
  BY ProgramStacked, OneListed, EmptyListed
<1>6. IInv' /\ ~Done'
  <2>1. lap' \in {0, 1}
    BY <1>1, <1>2, LapTurns
  <2>. HIDE DEF c, s
  <2>. QED
    BY <1>2, <1>4, <1>5, <2>1 DEF IInv, Done
<1>7. /\ Framed(c.pos, s) /\ Told(c, s)
      /\ \A w \in Words : Stock(w, Height(c.src), s) = HeldOwn(w, f)
  BY <1>3, <1>4, ProgramBegins
<1>8. Shaped(s)
  <2>1. f.kids = <<>>
    BY DEF Node
  <2>. HIDE DEF f
  <2>. QED
    BY <1>5, <2>1, OrderedEmpty DEF Shaped
<1>9. Balance(c, s, 1, 0)
  <2>1. f.kind = "program"
    BY DEF Node
  <2>. HIDE DEF f, s, c
  <2>2. HeldOwn("objects", f) = 1 /\ HeldOwn("types", f) = 0 /\ HeldOwn("functions", f) = 0
    BY <2>1 DEF HeldOwn, Own, LateKinds
  <2>3. Lets(c) \in Nat
    BY <1>4, LetsGrow, OnwardReflexive
  <2>4. /\ Stock("objects", Height(c.src), s) = 1 /\ Stock("types", Height(c.src), s) = 0
        /\ Stock("functions", Height(c.src), s) = 0
    BY <1>7, <2>2 DEF Words, Counted
  <2>. QED
    BY <2>3, <2>4 DEF Balance
<1>. HIDE DEF c, s
<1>10. Built'
  BY <1>2, <1>4, <1>6, <1>7, <1>8, <1>9 DEF Built, Parsing
<1>. QED
  BY <1>1, <1>2, <1>6, <1>10
  DEF MainInv, Phases, Reading, Allocated, OnlyTypesStay, IInv

LEMMA ParseSteps ==
  ASSUME MainInv, Parse
  PROVE  MainInv'
<1>1. /\ phase = "parse" /\ exit = "running" /\ Built /\ live \subseteq {"source", "parser"}
      /\ source \in Texts /\ before \in Disks /\ disk = before
  BY DEF MainInv, Reading, Allocated, Parse
<1>2. /\ UNCHANGED <<phase, exit, live, args, source, disk, before>>
  BY DEF Parse, Driver
<1>3. Next /\ ~Done
  BY DEF Parse, Next, Done, SimpleStatement, InStatements, In, OpenBlock, CloseBlock,
     CloseSingle, ParseFunction, FinishFunction, ParsePeripheral, ParseRegister,
     ParseField, CloseRegister, ClosePeripheral, EndOfProgram, RejectToken
<1>4. IInv /\ Parsing /\ cursor.src = TokensOf(source)
  BY <1>1, <1>3 DEF Built
<1>5. IInv' /\ Onward(cursor, cursor') /\ cursor'.src = cursor.src
  BY <1>3, <1>4, TripEffect DEF Onward
<1>6. CASE EndOfProgram \/ RejectToken
  <2>1. /\ program' \in Trees[Tall] /\ cursor'.pos = cursor.pos
        /\ \A w \in Words : Amount(w, Tall)[program'] = Stock(w, Tall, stack)
        /\ cursor'.err = 0 => cursor'.err = cursor.err /\ Current(cursor') = "EOF"
        /\ Top.kind = "program" /\ stack # <<>> /\ stack' = <<>>
    BY <1>4, <1>6, EndMoves DEF Parsing
  <2>2. program' = Top /\ Top = stack[1] /\ Len(stack) >= 1 /\ Len(stack) \in Nat /\ Tall \in Nat
    BY <1>4, <1>6, <2>1, StackFacts DEF Parsing, EndOfProgram, RejectToken
  <2>3. Tall' = Tall
    BY <1>5 DEF Tall
  <2>4. program'.kind = "program" /\ Ordered(program')
    <3>1. 1 \in 1..Len(stack)
      BY <2>2
    <3>. QED
      BY <1>4, <2>1, <2>2, <3>1 DEF Parsing, Shaped
  <2>. DEFINE n == program'
              h == Tall
  <2>5. /\ FreedObjects(h, n) = Stock("objects", h, stack)
        /\ FreedTypes(h, n) = Stock("types", h, stack)
        /\ Len(OfKind(n.kids, "function")) = Stock("functions", h, stack)
    <3>1. /\ FreedObjects(h, n) = Amount("objects", h)[n] /\ FreedTypes(h, n) = Amount("types", h)[n]
          /\ Amount("functions", h)[n] = Len(OfKind(n.kids, "function"))
      BY <2>1, <2>2, <2>4, WalkedAmounts, FunctionsCounted
    <3>. QED
      BY <2>1, <3>1 DEF Words, Counted
  <2>6. objects' = objects + 0 /\ types' = types + 0
    <3>1. Made(0, 0)
      BY <1>6, <2>1 DEF Parse, SimpleStatement, InStatements, In, OpenBlock, CloseBlock,
         CloseSingle, ParseFunction, FinishFunction, ParsePeripheral, ParseRegister,
         ParseField, CloseRegister, ClosePeripheral, EndOfProgram, RejectToken, Ahead, FunctionWords
    <3>. QED
      BY <2>1, <3>1 DEF Made
  <2>7. PICK g \in Nat :
          /\ types = (Stock("types", h, stack) + Stock("functions", h, stack)) + g
          /\ g <= Lets(cursor) /\ (cursor.err = 0 => g = 0)
    BY <1>4 DEF Parsing, Balance, Tall
  <2>8. objects = Stock("objects", h, stack)
    BY <1>4 DEF Parsing, Balance, Tall
  <2>9. /\ Stock("objects", h, stack) \in Nat /\ Stock("types", h, stack) \in Nat
        /\ Stock("functions", h, stack) \in Nat
    BY <1>4, <2>1, StackFacts DEF Parsing, IsAmount, Counted
  <2>10. objects' = objects /\ types' = types
    BY <2>6, <2>7, <2>8, <2>9
  <2>11. Lets(cursor') = Lets(cursor)
    BY <1>5, <2>1 DEF Lets
  <2>12. cursor'.err = 0 => cursor.err = 0
    BY <1>5, NoErrorBefore
  <2>13. ASSUME cursor'.err = 0, NEW w \in ToldWords
         PROVE  Amount(w, h)[n] = Span(w, cursor'.src, 1, cursor'.pos)
    <3>1. w \in Words
      BY DEF ToldWords, Words
    <3>. QED
      BY <1>4, <1>5, <2>1, <2>12, <2>13, <3>1 DEF Parsing, Told, Tall
  <2>. HIDE DEF h
  <2>14. Parsed'
    <3>1. Tall' = h
      BY <2>3 DEF h
    <3>2. program' \in Trees[h]
      BY <2>1 DEF h
    <3>3. objects' = FreedObjects(h, program')
      BY <2>5, <2>8, <2>10
    <3>4. /\ types' = (FreedTypes(h, program') + Len(OfKind(program'.kids, "function"))) + g
          /\ g <= Lets(cursor') /\ (cursor'.err = 0 => g = 0)
      BY <2>5, <2>7, <2>10, <2>11, <2>12
    <3>5. cursor'.err = 0 => Current(cursor') = "EOF"
      BY <2>1
    <3>. QED
      BY <2>4, <2>13, <3>1, <3>2, <3>3, <3>4, <3>5 DEF Parsed
  <2>15. Built'
    BY <1>2, <1>4, <1>5, <2>1, <2>14 DEF Built, Done
  <2>. QED
    BY <1>1, <1>2, <1>5, <2>15 DEF MainInv, Phases, Reading, Allocated, OnlyTypesStay, IInv
<1>7. CASE ~EndOfProgram /\ ~RejectToken
  <2>1. Framed(cursor'.pos, stack') /\ Told(cursor', stack')
    BY <1>3, <1>4, <1>7, TripTells DEF Parsing
  <2>2. Shaped(stack')
    BY <1>3, <1>4, TripShapes DEF Parsing
  <2>3. Balance(cursor', stack', objects', types')
    BY <1>4, <1>7, TripBalances DEF Parsing
  <2>4. ~Done'
    <3>1. program' = program
      BY <1>3, <1>7 DEF Next, SimpleStatement, OpenBlock, CloseBlock, CloseSingle,
         ParseFunction, FinishFunction, ParsePeripheral, ParseRegister, ParseField,
         CloseRegister, ClosePeripheral
    <3>. QED
      BY <1>3, <1>4, <1>5, <3>1 DEF IInv
  <2>5. Built'
    BY <1>2, <1>4, <1>5, <2>1, <2>2, <2>3, <2>4 DEF Built, Parsing
  <2>. QED
    BY <1>1, <1>2, <1>5, <2>5 DEF MainInv, Phases, Reading, Allocated, OnlyTypesStay, IInv
<1>. QED
  BY <1>6, <1>7

\* What is freed of a tree that is finished.
LEMMA AllIsFreed ==
  ASSUME Built, Done, live \subseteq {"source", "parser"}, FreeAll, UNCHANGED <<cursor, program>>
  PROVE  OnlyTypesStay'
<1>. DEFINE t == FreedTypes(Tall, program)
            f == Len(OfKind(program.kids, "function"))
            all == Cardinality({k \in 1..Len(cursor.src) : cursor.src[k] \in {"LET", "VAR"}})
<1>1. /\ Parsed /\ IsCursor(cursor) /\ Tall \in Nat
  <2>1. Parsed /\ IsCursor(cursor)
    BY DEF Built, IInv
  <2>2. Len(cursor.src) \in Nat
    BY <2>1, CursorFacts
  <2>. QED
    BY <2>1, <2>2 DEF Tall, Height
<1>2. PICK g \in Nat : types = (t + f) + g /\ g <= Lets(cursor) /\ (cursor.err = 0 => g = 0)
  BY <1>1 DEF Parsed
<1>3. objects = FreedObjects(Tall, program) /\ program \in Trees[Tall] /\ Ordered(program)
      /\ program.kind = "program"
  BY <1>1 DEF Parsed
<1>4. FreedObjects(Tall, program) \in Nat /\ t \in Nat /\ f \in Nat
  <2>1. /\ FreedObjects(Tall, program) = Amount("objects", Tall)[program]
        /\ t = Amount("types", Tall)[program] /\ f = Amount("functions", Tall)[program]
    BY <1>1, <1>3, WalkedAmounts, FunctionsCounted
  <2>. HIDE DEF t, f
  <2>2. /\ IsAmount("objects", Amount("objects", Tall)[program])
        /\ IsAmount("types", Amount("types", Tall)[program])
        /\ IsAmount("functions", Amount("functions", Tall)[program])
    BY <1>1, <1>3, AmountEquation
  <2>. QED
    BY <2>1, <2>2 DEF IsAmount, Counted
<1>5. /\ live' = {} /\ objects' = objects - FreedObjects(Tall, program) /\ types' = types - t
  BY DEF FreeAll, Tall
<1>6. Lets(cursor) \in Nat /\ Lets(cursor) <= all
  BY <1>1, LetsGrow, OnwardReflexive
<1>7. program # NullNode
  BY DEF Built, IInv
<1>8. all \in Nat
  <2>1. Len(cursor.src) \in Nat
    BY <1>1, CursorFacts
  <2>2. IsFiniteSet(1..Len(cursor.src))
    BY <2>1, FS_Interval
  <2>3. IsFiniteSet({k \in 1..Len(cursor.src) : cursor.src[k] \in {"LET", "VAR"}})
    BY <2>2, FS_Subset
  <2>. QED
    BY <2>3, FS_CardinalityType
<1>9. cursor' = cursor /\ program' = program
  OBVIOUS
<1>. HIDE DEF t, f, all
<1>10. objects' = 0 /\ types' - f = g /\ g \in 0..all
  BY <1>2, <1>3, <1>4, <1>5, <1>6, <1>8
<1>11. types' - f \in IF cursor.err = 0 THEN {0} ELSE 0..all
  BY <1>2, <1>10
<1>. QED
  BY <1>5, <1>7, <1>9, <1>10, <1>11 DEF OnlyTypesStay, f, all

LEMMA OutputSteps ==
  ASSUME MainInv,
         NothingToGenerate \/ OpenOutput \/ OverrunStops \/ CrashAtTarget \/ OutputFails
  PROVE  MainInv'
<1>1. /\ phase = "parse" /\ exit = "running" /\ Built /\ live \subseteq {"source", "parser"} /\ Done
      /\ source \in Texts /\ before \in Disks /\ lap \in {0, 1}
  BY DEF MainInv, Reading, Allocated, NothingToGenerate, OpenOutput, OverrunStops, CrashAtTarget,
     OutputFails
<1>2. UNCHANGED <<cursor, stack, program, source, before>> /\ lap' = 1 - lap
  BY DEF NothingToGenerate, OpenOutput, OverrunStops, CrashAtTarget, OutputFails, Driver, Goes,
     Exits, MainReturns
<1>3. lap' \in {0, 1} /\ Done'
  BY <1>1, <1>2, LapTurns DEF Done
<1>4. CASE NothingToGenerate
  <2>1. phase' = "cleanup" /\ exit' = exit /\ UNCHANGED <<live, objects, types>>
    BY <1>4 DEF NothingToGenerate, Goes, heap
  <2>2. Built'
    BY <1>1, <1>2, <1>3, <2>1, BuiltStays
  <2>. QED
    BY <1>1, <1>2, <1>3, <2>1, <2>2 DEF MainInv, Phases, Reading, Allocated, OnlyTypesStay
<1>5. CASE OpenOutput
  <2>1. /\ phase' = "generate" /\ exit' = exit /\ UNCHANGED <<objects, types>>
        /\ live' = live \cup {"context", "output", "target"}
    BY <1>5 DEF OpenOutput, Goes
  <2>2. Built'
    BY <1>1, <1>2, <1>3, <2>1, BuiltStays
  <2>. QED
    BY <1>1, <1>2, <1>3, <2>1, <2>2 DEF MainInv, Phases, Reading, Allocated, OnlyTypesStay
<1>6. CASE OverrunStops \/ CrashAtTarget
  <2>1. phase' = "exit" /\ exit' = "crashed"
    BY <1>6 DEF OverrunStops, CrashAtTarget, Exits
  <2>. QED
    BY <1>1, <1>2, <1>3, <2>1 DEF MainInv, Phases, Reading, Allocated, OnlyTypesStay
<1>7. CASE OutputFails
  <2>1. phase' = "exit" /\ FreeAll
    BY <1>7 DEF OutputFails, MainReturns, Exits
  <2>2. OnlyTypesStay'
    BY <1>1, <1>2, <2>1, AllIsFreed
  <2>. QED
    BY <1>1, <1>2, <1>3, <2>1, <2>2 DEF MainInv, Phases, Reading, Allocated
<1>. QED
  BY <1>4, <1>5, <1>6, <1>7

LEMMA LastSteps ==
  ASSUME MainInv, WritePiece \/ CloseOutput \/ Cleanup
  PROVE  MainInv'
<1>1. /\ phase \in {"generate", "cleanup"} /\ exit = "running" /\ Built /\ Done
      /\ source \in Texts /\ before \in Disks /\ lap \in {0, 1}
  BY DEF MainInv, Reading, WritePiece, CloseOutput, Cleanup
<1>2. UNCHANGED <<cursor, stack, program, source, before>> /\ lap' = 1 - lap
  BY DEF WritePiece, CloseOutput, Cleanup, Driver, Stays, Goes, Exits, MainReturns
<1>3. lap' \in {0, 1} /\ Done'
  BY <1>1, <1>2, LapTurns DEF Done
<1>4. CASE WritePiece
  <2>1. phase' = phase /\ phase = "generate" /\ exit' = exit /\ UNCHANGED <<live, objects, types>>
    BY <1>4 DEF WritePiece, Stays, heap
  <2>2. Built'
    BY <1>1, <1>2, <1>3, <2>1, BuiltStays
  <2>. QED
    BY <1>1, <1>2, <1>3, <2>1, <2>2 DEF MainInv, Phases, Reading, Allocated, OnlyTypesStay
<1>5. CASE CloseOutput
  <2>1. /\ phase = "generate" /\ phase' = "cleanup" /\ exit' = exit /\ UNCHANGED <<objects, types>>
        /\ live' = live \ {"context", "output", "target"}
    BY <1>5 DEF CloseOutput, Goes
  <2>2. Built'
    BY <1>1, <1>2, <1>3, <2>1, BuiltStays
  <2>3. live' \subseteq {"source", "parser"}
    BY <2>1 DEF MainInv, Allocated
  <2>. QED
    BY <1>1, <1>2, <1>3, <2>1, <2>2, <2>3 DEF MainInv, Phases, Reading, Allocated, OnlyTypesStay
<1>6. CASE Cleanup
  <2>1. phase = "cleanup" /\ phase' = "exit" /\ FreeAll
    BY <1>6 DEF Cleanup, MainReturns, Exits
  <2>2. live \subseteq {"source", "parser"}
    BY <2>1 DEF MainInv, Allocated
  <2>3. OnlyTypesStay'
    BY <1>1, <1>2, <2>1, <2>2, AllIsFreed
  <2>. QED
    BY <1>1, <1>2, <1>3, <2>1, <2>3 DEF MainInv, Phases, Reading, Allocated
<1>. QED
  BY <1>4, <1>5, <1>6

LEMMA MainInvHolds == MainSpec => []MainInv
<1>1. MainInit => MainInv
  <2>. SUFFICES ASSUME MainInit PROVE MainInv
    OBVIOUS
  <2>1. /\ phase = "arguments" /\ exit = "running" /\ lap = 0 /\ live = {} /\ Unparsed
        /\ disk = before /\ before \in Disks /\ source = DefaultSource /\ args \in ArgLists
    BY DEF MainInit, Unparsed
  <2>2. source \in Texts
    BY <2>1 DEF Texts
  <2>3. args \in Seq(Texts)
    <3>1. args \in Seq(STRING)
      BY <2>1, ArgListsAssumption
    <3>2. \A i \in 1..Len(args) : args[i] \in Texts
      <4>1. {args[i] : i \in 1..Len(args)} \in {{words[i] : i \in 1..Len(words)} : words \in ArgLists}
        BY <2>1
      <4>. QED
        BY <4>1 DEF Texts
    <3>. QED
      BY <3>1, <3>2, SeqIsListed, ListedInSeq
  <2>. QED
    BY <2>1, <2>2, <2>3 DEF MainInv, Phases, Reading, Allocated, OnlyTypesStay
<1>2. MainInv /\ [MainNext]_mainVars => MainInv'
  <2>. SUFFICES ASSUME MainInv, [MainNext]_mainVars PROVE MainInv'
    OBVIOUS
  <2>1. CASE UNCHANGED mainVars
    <3>1. UNCHANGED <<cursor, stack, program, lap, args, source, phase, disk, before, live,
                      objects, types, exit>>
      BY <2>1 DEF mainVars, vars, heap
    <3>2. Built => Built'
      BY <3>1, BuiltStays DEF Built, IInv
    <3>3. OnlyTypesStay => OnlyTypesStay'
      BY <3>1 DEF OnlyTypesStay
    <3>. QED
      BY <3>1, <3>2, <3>3 DEF MainInv, Reading, Allocated, Unparsed, Done
  <2>2. CASE ReadArgument \/ MissingArgument \/ NoFile \/ LoadFile \/ InputFails
    BY <2>2, ArgumentSteps
  <2>3. CASE NothingToGenerate \/ OpenOutput \/ OverrunStops \/ CrashAtTarget \/ OutputFails
    BY <2>3, OutputSteps
  <2>4. CASE WritePiece \/ CloseOutput \/ Cleanup
    BY <2>4, LastSteps
  <2>. QED
    BY <2>1, <2>2, <2>3, <2>4, StartSteps, ParseSteps DEF MainNext, Stopped
<1>. QED
  BY <1>1, <1>2, PTL DEF MainSpec

-----------------------------------------------------------------------------
(* What the generator writes of a device *)

\* The names that a piece has: its own, or inner ones.
InPiece(kind, inner, x) ==
  IF x.piece # kind THEN <<>> ELSE IF inner THEN NamesIn(x) ELSE <<x.name>>

\* The names of a kind of piece that are those behind a word.
Asks(kind, inner, w) ==
  \/ kind = "struct"    /\ inner = FALSE /\ w = "PERIPHERAL"
  \/ kind = "struct"    /\ inner = TRUE  /\ w = "REGISTER"
  \/ kind = "bitfield"  /\ inner = FALSE /\ w = "REGISTER"
  \/ kind = "bitfield"  /\ inner = TRUE  /\ w = "FIELD"
  \/ kind = "accessors" /\ inner = TRUE  /\ w = "FIELD"

\* The pieces that can be written of the nodes of a device.
Devices(h) == {x \in Trees[h] : x.kind \in {"peripheral", "register"}}
Pieces(src, nodes) ==
  {[piece |-> "begin"], [piece |-> "end"]}
  \cup {Struct(src, x) : x \in nodes}
  \cup {Bitfields(src, x) : x \in nodes} \cup {Accessors(x) : x \in nodes}

\* The names of them, and of the nodes below a node.
NamesOfPieces(kind, inner, T) == [x \in T |-> InPiece(kind, inner, x)]
KidNames(x)   == [k \in 1..Len(x.kids) |-> x.kids[k].head.name]
FieldNames(x) == [k \in 1..Len(x.kids) |-> x.kids[k].name]

LEMMA KidsBelow ==
  ASSUME NEW h \in Nat, NEW n \in Trees[h], n.kind \in KidKinds
  PROVE  /\ n.kids \in Seq(Trees[h]) /\ Listed(n.kids) /\ Len(n.kids) \in Nat
         /\ \A k \in 1..Len(n.kids) : n.kids[k] \in Trees[h]
<1>1. n.kids \in Seq(Trees[h])
  <2>1. n \in Trees[h + 1] /\ h + 1 \in Nat
    BY TreesGrow
  <2>2. n \in Leaves \cup Above(Trees[h])
    BY <2>1, TreesEquation
  <2>. QED
    BY <2>2, NodeShapes
<1>. QED
  BY <1>1, SeqIsListed

\* What is measured below a node only.
LEMMA BelowOnly ==
  ASSUME NEW w \in DeviceWords, NEW h \in Nat, NEW n \in Trees[h], n.kind \in Outer(w),
         n.kind \in KidKinds, Own(w, n) = <<>>
  PROVE  Amount(w, h)[n] = Below(w, Amount(w, h), n.kids)
<1>. DEFINE m == Amount(w, h)
            kids == n.kids
<1>1. m[n] = Meas(w, m, n) /\ \A t \in Trees[h] : IsAmount(w, m[t])
  BY AmountEquation
<1>2. Parts(w, n) = kids
  BY DEF Parts, KidKinds
<1>3. kids \in Seq(Trees[h])
  BY KidsBelow
<1>. HIDE DEF m, kids
<1>4. IsAmount(w, Below(w, m, kids))
  BY <1>1, <1>3, BelowAmount
<1>5. Plus(w, None(w), Below(w, m, kids)) = Below(w, m, kids)
  BY <1>4, PlusNone
<1>6. None(w) = <<>>
  BY DEF None, Counted, DeviceWords
<1>. QED
  BY <1>1, <1>2, <1>5, <1>6 DEF Meas, m, kids

\* What is below a node is a list of one for each.
LEMMA BelowOnes ==
  ASSUME NEW w \in DeviceWords, NEW h \in Nat, NEW nodes \in Seq(Trees[h]),
         NEW a, Listed(a), Len(a) = Len(nodes),
         \A k \in 1..Len(nodes) : Amount(w, h)[nodes[k]] = <<a[k]>>
  PROVE  Below(w, Amount(w, h), nodes) = a
<1>1. w \notin Counted /\ Len(nodes) \in Nat
  BY DEF Counted, DeviceWords
<1>. DEFINE s == [k \in 1..Len(nodes) |-> Amount(w, h)[nodes[k]]]
<1>2. s = [k \in 1..Len(nodes) |-> <<a[k]>>] /\ a = [k \in 1..Len(nodes) |-> a[k]]
  BY DEF Listed
<1>3. Below(w, Amount(w, h), nodes) = All(w, s)
  BY DEF Below
<1>. HIDE DEF s
<1>. QED
  BY <1>1, <1>2, <1>3, FlatOnes

\* The names of a register, a peripheral and what is below them.
LEMMA RegisterAmounts ==
  ASSUME NEW h \in Nat, NEW r \in Trees[h], IsRegister(r)
  PROVE  /\ Amount("REGISTER", h)[r] = <<r.head.name>>
         /\ Amount("FIELD", h)[r] = FieldNames(r)
<1>1. r.kind = "register" /\ \A k \in 1..Len(r.kids) : r.kids[k].kind = "field"
  BY DEF IsRegister
<1>2. /\ "REGISTER" \notin Both /\ Outer("REGISTER") = {"program", "peripheral"}
      /\ "FIELD" \notin Both /\ Outer("FIELD") = {"program", "peripheral", "register"}
      /\ "FIELD" \in DeviceWords /\ "register" \in KidKinds
  BY DEF Both, Outer, DeviceWords, KidKinds
<1>3. Amount("REGISTER", h)[r] = <<r.head.name>>
  <2>1. Amount("REGISTER", h)[r] = Own("REGISTER", r)
    BY <1>1, <1>2, OwnOnly
  <2>. QED
    BY <1>1, <2>1 DEF Own
<1>4. r.kids \in Seq(Trees[h]) /\ \A k \in 1..Len(r.kids) : r.kids[k] \in Trees[h]
  BY <1>1, <1>2, KidsBelow
<1>5. Amount("FIELD", h)[r] = Below("FIELD", Amount("FIELD", h), r.kids)
  <2>1. Own("FIELD", r) = <<>>
    BY <1>1 DEF Own
  <2>. QED
    BY <1>1, <1>2, <2>1, BelowOnly
<1>6. ASSUME NEW k \in 1..Len(r.kids)
      PROVE  Amount("FIELD", h)[r.kids[k]] = <<r.kids[k].name>>
  <2>1. Amount("FIELD", h)[r.kids[k]] = Own("FIELD", r.kids[k])
    BY <1>1, <1>2, <1>4, OwnOnly
  <2>. QED
    BY <1>1, <2>1 DEF Own
<1>. DEFINE a == FieldNames(r)
<1>7. a = [k \in 1..Len(r.kids) |-> a[k]] /\ \A k \in 1..Len(r.kids) : a[k] = r.kids[k].name
  BY DEF FieldNames
<1>. HIDE DEF a
<1>8. Below("FIELD", Amount("FIELD", h), r.kids) = a
  <2>1. \A k \in 1..Len(r.kids) : Amount("FIELD", h)[r.kids[k]] = <<a[k]>>
    BY <1>6, <1>7
  <2>. DEFINE w == "FIELD"
              nodes == r.kids
  <2>2. w \in DeviceWords /\ nodes \in Seq(Trees[h]) /\ Listed(a) /\ Len(a) = Len(nodes)
        /\ \A k \in 1..Len(nodes) : Amount(w, h)[nodes[k]] = <<a[k]>>
    <3>1. Len(r.kids) \in Nat
      BY <1>4
    <3>. QED
      BY <1>2, <1>4, <1>7, <2>1, <3>1, ListOf
  <2>. HIDE DEF w, nodes
  <2>3. Below(w, Amount(w, h), nodes) = a
    BY <2>2, BelowOnes
  <2>. QED
    BY <2>3 DEF w, nodes
<1>. QED
  BY <1>3, <1>5, <1>8 DEF a

LEMMA PeripheralAmounts ==
  ASSUME NEW h \in Nat, NEW p \in Trees[h], IsPeripheral(p)
  PROVE  /\ Amount("PERIPHERAL", h)[p] = <<p.head.name>>
         /\ Amount("REGISTER", h)[p] = KidNames(p)
         /\ \A w \in {"REGISTER", "FIELD"} :
              Amount(w, h)[p] = Below(w, Amount(w, h), p.kids)
<1>1. p.kind = "peripheral" /\ \A k \in 1..Len(p.kids) : IsRegister(p.kids[k])
  BY DEF IsPeripheral
<1>2. /\ "PERIPHERAL" \notin Both /\ Outer("PERIPHERAL") = {"program"}
      /\ Outer("REGISTER") = {"program", "peripheral"}
      /\ Outer("FIELD") = {"program", "peripheral", "register"}
      /\ "FIELD" \in DeviceWords /\ "REGISTER" \in DeviceWords /\ "peripheral" \in KidKinds
  BY DEF Both, Outer, DeviceWords, KidKinds
<1>3. Amount("PERIPHERAL", h)[p] = <<p.head.name>>
  <2>1. Amount("PERIPHERAL", h)[p] = Own("PERIPHERAL", p)
    BY <1>1, <1>2, OwnOnly
  <2>. QED
    BY <1>1, <2>1 DEF Own
<1>4. p.kids \in Seq(Trees[h]) /\ \A k \in 1..Len(p.kids) : p.kids[k] \in Trees[h]
  BY <1>1, <1>2, KidsBelow
<1>5. ASSUME NEW w \in {"REGISTER", "FIELD"}
      PROVE  Amount(w, h)[p] = Below(w, Amount(w, h), p.kids)
  <2>1. Own(w, p) = <<>>
    BY <1>1 DEF Own
  <2>2. w \in DeviceWords /\ p.kind \in Outer(w) /\ p.kind \in KidKinds
    BY <1>1, <1>2
  <2>. QED
    BY <2>1, <2>2, BelowOnly
<1>. DEFINE a == KidNames(p)
<1>6. a = [k \in 1..Len(p.kids) |-> a[k]] /\ \A k \in 1..Len(p.kids) : a[k] = p.kids[k].head.name
  BY DEF KidNames
<1>7. \A k \in 1..Len(p.kids) : Amount("REGISTER", h)[p.kids[k]] = <<p.kids[k].head.name>>
  BY <1>1, <1>4, RegisterAmounts
<1>. HIDE DEF a
<1>8. Below("REGISTER", Amount("REGISTER", h), p.kids) = a
  <2>1. \A k \in 1..Len(p.kids) : Amount("REGISTER", h)[p.kids[k]] = <<a[k]>>
    BY <1>6, <1>7
  <2>. DEFINE w == "REGISTER"
              nodes == p.kids
  <2>2. w \in DeviceWords /\ nodes \in Seq(Trees[h]) /\ Listed(a) /\ Len(a) = Len(nodes)
        /\ \A k \in 1..Len(nodes) : Amount(w, h)[nodes[k]] = <<a[k]>>
    <3>1. Len(p.kids) \in Nat
      BY <1>4
    <3>. QED
      BY <1>2, <1>4, <1>6, <2>1, <3>1, ListOf
  <2>. HIDE DEF w, nodes
  <2>3. Below(w, Amount(w, h), nodes) = a
    BY <2>2, BelowOnes
  <2>. QED
    BY <2>3 DEF w, nodes
<1>. QED
  BY <1>3, <1>5, <1>8 DEF a

-----------------------------------------------------------------------------
(* The names of the pieces *)

LEMMA PieceNames ==
  ASSUME NEW kind, NEW inner, NEW w, Asks(kind, inner, w), NEW src, NEW x, Listed(x.kids)
  PROVE  /\ InPiece(kind, inner, [piece |-> "begin"]) = <<>>
         /\ InPiece(kind, inner, [piece |-> "end"]) = <<>>
         /\ InPiece(kind, inner, Struct(src, x)) =
              IF kind # "struct" THEN <<>> ELSE IF inner THEN KidNames(x) ELSE <<x.head.name>>
         /\ InPiece(kind, inner, Bitfields(src, x)) =
              IF kind # "bitfield" THEN <<>> ELSE IF inner THEN FieldNames(x) ELSE <<x.head.name>>
         /\ InPiece(kind, inner, Accessors(x)) =
              IF kind # "accessors" THEN <<>> ELSE IF inner THEN FieldNames(x) ELSE <<x.head.name>>
<1>1. kind \in {"struct", "bitfield", "accessors"}
  BY DEF Asks
<1>2. /\ InPiece(kind, inner, [piece |-> "begin"]) = <<>>
      /\ InPiece(kind, inner, [piece |-> "end"]) = <<>>
  BY <1>1 DEF InPiece
<1>3. /\ Bitfields(src, x).piece = "bitfield" /\ Bitfields(src, x).name = x.head.name
      /\ Bitfields(src, x).members = FieldNames(x)
      /\ Accessors(x).piece = "accessors" /\ Accessors(x).name = x.head.name
      /\ Accessors(x).members = FieldNames(x)
  BY DEF Bitfields, Accessors, FieldNames
<1>4. /\ Struct(src, x).piece = "struct" /\ Struct(src, x).name = x.head.name
      /\ Struct(src, x).members = Members(src, x.kids)
  BY DEF Struct
<1>. DEFINE l == Members(src, x.kids)
<1>5. Len(x.kids) \in Nat
  BY DEF Listed
<1>6. l = [k \in 1..Len(x.kids) |-> l[k]] /\ \A k \in 1..Len(x.kids) : l[k].name = x.kids[k].head.name
  BY DEF Members
<1>. HIDE DEF l
<1>7. Len(l) = Len(x.kids)
  BY <1>5, <1>6, ListOf
<1>8. [k \in 1..Len(l) |-> l[k].name] = KidNames(x)
  BY <1>6, <1>7 DEF KidNames
<1>9. NamesIn(Struct(src, x)) = KidNames(x)
  BY <1>4, <1>8 DEF NamesIn, l
<1>10. NamesIn(Bitfields(src, x)) = FieldNames(x) /\ NamesIn(Accessors(x)) = FieldNames(x)
  BY <1>3 DEF NamesIn
<1>. QED
  BY <1>2, <1>3, <1>4, <1>9, <1>10 DEF InPiece

LEMMA PiecesAreLists ==
  ASSUME NEW kind, NEW inner, NEW w, Asks(kind, inner, w), NEW src, NEW h \in Nat,
         NEW t \in Pieces(src, Devices(h))
  PROVE  IsAmount(w, InPiece(kind, inner, t))
<1>1. ASSUME NEW x \in Devices(h)
      PROVE  Listed(x.kids) /\ Listed(KidNames(x)) /\ Listed(FieldNames(x)) /\ Listed(<<x.head.name>>)
  <2>1. Listed(x.kids) /\ Len(x.kids) \in Nat
    BY KidsBelow DEF Devices, KidKinds
  <2>. DEFINE a == KidNames(x)
              b == FieldNames(x)
  <2>2. a = [k \in 1..Len(x.kids) |-> a[k]] /\ b = [k \in 1..Len(x.kids) |-> b[k]]
    BY DEF KidNames, FieldNames
  <2>. HIDE DEF a, b
  <2>3. Listed(a) /\ Listed(b)
    BY <2>1, <2>2, ListOf
  <2>. QED
    BY <2>1, <2>3, OneListed DEF a, b
<1>2. Listed(<<>>) /\ w \notin Counted
  BY EmptyListed DEF Asks, Counted
<1>3. CASE t = [piece |-> "begin"] \/ t = [piece |-> "end"]
  <2>1. InPiece(kind, inner, t) = <<>>
    <3>1. kind \in {"struct", "bitfield", "accessors"}
      BY DEF Asks
    <3>. QED
      BY <1>3, <3>1 DEF InPiece
  <2>. QED
    BY <1>2, <2>1 DEF IsAmount
<1>4. CASE \E x \in Devices(h) : t \in {Struct(src, x), Bitfields(src, x), Accessors(x)}
  <2>1. PICK x \in Devices(h) : t \in {Struct(src, x), Bitfields(src, x), Accessors(x)}
    BY <1>4
  <2>2. Listed(x.kids) /\ Listed(KidNames(x)) /\ Listed(FieldNames(x)) /\ Listed(<<x.head.name>>)
    BY <1>1
  <2>3. InPiece(kind, inner, t) \in {<<>>, KidNames(x), FieldNames(x), <<x.head.name>>}
    BY <2>1, <2>2, PieceNames
  <2>. HIDE DEF InPiece
  <2>. QED
    BY <1>2, <2>2, <2>3 DEF IsAmount
<1>. QED
  BY <1>3, <1>4 DEF Pieces

-----------------------------------------------------------------------------
(* What the generator writes *)

\* f has the names of the pieces of T.
Naming(kind, inner, src, h, T, f) ==
  T = Pieces(src, Devices(h)) /\ f = NamesOfPieces(kind, inner, T)

\* The pieces of a register have its names.
LEMMA RegisterPieces ==
  ASSUME NEW kind, NEW inner, NEW w, Asks(kind, inner, w), NEW src, NEW h \in Nat,
         NEW T, NEW f, Naming(kind, inner, src, h, T, f),
         NEW r \in Trees[h], IsRegister(r)
  PROVE  /\ ForRegister(src, r) \in Seq(T)
         /\ kind = "struct" => Below(w, f, ForRegister(src, r)) = <<>>
         /\ kind # "struct" => Below(w, f, ForRegister(src, r)) = Amount(w, h)[r]
<1>. DEFINE b == Bitfields(src, r)
            a == Accessors(r)
<1>1. r \in Devices(h) /\ Listed(r.kids) /\ Len(r.kids) \in Nat
  BY KidsBelow DEF Devices, IsRegister, KidKinds
<1>2. b \in T /\ a \in T
  BY <1>1 DEF Pieces, Naming
<1>3. (\A t \in T : IsAmount(w, f[t])) /\ f[b] = InPiece(kind, inner, b) /\ f[a] = InPiece(kind, inner, a)
  BY <1>2, PiecesAreLists DEF NamesOfPieces, Naming
<1>4. /\ f[b] = IF kind # "bitfield" THEN <<>> ELSE IF inner THEN FieldNames(r) ELSE <<r.head.name>>
      /\ f[a] = IF kind # "accessors" THEN <<>> ELSE IF inner THEN FieldNames(r) ELSE <<r.head.name>>
  BY <1>1, <1>3, PieceNames
<1>5. Amount("REGISTER", h)[r] = <<r.head.name>> /\ Amount("FIELD", h)[r] = FieldNames(r)
  BY RegisterAmounts
<1>6. w \notin Counted /\ None(w) = <<>>
  BY DEF Asks, Counted, None
<1>7. IsAmount(w, f[a]) /\ IsAmount(w, f[b])
  BY <1>2, <1>3
<1>. HIDE DEF a, b
<1>8. CASE r.kids = <<>>
  <2>1. ForRegister(src, r) = <<b>>
    BY <1>8 DEF ForRegister, b
  <2>2. <<b>> \in Seq(T)
    BY <1>2
  <2>3. Below(w, f, <<b>>) = f[b]
    BY <1>7, BelowOne
  <2>4. FieldNames(r) = <<>>
    <3>. DEFINE l == FieldNames(r)
    <3>1. l = [k \in 1..0 |-> l[k]]
      BY <1>8, EmptyListed DEF FieldNames
    <3>. HIDE DEF l
    <3>2. l = <<>>
      BY <3>1, ListOf, ListedEmpty
    <3>. QED
      BY <3>2 DEF l
  <2>5. f[b] = IF kind = "struct" THEN <<>> ELSE Amount(w, h)[r]
    <3>1. CASE kind = "struct"
      BY <1>4, <3>1
    <3>2. CASE kind # "struct"
      BY <1>4, <1>5, <2>4, <3>2 DEF Asks
    <3>. QED
      BY <3>1, <3>2
  <2>. QED
    BY <2>1, <2>2, <2>3, <2>5
<1>9. CASE r.kids # <<>>
  <2>1. ForRegister(src, r) = <<b, a>>
    BY <1>9 DEF ForRegister, a, b
  <2>2. <<b, a>> \in Seq(T)
    BY <1>2
  <2>3. Below(w, f, <<b, a>>) = Plus(w, f[b], f[a])
    BY <1>2, <1>3, BelowPair
  <2>4. CASE kind = "struct"
    <3>1. f[b] = None(w) /\ f[a] = None(w)
      BY <1>4, <1>6, <2>4
    <3>2. Plus(w, f[b], f[a]) = <<>>
      BY <1>6, <1>7, <3>1, PlusNone
    <3>. QED
      BY <2>1, <2>2, <2>3, <2>4, <3>2
  <2>5. CASE kind = "bitfield"
    <3>1. f[a] = None(w) /\ f[b] = Amount(w, h)[r]
      BY <1>4, <1>5, <1>6, <2>5 DEF Asks
    <3>2. Plus(w, f[b], f[a]) = f[b]
      BY <1>7, <3>1, PlusNone
    <3>. QED
      BY <2>1, <2>2, <2>3, <2>5, <3>1, <3>2
  <2>6. CASE kind = "accessors"
    <3>1. f[b] = None(w) /\ f[a] = Amount(w, h)[r]
      BY <1>4, <1>5, <1>6, <2>6 DEF Asks
    <3>2. Plus(w, f[b], f[a]) = f[a]
      BY <1>7, <3>1, PlusNone
    <3>. QED
      BY <2>1, <2>2, <2>3, <2>6, <3>1, <3>2
  <2>. QED
    BY <2>4, <2>5, <2>6 DEF Asks
<1>. QED
  BY <1>8, <1>9

\* Those of a peripheral have its names.
LEMMA PeripheralPieces ==
  ASSUME NEW kind, NEW inner, NEW w, Asks(kind, inner, w), NEW src, NEW h \in Nat,
         NEW T, NEW f, Naming(kind, inner, src, h, T, f),
         NEW p \in Trees[h], IsPeripheral(p)
  PROVE  /\ ForPeripheral(src, p) \in Seq(T)
         /\ Below(w, f, ForPeripheral(src, p)) = Amount(w, h)[p]
<1>. DEFINE m == Amount(w, h)
            x == Struct(src, p)
            kids == p.kids
            s == [k \in 1..Len(kids) |-> ForRegister(src, kids[k])]
            l == [k \in 1..Len(s) |-> Below(w, f, s[k])]
<1>1. /\ p \in Devices(h) /\ kids \in Seq(Trees[h]) /\ Listed(kids) /\ Len(kids) \in Nat
      /\ \A k \in 1..Len(kids) : kids[k] \in Trees[h] /\ IsRegister(kids[k])
  BY KidsBelow DEF Devices, IsPeripheral, KidKinds
<1>2. x \in T
  BY <1>1 DEF Pieces, Naming
<1>3. (\A t \in T : IsAmount(w, f[t])) /\ f[x] = InPiece(kind, inner, x)
  BY <1>2, PiecesAreLists DEF NamesOfPieces, Naming
<1>4. f[x] = IF kind # "struct" THEN <<>> ELSE IF inner THEN KidNames(p) ELSE <<p.head.name>>
  BY <1>1, <1>3, PieceNames
<1>5. /\ Amount("PERIPHERAL", h)[p] = <<p.head.name>> /\ Amount("REGISTER", h)[p] = KidNames(p)
      /\ w \in {"REGISTER", "FIELD"} => Amount(w, h)[p] = Below(w, m, kids)
  BY PeripheralAmounts
<1>6. w \notin Counted /\ None(w) = <<>>
  BY DEF Asks, Counted, None
<1>7. ForPeripheral(src, p) = <<x>> \o FlattenSeq(s)
  BY DEF ForPeripheral
<1>8. s = [k \in 1..Len(kids) |-> s[k]] /\ \A k \in 1..Len(kids) : s[k] = ForRegister(src, kids[k])
  OBVIOUS
<1>9. l = [k \in 1..Len(s) |-> l[k]] /\ \A k \in 1..Len(s) : l[k] = Below(w, f, s[k])
  OBVIOUS
<1>. HIDE DEF x, s
<1>10. Listed(s) /\ Len(s) = Len(kids)
  BY <1>1, <1>8, ListOf
<1>. HIDE DEF kids
<1>11. ASSUME NEW k \in 1..Len(s)
       PROVE  s[k] \in Seq(T) /\ Below(w, f, s[k]) = IF kind = "struct" THEN <<>> ELSE m[kids[k]]
  <2>. DEFINE r == kids[k]
  <2>1. r \in Trees[h] /\ IsRegister(r) /\ s[k] = ForRegister(src, r)
    BY <1>1, <1>8, <1>10
  <2>. HIDE DEF r
  <2>2. /\ ForRegister(src, r) \in Seq(T)
        /\ kind = "struct" => Below(w, f, ForRegister(src, r)) = <<>>
        /\ kind # "struct" => Below(w, f, ForRegister(src, r)) = Amount(w, h)[r]
    BY <2>1, RegisterPieces
  <2>. QED
    BY <2>1, <2>2 DEF r
<1>12. FlattenSeq(s) \in Seq(T) /\ Below(w, f, FlattenSeq(s)) = All(w, l)
  <2>1. (\A t \in T : IsAmount(w, f[t])) /\ (\A k \in 1..Len(s) : s[k] \in Seq(T))
    BY <1>3, <1>11
  <2>. HIDE DEF l
  <2>2. /\ FlattenSeq(s) \in Seq(T)
        /\ Below(w, f, FlattenSeq(s)) = All(w, [k \in 1..Len(s) |-> Below(w, f, s[k])])
    BY <1>10, <2>1, BelowFlat
  <2>. QED
    BY <2>2 DEF l
<1>13. /\ <<x>> \o FlattenSeq(s) \in Seq(T)
       /\ Below(w, f, <<x>> \o FlattenSeq(s)) = Plus(w, f[x], All(w, l))
  <2>1. <<x>> \in Seq(T)
    BY <1>2
  <2>. QED
    BY <1>2, <1>3, <1>12, <2>1, BelowPush, ConcatProperties
<1>. HIDE DEF l
<1>14. Listed(l) /\ Len(l) = Len(s)
  BY <1>9, <1>10, ListOf DEF Listed
<1>15. Plus(w, f[x], All(w, l)) = m[p]
  <2>1. CASE kind = "struct"
    <3>1. \A k \in 1..Len(l) : l[k] = None(w)
      BY <1>6, <1>9, <1>11, <1>14, <2>1
    <3>2. All(w, l) = None(w)
      BY <1>14, <3>1, AllNone
    <3>3. Plus(w, f[x], None(w)) = f[x]
      BY <1>2, <1>3, PlusNone
    <3>4. f[x] = m[p]
      BY <1>4, <1>5, <2>1 DEF Asks
    <3>. QED
      BY <3>2, <3>3, <3>4
  <2>2. CASE kind # "struct"
    <3>1. f[x] = None(w) /\ w \in {"REGISTER", "FIELD"}
      BY <1>4, <1>6, <2>2 DEF Asks
    <3>2. l = [k \in 1..Len(kids) |-> m[kids[k]]]
      BY <1>9, <1>10, <1>11, <2>2
    <3>3. All(w, l) = m[p]
      BY <1>5, <3>1, <3>2 DEF Below
    <3>4. IsAmount(w, m[p])
      BY AmountEquation
    <3>. QED
      BY <3>1, <3>3, <3>4, PlusNone
  <2>. QED
    BY <2>1, <2>2
<1>. QED
  BY <1>7, <1>13, <1>15

\* The peripherals of a program have all that is measured of it.
LEMMA PeripheralsOnly ==
  ASSUME NEW h \in Nat, NEW n \in Trees[h], n.kind = "program", Ordered(n), NEW w \in DeviceWords
  PROVE  LET ps == OfKind(n.kids, "peripheral")
         IN  /\ ps \in Seq({t \in Trees[h] : IsPeripheral(t)})
             /\ Below(w, Amount(w, h), ps) = Amount(w, h)[n]
<1>. DEFINE m == Amount(w, h)
            kids == n.kids
            P == {t \in Trees[h] : IsPeripheral(t)}
            s == [k \in 1..Len(kids) |-> IF kids[k].kind = "peripheral" THEN <<kids[k]>> ELSE <<>>]
            l == [k \in 1..Len(s) |-> Below(w, m, s[k])]
<1>1. /\ kids \in Seq(Trees[h]) /\ Listed(kids) /\ Len(kids) \in Nat
      /\ \A k \in 1..Len(kids) : kids[k] \in Trees[h]
  BY KidsBelow DEF KidKinds
<1>2. \A k \in 1..Len(kids) : kids[k].kind = "function" \/ IsPeripheral(kids[k])
  BY DEF Ordered, Belongs
<1>3. w \notin Both /\ "program" \in Outer(w) /\ "function" \notin Outer(w) /\ None(w) = <<>>
  <2>1. CASE w = "PERIPHERAL"
    BY <2>1 DEF Both, Outer, None, Counted
  <2>2. CASE w = "REGISTER"
    BY <2>2 DEF Both, Outer, None, Counted
  <2>3. CASE w = "FIELD"
    BY <2>3 DEF Both, Outer, None, Counted
  <2>. QED
    BY <2>1, <2>2, <2>3 DEF DeviceWords
<1>4. m[n] = Below(w, m, kids)
  <2>1. Own(w, n) = <<>>
    BY DEF Own, DeviceWords
  <2>2. n.kind \in KidKinds /\ n.kind \in Outer(w)
    BY <1>3 DEF KidKinds
  <2>. QED
    BY <2>1, <2>2, BelowOnly
<1>5. /\ s = [k \in 1..Len(kids) |-> s[k]]
      /\ \A k \in 1..Len(kids) : s[k] = IF kids[k].kind = "peripheral" THEN <<kids[k]>> ELSE <<>>
      /\ OfKind(kids, "peripheral") = FlattenSeq(s)
  BY DEF OfKind
<1>6. \A t \in P : t \in Trees[h] /\ IsPeripheral(t) /\ IsAmount(w, m[t])
  BY AmountEquation
<1>7. \A k \in 1..Len(kids) : kids[k].kind = "function" => m[kids[k]] = None(w)
  <2>. SUFFICES ASSUME NEW k \in 1..Len(kids), kids[k].kind = "function"
                PROVE  m[kids[k]] = None(w)
    OBVIOUS
  <2>1. m[kids[k]] = Own(w, kids[k])
    BY <1>1, <1>3, OwnOnly
  <2>2. Own(w, kids[k]) = <<>>
    BY DEF Own, DeviceWords
  <2>. QED
    BY <1>3, <2>1, <2>2
<1>8. \A k \in 1..Len(kids) : IsPeripheral(kids[k]) => kids[k] \in P
  BY <1>1
<1>. HIDE DEF s, m, P, kids
<1>9. Listed(s) /\ Len(s) = Len(kids)
  BY <1>1, <1>5, ListOf
<1>10. ASSUME NEW k \in 1..Len(s) PROVE s[k] \in Seq(P) /\ Below(w, m, s[k]) = m[kids[k]]
  <2>0. k \in 1..Len(kids)
    BY <1>9
  <2>. DEFINE x == kids[k]
  <2>1. CASE x.kind = "peripheral"
    <3>1. s[k] = <<x>> /\ x \in P
      BY <1>2, <1>5, <1>8, <2>0, <2>1
    <3>2. IsAmount(w, m[x])
      BY <1>6, <3>1
    <3>. HIDE DEF x
    <3>3. <<x>> \in Seq(P)
      BY <3>1
    <3>4. Below(w, m, <<x>>) = m[x]
      BY <3>2, BelowOne
    <3>. QED
      BY <3>1, <3>3, <3>4 DEF x
  <2>2. CASE x.kind # "peripheral"
    <3>1. s[k] = <<>> /\ x.kind = "function"
      BY <1>2, <1>5, <2>0, <2>2 DEF IsPeripheral
    <3>2. <<>> \in Seq(P)
      BY EmptySeq
    <3>. QED
      BY <1>7, <2>0, <3>1, <3>2, BelowNone
  <2>. QED
    BY <2>1, <2>2
<1>11. FlattenSeq(s) \in Seq(P) /\ Below(w, m, FlattenSeq(s)) = All(w, l)
  <2>1. (\A t \in P : IsAmount(w, m[t])) /\ (\A k \in 1..Len(s) : s[k] \in Seq(P))
    BY <1>6, <1>10
  <2>. HIDE DEF l
  <2>2. /\ FlattenSeq(s) \in Seq(P)
        /\ Below(w, m, FlattenSeq(s)) = All(w, [k \in 1..Len(s) |-> Below(w, m, s[k])])
    BY <1>9, <2>1, BelowFlat, ZenonT(60)
  <2>. QED
    BY <2>2 DEF l
<1>12. l = [k \in 1..Len(kids) |-> m[kids[k]]]
  BY <1>9, <1>10
<1>. QED
  BY <1>4, <1>5, <1>11, <1>12 DEF Below, m, P, kids

-----------------------------------------------------------------------------
(* The whole header *)

\* The names in the pieces of a header.
Picked(kind, inner, header) ==
  FlattenSeq([k \in 1..Len(header) |-> InPiece(kind, inner, header[k])])

LEMMA PickedNames ==
  ASSUME NEW kind, NEW header
  PROVE  NamesOf(header, kind) = Picked(kind, FALSE, header)
         /\ MembersOf(header, kind) = Picked(kind, TRUE, header)
BY DEF NamesOf, MembersOf, Picked, InPiece

LEMMA GeneratedPieces ==
  ASSUME NEW kind, NEW inner, NEW w, Asks(kind, inner, w), NEW src, NEW h \in Nat,
         NEW T, NEW f, Naming(kind, inner, src, h, T, f),
         NEW n \in Trees[h], n.kind = "program", Ordered(n)
  PROVE  /\ Generated(src, n) \in Seq(T)
         /\ Below(w, f, Generated(src, n)) = Amount(w, h)[n]
<1>. DEFINE m == Amount(w, h)
            P == {t \in Trees[h] : IsPeripheral(t)}
            ps == OfKind(n.kids, "peripheral")
            b == [piece |-> "begin"]
            e == [piece |-> "end"]
            s == [k \in 1..Len(ps) |-> ForPeripheral(src, ps[k])]
            l == [k \in 1..Len(s) |-> Below(w, f, s[k])]
<1>1. ps \in Seq(P) /\ Below(w, m, ps) = m[n]
  <2>1. w \in DeviceWords
    BY DEF Asks, DeviceWords
  <2>. QED
    BY <2>1, PeripheralsOnly
<1>2. b \in T /\ e \in T /\ (\A t \in T : IsAmount(w, f[t])) /\ f[b] = None(w) /\ f[e] = None(w)
  <2>1. b \in T /\ e \in T
    BY DEF Pieces, Naming
  <2>2. \A t \in T : IsAmount(w, f[t]) /\ f[t] = InPiece(kind, inner, t)
    BY PiecesAreLists DEF NamesOfPieces, Naming
  <2>3. InPiece(kind, inner, b) = <<>> /\ InPiece(kind, inner, e) = <<>>
    <3>1. kind \in {"struct", "bitfield", "accessors"}
      BY DEF Asks
    <3>. QED
      BY <3>1 DEF InPiece
  <2>4. None(w) = <<>>
    BY DEF None, Counted, Asks
  <2>. QED
    BY <2>1, <2>2, <2>3, <2>4
<1>3. Generated(src, n) = (<<b>> \o FlattenSeq(s)) \o <<e>>
  BY DEF Generated
<1>4. s = [k \in 1..Len(ps) |-> s[k]] /\ \A k \in 1..Len(ps) : s[k] = ForPeripheral(src, ps[k])
  OBVIOUS
<1>5. \A t \in P : t \in Trees[h] /\ IsPeripheral(t)
  OBVIOUS
<1>. HIDE DEF b, e, s, ps, P
<1>6. Listed(s) /\ Len(s) = Len(ps) /\ Len(ps) \in Nat /\ \A k \in 1..Len(ps) : ps[k] \in P
  BY <1>1, <1>4, ListOf
<1>7. ASSUME NEW k \in 1..Len(s) PROVE s[k] \in Seq(T) /\ Below(w, f, s[k]) = m[ps[k]]
  <2>. DEFINE p == ps[k]
  <2>0. s[k] = ForPeripheral(src, p)
    BY <1>4, <1>6
  <2>1. p \in Trees[h] /\ IsPeripheral(p)
    BY <1>5, <1>6
  <2>. HIDE DEF p
  <2>. HIDE DEF m
  <2>2. ForPeripheral(src, p) \in Seq(T)
    BY <2>1, PeripheralPieces
  <2>3. Below(w, f, ForPeripheral(src, p)) = Amount(w, h)[p]
    BY <2>1, PeripheralPieces
  <2>. QED
    BY <2>0, <2>2, <2>3 DEF p, m
<1>8. FlattenSeq(s) \in Seq(T) /\ Below(w, f, FlattenSeq(s)) = All(w, l)
  <2>1. (\A t \in T : IsAmount(w, f[t])) /\ (\A k \in 1..Len(s) : s[k] \in Seq(T))
    BY <1>2, <1>7
  <2>. HIDE DEF l
  <2>2. /\ FlattenSeq(s) \in Seq(T)
        /\ Below(w, f, FlattenSeq(s)) = All(w, [k \in 1..Len(s) |-> Below(w, f, s[k])])
    BY <1>6, <2>1, BelowFlat, ZenonT(60)
  <2>. QED
    BY <2>2 DEF l
<1>9. All(w, l) = m[n]
  <2>1. l = [k \in 1..Len(ps) |-> m[ps[k]]]
    BY <1>6, <1>7
  <2>. QED
    BY <1>1, <2>1 DEF Below
<1>. HIDE DEF l, m
<1>. DEFINE c == <<b>> \o FlattenSeq(s)
<1>10. c \in Seq(T) /\ Below(w, f, c) = m[n]
  <2>1. <<b>> \in Seq(T)
    BY <1>2
  <2>2. \A t \in T : IsAmount(w, f[t])
    BY <1>2
  <2>3. Below(w, f, c) = Plus(w, f[b], Below(w, f, FlattenSeq(s)))
    BY <1>2, <1>8, <2>2, BelowPush
  <2>4. IsAmount(w, Below(w, f, FlattenSeq(s)))
    BY <1>8, <2>2, BelowAmount
  <2>. QED
    BY <1>2, <1>8, <1>9, <2>1, <2>3, <2>4, PlusNone, ConcatProperties
<1>. HIDE DEF c
<1>11. /\ c \o <<e>> \in Seq(T)
       /\ Below(w, f, c \o <<e>>) = m[n]
  <2>. DEFINE one == <<e>>
  <2>1. one \in Seq(T)
    BY <1>2
  <2>2. \A t \in T : IsAmount(w, f[t])
    BY <1>2
  <2>3. Below(w, f, one) = f[e]
    BY <1>2, BelowOne
  <2>. HIDE DEF one
  <2>4. c \o one \in Seq(T) /\ Below(w, f, c \o one) = Plus(w, Below(w, f, c), Below(w, f, one))
    BY <1>10, <2>1, <2>2, BelowConcat
  <2>5. IsAmount(w, Below(w, f, c))
    BY <1>10, <2>2, BelowAmount
  <2>. QED
    BY <1>2, <1>10, <2>3, <2>4, <2>5, PlusNone DEF one
<1>. QED
  BY <1>3, <1>11 DEF c, m

\* What is picked of a header is what the program has.
LEMMA GeneratedNames ==
  ASSUME NEW kind, NEW inner, NEW w, Asks(kind, inner, w), NEW src, NEW h \in Nat,
         NEW n \in Trees[h], n.kind = "program", Ordered(n)
  PROVE  Picked(kind, inner, Generated(src, n)) = Amount(w, h)[n]
<1>. DEFINE T == Pieces(src, Devices(h))
            f == NamesOfPieces(kind, inner, T)
            g == Generated(src, n)
<1>1. Naming(kind, inner, src, h, T, f) /\ \A t \in T : f[t] = InPiece(kind, inner, t)
  BY DEF Naming, NamesOfPieces
<1>. HIDE DEF T, f
<1>2. g \in Seq(T) /\ Below(w, f, g) = Amount(w, h)[n]
  BY <1>1, GeneratedPieces
<1>. HIDE DEF g
<1>3. \A k \in 1..Len(g) : g[k] \in T
  BY <1>2
<1>4. [k \in 1..Len(g) |-> f[g[k]]] = [k \in 1..Len(g) |-> InPiece(kind, inner, g[k])]
  BY <1>1, <1>3
<1>5. w \notin Counted
  BY DEF Asks, Counted
<1>6. Below(w, f, g) = FlattenSeq([k \in 1..Len(g) |-> InPiece(kind, inner, g[k])])
  BY <1>4, <1>5 DEF Below, All
<1>. QED
  BY <1>2, <1>6 DEF Picked, g

\* A header has a beginning and an end.
LEMMA GeneratedEnds ==
  ASSUME NEW src, NEW h \in Nat, NEW n \in Trees[h], n.kind = "program", Ordered(n)
  PROVE  LET g == Generated(src, n)
         IN  Listed(g) /\ g # <<>> /\ Head(g).piece = "begin" /\ g[Len(g)].piece = "end"
<1>. DEFINE T == Pieces(src, Devices(h))
            f == NamesOfPieces("struct", FALSE, T)
            g == Generated(src, n)
            ps == OfKind(n.kids, "peripheral")
            m == FlattenSeq([k \in 1..Len(ps) |-> ForPeripheral(src, ps[k])])
            b == [piece |-> "begin"]
            e == [piece |-> "end"]
            c == <<b>> \o m
<1>1. g = c \o <<e>> /\ b.piece = "begin" /\ e.piece = "end"
  BY DEF Generated
<1>2. Listed(m)
  <2>. DEFINE s == [k \in 1..Len(ps) |-> ForPeripheral(src, ps[k])]
              P == {t \in Trees[h] : IsPeripheral(t)}
  <2>1. ps \in Seq(P)
    BY PeripheralsOnly DEF DeviceWords
  <2>2. s = [k \in 1..Len(ps) |-> s[k]] /\ \A k \in 1..Len(ps) : s[k] = ForPeripheral(src, ps[k])
    OBVIOUS
  <2>3. \A p \in P : Listed(ForPeripheral(src, p))
    <3>. SUFFICES ASSUME NEW p \in P PROVE Listed(ForPeripheral(src, p))
      OBVIOUS
    <3>. DEFINE kind == "struct"
                inner == FALSE
                w == "PERIPHERAL"
    <3>1. Asks(kind, inner, w) /\ Naming(kind, inner, src, h, T, f)
      BY DEF Asks, Naming
    <3>. HIDE DEF kind, inner, w, T, f
    <3>2. ForPeripheral(src, p) \in Seq(T)
      BY <3>1, PeripheralPieces
    <3>. QED
      BY <3>2, SeqIsListed
  <2>. HIDE DEF s, ps, P
  <2>4. Listed(s) /\ Len(s) = Len(ps) /\ \A k \in 1..Len(ps) : ps[k] \in P
    BY <2>1, <2>2, ListOf
  <2>5. Amounts("refs", s)
    BY <2>2, <2>3, <2>4 DEF Amounts, IsAmount, Counted
  <2>6. IsAmount("refs", All("refs", s))
    BY <2>5, AllAmount
  <2>. QED
    BY <2>6 DEF IsAmount, All, Counted, s
<1>. HIDE DEF g, m, b, e, T, f
<1>3. Listed(c) /\ Len(c) = Len(m) + 1 /\ c[1] = b /\ Len(m) \in Nat
  BY <1>2, PushEffect DEF Listed
<1>. HIDE DEF c
<1>4. g = Append(c, e)
  BY <1>1, <1>3, AppendIsBehind
<1>5. Listed(g) /\ Len(g) = Len(c) + 1 /\ g[Len(c) + 1] = e /\ \A k \in 1..Len(c) : g[k] = c[k]
  BY <1>3, <1>4, AppendEffect, AppendElements
<1>6. 1 \in 1..Len(c)
  BY <1>3
<1>7. g[1] = b /\ g # <<>> /\ Len(g) >= 1
  BY <1>3, <1>5, <1>6, EmptyListed
<1>8. Head(g) = g[1]
  BY <1>5, <1>7, TailEffect
<1>. QED
  BY <1>1, <1>5, <1>7, <1>8 DEF g

\* The names in a text.
LEMMA NamesSpan ==
  ASSUME NEW w \in DeviceWords, Len(cursor.src) \in Nat
  PROVE  NamesAfter(w) = Span(w, cursor.src, 1, Len(cursor.src) + 1)
<1>. DEFINE src == cursor.src
            n == Len(src)
<1>1. (n + 1) - 1 = n /\ \A k \in 1..n : 1 + k - 1 = k
  OBVIOUS
<1>2. \A k : Mark(w, src, 1, k) = IF src[k] = w THEN <<k + 1>> ELSE <<>>
  BY DEF Mark, DeviceWords
<1>3. w \notin Counted
  BY DEF DeviceWords, Counted
<1>. HIDE DEF n, src
<1>4. [k \in 1..(n + 1) - 1 |-> Mark(w, src, 1, 1 + k - 1)]
        = [k \in 1..n |-> IF src[k] = w THEN <<k + 1>> ELSE <<>>]
  BY <1>1, <1>2
<1>. QED
  BY <1>3, <1>4 DEF Span, All, NamesAfter, src, n

-----------------------------------------------------------------------------
(* The parts of a header *)

\* What can stand in a header.
Standing(src, h) == Pieces(src, Devices(h))

PickedFrom(kind, inner, w, T) ==
  Asks(kind, inner, w) /\ \E src : \E h \in Nat : T = Standing(src, h)

\* What is picked of two parts, and of a single piece.
LEMMA PickedParts ==
  ASSUME NEW kind, NEW inner, NEW w, NEW T, PickedFrom(kind, inner, w, T),
         NEW a \in Seq(T), NEW b \in Seq(T)
  PROVE  /\ Picked(kind, inner, a \o b) = Picked(kind, inner, a) \o Picked(kind, inner, b)
         /\ Listed(Picked(kind, inner, a)) /\ Listed(Picked(kind, inner, b))
<1>. DEFINE f == NamesOfPieces(kind, inner, T)
            c == a \o b
<1>0. PICK src : \E h \in Nat : T = Standing(src, h)
  BY DEF PickedFrom
<1>1. \A t \in T : f[t] = InPiece(kind, inner, t) /\ IsAmount(w, f[t])
  <2>1. PICK h \in Nat : T = Standing(src, h)
    BY <1>0
  <2>. QED
    BY <2>1, PiecesAreLists DEF NamesOfPieces, Standing, PickedFrom
<1>2. w \notin Counted
  BY DEF Asks, Counted, PickedFrom
<1>. HIDE DEF f
<1>3. a \in Seq(T) /\ b \in Seq(T)
  OBVIOUS
<1>4. \A t \in T : IsAmount(w, f[t])
  BY <1>1
<1>5. c \in Seq(T) /\ Below(w, f, c) = Plus(w, Below(w, f, a), Below(w, f, b))
  BY <1>3, <1>4, BelowConcat
<1>. HIDE DEF c
<1>6. ASSUME NEW s \in Seq(T)
      PROVE  Below(w, f, s) = Picked(kind, inner, s) /\ Listed(Picked(kind, inner, s))
  <2>1. \A k \in 1..Len(s) : s[k] \in T
    OBVIOUS
  <2>2. [k \in 1..Len(s) |-> f[s[k]]] = [k \in 1..Len(s) |-> InPiece(kind, inner, s[k])]
    BY <1>1, <2>1
  <2>3. Below(w, f, s) = Picked(kind, inner, s)
    BY <1>2, <2>2 DEF Below, All, Picked
  <2>4. IsAmount(w, Below(w, f, s))
    BY <1>4, BelowAmount
  <2>. QED
    BY <1>2, <2>3, <2>4 DEF IsAmount
<1>7. Below(w, f, c) = Below(w, f, a) \o Below(w, f, b)
  BY <1>2, <1>5 DEF Plus
<1>. QED
  BY <1>3, <1>5, <1>6, <1>7 DEF c

LEMMA PickedOne ==
  ASSUME NEW kind, NEW inner, NEW w, Asks(kind, inner, w), NEW src, NEW h \in Nat,
         NEW x \in Standing(src, h)
  PROVE  Picked(kind, inner, <<x>>) = InPiece(kind, inner, x) /\ Listed(InPiece(kind, inner, x))
<1>. DEFINE f == [t \in {x} |-> InPiece(kind, inner, t)]
            y == InPiece(kind, inner, x)
<1>1. IsAmount(w, y) /\ w \notin Counted
  BY PiecesAreLists DEF Asks, Counted, Standing
<1>2. f[x] = y /\ <<x>> = [k \in 1..1 |-> x]
  OBVIOUS
<1>3. Below(w, f, <<x>>) = y
  <2>. HIDE DEF f, y
  <2>. QED
    BY <1>1, <1>2, BelowOne
<1>4. [k \in 1..Len(<<x>>) |-> f[<<x>>[k]]] = [k \in 1..Len(<<x>>) |-> InPiece(kind, inner, <<x>>[k])]
  <2>1. Len(<<x>>) = 1 /\ <<x>>[1] = x
    BY OneListed
  <2>2. \A k \in 1..Len(<<x>>) : <<x>>[k] = x
    BY <2>1
  <2>. QED
    BY <1>2, <2>2
<1>5. Below(w, f, <<x>>) = Picked(kind, inner, <<x>>)
  BY <1>1, <1>4 DEF Below, All, Picked
<1>. QED
  BY <1>1, <1>3, <1>5 DEF IsAmount

LEMMA PickedNone ==
  ASSUME NEW kind, NEW inner, NEW w, Asks(kind, inner, w)
  PROVE  Picked(kind, inner, <<>>) = <<>>
<1>. DEFINE f == [t \in {} |-> InPiece(kind, inner, t)]
<1>1. Below(w, f, <<>>) = <<>>
  BY BelowNone DEF Asks, None, Counted
<1>2. [k \in 1..Len(<<>>) |-> f[<<>>[k]]] = [k \in 1..Len(<<>>) |-> InPiece(kind, inner, <<>>[k])]
  <2>1. 1..Len(<<>>) = {}
    BY EmptyListed
  <2>. QED
    BY <2>1
<1>. QED
  BY <1>1, <1>2 DEF Below, All, Picked, Asks, Counted

\* The parts of what can stand in a header can stand in one.
LEMMA PartsStand ==
  ASSUME NEW T, NEW a, Listed(a), NEW b, Listed(b), a \o b \in Seq(T)
  PROVE  a \in Seq(T) /\ b \in Seq(T)
<1>1. /\ Len(a \o b) = Len(a) + Len(b) /\ Len(a) \in Nat /\ Len(b) \in Nat
      /\ \A k \in 1..Len(a) : (a \o b)[k] = a[k]
      /\ \A k \in 1..Len(b) : (a \o b)[Len(a) + k] = b[k]
  BY ConcatEffect DEF Listed
<1>2. \A k \in 1..Len(a \o b) : (a \o b)[k] \in T
  OBVIOUS
<1>. DEFINE c == a \o b
<1>. HIDE DEF c
<1>3. \A k \in 1..Len(a) : a[k] \in T
  BY <1>1, <1>2
<1>4. ASSUME NEW k \in 1..Len(b) PROVE b[k] \in T
  <2>1. Len(a) + k \in 1..Len(a \o b)
    BY <1>1
  <2>. QED
    BY <1>1, <1>2, <2>1
<1>. QED
  BY <1>3, <1>4, ListedInSeq

\* A list is the beginning of what begins with it.
LEMMA PartIsPrefix ==
  ASSUME NEW a, Listed(a), NEW b, Listed(b)
  PROVE  IsPrefix(a, a \o b) /\ Len(a \o b) = Len(a) + Len(b)
<1>. DEFINE c == a \o b
            S == ElementsOf(a) \cup ElementsOf(b)
<1>1. /\ Listed(c) /\ Len(c) = Len(a) + Len(b) /\ Len(a) \in Nat /\ Len(b) \in Nat
      /\ \A k \in 1..Len(a) : c[k] = a[k]
  BY ConcatEffect DEF Listed
<1>. HIDE DEF c
<1>2. SubSeq(a, 1, Len(a)) = [k \in 1..Len(a) |-> a[k]]
      /\ SubSeq(c, 1, Len(a)) = [k \in 1..Len(a) |-> c[k]]
  <2>. DEFINE n == Len(a)
              u == SubSeq(a, 1, n)
              v == SubSeq(c, 1, n)
  <2>1. \A k \in 1..n : a[k] \in ElementsOf(a) /\ c[k] \in ElementsOf(a)
    BY <1>1 DEF ElementsOf
  <2>2. /\ u \in Seq(ElementsOf(a)) /\ Len(u) = n /\ \A k \in 1..n : u[k] = a[k]
        /\ v \in Seq(ElementsOf(a)) /\ Len(v) = n /\ \A k \in 1..n : v[k] = c[k]
    <3>1. n \in Int /\ 1 \in Int /\ n - 1 + 1 = n /\ (n < 1 => n = 0)
      BY <1>1
    <3>. HIDE DEF n
    <3>2. \A k \in 1..n : 1 + k - 1 = k
      BY <3>1
    <3>3. /\ u \in Seq(ElementsOf(a)) /\ Len(u) = (IF 1 <= n THEN n - 1 + 1 ELSE 0)
          /\ \A k \in 1..n - 1 + 1 : u[k] = a[1 + k - 1]
      BY <2>1, <3>1, SubSeqProperties
    <3>4. /\ v \in Seq(ElementsOf(a)) /\ Len(v) = (IF 1 <= n THEN n - 1 + 1 ELSE 0)
          /\ \A k \in 1..n - 1 + 1 : v[k] = c[1 + k - 1]
      BY <2>1, <3>1, SubSeqProperties
    <3>5. (IF 1 <= n THEN n - 1 + 1 ELSE 0) = n
      BY <3>1
    <3>. HIDE DEF u, v
    <3>. QED
      BY <3>1, <3>2, <3>3, <3>4, <3>5
  <2>. HIDE DEF u, v
  <2>3. Listed(u) /\ Listed(v)
    BY <2>2, SeqIsListed
  <2>4. u = [k \in 1..n |-> u[k]] /\ v = [k \in 1..n |-> v[k]]
    <3>1. Len(u) = n /\ Len(v) = n
      BY <2>2
    <3>. QED
      BY <2>3, <3>1 DEF Listed
  <2>5. [k \in 1..n |-> u[k]] = [k \in 1..n |-> a[k]] /\ [k \in 1..n |-> v[k]] = [k \in 1..n |-> c[k]]
    BY <2>2
  <2>. QED
    BY <2>4, <2>5 DEF u, v
<1>3. [k \in 1..Len(a) |-> a[k]] = [k \in 1..Len(a) |-> c[k]]
  BY <1>1
<1>4. SubSeq(a, 1, Len(a)) = SubSeq(c, 1, Len(a)) /\ Len(a) <= Len(c)
  BY <1>1, <1>2, <1>3
<1>. QED
  BY <1>1, <1>4 DEF IsPrefix, c

\* The names behind a word are places of the text.
Spots == 1..Len(cursor.src) + 1

LEMMA NamesAreSpots ==
  ASSUME NEW w, Len(cursor.src) \in Nat
  PROVE  NamesAfter(w) \in Seq(Spots)
<1>. DEFINE n == Len(cursor.src)
            s == [k \in 1..n |-> IF cursor.src[k] = w THEN <<k + 1>> ELSE <<>>]
            f == [t \in Spots |-> <<>>]
            v == "PERIPHERAL"
<1>1. \A k \in 1..n : s[k] \in Seq(Spots)
  <2>. SUFFICES ASSUME NEW k \in 1..n PROVE s[k] \in Seq(Spots)
    OBVIOUS
  <2>1. k + 1 \in Spots
    BY DEF Spots
  <2>2. <<k + 1>> \in Seq(Spots) /\ <<>> \in Seq(Spots)
    BY <2>1
  <2>. QED
    BY <2>2
<1>2. s = [k \in 1..n |-> s[k]] /\ NamesAfter(w) = FlattenSeq(s)
  BY DEF NamesAfter
<1>3. \A t \in Spots : IsAmount(v, f[t])
  BY EmptyListed DEF IsAmount, Counted
<1>. HIDE DEF s, f, v
<1>4. Listed(s) /\ Len(s) = n
  BY <1>2, ListOf
<1>5. FlattenSeq(s) \in Seq(Spots)
  <2>1. \A k \in 1..Len(s) : s[k] \in Seq(Spots)
    BY <1>1, <1>4
  <2>. HIDE DEF Spots
  <2>. QED
    BY <1>3, <1>4, <2>1, BelowFlat
<1>. QED
  BY <1>2, <1>5

-----------------------------------------------------------------------------
(* Lines that are cut *)

LEMMA DigitsBound ==
  ASSUME NEW n
  PROVE  Digits(n) \in Nat /\ Digits(n) <= 8
<1>. DEFINE S == {0} \cup {d \in 1..7 : 16^d <= n}
<1>1. S \subseteq 0..7
  OBVIOUS
<1>2. IsFiniteSet(0..7) /\ Cardinality(0..7) = 8
  <2>1. PICK a \in Int, b \in Int : a = 0 /\ b = 7
    OBVIOUS
  <2>2. IsFiniteSet(a..b) /\ Cardinality(a..b) = IF a > b THEN 0 ELSE b - a + 1
    BY FS_Interval
  <2>. QED
    BY <2>1, <2>2
<1>. HIDE DEF S
<1>3. IsFiniteSet(S) /\ Cardinality(S) <= Cardinality(0..7)
  BY <1>1, <1>2, FS_Subset
<1>4. Cardinality(S) \in Nat
  BY <1>3, FS_CardinalityType
<1>. QED
  BY <1>2, <1>3, <1>4 DEF Digits, S

\* The lengths of the text behind a place.
LEMMA TextLengths ==
  ASSUME source \in Texts, cursor.src = TokensOf(source), NEW k \in Spots
  PROVE  /\ RestLength(source, k) \in Nat /\ SafeLength(source, k) \in Nat
         /\ SafeLength(source, k) <= RestLength(source, k)
BY LengthsAssumption DEF Spots

\* No line is longer than the longest can be.
LEMMA LineBound ==
  ASSUME source \in Texts, cursor.src = TokensOf(source), NEW k \in Spots, NEW length \in Int,
         \E n : length \in {RestLength(source, k) + 16, SafeLength(source, k) + 7,
                            2 * SafeLength(source, k) + 38, RestLength(source, k) + 27 + Digits(n),
                            SafeLength(source, k) + 16, SafeLength(source, k) + 26 + Digits(n),
                            SafeLength(source, k) + 32, SafeLength(source, k) + 23},
         TooLong(length)
  PROVE  MayBeCut(k)
<1>. DEFINE raw  == RestLength(source, k)
            safe == SafeLength(source, k)
<1>1. raw \in Nat /\ safe \in Nat /\ safe <= raw
  BY TextLengths
<1>2. BufferSize \in Nat /\ length >= BufferSize
  BY BuffersAssumption DEF TooLong
<1>3. PICK n : length \in {raw + 16, safe + 7, 2 * safe + 38, raw + 27 + Digits(n), safe + 16,
                           safe + 26 + Digits(n), safe + 32, safe + 23}
  OBVIOUS
<1>4. Digits(n) \in Nat /\ Digits(n) <= 8
  BY DigitsBound
<1>. HIDE DEF raw, safe
<1>5. length <= 2 * raw + 38
  BY <1>1, <1>3, <1>4
<1>6. 2 * raw + 38 >= BufferSize
  BY <1>1, <1>2, <1>5
<1>. QED
  BY <1>6 DEF MayBeCut, raw

LEMMA PieceMembers ==
  ASSUME NEW src, NEW h \in Nat, NEW y \in Devices(h),
         NEW x \in {Struct(src, y), Bitfields(src, y), Accessors(y)}
  PROVE  /\ x.piece \in {"struct", "bitfield", "accessors"}
         /\ Len(x.members) \in Nat /\ Listed(x.members)
         /\ Len(NamesIn(x)) = Len(x.members) /\ NamesIn(x) = InPiece(x.piece, TRUE, x)
<1>0. Listed(y.kids) /\ Len(y.kids) \in Nat
  BY KidsBelow DEF Devices, KidKinds
<1>1. x.piece \in {"struct", "bitfield", "accessors"}
  BY DEF Struct, Bitfields, Accessors
<1>2. Len(x.members) \in Nat /\ Listed(x.members)
  <2>. DEFINE l == x.members
  <2>1. l = [k \in 1..Len(y.kids) |-> l[k]]
    BY DEF Struct, Members, Bitfields, Accessors
  <2>. HIDE DEF l
  <2>2. Listed(l)
    BY <1>0, <2>1, ListOf
  <2>. QED
    BY <2>2 DEF l, Listed
<1>. DEFINE names == NamesIn(x)
<1>3. Len(names) = Len(x.members)
  <2>1. CASE x.piece = "struct"
    <3>1. names = [k \in 1..Len(x.members) |-> names[k]]
      BY <2>1 DEF NamesIn
    <3>. HIDE DEF names
    <3>. QED
      BY <1>2, <3>1, ListOf
  <2>2. CASE x.piece # "struct"
    BY <2>2 DEF NamesIn
  <2>. QED
    BY <2>1, <2>2
<1>. QED
  BY <1>1, <1>2, <1>3 DEF InPiece

\* The strings that a piece leaves are those of the members of two kinds of piece.
LEMMA LostNames ==
  ASSUME NEW src, NEW h \in Nat, NEW x \in Standing(src, h)
  PROVE  NamesLost(x) = Len(InPiece("struct", TRUE, x)) + Len(InPiece("bitfield", TRUE, x))
<1>. DEFINE s == Len(InPiece("struct", TRUE, x))
            b == Len(InPiece("bitfield", TRUE, x))
<1>0. Len(<<>>) = 0
  BY EmptyListed
<1>1. x.piece # "struct" => s = 0
  BY <1>0 DEF InPiece
<1>2. x.piece # "bitfield" => b = 0
  BY <1>0 DEF InPiece
<1>3. CASE x = [piece |-> "begin"] \/ x = [piece |-> "end"]
  <2>1. x.piece \notin {"struct", "bitfield"}
    BY <1>3
  <2>2. NamesLost(x) = 0
    BY <2>1 DEF NamesLost
  <2>3. s = 0 /\ b = 0
    BY <1>1, <1>2, <2>1
  <2>. HIDE DEF s, b
  <2>4. NamesLost(x) = s + b
    BY <2>2, <2>3
  <2>. QED
    BY <2>4 DEF s, b
<1>4. ASSUME NEW y \in Devices(h), x \in {Struct(src, y), Bitfields(src, y), Accessors(y)}
      PROVE  NamesLost(x) = s + b
  <2>0. Len(x.members) \in Nat /\ Len(x.members) = Len(InPiece(x.piece, TRUE, x))
    BY <1>4, PieceMembers
  <2>1. PICK n \in Nat : n = Len(x.members) /\ n = Len(InPiece(x.piece, TRUE, x))
    BY <2>0
  <2>2. NamesLost(x) = IF x.piece \in {"struct", "bitfield"} THEN n ELSE 0
    BY <2>1 DEF NamesLost
  <2>3. x.piece = "struct" => s = n
    BY <2>1
  <2>4. x.piece = "bitfield" => b = n
    BY <2>1
  <2>. HIDE DEF s, b
  <2>5. CASE x.piece = "struct"
    <3>1. NamesLost(x) = n /\ s = n /\ b = 0
      BY <1>2, <2>2, <2>3, <2>5
    <3>. QED
      BY <3>1
  <2>6. CASE x.piece = "bitfield"
    <3>1. NamesLost(x) = n /\ s = 0 /\ b = n
      BY <1>1, <2>2, <2>4, <2>6
    <3>. QED
      BY <3>1
  <2>7. CASE x.piece \notin {"struct", "bitfield"}
    <3>1. NamesLost(x) = 0 /\ s = 0 /\ b = 0
      BY <1>1, <1>2, <2>2, <2>7
    <3>. QED
      BY <3>1
  <2>. QED
    BY <2>5, <2>6, <2>7
<1>. HIDE DEF s, b
<1>5. NamesLost(x) = s + b
  BY <1>3, <1>4 DEF Standing, Pieces, s, b
<1>. QED
  BY <1>5 DEF s, b

\* The lines of a piece, when its names are places of the text.
LEMMA CutLinesAreLong ==
  ASSUME source \in Texts, cursor.src = TokensOf(source), NEW h \in Nat,
         NEW x \in Standing(source, h),
         \A kind, inner, w : Asks(kind, inner, w)
            => \A j \in 1..Len(InPiece(kind, inner, x)) : InPiece(kind, inner, x)[j] \in Spots
  PROVE  \A line \in Cut(source, x) : MayBeCut(line.name)
<1>1. CASE x = [piece |-> "begin"] \/ x = [piece |-> "end"]
  BY <1>1 DEF Cut
<1>2. ASSUME NEW y \in Devices(h), x \in {Struct(source, y), Bitfields(source, y), Accessors(y)}
      PROVE  \A line \in Cut(source, x) : MayBeCut(line.name)
  <2>1. x.piece \in {"struct", "bitfield", "accessors"}
    BY <1>2, PieceMembers
  <2>. DEFINE names == NamesIn(x)
  <2>2. Len(x.members) \in Nat /\ Listed(x.members)
    BY <1>2, PieceMembers
  <2>3. Len(names) = Len(x.members) /\ names = InPiece(x.piece, TRUE, x)
    BY <1>2, PieceMembers
  <2>4. \A k \in 1..Len(x.members) : names[k] \in Spots
    <3>1. \E w : Asks(x.piece, TRUE, w)
      BY <2>1 DEF Asks
    <3>. HIDE DEF names
    <3>. QED
      BY <2>3, <3>1
  <2>5. x.piece # "accessors" => x.name \in Spots
    <3>. SUFFICES ASSUME x.piece # "accessors" PROVE x.name \in Spots
      OBVIOUS
    <3>1. \E w : Asks(x.piece, FALSE, w)
      BY <2>1 DEF Asks
    <3>2. InPiece(x.piece, FALSE, x) = <<x.name>>
      BY DEF InPiece
    <3>3. 1 \in 1..Len(<<x.name>>) /\ <<x.name>>[1] = x.name
      BY OneListed
    <3>. QED
      BY <3>1, <3>2, <3>3
  <2>6. ASSUME NEW length \in OwnLines(source, x), TooLong(length)
        PROVE  MayBeCut(x.name)
    <3>0. x.piece # "accessors"
      BY <2>6 DEF OwnLines
    <3>1. \E n : length \in {RestLength(source, x.name) + 16, SafeLength(source, x.name) + 7,
                 2 * SafeLength(source, x.name) + 38, RestLength(source, x.name) + 27 + Digits(n),
                 SafeLength(source, x.name) + 16}
      <4>1. CASE x.piece = "struct"
        BY <2>6, <4>1 DEF OwnLines
      <4>2. CASE x.piece = "bitfield"
        BY <2>6, <4>2 DEF OwnLines
      <4>. QED
        BY <2>1, <3>0, <4>1, <4>2
    <3>2. length \in Int
      <4>1. RestLength(source, x.name) \in Nat /\ SafeLength(source, x.name) \in Nat
        BY <2>5, <3>0, TextLengths
      <4>2. \A n : Digits(n) \in Nat
        BY DigitsBound
      <4>. QED
        BY <3>1, <4>1, <4>2
    <3>. QED
      BY <2>5, <2>6, <3>0, <3>1, <3>2, LineBound
  <2>7. ASSUME NEW k \in 1..Len(x.members), TooLong(MemberLine(source, x, k))
        PROVE  MayBeCut(names[k])
    <3>. DEFINE m == names[k]
                length == MemberLine(source, x, k)
    <3>1. \E n : length \in {SafeLength(source, m) + 26 + Digits(n), SafeLength(source, m) + 32,
                             SafeLength(source, m) + 23}
      <4>1. CASE x.piece = "struct"
        BY <4>1 DEF MemberLine, NamesIn
      <4>2. CASE x.piece = "bitfield"
        BY <4>2 DEF MemberLine, NamesIn
      <4>3. CASE x.piece = "accessors"
        BY <4>3 DEF MemberLine, NamesIn
      <4>. QED
        BY <2>1, <4>1, <4>2, <4>3
    <3>2. m \in Spots
      BY <2>4
    <3>. HIDE DEF m
    <3>3. length \in Int
      <4>. HIDE DEF length
      <4>1. SafeLength(source, m) \in Nat
        BY <3>2, TextLengths
      <4>2. \A n : Digits(n) \in Nat
        BY DigitsBound
      <4>. QED
        BY <3>1, <4>1, <4>2
    <3>4. TooLong(length)
      BY <2>7
    <3>. HIDE DEF length
    <3>5. MayBeCut(m)
      BY <3>1, <3>2, <3>3, <3>4, LineBound
    <3>. QED
      BY <3>5 DEF m
  <2>8. ASSUME NEW line \in Cut(source, x)
        PROVE  \/ line.name = x.name /\ \E length \in OwnLines(source, x) : TooLong(length)
               \/ \E k \in 1..Len(x.members) : line.name = names[k] /\ TooLong(MemberLine(source, x, k))
    BY <2>1 DEF Cut
  <2>. QED
    BY <2>6, <2>7, <2>8
<1>. QED
  BY <1>1, <1>2 DEF Standing, Pieces

-----------------------------------------------------------------------------
(* The files *)

Target == Output(options.input)

\* What is written of the header, what is lost after a write that failed, and
\* what is still to be written; the names that are not freed are those of the
\* pieces that were taken.
Whole == Generated(source, program)
Wrote(written, cut) == /\ disk = Put(before, Target, Header(written, cut)) /\ Listed(written)
                       /\ \A line \in cut : MayBeCut(line.name)
Splits(written, lost, rest) == /\ Listed(lost) /\ (written \o lost) \o rest = Whole
                               /\ ~broken => lost = <<>>
Written(rest) == \E written, cut, lost : Wrote(written, cut) /\ Splits(written, lost, rest)
Owed(pieces)  == Len(Picked("struct", TRUE, pieces)) + Len(Picked("bitfield", TRUE, pieces))

Files ==
  /\ broken \in BOOLEAN
  /\ phase \in {"arguments", "lex", "parse"} => strings = 0
  /\ phase = "generate" => /\ Wanted /\ Listed(todo) /\ Written(todo)
                           /\ strings \in Nat /\ strings + Owed(todo) = Owed(Whole)
  /\ phase = "cleanup" => IF Wanted THEN Written(<<>>) /\ strings = Owed(Whole)
                          ELSE disk = before /\ strings = 0
  /\ HeaderWholeOrUntouched
  /\ NamesStay

HeaderInv == MainInv /\ Files

\* A tree that was built without an error has the names of the text.
LEMMA TreeHasNames ==
  ASSUME Built, Done, cursor.err = 0, source \in Texts
  PROVE  /\ program \in Trees[Tall] /\ program.kind = "program" /\ Ordered(program) /\ Tall \in Nat
         /\ \A w \in DeviceWords : Amount(w, Tall)[program] = NamesAfter(w)
<1>1. /\ IsCursor(cursor) /\ Parsed /\ cursor.src = TokensOf(source)
  BY DEF Built, IInv
<1>2. /\ program \in Trees[Tall] /\ program.kind = "program" /\ Ordered(program)
      /\ Current(cursor) = "EOF"
      /\ \A w \in ToldWords : Amount(w, Tall)[program] = Span(w, cursor.src, 1, cursor.pos)
  BY <1>1 DEF Parsed
<1>3. /\ Len(cursor.src) \in Nat /\ cursor.pos \in Nat /\ cursor.pos >= 1
      /\ cursor.pos <= Len(cursor.src) + 1
  BY <1>1, CursorFacts
<1>4. cursor.pos = Len(cursor.src) + 1
  <2>1. cursor.src \in Seq(STRING \ {"EOF"})
    BY <1>1, TokensAssumption
  <2>2. ASSUME cursor.pos <= Len(cursor.src) PROVE FALSE
    <3>1. cursor.pos \in 1..Len(cursor.src)
      BY <1>3, <2>2
    <3>2. cursor.src[cursor.pos] \in STRING \ {"EOF"}
      BY <2>1, <3>1
    <3>. QED
      BY <1>2, <2>2, <3>2 DEF Current
  <2>. QED
    BY <1>3, <2>2
<1>5. Tall \in Nat
  BY <1>3 DEF Tall, Height
<1>6. ASSUME NEW w \in DeviceWords PROVE Amount(w, Tall)[program] = NamesAfter(w)
  <2>1. w \in ToldWords
    BY DEF ToldWords
  <2>2. Amount(w, Tall)[program] = Span(w, cursor.src, 1, Len(cursor.src) + 1)
    BY <1>2, <1>4, <2>1
  <2>3. NamesAfter(w) = Span(w, cursor.src, 1, Len(cursor.src) + 1)
    BY <1>3, NamesSpan
  <2>. QED
    BY <2>2, <2>3
<1>. QED
  BY <1>2, <1>5, <1>6

\* What is generated of it is its header.
LEMMA WholeIsWhole ==
  ASSUME Built, Done, cursor.err = 0, source \in Texts
  PROVE  /\ IsWhole(Whole) /\ Listed(Whole) /\ Whole \in Seq(Standing(source, Tall)) /\ Tall \in Nat
         /\ \A kind, inner, w : Asks(kind, inner, w) => Picked(kind, inner, Whole) = NamesAfter(w)
<1>. DEFINE h == Tall
            n == program
            T == Standing(source, h)
<1>1. /\ n \in Trees[h] /\ n.kind = "program" /\ Ordered(n) /\ h \in Nat
      /\ \A w \in DeviceWords : Amount(w, h)[n] = NamesAfter(w)
  BY TreeHasNames
<1>. HIDE DEF h, n
<1>2. ASSUME NEW kind, NEW inner, NEW w, Asks(kind, inner, w)
      PROVE  Picked(kind, inner, Generated(source, n)) = NamesAfter(w)
  <2>1. w \in DeviceWords
    BY <1>2 DEF Asks, DeviceWords
  <2>2. Picked(kind, inner, Generated(source, n)) = Amount(w, h)[n]
    BY <1>1, <1>2, GeneratedNames
  <2>. QED
    BY <1>1, <2>1, <2>2
<1>. DEFINE g == Generated(source, n)
<1>3. Listed(g) /\ g # <<>> /\ Head(g).piece = "begin" /\ g[Len(g)].piece = "end"
  BY <1>1, GeneratedEnds
<1>4. /\ Picked("struct", FALSE, g)    = NamesAfter("PERIPHERAL")
      /\ Picked("struct", TRUE, g)     = NamesAfter("REGISTER")
      /\ Picked("bitfield", FALSE, g)  = NamesAfter("REGISTER")
      /\ Picked("bitfield", TRUE, g)   = NamesAfter("FIELD")
      /\ Picked("accessors", TRUE, g)  = NamesAfter("FIELD")
  BY <1>2 DEF Asks
<1>6. g \in Seq(T)
  <2>. DEFINE kind == "struct"
              inner == FALSE
              w == "PERIPHERAL"
              f == NamesOfPieces(kind, inner, T)
  <2>1. Asks(kind, inner, w) /\ Naming(kind, inner, source, h, T, f)
    BY DEF Asks, Naming, Standing
  <2>. HIDE DEF kind, inner, w, T, f
  <2>. QED
    BY <1>1, <2>1, GeneratedPieces
<1>7. \A kind, inner, w : Asks(kind, inner, w) => Picked(kind, inner, g) = NamesAfter(w)
  BY <1>2
<1>. HIDE DEF g
<1>5. IsWhole(g)
  BY <1>3, <1>4, PickedNames DEF IsWhole
<1>8. Whole = g
  BY DEF g, n, Whole
<1>. HIDE DEF T
<1>. QED
  BY <1>1, <1>3, <1>5, <1>6, <1>7, <1>8 DEF h, T

\* What is taken of it is a beginning of it.
LEMMA TakenIsBeginning ==
  ASSUME Built, Done, cursor.err = 0, source \in Texts,
         NEW a, Listed(a), NEW b, Listed(b), a \o b = Whole
  PROVE  IsBeginning(a)
<1>. DEFINE h == Tall
            T == Standing(source, h)
<1>1. /\ IsWhole(Whole) /\ Whole \in Seq(T) /\ h \in Nat
      /\ \A kind, inner, w : Asks(kind, inner, w) => Picked(kind, inner, Whole) = NamesAfter(w)
  BY WholeIsWhole
<1>. HIDE DEF h
<1>2. a \in Seq(T) /\ b \in Seq(T)
  <2>. HIDE DEF T
  <2>. QED
    BY <1>1, PartsStand
<1>3. ASSUME NEW kind, NEW inner, NEW w, Asks(kind, inner, w)
      PROVE  IsPrefix(Picked(kind, inner, a), NamesAfter(w))
  <2>1. /\ Picked(kind, inner, a \o b) = Picked(kind, inner, a) \o Picked(kind, inner, b)
        /\ Listed(Picked(kind, inner, a)) /\ Listed(Picked(kind, inner, b))
    <3>1. PickedFrom(kind, inner, w, T)
      BY <1>1, <1>3 DEF PickedFrom
    <3>2. PICK c, d : c = a /\ d = b
      OBVIOUS
    <3>. HIDE DEF T
    <3>3. c \in Seq(T) /\ d \in Seq(T)
      BY <1>2, <3>2
    <3>4. /\ Picked(kind, inner, c \o d) = Picked(kind, inner, c) \o Picked(kind, inner, d)
          /\ Listed(Picked(kind, inner, c)) /\ Listed(Picked(kind, inner, d))
      BY <3>1, <3>3, PickedParts
    <3>. QED
      BY <3>2, <3>4
  <2>2. NamesAfter(w) = Picked(kind, inner, a) \o Picked(kind, inner, b)
    BY <1>1, <1>3, <2>1
  <2>. QED
    BY <2>1, <2>2, PartIsPrefix
<1>4. ASSUME a # <<>> PROVE Head(a).piece = "begin"
  <2>1. Len(a) \in Nat /\ Len(a) >= 1
    BY <1>4, ListedEmpty DEF Listed
  <2>2. 1 \in 1..Len(a) /\ Head(a) = a[1]
    BY <2>1, TailEffect
  <2>3. Whole[1] = a[1] /\ Listed(Whole) /\ Len(Whole) = Len(a) + Len(b) /\ Len(b) \in Nat
    BY <2>2, ConcatEffect DEF Listed
  <2>4. Head(Whole) = Whole[1]
    BY <2>1, <2>3, TailEffect
  <2>. QED
    BY <1>1, <2>2, <2>3, <2>4 DEF IsWhole
<1>5. /\ IsPrefix(Picked("struct", FALSE, a), NamesAfter("PERIPHERAL"))
      /\ IsPrefix(Picked("struct", TRUE, a), NamesAfter("REGISTER"))
      /\ IsPrefix(Picked("bitfield", FALSE, a), NamesAfter("REGISTER"))
      /\ IsPrefix(Picked("bitfield", TRUE, a), NamesAfter("FIELD"))
      /\ IsPrefix(Picked("accessors", TRUE, a), NamesAfter("FIELD"))
  BY <1>3 DEF Asks
<1>. QED
  BY <1>4, <1>5, PickedNames DEF IsBeginning

\* What a piece of it cuts is long, and what it leaves is owed by it.
LEMMA PieceOfWhole ==
  ASSUME Built, Done, cursor.err = 0, source \in Texts,
         NEW a, Listed(a), NEW x, NEW b, Listed(b), a \o (<<x>> \o b) = Whole
  PROVE  /\ \A line \in Cut(source, x) : MayBeCut(line.name)
         /\ NamesLost(x) \in Nat /\ Owed(b) \in Nat /\ Owed(<<x>> \o b) = NamesLost(x) + Owed(b)
<1>. DEFINE h == Tall
            T == Standing(source, h)
            one == <<x>>
            c == one \o b
<1>1. /\ Whole \in Seq(T) /\ h \in Nat
      /\ \A kind, inner, w : Asks(kind, inner, w) => Picked(kind, inner, Whole) = NamesAfter(w)
  BY WholeIsWhole
<1>2. cursor.src = TokensOf(source) /\ Len(cursor.src) \in Nat
  <2>1. cursor.src = TokensOf(source) /\ IsCursor(cursor)
    BY DEF Built, IInv
  <2>. QED
    BY <2>1, CursorFacts
<1>. HIDE DEF h
<1>3. Listed(one) /\ Len(one) = 1 /\ one[1] = x
  BY OneListed
<1>4. Listed(c)
  <2>. HIDE DEF one
  <2>. QED
    BY <1>3, ConcatEffect
<1>5. a \in Seq(T) /\ c \in Seq(T) /\ one \in Seq(T) /\ b \in Seq(T)
  <2>. HIDE DEF T, one
  <2>1. a \in Seq(T) /\ c \in Seq(T)
    <3>1. a \o c \in Seq(T)
      BY <1>1 DEF one
    <3>. HIDE DEF c
    <3>. QED
      BY <1>4, <3>1, PartsStand
  <2>. QED
    BY <1>3, <2>1, PartsStand
<1>6. x \in T
  <2>. HIDE DEF T, one
  <2>1. 1 \in 1..Len(one)
    BY <1>3
  <2>2. \A k \in 1..Len(one) : one[k] \in T
    BY <1>5
  <2>. QED
    BY <1>3, <2>1, <2>2
<1>7. ASSUME NEW kind, NEW inner, NEW w, Asks(kind, inner, w)
      PROVE  /\ Listed(InPiece(kind, inner, x)) /\ Listed(Picked(kind, inner, b))
             /\ Picked(kind, inner, c) = InPiece(kind, inner, x) \o Picked(kind, inner, b)
             /\ \A j \in 1..Len(InPiece(kind, inner, x)) : InPiece(kind, inner, x)[j] \in Spots
  <2>. DEFINE pa == Picked(kind, inner, a)
              px == InPiece(kind, inner, x)
              pb == Picked(kind, inner, b)
  <2>0. PickedFrom(kind, inner, w, T)
    BY <1>1, <1>7 DEF PickedFrom
  <2>1. Picked(kind, inner, one) = px /\ Listed(px)
    BY <1>1, <1>6, <1>7, PickedOne
  <2>2. Picked(kind, inner, one \o b) = Picked(kind, inner, one) \o pb /\ Listed(pb)
    <3>. HIDE DEF one, c, T
    <3>. QED
      BY <1>5, <2>0, PickedParts
  <2>3. Picked(kind, inner, a \o c) = pa \o Picked(kind, inner, c) /\ Listed(pa)
    <3>. HIDE DEF c, T
    <3>. QED
      BY <1>5, <2>0, PickedParts
  <2>4. NamesAfter(w) = pa \o (px \o pb)
    BY <1>1, <1>7, <2>1, <2>2, <2>3
  <2>. HIDE DEF pa, px, pb
  <2>5. NamesAfter(w) \in Seq(Spots)
    BY <1>2, NamesAreSpots
  <2>6. px \o pb \in Seq(Spots)
    <3>1. Listed(px \o pb)
      BY <2>1, <2>2, ConcatEffect
    <3>. HIDE DEF Spots
    <3>. QED
      BY <2>3, <2>4, <2>5, <3>1, PartsStand
  <2>7. px \in Seq(Spots)
    <3>. HIDE DEF Spots
    <3>. QED
      BY <2>1, <2>2, <2>6, PartsStand
  <2>8. \A j \in 1..Len(px) : px[j] \in Spots
    <3>. HIDE DEF Spots
    <3>. QED
      BY <2>7
  <2>. QED
    BY <2>1, <2>2, <2>8 DEF px, pb
<1>8. \A line \in Cut(source, x) : MayBeCut(line.name)
  <2>1. \A kind, inner, w : Asks(kind, inner, w)
          => \A j \in 1..Len(InPiece(kind, inner, x)) : InPiece(kind, inner, x)[j] \in Spots
    BY <1>7
  <2>. QED
    BY <1>1, <1>2, <1>6, <2>1, CutLinesAreLong
<1>9. ASSUME NEW kind \in {"struct", "bitfield"}
      PROVE  /\ Len(InPiece(kind, TRUE, x)) \in Nat /\ Len(Picked(kind, TRUE, b)) \in Nat
             /\ Len(Picked(kind, TRUE, c)) = Len(InPiece(kind, TRUE, x)) + Len(Picked(kind, TRUE, b))
  <2>1. PICK w : Asks(kind, TRUE, w)
    BY DEF Asks
  <2>2. /\ Listed(InPiece(kind, TRUE, x)) /\ Listed(Picked(kind, TRUE, b))
        /\ Picked(kind, TRUE, c) = InPiece(kind, TRUE, x) \o Picked(kind, TRUE, b)
    BY <1>7, <2>1
  <2>. DEFINE p == InPiece(kind, TRUE, x)
              q == Picked(kind, TRUE, b)
  <2>. HIDE DEF p, q, c
  <2>3. Listed(p) /\ Listed(q) /\ Picked(kind, TRUE, c) = p \o q
    BY <2>2 DEF p, q
  <2>4. Len(p) \in Nat /\ Len(q) \in Nat
    BY <2>3 DEF Listed
  <2>5. Len(p \o q) = Len(p) + Len(q)
    BY <2>3, ConcatEffect
  <2>. QED
    BY <2>3, <2>4, <2>5 DEF p, q
<1>10. NamesLost(x) = Len(InPiece("struct", TRUE, x)) + Len(InPiece("bitfield", TRUE, x))
  BY <1>1, <1>6, LostNames
<1>. HIDE DEF c
<1>11. /\ NamesLost(x) \in Nat /\ Owed(b) \in Nat /\ Owed(c) = NamesLost(x) + Owed(b)
  <2>. DEFINE s(y) == Len(Picked("struct", TRUE, y))
              f(y) == Len(Picked("bitfield", TRUE, y))
              n == Len(InPiece("struct", TRUE, x))
              m == Len(InPiece("bitfield", TRUE, x))
  <2>1. n \in Nat /\ s(b) \in Nat /\ s(c) = n + s(b)
    BY <1>9
  <2>2. m \in Nat /\ f(b) \in Nat /\ f(c) = m + f(b)
    BY <1>9
  <2>3. NamesLost(x) = n + m /\ Owed(b) = s(b) + f(b) /\ Owed(c) = s(c) + f(c)
    BY <1>10 DEF Owed
  <2>. HIDE DEF n, m, s, f
  <2>. QED
    BY <2>1, <2>2, <2>3
<1>. QED
  BY <1>8, <1>11 DEF c

\* What is owed for the whole header, and for none.
LEMMA AllIsOwed ==
  ASSUME Built, Done, cursor.err = 0, source \in Texts
  PROVE  /\ Owed(Whole) = Len(NamesAfter("REGISTER")) + Len(NamesAfter("FIELD"))
         /\ Owed(Whole) \in Nat /\ Owed(<<>>) = 0
<1>1. Len(cursor.src) \in Nat
  <2>1. IsCursor(cursor)
    BY DEF Built, IInv
  <2>. QED
    BY <2>1, CursorFacts
<1>2. \A w : Len(NamesAfter(w)) \in Nat
  <2>. SUFFICES ASSUME NEW w PROVE Len(NamesAfter(w)) \in Nat
    OBVIOUS
  <2>1. NamesAfter(w) \in Seq(Spots)
    BY <1>1, NamesAreSpots
  <2>. QED
    BY <2>1
<1>3. /\ Picked("struct", TRUE, Whole) = NamesAfter("REGISTER")
      /\ Picked("bitfield", TRUE, Whole) = NamesAfter("FIELD")
  BY WholeIsWhole DEF Asks
<1>4. Picked("struct", TRUE, <<>>) = <<>> /\ Picked("bitfield", TRUE, <<>>) = <<>>
  BY PickedNone DEF Asks
<1>5. Owed(Whole) = Len(NamesAfter("REGISTER")) + Len(NamesAfter("FIELD"))
  BY <1>3 DEF Owed
<1>6. Owed(<<>>) = Len(<<>>) + Len(<<>>)
  BY <1>4 DEF Owed
<1>7. Owed(<<>>) = 0
  BY <1>6, EmptyListed
<1>. QED
  BY <1>2, <1>5, <1>7

\* There is something to generate when the text has a peripheral.
LEMMA PeripheralsAsked ==
  ASSUME Built, Done, cursor.err = 0, source \in Texts
  PROVE  HasPeripherals <=> NamesAfter("PERIPHERAL") # <<>>
<1>. DEFINE h == Tall
            n == program
            w == "PERIPHERAL"
            m == Amount(w, h)
            ps == OfKind(n.kids, "peripheral")
            P == {t \in Trees[h] : IsPeripheral(t)}
            a == [k \in 1..Len(ps) |-> ps[k].head.name]
<1>1. /\ n \in Trees[h] /\ n.kind = "program" /\ Ordered(n) /\ h \in Nat /\ w \in DeviceWords
      /\ m[n] = NamesAfter("PERIPHERAL")
  BY TreeHasNames DEF DeviceWords
<1>2. HasPeripherals <=> ps # <<>>
  BY DEF HasPeripherals
<1>. HIDE DEF h, n
<1>3. ps \in Seq(P) /\ Below(w, m, ps) = m[n]
  <2>. HIDE DEF w
  <2>. QED
    BY <1>1, PeripheralsOnly
<1>4. a = [k \in 1..Len(ps) |-> a[k]] /\ \A k \in 1..Len(ps) : a[k] = ps[k].head.name
  OBVIOUS
<1>5. \A t \in P : t \in Trees[h] /\ m[t] = <<t.head.name>>
  BY <1>1, PeripheralAmounts
<1>6. w \notin Counted
  BY DEF Counted
<1>. HIDE DEF ps, a, P, m, w
<1>7. Len(ps) \in Nat /\ Listed(ps) /\ \A k \in 1..Len(ps) : ps[k] \in P
  BY <1>3, SeqIsListed
<1>8. Listed(a) /\ Len(a) = Len(ps)
  BY <1>4, <1>7, ListOf
<1>9. Below(w, m, ps) = a
  <2>. DEFINE s == [k \in 1..Len(ps) |-> m[ps[k]]]
  <2>1. s = [k \in 1..Len(ps) |-> <<a[k]>>]
    BY <1>4, <1>5, <1>7
  <2>2. Below(w, m, ps) = All(w, s)
    BY DEF Below
  <2>. HIDE DEF s
  <2>. QED
    BY <1>4, <1>6, <1>7, <2>1, <2>2, FlatOnes
<1>10. ps = <<>> <=> a = <<>>
  BY <1>7, <1>8, ListedEmpty, EmptyListed
<1>. QED
  BY <1>1, <1>2, <1>3, <1>9, <1>10

-----------------------------------------------------------------------------
(* Steps *)

\* A file is there when it was put there, and the others are as they were.
LEMMA PutEffect ==
  ASSUME NEW path, NEW file, disk = Put(before, path, file)
  PROVE  disk[path] = file /\ SameBut(path)
BY DEF Put, SameBut

LEMMA PutTwice ==
  ASSUME NEW files, NEW path, NEW x, NEW y
  PROVE  Put(Put(files, path, x), path, y) = Put(files, path, y)
BY DEF Put

LEMMA HeadAndTail ==
  ASSUME NEW s, Listed(s), Len(s) >= 1
  PROVE  Listed(Tail(s)) /\ s = <<Head(s)>> \o Tail(s)
<1>. DEFINE x == Head(s)
            t == Tail(s)
            v == <<x>> \o t
<1>1. /\ Listed(t) /\ Len(t) = Len(s) - 1 /\ s[1] = x /\ \A i \in 1..Len(s) - 1 : t[i] = s[i + 1]
  BY TailEffect
<1>2. Len(s) \in Nat
  BY DEF Listed
<1>. HIDE DEF x, t
<1>3. /\ Listed(v) /\ Len(v) = Len(t) + 1 /\ v[1] = x
      /\ \A i \in 1..Len(t) : v[i + 1] = t[i]
  BY <1>1, PushEffect
<1>. HIDE DEF v
<1>4. ASSUME NEW k \in 1..Len(s) PROVE s[k] = v[k]
  <2>1. CASE k = 1
    BY <1>1, <1>3, <2>1
  <2>2. CASE k # 1
    <3>1. k - 1 \in 1..Len(s) - 1 /\ (k - 1) + 1 = k
      BY <1>2, <2>2
    <3>2. t[k - 1] = s[(k - 1) + 1] /\ v[(k - 1) + 1] = t[k - 1]
      BY <1>1, <1>3, <3>1
    <3>. QED
      BY <3>1, <3>2
  <2>. QED
    BY <2>1, <2>2
<1>5. Len(v) = Len(s)
  BY <1>1, <1>2, <1>3
<1>. QED
  BY <1>1, <1>3, <1>4, <1>5, ListEqual DEF v, t, x

LEMMA UntouchedFiles ==
  ASSUME broken' \in BOOLEAN, phase' \notin {"generate", "cleanup"}, disk' = before', exit' # "ok",
         strings' = 0
  PROVE  Files'
BY DEF Files, HeaderWholeOrUntouched, NamesStay, SameBut

LEMMA EarlyFiles ==
  ASSUME HeaderInv,
         \/ ReadArgument \/ MissingArgument \/ NoFile \/ LoadFile \/ InputFails
         \/ StartParser \/ Parse \/ OverrunStops \/ OutputFails
  PROVE  Files'
<1>1. /\ phase \in {"arguments", "lex", "parse"} /\ exit = "running" /\ disk = before
      /\ broken \in BOOLEAN /\ strings = 0
  BY DEF HeaderInv, Files, MainInv, Reading, ReadArgument, MissingArgument, NoFile, LoadFile,
     InputFails, StartParser, Parse, OverrunStops, OutputFails
<1>2. /\ UNCHANGED <<disk, before, broken, strings>> /\ exit' \in {"running", "failed", "crashed"}
      /\ phase' \in {"arguments", "lex", "parse", "exit"}
  BY <1>1 DEF ReadArgument, MissingArgument, NoFile, LoadFile, InputFails, StartParser, Parse,
     OverrunStops, OutputFails, Compiling, Driver, heap, Stays, Goes, Exits, MainReturns
<1>. QED
  BY <1>1, <1>2, UntouchedFiles

LEMMA OutputFiles ==
  ASSUME HeaderInv, NothingToGenerate \/ OpenOutput \/ CrashAtTarget
  PROVE  Files'
<1>1. /\ phase = "parse" /\ exit = "running" /\ disk = before /\ broken \in BOOLEAN /\ Built /\ Done
      /\ source \in Texts /\ strings = 0
  BY DEF HeaderInv, Files, MainInv, Reading, NothingToGenerate, OpenOutput, CrashAtTarget
<1>2. UNCHANGED <<cursor, program, source, options, before, broken, strings>>
  BY DEF NothingToGenerate, OpenOutput, CrashAtTarget, Driver, heap
<1>3. CASE NothingToGenerate
  <2>1. /\ phase' = "cleanup" /\ exit' = "running" /\ disk' = disk /\ ~Wanted
    BY <1>1, <1>3 DEF NothingToGenerate, Goes, Driver
  <2>2. ~Wanted' /\ disk' = before'
    BY <1>1, <1>2, <2>1 DEF Wanted, HasPeripherals
  <2>. QED
    BY <1>1, <1>2, <2>1, <2>2 DEF Files, HeaderWholeOrUntouched, NamesStay, SameBut, Ended
<1>4. CASE OpenOutput \/ CrashAtTarget
  <2>1. disk' = Put(before, Target, Header(<<>>, {})) /\ Wanted /\ Target' = Target /\ Wanted'
    BY <1>1, <1>2, <1>4 DEF OpenOutput, CrashAtTarget, Target, Wanted, HasPeripherals
  <2>2. SameBut(Target)' /\ disk'[Target] = Header(<<>>, {})
    BY <1>2, <2>1 DEF SameBut, Put
  <2>3. cursor.err = 0
    BY <2>1 DEF Wanted
  <2>4. /\ Listed(Whole) /\ <<>> \o Whole = Whole /\ <<>> \o <<>> = <<>> /\ Whole' = Whole
        /\ Listed(<<>>) /\ Owed(Whole) \in Nat
    BY <1>1, <1>2, <2>3, WholeIsWhole, AllIsOwed, ConcatUnits, EmptyListed DEF Whole
  <2>5. CASE OpenOutput
    <3>1. phase' = "generate" /\ exit' = "running" /\ todo' = Whole
      BY <1>1, <2>5 DEF OpenOutput, Goes, Whole
    <3>2. Wrote(<<>>, {})' /\ Splits(<<>>, <<>>, todo)'
      BY <1>2, <2>1, <2>4, <3>1 DEF Wrote, Splits
    <3>3. Written(todo)'
      BY <3>2 DEF Written
    <3>4. strings' \in Nat /\ strings' + Owed(todo') = Owed(Whole')
      BY <1>1, <1>2, <2>4, <3>1
    <3>5. HeaderWholeOrUntouched' /\ NamesStay'
      BY <2>2, <3>1 DEF HeaderWholeOrUntouched, NamesStay, Target, Ended
    <3>. QED
      BY <1>1, <1>2, <2>1, <2>4, <3>1, <3>3, <3>4, <3>5 DEF Files
  <2>6. CASE CrashAtTarget
    <3>1. phase' = "exit" /\ exit' = "crashed"
      BY <2>6 DEF CrashAtTarget, Exits
    <3>2. IsBeginning(<<>>)
      BY <1>1, <2>3, <2>4, TakenIsBeginning
    <3>3. IsBeginning(<<>>)'
      BY <1>2, <3>2 DEF IsBeginning, NamesAfter
    <3>4. disk'[Target].pieces = <<>> /\ disk'[Target].cut = {}
      BY <2>2 DEF Header
    <3>5. HeaderWholeOrUntouched' /\ NamesStay'
      BY <2>1, <2>2, <3>1, <3>3, <3>4 DEF HeaderWholeOrUntouched, NamesStay, Target
    <3>. QED
      BY <1>1, <1>2, <3>1, <3>5 DEF Files
  <2>. QED
    BY <1>4, <2>5, <2>6
<1>. QED
  BY <1>3, <1>4

LEMMA WriteFiles ==
  ASSUME HeaderInv, WritePiece
  PROVE  Files'
<1>1. /\ phase = "generate" /\ exit = "running" /\ broken \in BOOLEAN /\ Wanted /\ Listed(todo)
      /\ todo # <<>> /\ Written(todo) /\ strings \in Nat /\ strings + Owed(todo) = Owed(Whole)
      /\ Built /\ Done /\ source \in Texts
  BY DEF HeaderInv, Files, MainInv, Reading, WritePiece
<1>2. PICK written, cut, lost : Wrote(written, cut) /\ Splits(written, lost, todo)
  BY <1>1 DEF Written
<1>0. PICK x, more, all, one : /\ x = Head(todo) /\ more = Append(written, x)
                               /\ all = cut \cup Cut(source, x) /\ one = <<x>>
  OBVIOUS
<1>3. /\ UNCHANGED <<cursor, program, source, options, before, phase, exit>>
      /\ broken' \in {broken, TRUE} /\ todo' = Tail(todo) /\ strings' = strings + NamesLost(x)
      /\ disk' = IF broken' THEN disk
                 ELSE Put(disk, Target, Header(Append(disk[Target].pieces, x),
                                               disk[Target].cut \cup Cut(source, x)))
  BY <1>0 DEF WritePiece, Stays, Target
<1>4. /\ Wanted' /\ Target' = Target /\ Whole' = Whole /\ broken' \in BOOLEAN
      /\ \A name : MayBeCut(name)' = MayBeCut(name)
  BY <1>1, <1>3 DEF Wanted, HasPeripherals, Target, Whole, MayBeCut
<1>5. Len(todo) >= 1
  BY <1>1, ListedEmpty DEF Listed
<1>6. Listed(todo') /\ todo = <<x>> \o todo'
  BY <1>0, <1>1, <1>3, <1>5, HeadAndTail
<1>7. /\ Listed(written) /\ Listed(lost) /\ (written \o lost) \o todo = Whole
      /\ disk = Put(before, Target, Header(written, cut)) /\ \A line \in cut : MayBeCut(line.name)
      /\ ~broken => lost = <<>>
  BY <1>2 DEF Wrote, Splits
<1>8. Listed(<<x>>) /\ Listed(more) /\ more = written \o <<x>> /\ Listed(written \o lost)
  BY <1>0, <1>7, AppendEffect, AppendIsBehind, OneListed, ConcatEffect
<1>9. cursor.err = 0
  BY <1>1 DEF Wanted
<1>10. /\ \A line \in Cut(source, x) : MayBeCut(line.name)
       /\ NamesLost(x) \in Nat /\ Owed(todo') \in Nat /\ Owed(todo) = NamesLost(x) + Owed(todo')
  BY <1>1, <1>6, <1>7, <1>8, <1>9, PieceOfWhole
<1>11. strings' \in Nat /\ strings' + Owed(todo') = Owed(Whole')
  BY <1>1, <1>3, <1>4, <1>10
<1>12. /\ disk[Target] = Header(written, cut) /\ SameBut(Target)
       /\ disk[Target].pieces = written /\ disk[Target].cut = cut
  BY <1>7, PutEffect DEF Header
<1>13. Written(todo)' /\ SameBut(Target)'
  <2>1. CASE broken'
    <3>. DEFINE more_lost == lost \o one
    <3>1. Listed(more_lost) /\ (written \o more_lost) \o todo' = Whole
      <4>0. Listed(one) /\ todo = one \o todo'
        BY <1>0, <1>6, <1>8
      <4>1. Listed(written) /\ Listed(lost) /\ Listed(one) /\ Listed(todo')
        BY <1>6, <1>7, <4>0
      <4>2. Listed(more_lost)
        BY <4>1, ConcatEffect
      <4>3. written \o more_lost = (written \o lost) \o one
        BY <4>1, ConcatTwice
      <4>. DEFINE u == written \o lost
      <4>. HIDE DEF u
      <4>4. Listed(u)
        BY <1>8 DEF u
      <4>5. (u \o one) \o todo' = u \o (one \o todo')
        BY <4>1, <4>4, ConcatTwice
      <4>. QED
        BY <1>7, <4>0, <4>2, <4>3, <4>5 DEF u
    <3>. HIDE DEF more_lost
    <3>2. Wrote(written, cut)' /\ Splits(written, more_lost, todo)'
      BY <1>3, <1>4, <1>7, <2>1, <3>1 DEF Wrote, Splits
    <3>3. SameBut(Target)'
      BY <1>3, <1>4, <1>12, <2>1 DEF SameBut
    <3>. QED
      BY <3>2, <3>3 DEF Written
  <2>2. CASE ~broken'
    <3>1. disk' = Put(disk, Target, Header(more, all))
      <4>1. disk' = Put(disk, Target, Header(Append(disk[Target].pieces, x),
                                             disk[Target].cut \cup Cut(source, x)))
        BY <1>3, <2>2
      <4>. QED
        BY <1>0, <1>12, <4>1
    <3>2. disk' = Put(before, Target, Header(more, all))
      BY <1>7, <3>1, PutTwice
    <3>3. ~broken /\ lost = <<>>
      <4>1. ~broken
        BY <1>3, <2>2
      <4>. QED
        BY <1>7, <4>1
    <3>4. (more \o lost) \o todo' = Whole
      <4>1. written \o lost = written /\ more \o lost = more
        BY <1>7, <1>8, <3>3, ConcatUnits
      <4>2. (written \o <<x>>) \o todo' = written \o (<<x>> \o todo')
        BY <1>6, <1>7, <1>8, ConcatTwice
      <4>. QED
        BY <1>6, <1>7, <1>8, <4>1, <4>2
    <3>5. \A line \in all : MayBeCut(line.name)
      BY <1>0, <1>7, <1>10
    <3>6. Wrote(more, all)' /\ Splits(more, lost, todo)'
      BY <1>3, <1>4, <1>7, <1>8, <3>2, <3>3, <3>4, <3>5 DEF Wrote, Splits
    <3>7. SameBut(Target)'
      BY <1>3, <1>4, <3>2 DEF SameBut, Put
    <3>. QED
      BY <3>6, <3>7 DEF Written
  <2>. QED
    BY <1>4, <2>1, <2>2
<1>14. HeaderWholeOrUntouched' /\ NamesStay'
  BY <1>1, <1>3, <1>13 DEF HeaderWholeOrUntouched, NamesStay, Target, Ended
<1>. QED
  BY <1>1, <1>3, <1>4, <1>6, <1>11, <1>13, <1>14 DEF Files

LEMMA CloseFiles ==
  ASSUME HeaderInv, CloseOutput
  PROVE  Files'
<1>1. /\ phase = "generate" /\ exit = "running" /\ broken \in BOOLEAN /\ Wanted /\ todo = <<>>
      /\ Written(<<>>) /\ strings + Owed(<<>>) = Owed(Whole) /\ strings \in Nat
      /\ SameBut(Target) /\ Built /\ Done /\ source \in Texts
  BY DEF HeaderInv, Files, MainInv, Reading, CloseOutput, HeaderWholeOrUntouched, Target
<1>2. cursor.err = 0
  BY <1>1 DEF Wanted
<1>3. /\ UNCHANGED <<cursor, program, source, options, before, broken, disk, strings>>
      /\ phase' = "cleanup" /\ exit' = exit
  BY DEF CloseOutput, Goes, Driver
<1>4. /\ Wanted' /\ Target' = Target /\ Whole' = Whole
  BY <1>1, <1>3 DEF Wanted, HasPeripherals, Target, Whole
<1>5. Written(<<>>)'
  BY <1>1, <1>3, <1>4 DEF Written, Wrote, Splits, MayBeCut
<1>6. strings' = Owed(Whole')
  BY <1>1, <1>2, <1>3, <1>4, AllIsOwed
<1>7. SameBut(Target)'
  BY <1>1, <1>3, <1>4 DEF SameBut
<1>8. HeaderWholeOrUntouched' /\ NamesStay'
  BY <1>1, <1>3, <1>7 DEF HeaderWholeOrUntouched, NamesStay, Target, Ended
<1>. QED
  BY <1>1, <1>3, <1>4, <1>5, <1>6, <1>8 DEF Files

\* A header that is not asked for is not there, and one that is is as it should
\* be when the generator is done.
LEMMA DoneFiles ==
  ASSUME HeaderInv, phase = "cleanup"
  PROVE  /\ Asked <=> Wanted
         /\ SameBut(Target)
         /\ ~Asked => disk = before /\ strings = 0
         /\ Asked => /\ strings = Len(NamesAfter("REGISTER")) + Len(NamesAfter("FIELD"))
                     /\ ~broken => IsWhole(disk[Target].pieces)
                     /\ IsBeginning(disk[Target].pieces)
                     /\ \A line \in disk[Target].cut : MayBeCut(line.name)
<1>1. Built /\ Done /\ source \in Texts /\ SameBut(Target)
  BY DEF HeaderInv, Files, MainInv, Reading, HeaderWholeOrUntouched, Target
<1>2. Asked <=> Wanted
  BY <1>1, PeripheralsAsked DEF Wanted, Asked
<1>3. ~Wanted => disk = before /\ strings = 0
  BY DEF HeaderInv, Files
<1>4. ASSUME Wanted
      PROVE  /\ strings = Len(NamesAfter("REGISTER")) + Len(NamesAfter("FIELD"))
             /\ ~broken => IsWhole(disk[Target].pieces)
             /\ IsBeginning(disk[Target].pieces)
             /\ \A line \in disk[Target].cut : MayBeCut(line.name)
  <2>1. cursor.err = 0 /\ Written(<<>>) /\ strings = Owed(Whole)
    BY <1>4 DEF HeaderInv, Files, Wanted
  <2>2. PICK written, cut, lost : Wrote(written, cut) /\ Splits(written, lost, <<>>)
    BY <2>1 DEF Written
  <2>3. /\ Listed(written) /\ Listed(lost) /\ (written \o lost) \o <<>> = Whole
        /\ disk = Put(before, Target, Header(written, cut)) /\ \A line \in cut : MayBeCut(line.name)
        /\ ~broken => lost = <<>>
    BY <2>2 DEF Wrote, Splits
  <2>4. written \o lost = Whole /\ written \o <<>> = written
    <3>1. Listed(written \o lost)
      BY <2>3, ConcatEffect
    <3>. QED
      BY <2>3, <3>1, ConcatUnits
  <2>5. disk[Target].pieces = written /\ disk[Target].cut = cut
    <3>1. disk[Target] = Header(written, cut)
      BY <2>3, PutEffect
    <3>. QED
      BY <3>1 DEF Header
  <2>6. IsBeginning(written)
    BY <1>1, <2>1, <2>3, <2>4, TakenIsBeginning
  <2>7. ~broken => IsWhole(written)
    <3>1. IsWhole(Whole)
      BY <1>1, <2>1, WholeIsWhole
    <3>2. ~broken => written = Whole
      BY <2>3, <2>4
    <3>. QED
      BY <3>1, <3>2
  <2>8. Owed(Whole) = Len(NamesAfter("REGISTER")) + Len(NamesAfter("FIELD"))
    BY <1>1, <2>1, AllIsOwed
  <2>. QED
    BY <2>1, <2>3, <2>5, <2>6, <2>7, <2>8
<1>. QED
  BY <1>1, <1>2, <1>3, <1>4

LEMMA CleanupFiles ==
  ASSUME HeaderInv, Cleanup
  PROVE  Files'
<1>1. phase = "cleanup" /\ broken \in BOOLEAN
  BY DEF HeaderInv, Files, Cleanup
<1>2. /\ UNCHANGED <<cursor, program, source, options, before, broken, disk, strings>>
      /\ phase' = "exit" /\ exit' \in {"ok", "crashed"}
  BY DEF Cleanup, Exits, MainReturns, Driver
<1>3. /\ Target' = Target /\ Asked' = Asked /\ SameBut(Target)' = SameBut(Target)
      /\ \A w : NamesAfter(w)' = NamesAfter(w)
  BY <1>2 DEF Target, Asked, SameBut, NamesAfter
<1>4. \A name : MayBeCut(name)' = MayBeCut(name)
  BY <1>2 DEF MayBeCut
<1>5. /\ \A s : IsWhole(s)' = IsWhole(s)
      /\ \A s : IsBeginning(s)' = IsBeginning(s)
  BY <1>3 DEF IsWhole, IsBeginning
<1>6. HeaderWholeOrUntouched'
  <2>0. PICK pieces, cut : pieces = disk[Target].pieces /\ cut = disk[Target].cut
    OBVIOUS
  <2>1. /\ SameBut(Target)' /\ (~Asked => disk = before)
        /\ Asked /\ ~broken => IsWhole(pieces)
        /\ Asked => IsBeginning(pieces) /\ \A line \in cut : MayBeCut(line.name)
    BY <1>1, <1>3, <2>0, DoneFiles
  <2>2. /\ SameBut(Target)'
        /\ exit' # "failed"
        /\ exit' = "ok" /\ ~Asked' => disk' = before'
        /\ exit' = "ok" /\ Asked' /\ ~broken' => IsWhole(pieces)'
        /\ disk' # before' => IsBeginning(pieces)' /\ \A line \in cut : MayBeCut(line.name)'
    BY <1>2, <1>3, <1>4, <1>5, <2>1
  <2>3. pieces = disk'[Target'].pieces /\ cut = disk'[Target'].cut
    BY <1>2, <1>3, <2>0
  <2>. QED
    BY <2>2, <2>3 DEF HeaderWholeOrUntouched, Target
<1>7. NamesStay'
  <2>1. strings = IF Asked THEN Len(NamesAfter("REGISTER")) + Len(NamesAfter("FIELD")) ELSE 0
    BY <1>1, DoneFiles
  <2>. QED
    BY <1>2, <1>3, <2>1 DEF NamesStay
<1>. QED
  BY <1>1, <1>2, <1>6, <1>7 DEF Files

LEMMA StillFiles ==
  ASSUME Files,
         UNCHANGED <<cursor, program, source, options, phase, exit, todo, disk, before, broken, strings>>
  PROVE  Files'
<1>1. \A w : NamesAfter(w)' = NamesAfter(w)
  BY DEF NamesAfter
<1>2. /\ Wanted' = Wanted /\ Whole' = Whole /\ Target' = Target /\ Asked' = Asked
      /\ SameBut(Target)' = SameBut(Target)
  BY <1>1 DEF Wanted, HasPeripherals, Whole, Target, Asked, SameBut
<1>3. \A name : MayBeCut(name)' = MayBeCut(name)
  BY DEF MayBeCut
<1>4. /\ \A s : IsWhole(s)' = IsWhole(s)
      /\ \A s : IsBeginning(s)' = IsBeginning(s)
  BY <1>1 DEF IsWhole, IsBeginning
<1>5. \A rest : Written(rest)' = Written(rest)
  BY <1>2, <1>3 DEF Written, Wrote, Splits
<1>6. HeaderWholeOrUntouched' = HeaderWholeOrUntouched
  BY <1>2, <1>3, <1>4 DEF HeaderWholeOrUntouched, Target, Ended
<1>7. NamesStay' = NamesStay
  BY <1>1, <1>2 DEF NamesStay
<1>. QED
  BY <1>2, <1>5, <1>6, <1>7 DEF Files

LEMMA HeaderInvHolds == MainSpec => []HeaderInv
<1>1. MainInit => Files
  BY DEF MainInit, Files, HeaderWholeOrUntouched, NamesStay, SameBut, Ended
<1>2. MainInv /\ Files /\ [MainNext]_mainVars => Files'
  <2>. SUFFICES ASSUME HeaderInv, [MainNext]_mainVars PROVE Files'
    BY DEF HeaderInv
  <2>1. CASE UNCHANGED mainVars
    BY <2>1, StillFiles DEF mainVars, vars, heap, HeaderInv
  <2>2. CASE \/ ReadArgument \/ MissingArgument \/ NoFile \/ LoadFile \/ InputFails
             \/ StartParser \/ Parse \/ OverrunStops \/ OutputFails
    BY <2>2, EarlyFiles
  <2>3. CASE NothingToGenerate \/ OpenOutput \/ CrashAtTarget
    BY <2>3, OutputFiles
  <2>4. CASE WritePiece
    BY <2>4, WriteFiles
  <2>5. CASE CloseOutput
    BY <2>5, CloseFiles
  <2>6. CASE Cleanup
    BY <2>6, CleanupFiles
  <2>7. CASE Stopped
    BY <2>1, <2>7 DEF Stopped
  <2>. QED
    BY <2>1, <2>2, <2>3, <2>4, <2>5, <2>6, <2>7 DEF MainNext
<1>. QED
  BY <1>1, <1>2, MainInvHolds, PTL DEF MainSpec, HeaderInv

\* Whichever way the program ends, but for a crash, it has freed what it had
\* allocated, nothing twice, but for the return type of every function, the Types
\* of declarations that an error has cut short, and the names that the generator
\* made of the registers and fields of the device: one string for each, every time
\* a header is generated, and none when it is not.
THEOREM OnlyTypesAndNamesAreLeaked == MainSpec => []OnlyTypesAndNamesLeak
<1>1. HeaderInv => OnlyTypesAndNamesLeak
  BY DEF HeaderInv, MainInv, Files, OnlyTypesAndNamesLeak
<1>. QED
  BY <1>1, HeaderInvHolds, PTL

\* A program that ends with an error has left every file as it was.  One that ends
\* well, was asked for a header and has not met a write that failed has written all
\* its pieces, with the names of the text in their order.  After a failed write,
\* which the program does not notice, and after a crash, the file is a beginning
\* of that.  No line is cut but one with a name that is long together with the
\* text behind it, and no other file is touched.
THEOREM HeadersAreWhole == MainSpec => []HeaderWholeOrUntouched
<1>1. HeaderInv => HeaderWholeOrUntouched
  BY DEF HeaderInv, Files
<1>. QED
  BY <1>1, HeaderInvHolds, PTL
=============================================================================
