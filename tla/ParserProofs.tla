---------------------------- MODULE ParserProofs ----------------------------
(***************************************************************************)
(* Proofs about the token window, the expression functions and Parser, for *)
(* all token sequences.                                                    *)
(*                                                                         *)
(* The expression functions call each other in a circle that the tokens    *)
(* they consume bring to an end: what is called has fewer tokens before    *)
(* it, or as many and a lower rank.  That gives both that there is a       *)
(* function parse that calls itself as the code does, that it makes        *)
(* progress, and that no word of a device is in what it consumes.  Then    *)
(* follow the other grammar functions, the call stack, and the trips       *)
(* through the code.                                                       *)
(*                                                                         *)
(* The second half is about what is counted of a text and of a tree: that  *)
(* each device is a field of the one before it, that the amounts of lists  *)
(* behind each other are the amounts of each, and that a tree no higher    *)
(* than the place in the text is measured by a function on the trees.      *)
(***************************************************************************)
EXTENDS Ast, Expressions, Foundations, FiniteSetTheorems

-----------------------------------------------------------------------------
(* The token window *)

\* The parser may pass on the token it stands on.
LEMMA AdvanceGoesOn ==
  ASSUME NEW c, IsCursor(c)
  PROVE  /\ Onward(c, Advance(c))
         /\ Current(c) # "EOF" => c.pos < Advance(c).pos
BY DEF IsCursor, Onward, Advance, Current

\* parser_error keeps the place and an error that is there.
LEMMA FailGoesOn ==
  ASSUME NEW c, IsCursor(c)
  PROVE  Onward(c, Fail(c)) /\ Fail(c).err # 0 /\ Fail(c).pos = c.pos
BY DEF IsCursor, Onward, Fail

\* Parsing on and on is parsing on.
LEMMA OnwardTransitive ==
  ASSUME NEW c, NEW d, NEW e, IsCursor(c), Onward(c, d), Onward(d, e)
  PROVE  Onward(c, e)
BY DEF IsCursor, Onward

LEMMA OnwardReflexive ==
  ASSUME NEW c, IsCursor(c)
  PROVE  Onward(c, c)
BY DEF IsCursor, Onward

\* parser_match takes a token or does nothing.
LEMMA MatchGoesOn ==
  ASSUME NEW c, IsCursor(c), NEW types
  PROVE  Onward(c, MatchAny(c, types)) /\ \A type : Onward(c, Match(c, type))
BY AdvanceGoesOn, OnwardReflexive DEF MatchAny, Match

\* parser_expect takes a token or reports an error.
LEMMA ExpectGoesOn ==
  ASSUME NEW c, IsCursor(c), NEW type, type # "EOF"
  PROVE  Progress(c, Expect(c, type))
<1>1. CASE Current(c) = type
  BY <1>1, AdvanceGoesOn DEF Expect, IsCursor, Onward, Progress
<1>2. CASE Current(c) # type
  BY <1>2, FailGoesOn DEF Expect, Progress
<1>. QED
  BY <1>1, <1>2

\* Progress is not lost on the way on, and a way on ends in progress if its last
\* part makes some.
LEMMA ProgressKept ==
  ASSUME NEW c, NEW d, NEW e, IsCursor(c), Progress(c, d), Onward(d, e)
  PROVE  Progress(c, e)
BY DEF IsCursor, Onward, Progress

LEMMA ProgressAtLast ==
  ASSUME NEW c, NEW d, NEW e, IsCursor(c), Onward(c, d), Progress(d, e)
  PROVE  Progress(c, e)
BY DEF IsCursor, Onward, Progress

\* A token that is there is progress.
LEMMA AdvanceIsProgress ==
  ASSUME NEW c, IsCursor(c), Current(c) # "EOF"
  PROVE  Progress(c, Advance(c))
BY AdvanceGoesOn DEF IsCursor, Onward, Progress

LEMMA FailIsProgress ==
  ASSUME NEW c, IsCursor(c)
  PROVE  Progress(c, Fail(c))
BY FailGoesOn DEF Progress

\* A cursor that is come to is a cursor.
LEMMA OnwardIsCursor ==
  ASSUME NEW c, NEW d, Onward(c, d)
  PROVE  IsCursor(d)
BY DEF Onward

LEMMA ProgressIsOnward ==
  ASSUME NEW c, NEW d, Progress(c, d)
  PROVE  Onward(c, d)
BY DEF Progress

-----------------------------------------------------------------------------
(* Tokens that are not of a device *)

\* What the constructs of a device begin with.
DeviceWords == {"PERIPHERAL", "REGISTER", "FIELD"}

\* What is consumed from c to d without an error has none of them.
Plain(c, d) == d.err = 0 => \A i \in c.pos..d.pos - 1 : c.src[i] \notin DeviceWords

Passes(c, d)   == Onward(c, d) /\ Plain(c, d)
Consumes(c, d) == Progress(c, d) /\ Plain(c, d)

LEMMA PassesReflexive ==
  ASSUME NEW c, IsCursor(c)
  PROVE  Passes(c, c)
BY OnwardReflexive DEF IsCursor, Passes, Plain

LEMMA ConsumesIsPasses ==
  ASSUME NEW c, NEW d, Consumes(c, d)
  PROVE  Passes(c, d) /\ Progress(c, d)
BY DEF Consumes, Passes, Progress

LEMMA PassesIsOnward ==
  ASSUME NEW c, NEW d, Passes(c, d)
  PROVE  Onward(c, d) /\ IsCursor(d)
BY DEF Passes, Onward

\* Passing on and on is passing on.
LEMMA PlainTransitive ==
  ASSUME NEW c, NEW d, NEW e, IsCursor(c), Passes(c, d), Passes(d, e)
  PROVE  Plain(c, e)
<1>. SUFFICES ASSUME e.err = 0, NEW i \in c.pos..e.pos - 1 PROVE c.src[i] \notin DeviceWords
  BY DEF Plain
<1>1. d.err = 0 /\ d.src = c.src /\ c.pos \in Nat /\ d.pos \in Nat /\ e.pos \in Nat
  BY DEF Passes, Onward, IsCursor
<1>2. i \in c.pos..d.pos - 1 \/ i \in d.pos..e.pos - 1
  BY <1>1
<1>. QED
  BY <1>1, <1>2 DEF Passes, Plain

LEMMA PassesTransitive ==
  ASSUME NEW c, NEW d, NEW e, IsCursor(c), Passes(c, d), Passes(d, e)
  PROVE  Passes(c, e)
BY PlainTransitive, OnwardTransitive DEF Passes

LEMMA ConsumesKept ==
  ASSUME NEW c, NEW d, NEW e, IsCursor(c), Consumes(c, d), Passes(d, e)
  PROVE  Consumes(c, e)
BY PlainTransitive, ProgressKept, ConsumesIsPasses, PassesIsOnward DEF Consumes

LEMMA ConsumesAtLast ==
  ASSUME NEW c, NEW d, NEW e, IsCursor(c), Passes(c, d), Consumes(d, e)
  PROVE  Consumes(c, e)
BY PlainTransitive, ProgressAtLast, ConsumesIsPasses, PassesIsOnward DEF Consumes

LEMMA AdvancePasses ==
  ASSUME NEW c, IsCursor(c), Current(c) \notin DeviceWords
  PROVE  Passes(c, Advance(c)) /\ (Current(c) # "EOF" => Consumes(c, Advance(c)))
<1>1. Plain(c, Advance(c))
  BY DEF IsCursor, Plain, Advance, Current
<1>. QED
  BY <1>1, AdvanceGoesOn, AdvanceIsProgress DEF Passes, Consumes

LEMMA FailConsumes ==
  ASSUME NEW c, IsCursor(c)
  PROVE  Consumes(c, Fail(c))
BY FailGoesOn, FailIsProgress DEF Consumes, Plain

LEMMA MatchPasses ==
  ASSUME NEW c, IsCursor(c)
  PROVE  /\ \A types : types \cap DeviceWords = {} => Passes(c, MatchAny(c, types))
         /\ \A type : type \notin DeviceWords => Passes(c, Match(c, type))
<1>1. ASSUME NEW types, types \cap DeviceWords = {} PROVE Passes(c, MatchAny(c, types))
  BY <1>1, AdvancePasses, PassesReflexive DEF MatchAny
<1>. QED
  BY <1>1 DEF Match

LEMMA ExpectConsumes ==
  ASSUME NEW c, IsCursor(c), NEW type, type # "EOF", type \notin DeviceWords
  PROVE  Consumes(c, Expect(c, type))
BY AdvancePasses, FailConsumes DEF Expect

-----------------------------------------------------------------------------
(* Calls that come closer to the end *)

LEMMA LevelsCount == Len(Levels) = 8
BY DEF Levels

\* A cursor of a text is a place that the parser can be in.
LEMMA CursorsAreCursors ==
  ASSUME NEW src \in Seq(STRING)
  PROVE  /\ \A c \in Cursors(src) : IsCursor(c) /\ c.src = src
         /\ \A c : IsCursor(c) /\ c.src = src => c \in Cursors(src)
BY DEF Cursors, IsCursor

\* What is come to from a cursor of a text is another one.
LEMMA OnwardStays ==
  ASSUME NEW src \in Seq(STRING), NEW c \in Cursors(src), NEW d, Onward(c, d)
  PROVE  d \in Cursors(src)
BY CursorsAreCursors DEF Onward

LEMMA PassesStays ==
  ASSUME NEW src \in Seq(STRING), NEW c \in Cursors(src), NEW d, Passes(c, d)
  PROVE  d \in Cursors(src)
BY OnwardStays, PassesIsOnward

LEMMA ConsumesStays ==
  ASSUME NEW src \in Seq(STRING), NEW c \in Cursors(src), NEW d, Consumes(c, d)
  PROVE  d \in Cursors(src) /\ Passes(c, d)
BY PassesStays, ConsumesIsPasses

\* The tokens that are not consumed, and the end.
Left(c) == Len(c.src) + 1 - c.pos

Rank(goal) == IF goal.what = "operators" THEN 0
              ELSE IF goal.what = "arguments" THEN 10
              ELSE goal.level + 1

\* How far a goal is from having no calls to make.
Weight(goal) == Left(goal.c) * 11 + Rank(goal)

\* What a goal is promised: the loop of a level may find no operator.
Returns(goal, result) == IF goal.what = "operators" THEN Passes(goal.c, result.c)
                         ELSE Consumes(goal.c, result.c)

\* p and q do the same for every goal that weighs less than n, as promised.
Agree(p, q, src, n) ==
  \A goal \in Goals(src) : Weight(goal) < n => p[goal] = q[goal] /\ Returns(goal, p[goal])

\* The tokens left are a number, and as many or less as the parser goes on.
LEMMA LeftFalls ==
  ASSUME NEW src \in Seq(STRING), NEW c \in Cursors(src)
  PROVE  /\ Left(c) \in Nat /\ Left(c) <= Len(src)
         /\ \A d : Passes(c, d) => Left(d) \in Nat /\ Left(d) <= Left(c)
         /\ Current(c) # "EOF" => Left(Advance(c)) = Left(c) - 1 /\ Advance(c) \in Cursors(src)
<1>1. Len(src) \in Nat /\ c.pos \in 1..Len(src) + 1 /\ c.src = src
  BY CursorsAreCursors DEF Cursors
<1>2. ASSUME NEW d, Passes(c, d) PROVE Left(d) \in Nat /\ Left(d) <= Left(c)
  <2>1. d \in Cursors(src) /\ c.pos <= d.pos
    BY <1>2, PassesStays, PassesIsOnward DEF Onward
  <2>2. d.pos \in 1..Len(src) + 1 /\ d.src = src
    BY <2>1 DEF Cursors
  <2>. QED
    BY <1>1, <2>1, <2>2 DEF Left
<1>3. ASSUME Current(c) # "EOF"
      PROVE  Left(Advance(c)) = Left(c) - 1 /\ Advance(c) \in Cursors(src)
  <2>1. Advance(c) \in Cursors(src)
    BY CursorsAreCursors, AdvanceGoesOn, OnwardStays
  <2>2. Advance(c).src = src /\ Advance(c).pos = c.pos + 1
    BY <1>1, <1>3 DEF Advance, Current, Cursors
  <2>. QED
    BY <1>1, <2>1, <2>2 DEF Left
<1>. QED
  BY <1>1, <1>2, <1>3 DEF Left

\* The calls, for each kind of goal.
LEMMA OperandCall ==
  ASSUME NEW src \in Seq(STRING), NEW n, NEW p, NEW q, Agree(p, q, src, n),
         NEW level \in 0..8, NEW c \in Cursors(src), Left(c) * 11 + level + 1 < n
  PROVE  /\ p[ToOperand(level, c)] = q[ToOperand(level, c)]
         /\ Consumes(c, p[ToOperand(level, c)].c)
<1>1. ToOperand(level, c) \in Goals(src)
  BY LevelsCount DEF Goals, ToOperand
<1>2. Weight(ToOperand(level, c)) < n
  <2>1. Left(c) \in Nat
    BY LeftFalls
  <2>2. Weight(ToOperand(level, c)) = Left(c) * 11 + (level + 1)
    BY DEF Weight, Rank, ToOperand
  <2>. QED
    BY <2>1, <2>2
<1>. QED
  BY <1>1, <1>2 DEF Agree, Returns, ToOperand

LEMMA OperatorsCall ==
  ASSUME NEW src \in Seq(STRING), NEW n, NEW p, NEW q, Agree(p, q, src, n),
         NEW level \in 1..8, NEW c \in Cursors(src), Left(c) * 11 < n
  PROVE  /\ p[ToOperators(level, c)] = q[ToOperators(level, c)]
         /\ Passes(c, p[ToOperators(level, c)].c)
<1>1. ToOperators(level, c) \in Goals(src)
  BY LevelsCount DEF Goals, ToOperators
<1>2. Weight(ToOperators(level, c)) < n
  BY LeftFalls DEF Weight, Rank, ToOperators
<1>. QED
  BY <1>1, <1>2 DEF Agree, Returns, ToOperators

LEMMA ArgumentsCall ==
  ASSUME NEW src \in Seq(STRING), NEW n, NEW p, NEW q, Agree(p, q, src, n),
         NEW c \in Cursors(src), Left(c) * 11 + 10 < n
  PROVE  /\ p[ToArguments(c)] = q[ToArguments(c)]
         /\ Consumes(c, p[ToArguments(c)].c)
<1>1. ToArguments(c) \in Goals(src)
  BY DEF Goals, ToArguments
<1>2. Weight(ToArguments(c)) < n
  BY DEF Weight, Rank, ToArguments
<1>. QED
  BY <1>1, <1>2 DEF Agree, Returns, ToArguments

-----------------------------------------------------------------------------
(* The functions, one by one *)

\* The loop of a level consumes what it finds.
LEMMA OperatorsEffect ==
  ASSUME NEW src \in Seq(STRING), NEW n \in Nat, NEW p, NEW q, Agree(p, q, src, n),
         NEW level \in 1..8, NEW c \in Cursors(src), Left(c) * 11 <= n
  PROVE  /\ Operators(p, level, c) = Operators(q, level, c)
         /\ Passes(c, Operators(p, level, c).c)
<1>. DEFINE next  == Advance(c)
            right == p[ToOperand(level - 1, next)]
            more  == p[ToOperators(level, right.c)]
<1>1. CASE Current(c) \in Levels[level]
  <2>1. Current(c) # "EOF" /\ Current(c) \notin DeviceWords
    <3>. level = 1 \/ level = 2 \/ level = 3 \/ level = 4 \/ level = 5 \/ level = 6
           \/ level = 7 \/ level = 8
      OBVIOUS
    <3>. QED
      BY <1>1 DEF Levels, DeviceWords
  <2>2. Left(c) \in Nat /\ Left(next) = Left(c) - 1 /\ next \in Cursors(src) /\ Passes(c, next)
    BY <2>1, LeftFalls, CursorsAreCursors, AdvancePasses
  <2>. HIDE DEF next
  <2>3. Left(next) * 11 + (level - 1) + 1 < n /\ level - 1 \in 0..8
    BY <2>2
  <2>4. right = q[ToOperand(level - 1, next)] /\ Consumes(next, right.c)
    BY <2>2, <2>3, OperandCall
  <2>. HIDE DEF right
  <2>5. right.c \in Cursors(src) /\ Passes(next, right.c)
    BY <2>2, <2>4, ConsumesStays
  <2>6. Left(right.c) \in Nat /\ Left(right.c) <= Left(next)
    BY <2>2, <2>5, LeftFalls
  <2>7. Left(right.c) * 11 < n
    BY <2>2, <2>6
  <2>8. more = q[ToOperators(level, right.c)] /\ Passes(right.c, more.c)
    BY <2>5, <2>7, OperatorsCall
  <2>9. Passes(c, more.c)
    BY <2>2, <2>5, <2>8, CursorsAreCursors, PassesTransitive
  <2>10. Operators(p, level, c) = Result(more.c, <<[op |-> Current(c), right |-> right.node]>> \o more.node)
    BY <1>1 DEF Operators, more, right, next
  <2>11. Operators(q, level, c) = Result(more.c, <<[op |-> Current(c), right |-> right.node]>> \o more.node)
    <3>. DEFINE right2 == q[ToOperand(level - 1, next)]
                more2  == q[ToOperators(level, right2.c)]
    <3>1. Operators(q, level, c) = Result(more2.c, <<[op |-> Current(c), right |-> right2.node]>> \o more2.node)
      BY <1>1 DEF Operators, next
    <3>2. right2 = right
      BY <2>4
    <3>. HIDE DEF right2
    <3>3. more2 = more
      BY <2>8, <3>2
    <3>. HIDE DEF more2
    <3>. QED
      BY <3>1, <3>2, <3>3
  <2>12. Operators(p, level, c).c = more.c
    BY <2>10 DEF Result
  <2>. QED
    BY <2>9, <2>10, <2>11, <2>12
<1>2. CASE Current(c) \notin Levels[level]
  BY <1>2, CursorsAreCursors, PassesReflexive DEF Operators, Result
<1>. QED
  BY <1>1, <1>2

LEMMA BinaryEffect ==
  ASSUME NEW src \in Seq(STRING), NEW n \in Nat, NEW p, NEW q, Agree(p, q, src, n),
         NEW level \in 1..8, NEW c \in Cursors(src), Left(c) * 11 + level + 1 <= n
  PROVE  /\ Binary(p, level, c) = Binary(q, level, c)
         /\ Consumes(c, Binary(p, level, c).c)
<1>. DEFINE left == p[ToOperand(level - 1, c)]
            more == p[ToOperators(level, left.c)]
<1>1. Left(c) \in Nat
  BY LeftFalls
<1>2. left = q[ToOperand(level - 1, c)] /\ Consumes(c, left.c)
  <2>1. Left(c) * 11 + (level - 1) + 1 < n /\ level - 1 \in 0..8
    BY <1>1
  <2>. QED
    BY <2>1, OperandCall
<1>. HIDE DEF left
<1>3. left.c \in Cursors(src) /\ Passes(c, left.c)
  BY <1>2, ConsumesStays
<1>4. Left(left.c) * 11 < n
  <2>1. Left(left.c) \in Nat /\ Left(left.c) <= Left(c)
    BY <1>3, LeftFalls
  <2>. QED
    BY <1>1, <2>1
<1>5. more = q[ToOperators(level, left.c)] /\ Passes(left.c, more.c)
  BY <1>3, <1>4, OperatorsCall
<1>. HIDE DEF more
<1>6. Consumes(c, more.c)
  BY <1>2, <1>5, CursorsAreCursors, ConsumesKept
<1>7. Binary(p, level, c) = Result(more.c, Joined(left.node, more.node))
  BY DEF Binary, more, left
<1>8. Binary(q, level, c) = Result(more.c, Joined(left.node, more.node))
  BY <1>2, <1>5 DEF Binary
<1>. QED
  BY <1>6, <1>7, <1>8 DEF Result

LEMMA ArgumentsEffect ==
  ASSUME NEW src \in Seq(STRING), NEW n \in Nat, NEW p, NEW q, Agree(p, q, src, n),
         NEW c \in Cursors(src), Left(c) * 11 + 10 <= n
  PROVE  /\ Arguments(p, c) = Arguments(q, c)
         /\ Consumes(c, Arguments(p, c).c)
<1>. DEFINE arg  == p[ToOperand(8, c)]
            next == Advance(arg.c)
            rest == p[ToArguments(next)]
            more == IF Current(arg.c) = "COMMA" THEN rest ELSE Result(arg.c, <<>>)
<1>1. Left(c) \in Nat
  BY LeftFalls
<1>2. arg = q[ToOperand(8, c)] /\ Consumes(c, arg.c)
  <2>1. Left(c) * 11 + 8 + 1 < n
    BY <1>1
  <2>. QED
    BY <2>1, OperandCall
<1>. HIDE DEF arg
<1>3. arg.c \in Cursors(src) /\ Left(arg.c) \in Nat /\ Left(arg.c) <= Left(c)
  BY <1>2, ConsumesStays, LeftFalls
<1>4. ASSUME Current(arg.c) = "COMMA"
      PROVE  rest = q[ToArguments(next)] /\ Consumes(c, rest.c)
  <2>1. Left(next) = Left(arg.c) - 1 /\ next \in Cursors(src) /\ Passes(arg.c, next)
    BY <1>3, <1>4, LeftFalls, CursorsAreCursors, AdvancePasses DEF DeviceWords
  <2>. HIDE DEF next
  <2>2. Left(next) * 11 + 10 < n
    BY <1>1, <1>3, <2>1
  <2>3. rest = q[ToArguments(next)] /\ Consumes(next, rest.c)
    BY <2>1, <2>2, ArgumentsCall
  <2>. HIDE DEF rest
  <2>4. Passes(next, rest.c)
    BY <2>1, <2>3, ConsumesStays
  <2>. QED
    BY <1>2, <1>3, <2>1, <2>3, <2>4, CursorsAreCursors, ConsumesKept
<1>5. Consumes(c, more.c)
  BY <1>2, <1>4 DEF Result
<1>6. Arguments(p, c) = Result(more.c, <<arg.node>> \o more.node)
  BY LevelsCount DEF Arguments, arg
<1>7. Arguments(q, c) = Result(more.c, <<arg.node>> \o more.node)
  <2>. DEFINE rest2 == q[ToArguments(next)]
              more2 == IF Current(arg.c) = "COMMA" THEN rest2 ELSE Result(arg.c, <<>>)
  <2>1. Arguments(q, c) = Result(more2.c, <<arg.node>> \o more2.node)
    BY <1>2, LevelsCount DEF Arguments
  <2>2. more2 = more
    BY <1>4
  <2>. HIDE DEF more, more2
  <2>. QED
    BY <2>1, <2>2
<1>. HIDE DEF more
<1>. QED
  BY <1>5, <1>6, <1>7 DEF Result

\* A call is entered behind its '('.
LEMMA CallAfterEffect ==
  ASSUME NEW src \in Seq(STRING), NEW n \in Nat, NEW p, NEW q, Agree(p, q, src, n),
         NEW c \in Cursors(src), Left(c) * 11 + 10 < n, NEW ident
  PROVE  /\ CallAfter(p, ident, c) = CallAfter(q, ident, c)
         /\ Consumes(c, CallAfter(p, ident, c).c)
<1>. DEFINE args == IF Current(c) = "RPAREN" THEN Result(c, <<>>) ELSE p[ToArguments(c)]
            last == Expect(args.c, "RPAREN")
<1>1. p[ToArguments(c)] = q[ToArguments(c)] /\ Consumes(c, p[ToArguments(c)].c)
  BY ArgumentsCall
<1>2. Passes(c, args.c)
  BY <1>1, CursorsAreCursors, PassesReflexive, ConsumesIsPasses DEF Result
<1>. HIDE DEF args
<1>3. IsCursor(args.c) /\ Consumes(args.c, last)
  BY <1>2, PassesIsOnward, ExpectConsumes DEF DeviceWords
<1>. HIDE DEF last
<1>4. Consumes(c, last)
  BY <1>2, <1>3, CursorsAreCursors, ConsumesAtLast
<1>5. CallAfter(p, ident, c) = Result(last, [kind |-> "call", func |-> ident, args |-> args.node])
  BY DEF CallAfter, last, args
<1>6. CallAfter(q, ident, c) = Result(last, [kind |-> "call", func |-> ident, args |-> args.node])
  BY <1>1 DEF CallAfter, last, args
<1>. QED
  BY <1>4, <1>5, <1>6 DEF Result

LEMMA ParenthesizedEffect ==
  ASSUME NEW src \in Seq(STRING), NEW n \in Nat, NEW p, NEW q, Agree(p, q, src, n),
         NEW c \in Cursors(src), Left(c) * 11 + 9 < n
  PROVE  /\ Parenthesized(p, c) = Parenthesized(q, c)
         /\ Consumes(c, Parenthesized(p, c).c)
<1>. DEFINE inner == p[ToOperand(8, c)]
            last  == Expect(inner.c, "RPAREN")
<1>1. inner = q[ToOperand(8, c)] /\ Consumes(c, inner.c)
  <2>1. Left(c) \in Nat
    BY LeftFalls
  <2>2. Left(c) * 11 + 8 + 1 < n
    BY <2>1
  <2>. QED
    BY <2>2, OperandCall
<1>. HIDE DEF inner
<1>2. Passes(c, inner.c) /\ IsCursor(inner.c)
  BY <1>1, ConsumesIsPasses, PassesIsOnward
<1>3. Consumes(inner.c, last)
  BY <1>2, ExpectConsumes DEF DeviceWords
<1>. HIDE DEF last
<1>4. Consumes(c, last)
  BY <1>2, <1>3, CursorsAreCursors, ConsumesAtLast
<1>5. Parenthesized(p, c) = Result(last, inner.node)
  BY LevelsCount DEF Parenthesized, last, inner
<1>6. Parenthesized(q, c) = Result(last, inner.node)
  BY <1>1, LevelsCount DEF Parenthesized, last
<1>. QED
  BY <1>4, <1>5, <1>6 DEF Result

LEMMA PrimaryEffect ==
  ASSUME NEW src \in Seq(STRING), NEW n \in Nat, NEW p, NEW q, Agree(p, q, src, n),
         NEW c \in Cursors(src), Left(c) * 11 + 1 <= n
  PROVE  /\ Primary(p, c) = Primary(q, c)
         /\ Consumes(c, Primary(p, c).c)
<1>. DEFINE next   == Advance(c)
            inside == Advance(next)
<1>1. IsCursor(c) /\ Left(c) \in Nat
  BY CursorsAreCursors, LeftFalls
<1>2. ASSUME Current(c) \in {"NUMBER", "IDENTIFIER", "TRUE", "FALSE", "LPAREN"}
      PROVE  Consumes(c, next) /\ next \in Cursors(src) /\ Left(next) = Left(c) - 1
  BY <1>1, <1>2, AdvancePasses, LeftFalls DEF DeviceWords
<1>. HIDE DEF next
<1>3. CASE Current(c) = "NUMBER"
  <2>1. Primary(p, c) = Result(next, Leaf("number", c))
    BY <1>3 DEF Primary, PrimaryTokens, next
  <2>2. Primary(q, c) = Result(next, Leaf("number", c))
    BY <1>3 DEF Primary, PrimaryTokens, next
  <2>. QED
    BY <1>2, <1>3, <2>1, <2>2 DEF Result
<1>4. CASE Current(c) \in {"TRUE", "FALSE"}
  <2>1. Primary(p, c) = Result(next, Leaf("boolean", c))
    BY <1>4 DEF Primary, PrimaryTokens, next
  <2>2. Primary(q, c) = Result(next, Leaf("boolean", c))
    BY <1>4 DEF Primary, PrimaryTokens, next
  <2>. QED
    BY <1>2, <1>4, <2>1, <2>2 DEF Result
<1>5. CASE Current(c) \notin PrimaryTokens
  <2>1. Primary(p, c) = Result(Fail(c), NullNode)
    BY <1>5 DEF Primary, PrimaryTokens
  <2>2. Primary(q, c) = Result(Fail(c), NullNode)
    BY <1>5 DEF Primary, PrimaryTokens
  <2>. QED
    BY <1>1, <2>1, <2>2, FailConsumes DEF Result
<1>6. CASE Current(c) = "LPAREN"
  <2>1. Primary(p, c) = Parenthesized(p, next)
    BY <1>6 DEF Primary, PrimaryTokens, next
  <2>2. Primary(q, c) = Parenthesized(q, next)
    BY <1>6 DEF Primary, PrimaryTokens, next
  <2>3. Left(next) * 11 + 9 < n
    BY <1>1, <1>2, <1>6
  <2>4. Parenthesized(p, next) = Parenthesized(q, next) /\ Consumes(next, Parenthesized(p, next).c)
    BY <1>2, <1>6, <2>3, ParenthesizedEffect
  <2>5. Consumes(c, Parenthesized(p, next).c)
    BY <1>1, <1>2, <1>6, <2>4, ConsumesIsPasses, ConsumesKept
  <2>. QED
    BY <2>1, <2>2, <2>4, <2>5
<1>7. CASE Current(c) = "IDENTIFIER" /\ Current(next) = "LPAREN"
  <2>. DEFINE ident == Leaf("identifier", c)
  <2>1. Primary(p, c) = CallAfter(p, ident, inside)
    BY <1>7 DEF Primary, PrimaryTokens, next
  <2>2. Primary(q, c) = CallAfter(q, ident, inside)
    BY <1>7 DEF Primary, PrimaryTokens, next
  <2>3. Passes(next, inside) /\ inside \in Cursors(src) /\ Left(inside) = Left(c) - 2
    BY <1>1, <1>2, <1>7, CursorsAreCursors, AdvancePasses, LeftFalls DEF DeviceWords
  <2>. HIDE DEF inside, ident
  <2>4. Left(inside) * 11 + 10 < n
    BY <1>1, <2>3
  <2>5. /\ CallAfter(p, ident, inside) = CallAfter(q, ident, inside)
        /\ Consumes(inside, CallAfter(p, ident, inside).c)
    BY <2>3, <2>4, CallAfterEffect
  <2>6. Consumes(c, inside)
    BY <1>1, <1>2, <1>7, <2>3, ConsumesKept
  <2>7. Consumes(c, CallAfter(p, ident, inside).c)
    BY <1>1, <2>5, <2>6, ConsumesIsPasses, ConsumesKept
  <2>. QED
    BY <2>1, <2>2, <2>5, <2>7
<1>8. CASE Current(c) = "IDENTIFIER" /\ Current(next) # "LPAREN"
  <2>1. Primary(p, c) = Result(next, Leaf("identifier", c))
    BY <1>8 DEF Primary, PrimaryTokens, next
  <2>2. Primary(q, c) = Result(next, Leaf("identifier", c))
    BY <1>8 DEF Primary, PrimaryTokens, next
  <2>. QED
    BY <1>2, <1>8, <2>1, <2>2 DEF Result
<1>. QED
  BY <1>3, <1>4, <1>5, <1>6, <1>7, <1>8 DEF PrimaryTokens

LEMMA UnaryEffect ==
  ASSUME NEW src \in Seq(STRING), NEW n \in Nat, NEW p, NEW q, Agree(p, q, src, n),
         NEW c \in Cursors(src), Left(c) * 11 + 1 <= n
  PROVE  /\ Unary(p, c) = Unary(q, c)
         /\ Consumes(c, Unary(p, c).c)
<1>. DEFINE next    == Advance(c)
            operand == p[ToOperand(0, next)]
            node    == [kind |-> "unary", op |-> Current(c), operand |-> operand.node]
<1>1. CASE Current(c) \in UnaryOps
  <2>1. Current(c) # "EOF" /\ Current(c) \notin DeviceWords
    BY <1>1 DEF UnaryOps, DeviceWords
  <2>2. /\ Left(c) \in Nat /\ Left(next) = Left(c) - 1 /\ next \in Cursors(src)
        /\ Consumes(c, next) /\ IsCursor(c)
    BY <2>1, LeftFalls, CursorsAreCursors, AdvancePasses
  <2>. HIDE DEF next
  <2>3. Left(next) * 11 + 0 + 1 < n
    BY <2>2
  <2>4. operand = q[ToOperand(0, next)] /\ Consumes(next, operand.c)
    BY <2>2, <2>3, OperandCall
  <2>5. Unary(p, c) = Result(operand.c, node)
    BY <1>1 DEF Unary, next
  <2>6. Unary(q, c) = Result(operand.c, node)
    BY <1>1, <2>4 DEF Unary, next
  <2>. HIDE DEF operand, node
  <2>7. Consumes(c, operand.c)
    BY <2>2, <2>4, ConsumesIsPasses, ConsumesKept
  <2>. QED
    BY <2>5, <2>6, <2>7 DEF Result
<1>2. CASE Current(c) \notin UnaryOps
  BY <1>2, PrimaryEffect DEF Unary
<1>. QED
  BY <1>1, <1>2

\* Whatever is entered: what it returns depends on what lighter goals return, and
\* it keeps the promise if they do.
LEMMA ReachEffect ==
  ASSUME NEW src \in Seq(STRING), NEW n \in Nat, NEW p, NEW q, Agree(p, q, src, n),
         NEW goal \in Goals(src), Weight(goal) <= n
  PROVE  Reach(p, goal) = Reach(q, goal) /\ Returns(goal, Reach(p, goal))
<1>1. /\ goal.c \in Cursors(src) /\ goal.what \in {"operand", "operators", "arguments"}
      /\ goal.what = "operand" => goal.level \in 0..8
      /\ goal.what = "operators" => goal.level \in 1..8
  BY LevelsCount DEF Goals
<1>2. Left(goal.c) \in Nat
  BY <1>1, LeftFalls
<1>3. CASE goal.what = "operand" /\ goal.level = 0
  <2>1. Reach(p, goal) = Unary(p, goal.c) /\ Reach(q, goal) = Unary(q, goal.c)
    BY <1>3 DEF Reach
  <2>2. Left(goal.c) * 11 + 1 <= n
    BY <1>2, <1>3 DEF Weight, Rank
  <2>. QED
    BY <1>1, <1>3, <2>1, <2>2, UnaryEffect DEF Returns
<1>4. CASE goal.what = "operand" /\ goal.level \in 1..8
  <2>1. /\ Reach(p, goal) = Binary(p, goal.level, goal.c)
        /\ Reach(q, goal) = Binary(q, goal.level, goal.c)
    BY <1>4 DEF Reach
  <2>2. Left(goal.c) * 11 + goal.level + 1 <= n
    <3>1. Weight(goal) = Left(goal.c) * 11 + (goal.level + 1)
      BY <1>4 DEF Weight, Rank
    <3>. QED
      BY <1>2, <1>4, <3>1
  <2>. QED
    BY <1>1, <1>4, <2>1, <2>2, BinaryEffect DEF Returns
<1>5. CASE goal.what = "operators"
  <2>1. /\ Reach(p, goal) = Operators(p, goal.level, goal.c)
        /\ Reach(q, goal) = Operators(q, goal.level, goal.c)
    BY <1>5 DEF Reach
  <2>2. Left(goal.c) * 11 <= n
    BY <1>2, <1>5 DEF Weight, Rank
  <2>. QED
    BY <1>1, <1>5, <2>1, <2>2, OperatorsEffect DEF Returns
<1>6. CASE goal.what = "arguments"
  <2>1. Reach(p, goal) = Arguments(p, goal.c) /\ Reach(q, goal) = Arguments(q, goal.c)
    BY <1>6 DEF Reach
  <2>2. Left(goal.c) * 11 + 10 <= n
    BY <1>2, <1>6 DEF Weight, Rank
  <2>. QED
    BY <1>1, <1>6, <2>1, <2>2, ArgumentsEffect DEF Returns
<1>. QED
  BY <1>1, <1>3, <1>4, <1>5, <1>6

-----------------------------------------------------------------------------
(* The recursion *)

\* A goal has a weight, and there is a heaviest one.
LEMMA WeightBounds ==
  ASSUME NEW src \in Seq(STRING), NEW goal \in Goals(src)
  PROVE  Weight(goal) \in Nat /\ Weight(goal) < Len(src) * 11 + 11
<1>1. /\ goal.c \in Cursors(src)
      /\ Rank(goal) \in 0..10
  BY LevelsCount DEF Goals, Rank
<1>2. Left(goal.c) \in Nat /\ Left(goal.c) <= Len(src) /\ Len(src) \in Nat
  BY <1>1, LeftFalls
<1>. QED
  BY <1>1, <1>2 DEF Weight

\* p calls itself as the code does, for every goal that weighs less than n.
Parses(p, src, n) == \A goal \in Goals(src) : Weight(goal) < n => p[goal] = Reach(p, goal)

\* Such a p keeps the promises.
LEMMA ParsesReturns ==
  ASSUME NEW src \in Seq(STRING), NEW p, NEW m \in Nat, Parses(p, src, m)
  PROVE  Agree(p, p, src, m)
<1>. DEFINE S == {n \in Nat : n <= m => Agree(p, p, src, n)}
<1>1. 0 \in S
  BY WeightBounds DEF Agree
<1>2. ASSUME NEW n \in Nat, n \in S PROVE n + 1 \in S
  <2>. SUFFICES ASSUME n + 1 <= m PROVE Agree(p, p, src, n + 1)
    OBVIOUS
  <2>1. Agree(p, p, src, n)
    BY <1>2
  <2>2. ASSUME NEW goal \in Goals(src), Weight(goal) < n + 1 PROVE Returns(goal, p[goal])
    <3>1. Weight(goal) \in Nat /\ Weight(goal) <= n /\ Weight(goal) < m
      BY <2>2, WeightBounds
    <3>2. p[goal] = Reach(p, goal)
      BY <3>1 DEF Parses
    <3>3. Returns(goal, Reach(p, goal))
      BY <2>1, <3>1, ReachEffect
    <3>. QED
      BY <3>2, <3>3
  <2>. QED
    BY <2>2 DEF Agree
<1>. HIDE DEF S
<1>3. m \in S
  BY <1>1, <1>2, Induction
<1>. QED
  BY <1>3 DEF S

\* There is one, for any weight.
LEMMA ParsesExists ==
  ASSUME NEW src \in Seq(STRING)
  PROVE  \A n \in Nat : \E p : Parses(p, src, n)
<1>. DEFINE S == {n \in Nat : \E p : Parses(p, src, n)}
<1>1. 0 \in S
  BY WeightBounds DEF Parses
<1>2. ASSUME NEW n \in Nat, n \in S PROVE n + 1 \in S
  <2>1. PICK p : Parses(p, src, n)
    BY <1>2
  <2>2. Agree(p, p, src, n)
    BY <2>1, ParsesReturns
  <2>. DEFINE f == [goal \in Goals(src) |-> Reach(p, goal)]
  <2>3. \A goal \in Goals(src) : f[goal] = Reach(p, goal)
    OBVIOUS
  <2>. HIDE DEF f
  <2>4. Agree(p, f, src, n)
    BY <2>1, <2>2, <2>3 DEF Agree, Parses
  <2>5. ASSUME NEW goal \in Goals(src), Weight(goal) < n + 1 PROVE f[goal] = Reach(f, goal)
    <3>1. Weight(goal) <= n
      BY <2>5, WeightBounds
    <3>2. Reach(p, goal) = Reach(f, goal)
      BY <2>4, <3>1, ReachEffect
    <3>. QED
      BY <2>3, <3>2
  <2>6. Parses(f, src, n + 1)
    BY <2>5 DEF Parses
  <2>. QED
    BY <2>6
<1>. HIDE DEF S
<1>3. Nat \subseteq S
  BY <1>1, <1>2, Induction
<1>. QED
  BY <1>3 DEF S

\* The function in the definition of Expression is there.
LEMMA ParseExists ==
  ASSUME NEW src \in Seq(STRING)
  PROVE  \E f : f = [goal \in Goals(src) |-> Reach(f, goal)]
<1>. DEFINE n == Len(src) * 11 + 11
<1>1. n \in Nat
  OBVIOUS
<1>2. PICK p : Parses(p, src, n)
  BY <1>1, ParsesExists
<1>3. Agree(p, p, src, n)
  BY <1>1, <1>2, ParsesReturns
<1>. DEFINE f == [goal \in Goals(src) |-> Reach(p, goal)]
<1>4. \A goal \in Goals(src) : f[goal] = Reach(p, goal)
  OBVIOUS
<1>. HIDE DEF n
<1>5. Agree(p, f, src, n)
  <2>. HIDE DEF f
  <2>. QED
    BY <1>2, <1>3, <1>4 DEF Agree, Parses
<1>6. ASSUME NEW goal \in Goals(src) PROVE Reach(p, goal) = Reach(f, goal)
  <2>. HIDE DEF f
  <2>1. Weight(goal) <= n
    BY WeightBounds DEF n
  <2>. QED
    BY <1>1, <1>5, <2>1, ReachEffect
<1>7. f = [goal \in Goals(src) |-> Reach(f, goal)]
  BY <1>6
<1>. QED
  BY <1>7

\* parser_parse_expression makes progress from every place of every text, and
\* takes no token of a device.
THEOREM ExpressionConsumes ==
  ASSUME NEW c, IsCursor(c)
  PROVE  Consumes(c, Expression(c).c)
<1>. DEFINE src == c.src
            n   == Len(src) * 11 + 11
            f   == CHOOSE f : f = [goal \in Goals(src) |-> Reach(f, goal)]
            top == ToOperand(8, c)
<1>1. src \in Seq(STRING) /\ Len(src) \in Nat /\ c \in Cursors(src)
  BY CursorsAreCursors DEF IsCursor
<1>. HIDE DEF src
<1>2. f = [goal \in Goals(src) |-> Reach(f, goal)]
  BY <1>1, ParseExists
<1>3. Expression(c) = f[top]
  BY LevelsCount DEF Expression, src
<1>. HIDE DEF f
<1>4. Parses(f, src, n)
  BY <1>2 DEF Parses
<1>5. n \in Nat
  BY <1>1
<1>. HIDE DEF n
<1>6. Agree(f, f, src, n)
  BY <1>1, <1>4, <1>5, ParsesReturns
<1>7. top \in Goals(src) /\ top.what = "operand" /\ top.c = c
  BY <1>1, LevelsCount DEF Goals, ToOperand
<1>8. Weight(top) < n
  BY <1>1, <1>7, WeightBounds DEF n
<1>. HIDE DEF top
<1>. QED
  BY <1>3, <1>6, <1>7, <1>8 DEF Agree, Returns

-----------------------------------------------------------------------------
(* Every text *)

\* A text is written of tokens of the alphabet.
IsText == text \in Seq(STRING)

LEMMA TextsAreTokens == TextSpec => []IsText
<1>1. text = <<>> => IsText
  BY DEF IsText
<1>2. IsText /\ [Type]_text => IsText'
  <2>1. ASSUME IsText, NEW t \in Alphabet, text' = Append(text, t)
        PROVE  IsText'
    BY <2>1, AlphabetAssumption, AppendProperties DEF IsText
  <2>2. CASE UNCHANGED text
    BY <2>2 DEF IsText
  <2>. QED
    BY <2>1, <2>2 DEF Type
<1>. QED
  BY <1>1, <1>2, PTL DEF TextSpec

\* parser_parse_expression consumes a token or reports an error, from every place
\* of every text over every alphabet: no loop that calls it turns silently.
THEOREM ExpressionsConsumeOrReport == TextSpec => []ConsumesOrReports
<1>1. IsText => ConsumesOrReports
  <2>. SUFFICES ASSUME text \in Seq(STRING), NEW i \in 1..Len(text) + 1, NEW e \in {0, 1}
                PROVE  LET c == [src |-> text, pos |-> i, err |-> e]
                       IN  Progress(c, Expression(c).c)
    BY DEF ConsumesOrReports, IsText
  <2>1. IsCursor([src |-> text, pos |-> i, err |-> e])
    BY DEF IsCursor
  <2>. QED
    BY <2>1, ExpressionConsumes, ConsumesIsPasses
<1>. QED
  BY <1>1, TextsAreTokens, PTL
-----------------------------------------------------------------------------
(* The grammar functions *)

\* What is consumed is not lost in what may or must come next.
LEMMA ExpectAfter ==
  ASSUME NEW c, NEW d, IsCursor(c), Progress(c, d), NEW type, type # "EOF"
  PROVE  /\ Progress(c, Expect(d, type))
         /\ Consumes(c, d) /\ type \notin DeviceWords => Consumes(c, Expect(d, type))
<1>1. IsCursor(d)
  BY ProgressIsOnward, OnwardIsCursor
<1>. QED
  BY <1>1, ExpectGoesOn, ProgressKept, ProgressIsOnward, ExpectConsumes, ConsumesKept,
     ConsumesIsPasses

LEMMA MatchAfter ==
  ASSUME NEW c, NEW d, IsCursor(c), Progress(c, d)
  PROVE  /\ \A types : Progress(c, MatchAny(d, types))
         /\ \A type : Progress(c, Match(d, type))
BY MatchGoesOn, ProgressKept, ProgressIsOnward, OnwardIsCursor

LEMMA AdvanceAfter ==
  ASSUME NEW c, NEW d, IsCursor(c), Progress(c, d)
  PROVE  Progress(c, Advance(d)) /\ Progress(c, Fail(d))
BY AdvanceGoesOn, FailGoesOn, ProgressKept, ProgressIsOnward, OnwardIsCursor

\* A place behind which a ';' may be.
LEMMA SemicolonAfter ==
  ASSUME NEW c, NEW d, IsCursor(c), Consumes(c, d)
  PROVE  Consumes(c, Match(d, "SEMICOLON"))
<1>1. Passes(d, Match(d, "SEMICOLON"))
  BY MatchPasses, ConsumesIsPasses, PassesIsOnward DEF DeviceWords
<1>. QED
  BY <1>1, ConsumesKept

\* An expression behind what is consumed.
LEMMA ExpressionAfter ==
  ASSUME NEW c, NEW d, IsCursor(c), Consumes(c, d)
  PROVE  Consumes(c, Expression(d).c)
BY ExpressionConsumes, ConsumesIsPasses, PassesIsOnward, ConsumesKept

\* A token behind what is consumed, or an error there.
LEMMA TokenAfter ==
  ASSUME NEW c, NEW d, IsCursor(c), Consumes(c, d)
  PROVE  /\ Current(d) \notin DeviceWords => Consumes(c, Advance(d))
         /\ Consumes(c, Fail(d)) /\ Consumes(c, Fail(Advance(d)))
<1>1. IsCursor(d) /\ Progress(c, d)
  BY ConsumesIsPasses, PassesIsOnward
<1>2. Current(d) \notin DeviceWords => Consumes(c, Advance(d))
  BY <1>1, AdvancePasses, ConsumesKept
<1>3. Consumes(c, Fail(d))
  BY <1>1, FailConsumes, ConsumesIsPasses, ConsumesKept
<1>4. Progress(c, Advance(d)) /\ IsCursor(Advance(d))
  BY <1>1, AdvanceAfter, AdvanceGoesOn, OnwardIsCursor
<1>5. Progress(c, Fail(Advance(d))) /\ Fail(Advance(d)).err # 0
  BY <1>4, AdvanceAfter, FailGoesOn
<1>. QED
  BY <1>2, <1>3, <1>5 DEF Consumes, Plain

\* parser_parse_statement, for each of the statements without a block.
LEMMA VarDeclConsumes ==
  ASSUME NEW c, IsCursor(c), Current(c) \in {"LET", "VAR"}
  PROVE  Consumes(c, VarDecl(c).c)
<1>. DEFINE word  == Advance(c)
            name  == Expect(word, "IDENTIFIER")
            named == Expect(name, "COLON")
            typed == Advance(named)
            init  == Expression(Advance(typed))
            last  == Match(init.c, "SEMICOLON")
            end   == VarDecl(c).c
<1>1. Consumes(c, word)
  BY AdvancePasses DEF DeviceWords
<1>. HIDE DEF word
<1>2. Consumes(c, name)
  BY <1>1, ExpectAfter, ConsumesIsPasses DEF DeviceWords
<1>. HIDE DEF name
<1>3. Consumes(c, named)
  BY <1>2, ExpectAfter, ConsumesIsPasses DEF DeviceWords
<1>4. end = IF Current(named) \in TypeNames /\ Current(typed) = "ASSIGN"
            THEN last
            ELSE Fail(IF Current(named) \in TypeNames THEN typed ELSE named)
  BY DEF VarDecl, Result, word, name
<1>. HIDE DEF named
<1>5. CASE Current(named) \in TypeNames /\ Current(typed) = "ASSIGN"
  <2>1. Consumes(c, typed)
    BY <1>3, <1>5, TokenAfter DEF TypeNames, DeviceWords
  <2>. HIDE DEF typed
  <2>2. Consumes(c, Advance(typed))
    BY <2>1, <1>5, TokenAfter DEF DeviceWords
  <2>3. Consumes(c, init.c)
    BY <2>2, ExpressionAfter
  <2>. HIDE DEF init
  <2>. QED
    BY <1>4, <1>5, <2>3, SemicolonAfter
<1>6. CASE ~(Current(named) \in TypeNames /\ Current(typed) = "ASSIGN")
  BY <1>3, <1>4, <1>6, TokenAfter
<1>. QED
  BY <1>5, <1>6

LEMMA ReturnConsumes ==
  ASSUME NEW c, IsCursor(c), Current(c) = "RETURN"
  PROVE  Consumes(c, Return(c).c)
<1>. DEFINE next  == Advance(c)
            value == IF Current(next) \in {"SEMICOLON", "RBRACE", "EOF"}
                     THEN Result(next, NullNode) ELSE Expression(next)
<1>1. Consumes(c, next)
  BY AdvancePasses DEF DeviceWords
<1>. HIDE DEF next
<1>2. Consumes(c, value.c)
  BY <1>1, ExpressionAfter DEF Result
<1>3. Return(c).c = Match(value.c, "SEMICOLON")
  BY DEF Return, Result, next
<1>. HIDE DEF value
<1>. QED
  BY <1>2, <1>3, SemicolonAfter

LEMMA ExprStatementConsumes ==
  ASSUME NEW c, IsCursor(c)
  PROVE  Consumes(c, ExprStatement(c).c)
<1>1. ExprStatement(c).c = Match(Expression(c).c, "SEMICOLON")
  BY DEF ExprStatement, Result
<1>. QED
  BY <1>1, ExpressionConsumes, SemicolonAfter

\* The head of a function: it is entered or reported from where this ends.
LEMMA SignatureConsumes ==
  ASSUME NEW c, IsCursor(c), Current(c) \in FunctionWords
  PROVE  Consumes(c, Signature(c).c)
<1>. DEFINE word   == Advance(c)
            name   == Expect(word, "IDENTIFIER")
            open   == Expect(name, "LPAREN")
            params == Expect(open, "RPAREN")
            before == Expect(params, IF Current(c) = "FN" THEN "ARROW" ELSE "COLON")
<1>1. Consumes(c, word)
  BY AdvancePasses DEF FunctionWords, DeviceWords
<1>2. Consumes(c, name)
  BY <1>1, ExpectAfter, ConsumesIsPasses DEF DeviceWords
<1>3. Consumes(c, open)
  BY <1>2, ExpectAfter, ConsumesIsPasses DEF DeviceWords
<1>4. Consumes(c, params)
  BY <1>3, ExpectAfter, ConsumesIsPasses DEF DeviceWords
<1>5. Consumes(c, before)
  BY <1>4, ExpectAfter, ConsumesIsPasses DEF DeviceWords
<1>6. Signature(c).c = IF Current(before) \in TypeNames THEN Advance(before) ELSE Fail(before)
  BY DEF Signature, Result, word, name, open, params, before
<1>. HIDE DEF before
<1>. QED
  BY <1>5, <1>6, TokenAfter DEF TypeNames, DeviceWords

-----------------------------------------------------------------------------
(* The call stack *)

\* A body is a single statement or block, and comes when its caller has none.
Bare(f) == f.kind \in {"single", "function"} => f.kids = <<>>

\* What a node has below it, and no more than one body.
Fits(f) == Listed(f.kids) /\ (f.kind \in {"single", "function"} => Len(f.kids) <= 1)

\* A stack of activations that the grammar functions can have.
Stacked(s) ==
  /\ Listed(s)
  /\ Len(s) # 0 => s[Len(s)].kind = "program"
  /\ \A i \in 1..Len(s) - 1 : <<s[i + 1].kind, s[i].kind>> \in Calls
  /\ \A i \in 1..Len(s) : Fits(s[i])
  /\ \A i \in 2..Len(s) : Bare(s[i])

\* A node that has received one more.
Received(f, node) == With(f, Append(f.kids, node))

\* There is room for it in a node that waits for it.
LEMMA ReceivedFits ==
  ASSUME NEW f, Fits(f), Bare(f), NEW node
  PROVE  Received(f, node).kind = f.kind /\ Fits(Received(f, node))
<1>1. Listed(Append(f.kids, node)) /\ Len(Append(f.kids, node)) = Len(f.kids) + 1
  BY AppendEffect DEF Fits
<1>2. f.kind \in {"single", "function"} => Len(f.kids) = 0
  BY EmptyListed DEF Bare
<1>. QED
  BY <1>1, <1>2 DEF Received, With, Fits

\* A callee has returned a node to the function on top.
LEMMA GiveEffect ==
  ASSUME NEW s, Stacked(s), s # <<>>, Bare(Head(s)), NEW node
  PROVE  Stacked(Give(node, s)) /\ Len(Give(node, s)) = Len(s)
<1>. DEFINE f == Head(s)
            g == Received(f, node)
            t == Give(node, s)
<1>1. Listed(s) /\ Len(s) \in Nat /\ Len(s) >= 1 /\ f = s[1]
  BY TailEffect DEF Stacked, Listed
<1>2. g.kind = f.kind /\ Fits(g)
  BY <1>1, ReceivedFits DEF Stacked
<1>. HIDE DEF g
<1>3. t = <<g>> \o Tail(s)
  BY DEF Give, Received, g, f
<1>4. Listed(t) /\ Len(t) = Len(s) /\ t[1] = g /\ \A i \in 2..Len(s) : t[i] = s[i]
  BY <1>1, <1>3, ReplaceEffect
<1>. HIDE DEF t, f
<1>5. \A i \in 1..Len(s) : t[i].kind = s[i].kind
  BY <1>1, <1>2, <1>4
<1>6. \A i \in 1..Len(s) : Fits(t[i])
  BY <1>1, <1>2, <1>4 DEF Stacked
<1>7. \A i \in 2..Len(s) : Bare(t[i])
  BY <1>4 DEF Stacked
<1>8. t[Len(t)].kind = "program"
  BY <1>1, <1>4, <1>5 DEF Stacked
<1>9. \A i \in 1..Len(t) - 1 : <<t[i + 1].kind, t[i].kind>> \in Calls
  BY <1>1, <1>4, <1>5 DEF Stacked
<1>. QED
  BY <1>4, <1>6, <1>7, <1>8, <1>9 DEF Stacked, t

\* The function on top calls another.
LEMMA CallEffect ==
  ASSUME NEW s, Stacked(s), s # <<>>, Bare(Head(s)), NEW g,
         <<Head(s).kind, g.kind>> \in Calls, g.kids = <<>>
  PROVE  Stacked(<<g>> \o s) /\ Len(<<g>> \o s) = Len(s) + 1 /\ Head(<<g>> \o s) = g
<1>. DEFINE t == <<g>> \o s
<1>1. Listed(s) /\ Len(s) \in Nat /\ Len(s) >= 1 /\ Head(s) = s[1]
  BY TailEffect DEF Stacked, Listed
<1>2. Listed(t) /\ Len(t) = Len(s) + 1 /\ t[1] = g /\ \A i \in 1..Len(s) : t[i + 1] = s[i]
  BY <1>1, PushEffect
<1>3. Head(t) = g
  BY <1>1, <1>2, TailEffect, Len(<<>>) = 0
<1>. HIDE DEF t
<1>4. ASSUME NEW i \in 1..Len(t) - 1 PROVE <<t[i + 1].kind, t[i].kind>> \in Calls
  <2>1. CASE i = 1
    BY <1>1, <1>2, <2>1
  <2>2. CASE i # 1
    <3>1. i - 1 \in 1..Len(s) - 1 /\ (i - 1) + 1 = i /\ i \in 1..Len(s)
      BY <1>1, <1>2, <2>2
    <3>2. t[i] = s[i - 1] /\ t[i + 1] = s[(i - 1) + 1]
      BY <1>1, <1>2, <3>1
    <3>. QED
      BY <3>1, <3>2 DEF Stacked
  <2>. QED
    BY <2>1, <2>2
<1>5. ASSUME NEW i \in 2..Len(t)
      PROVE  Bare(t[i]) /\ Fits(t[i])
  <2>1. i - 1 \in 1..Len(s) /\ (i - 1) + 1 = i
    BY <1>1, <1>2
  <2>2. t[i] = s[i - 1] /\ (i - 1 = 1 \/ i - 1 \in 2..Len(s))
    BY <1>2, <2>1
  <2>. QED
    BY <1>1, <2>1, <2>2 DEF Stacked
<1>6. Fits(g)
  BY EmptyListed DEF Fits
<1>7. \A i \in 1..Len(t) : Fits(t[i])
  BY <1>1, <1>2, <1>5, <1>6
<1>8. t[Len(t)].kind = "program"
  BY <1>1, <1>2 DEF Stacked
<1>. QED
  BY <1>2, <1>3, <1>4, <1>5, <1>7, <1>8 DEF Stacked, t

\* The function on top returns; its caller has no body yet.
LEMMA ReturnEffect ==
  ASSUME NEW s, Stacked(s), s # <<>>, Head(s).kind # "program"
  PROVE  /\ Stacked(Tail(s)) /\ Tail(s) # <<>> /\ Len(Tail(s)) = Len(s) - 1
         /\ Bare(Head(Tail(s))) /\ <<Head(Tail(s)).kind, Head(s).kind>> \in Calls
<1>. DEFINE t == Tail(s)
<1>1. Listed(s) /\ Len(s) \in Nat /\ Len(s) >= 1 /\ Head(s) = s[1]
  BY TailEffect DEF Stacked, Listed
<1>2. Listed(t) /\ Len(t) = Len(s) - 1 /\ \A i \in 1..Len(t) : t[i] = s[i + 1]
  BY <1>1, TailEffect
<1>. HIDE DEF t
<1>3. Len(s) >= 2
  BY <1>1 DEF Stacked
<1>4. t # <<>>
  BY <1>1, <1>2, <1>3, Len(<<>>) = 0
<1>5. Head(t) = s[2] /\ Bare(Head(t)) /\ <<Head(t).kind, Head(s).kind>> \in Calls
  <2>1. Head(t) = t[1] /\ t[1] = s[1 + 1]
    BY <1>1, <1>2, <1>3, <1>4, TailEffect
  <2>. QED
    BY <1>1, <1>3, <2>1 DEF Stacked
<1>6. ASSUME NEW i \in 1..Len(t)
      PROVE  /\ Fits(t[i]) /\ Bare(t[i])
             /\ i # Len(t) => <<t[i + 1].kind, t[i].kind>> \in Calls
             /\ i = Len(t) => t[i].kind = "program"
  <2>1. i + 1 \in 2..Len(s) /\ t[i] = s[i + 1] /\ (i = Len(t) <=> i + 1 = Len(s))
    BY <1>1, <1>2
  <2>2. i # Len(t) => i + 1 \in 1..Len(s) - 1 /\ t[i + 1] = s[(i + 1) + 1]
    BY <1>1, <1>2
  <2>. QED
    BY <1>1, <2>1, <2>2 DEF Stacked
<1>7. Len(t) \in 1..Len(t)
  BY <1>1, <1>2, <1>3
<1>8. Stacked(t)
  <2>1. Len(t) \in Nat
    BY <1>2 DEF Listed
  <2>2. \A i \in 1..Len(t) - 1 : i \in 1..Len(t) /\ i # Len(t)
    BY <2>1
  <2>3. \A i \in 2..Len(t) : i \in 1..Len(t)
    BY <2>1
  <2>. QED
    BY <1>2, <1>6, <1>7, <2>2, <2>3 DEF Stacked
<1>. QED
  BY <1>2, <1>4, <1>5, <1>8 DEF t

\* No function is active.
LEMMA EmptyStacked == Stacked(<<>>)
BY EmptyListed DEF Stacked

\* parser_parse_program alone is active.
LEMMA ProgramStacked == Stacked(<<Node("program", <<>>)>>)
<1>. DEFINE f == Node("program", <<>>)
<1>1. f.kind = "program" /\ f.kids = <<>>
  BY DEF Node
<1>. HIDE DEF f
<1>2. Listed(<<f>>) /\ Len(<<f>>) = 1 /\ <<f>>[1] = f
  BY SeqIsListed, <<f>> \in Seq({f})
<1>3. Fits(f)
  BY <1>1, EmptyListed DEF Fits
<1>. QED
  BY <1>1, <1>2, <1>3 DEF Stacked, f

-----------------------------------------------------------------------------
(* The trips *)

\* The invariant: what TypeOK says, and what the functions on the stack wait for.
IInv == /\ IsCursor(cursor)
        /\ Stacked(stack)
        /\ program # NullNode <=> Done
        /\ lap \in {0, 1}

\* A trip inside of the program parses on, and goes back in the stack if it
\* makes no progress.
GoesOn == /\ Onward(cursor, cursor')
          /\ Stacked(stack') /\ stack' # <<>>
          /\ Progress(cursor, cursor') \/ Len(stack') < Len(stack)

\* Lists of one length are both empty or both not.
LEMMA EmptyByLength ==
  ASSUME NEW s, Stacked(s)
  PROVE  s = <<>> <=> Len(s) = 0
BY EmptyListed, ListedEmpty DEF Stacked

\* The function on top takes a node and goes on.
LEMMA GiveGoesOn ==
  ASSUME IInv, stack # <<>>, Bare(Top), NEW node, stack' = Give(node, stack),
         Progress(cursor, cursor')
  PROVE  GoesOn
<1>1. Stacked(stack') /\ Len(stack') = Len(stack)
  BY GiveEffect DEF IInv, Top
<1>. QED
  BY <1>1, EmptyByLength, ProgressIsOnward DEF GoesOn, IInv

\* Or it turns where it is.
LEMMA MakesGoesOn ==
  ASSUME IInv, stack # <<>>, Bare(Top), NEW s, Makes(s), Progress(cursor, s.c)
  PROVE  GoesOn
<1>1. cursor' = s.c /\ (stack' = stack \/ stack' = Give(s.node, stack))
  BY DEF Makes, Step
<1>2. CASE stack' = stack
  BY <1>1, <1>2, ProgressIsOnward DEF GoesOn, IInv
<1>. QED
  BY <1>1, <1>2, GiveGoesOn

\* The function on top returns a node to its caller.
LEMMA ReturnGoesOn ==
  ASSUME IInv, stack # <<>>, Top.kind # "program", NEW node, stack' = Give(node, Tail(stack)),
         Onward(cursor, cursor')
  PROVE  GoesOn
<1>1. /\ Stacked(Tail(stack)) /\ Tail(stack) # <<>> /\ Len(Tail(stack)) = Len(stack) - 1
      /\ Bare(Head(Tail(stack)))
  BY ReturnEffect DEF IInv, Top
<1>2. Stacked(stack') /\ Len(stack') = Len(Tail(stack))
  BY <1>1, GiveEffect
<1>3. Len(stack) \in Nat
  BY DEF IInv, Stacked, Listed
<1>. QED
  BY <1>1, <1>2, <1>3, EmptyByLength DEF GoesOn, IInv

\* The function on top calls another.
LEMMA CallGoesOn ==
  ASSUME IInv, stack # <<>>, Bare(Top), NEW g, <<Top.kind, g.kind>> \in Calls, g.kids = <<>>,
         stack' = <<g>> \o stack, Progress(cursor, cursor')
  PROVE  GoesOn
<1>1. Stacked(stack') /\ Len(stack') = Len(stack) + 1
  BY CallEffect DEF IInv, Top
<1>2. Len(stack) \in Nat
  BY DEF IInv, Stacked, Listed
<1>. QED
  BY <1>1, <1>2, EmptyByLength, ProgressIsOnward DEF GoesOn, IInv

LEMMA SimpleStatementGoesOn ==
  ASSUME IInv, SimpleStatement
  PROVE  GoesOn
<1>1. stack # <<>> /\ Bare(Top)
  BY DEF SimpleStatement, InStatements, In, Bare
<1>2. IsCursor(cursor)
  BY DEF IInv
<1>3. ASSUME NEW s, Makes(s), Progress(cursor, s.c) PROVE GoesOn
  BY <1>1, <1>3, MakesGoesOn
<1>4. CASE Ahead \in {"LET", "VAR"} /\ Makes(VarDecl(cursor))
  BY <1>2, <1>3, <1>4, VarDeclConsumes, ConsumesIsPasses DEF Ahead
<1>5. CASE Ahead = "RETURN" /\ Makes(Return(cursor))
  BY <1>2, <1>3, <1>5, ReturnConsumes, ConsumesIsPasses DEF Ahead
<1>6. CASE Makes(ExprStatement(cursor))
  BY <1>2, <1>3, <1>6, ExprStatementConsumes, ConsumesIsPasses
<1>. QED
  BY <1>4, <1>5, <1>6 DEF SimpleStatement

LEMMA OpenBlockGoesOn ==
  ASSUME IInv, OpenBlock
  PROVE  GoesOn
<1>. DEFINE g == Node("block", <<>>)
<1>1. stack # <<>> /\ Bare(Top) /\ <<Top.kind, "block">> \in Calls
  BY DEF OpenBlock, InStatements, In, Bare, Calls
<1>2. g.kind = "block" /\ g.kids = <<>>
  BY DEF Node
<1>3. Progress(cursor, cursor') /\ stack' = <<g>> \o stack
  BY AdvanceIsProgress DEF OpenBlock, Ahead, Step, IInv
<1>. HIDE DEF g
<1>. QED
  BY <1>1, <1>2, <1>3, CallGoesOn

\* The ways out of a construct.
LEMMA CloseGoesOn ==
  ASSUME IInv,
         CloseBlock \/ CloseSingle \/ FinishFunction \/ CloseRegister \/ ClosePeripheral
  PROVE  GoesOn
<1>1. PICK node : stack # <<>> /\ Top.kind # "program" /\ stack' = Give(node, Tail(stack))
  BY DEF CloseBlock, CloseSingle, FinishFunction, CloseRegister, ClosePeripheral, In, Step
<1>2. cursor' = cursor \/ cursor' = Expect(cursor, "RBRACE")
  BY DEF CloseBlock, CloseSingle, FinishFunction, CloseRegister, ClosePeripheral, Step
<1>3. Onward(cursor, cursor')
  BY <1>2, OnwardReflexive, ExpectGoesOn, ProgressIsOnward DEF IInv
<1>. QED
  BY <1>1, <1>3, ReturnGoesOn

LEMMA ParseFunctionGoesOn ==
  ASSUME IInv, ParseFunction
  PROVE  GoesOn
<1>. DEFINE f == Signature(cursor)
            empty == With(f.node, <<Node("block", <<>>)>>)
<1>1. stack # <<>> /\ Top.kind = "program" /\ Bare(Top)
  BY DEF ParseFunction, In, Bare
<1>2. IsCursor(cursor) /\ Stacked(stack)
  BY DEF IInv
<1>3. Progress(cursor, f.c)
  BY <1>2, SignatureConsumes, ConsumesIsPasses DEF ParseFunction, Ahead
<1>4. f.node.kind = "function" /\ f.node.kids = <<>>
  BY DEF Signature, Result, Node
<1>5. \/ /\ cursor' = Advance(f.c)
         /\ \E body \in {"single", "block"} : stack' = <<Node(body, <<>>), f.node>> \o stack
      \/ cursor' = Fail(f.c) /\ stack' = Give(empty, stack)
  BY DEF ParseFunction, Step
<1>. HIDE DEF f, empty
<1>6. Progress(cursor, cursor')
  BY <1>2, <1>3, <1>5, AdvanceAfter
<1>7. CASE stack' = Give(empty, stack)
  BY <1>1, <1>6, <1>7, GiveGoesOn
<1>8. ASSUME NEW body \in {"single", "block"}, stack' = <<Node(body, <<>>), f.node>> \o stack
      PROVE  GoesOn
  <2>. DEFINE g == Node(body, <<>>)
              called == <<f.node>> \o stack
  <2>1. g.kind = body /\ g.kids = <<>>
    BY DEF Node
  <2>2. Stacked(called) /\ Len(called) = Len(stack) + 1 /\ Head(called) = f.node
    BY <1>1, <1>2, <1>4, CallEffect DEF Top, Calls
  <2>3. stack' = <<g>> \o called
    BY <1>2, <1>8, PushTwice DEF Stacked
  <2>. HIDE DEF g, called
  <2>4. called # <<>> /\ Len(stack) \in Nat
    BY <1>2, <2>2, EmptyByLength DEF Stacked, Listed
  <2>5. Stacked(stack') /\ Len(stack') = Len(called) + 1
    BY <1>4, <2>1, <2>2, <2>3, <2>4, CallEffect DEF Bare, Calls
  <2>. QED
    BY <1>6, <2>2, <2>4, <2>5, EmptyByLength, ProgressIsOnward DEF GoesOn
<1>. QED
  BY <1>5, <1>7, <1>8

LEMMA ParsePeripheralGoesOn ==
  ASSUME IInv, ParsePeripheral
  PROVE  GoesOn
<1>. DEFINE name  == Advance(cursor)
            at    == Expect(name, "IDENTIFIER")
            base  == Expect(at, "AT")
            open  == Expect(base, "NUMBER")
            after == Expect(open, "LBRACE")
            g     == Node("peripheral", [name |-> name.pos, base |-> base.pos])
<1>1. stack # <<>> /\ Top.kind = "program" /\ Bare(Top)
  BY DEF ParsePeripheral, In, Bare
<1>2. IsCursor(cursor)
  BY DEF IInv
<1>3. Progress(cursor, name)
  BY <1>2, AdvanceIsProgress DEF ParsePeripheral, Ahead
<1>4. Progress(cursor, base)
  BY <1>2, <1>3, ExpectAfter
<1>5. Progress(cursor, after)
  BY <1>2, <1>4, ExpectAfter
<1>6. cursor' = after /\ stack' = <<g>> \o stack /\ g.kind = "peripheral" /\ g.kids = <<>>
  BY DEF ParsePeripheral, Step, Node
<1>. HIDE DEF after, g
<1>. QED
  BY <1>1, <1>5, <1>6, CallGoesOn DEF Calls

LEMMA ParseRegisterGoesOn ==
  ASSUME IInv, ParseRegister
  PROVE  GoesOn
<1>. DEFINE name   == Expect(cursor, "REGISTER")
            called == Expect(name, "IDENTIFIER")
            colon  == Expect(called, "COLON")
            typed  == MatchAny(colon, RegisterTypes)
            offset == Expect(typed, "AT")
            open   == Expect(offset, "NUMBER")
            after  == Expect(open, "LBRACE")
            g      == Node("register", [name   |-> name.pos,
                                        type   |-> IF Current(colon) \in RegisterTypes
                                                   THEN Current(colon) ELSE "U32",
                                        offset |-> offset.pos])
<1>1. stack # <<>> /\ Top.kind = "peripheral" /\ Bare(Top)
  BY DEF ParseRegister, In, Bare
<1>2. IsCursor(cursor)
  BY DEF IInv
<1>3. Progress(cursor, name)
  BY <1>2, ExpectGoesOn
<1>4. Progress(cursor, colon)
  BY <1>2, <1>3, ExpectAfter
<1>5. Progress(cursor, offset)
  BY <1>2, <1>4, ExpectAfter, MatchAfter
<1>6. Progress(cursor, after)
  BY <1>2, <1>5, ExpectAfter
<1>7. cursor' = after /\ stack' = <<g>> \o stack /\ g.kind = "register" /\ g.kids = <<>>
  BY DEF ParseRegister, Step, Node
<1>. HIDE DEF after, g
<1>. QED
  BY <1>1, <1>6, <1>7, CallGoesOn DEF Calls

LEMMA ParseFieldGoesOn ==
  ASSUME IInv, ParseField
  PROVE  GoesOn
<1>. DEFINE name   == Expect(cursor, "FIELD")
            called == Expect(name, "IDENTIFIER")
            colon  == Expect(called, "COLON")
            low    == Expect(colon, "LBRACKET")
            first  == Expect(low, "NUMBER")
            high   == Expect(first, "COLON")
            last   == Expect(high, "NUMBER")
            access == Expect(last, "RBRACKET")
            after  == Match(MatchAny(access, AccessKinds), "SEMICOLON")
<1>1. stack # <<>> /\ Top.kind = "register" /\ Bare(Top)
  BY DEF ParseField, In, Bare
<1>2. IsCursor(cursor)
  BY DEF IInv
<1>3. Progress(cursor, name)
  BY <1>2, ExpectGoesOn
<1>4. Progress(cursor, low)
  BY <1>2, <1>3, ExpectAfter
<1>5. Progress(cursor, high)
  BY <1>2, <1>4, ExpectAfter
<1>6. Progress(cursor, access)
  BY <1>2, <1>5, ExpectAfter
<1>7. Progress(cursor, after)
  BY <1>2, <1>6, MatchAfter
<1>8. PICK node : Makes(Result(after, node))
  BY DEF ParseField
<1>. HIDE DEF after
<1>9. Result(after, node).c = after
  BY DEF Result
<1>. QED
  BY <1>1, <1>7, <1>8, <1>9, MakesGoesOn

\* The end of parser_parse_program: the position stays, nothing is active.
LEMMA ProgramEnds ==
  ASSUME IInv, EndOfProgram \/ RejectToken
  PROVE  /\ Onward(cursor, cursor') /\ stack' = <<>> /\ Len(stack') < Len(stack)
         /\ program' # NullNode
<1>1. stack # <<>> /\ Top.kind = "program" /\ stack' = <<>> /\ program' = Top
  BY DEF EndOfProgram, RejectToken, In, Step
<1>2. cursor' = cursor \/ cursor' = Fail(cursor)
  BY DEF EndOfProgram, RejectToken, Step
<1>3. Onward(cursor, cursor')
  BY <1>2, OnwardReflexive, FailGoesOn DEF IInv
<1>4. Top # NullNode
  BY <1>1 DEF NullNode
<1>5. Len(stack) \in Nat /\ Len(stack) # 0
  BY <1>1, EmptyByLength DEF IInv, Stacked, Listed
<1>. QED
  BY <1>1, <1>3, <1>4, <1>5, EmptyListed

\* Every trip keeps the invariant, parses on, and is progress or a way back.
LEMMA TripEffect ==
  ASSUME IInv, Next
  PROVE  /\ IInv' /\ Onward(cursor, cursor')
         /\ cursor'.pos = cursor.pos /\ Len(stack') >= Len(stack) => cursor'.err # 0
<1>1. \/ GoesOn /\ UNCHANGED program /\ stack # <<>>
      \/ /\ Onward(cursor, cursor') /\ stack' = <<>> /\ Len(stack') < Len(stack)
         /\ program' # NullNode
  <2>1. CASE SimpleStatement
    BY <2>1, SimpleStatementGoesOn DEF SimpleStatement, InStatements, In
  <2>2. CASE OpenBlock
    BY <2>2, OpenBlockGoesOn DEF OpenBlock, InStatements, In
  <2>3. CASE CloseBlock \/ CloseSingle \/ FinishFunction \/ CloseRegister \/ ClosePeripheral
    BY <2>3, CloseGoesOn
    DEF CloseBlock, CloseSingle, FinishFunction, CloseRegister, ClosePeripheral, In
  <2>4. CASE ParseFunction
    BY <2>4, ParseFunctionGoesOn DEF ParseFunction, In
  <2>5. CASE ParsePeripheral
    BY <2>5, ParsePeripheralGoesOn DEF ParsePeripheral, In
  <2>6. CASE ParseRegister
    BY <2>6, ParseRegisterGoesOn DEF ParseRegister, In
  <2>7. CASE ParseField
    BY <2>7, ParseFieldGoesOn DEF ParseField, In
  <2>8. CASE EndOfProgram \/ RejectToken
    BY <2>8, ProgramEnds
  <2>. QED
    BY <2>1, <2>2, <2>3, <2>4, <2>5, <2>6, <2>7, <2>8 DEF Next
<1>2. Onward(cursor, cursor') /\ IsCursor(cursor')
  BY <1>1, OnwardIsCursor DEF GoesOn
<1>3. Stacked(stack')
  BY <1>1, EmptyStacked DEF GoesOn
<1>4. lap' \in {0, 1}
  BY DEF IInv, Next, Step, SimpleStatement, Makes, OpenBlock, CloseBlock, CloseSingle,
         ParseFunction, FinishFunction, ParsePeripheral, ParseRegister, ParseField,
         CloseRegister, ClosePeripheral, EndOfProgram, RejectToken
<1>5. program' # NullNode <=> Done'
  BY <1>1 DEF IInv, Done, GoesOn
<1>6. Len(stack) \in Nat /\ Len(stack') \in Nat
  BY <1>3 DEF IInv, Stacked, Listed
<1>7. ASSUME cursor'.pos = cursor.pos, Len(stack') >= Len(stack) PROVE cursor'.err # 0
  BY <1>1, <1>6, <1>7 DEF GoesOn, Progress
<1>. QED
  BY <1>2, <1>3, <1>4, <1>5, <1>7 DEF IInv

\* The machine is in the invariant when it starts, and in every state after.
LEMMA InvariantHolds == Spec => []IInv
<1>1. Init => IInv
  <2>. SUFFICES ASSUME Init PROVE IInv
    OBVIOUS
  <2>1. PICK tokens \in Inputs : cursor = Start(tokens)
    BY DEF Init
  <2>2. tokens \in Seq(STRING) /\ Len(tokens) \in Nat
    BY <2>1, InputsAssumption
  <2>3. IsCursor(cursor)
    BY <2>1, <2>2 DEF IsCursor, Start
  <2>4. Stacked(stack)
    BY ProgramStacked DEF Init
  <2>5. stack # <<>>
    BY DEF Init
  <2>. QED
    BY <2>3, <2>4, <2>5 DEF Init, IInv, Done
<1>2. IInv /\ [Next]_vars => IInv'
  <2>. SUFFICES ASSUME IInv, [Next]_vars PROVE IInv'
    OBVIOUS
  <2>1. CASE Next
    BY <2>1, TripEffect
  <2>2. CASE UNCHANGED vars
    BY <2>2 DEF IInv, Done, vars
  <2>. QED
    BY <2>1, <2>2
<1>. QED
  BY <1>1, <1>2, PTL DEF Spec

-----------------------------------------------------------------------------
(* The theorems *)

\* Whatever the tokens, the parser stands on one of them or on EOF, its error is
\* at one that it has come to, the activations are such as parser_parse_program
\* and the functions below it can have, a body has at most one statement, and
\* there is a result exactly when parser_parse_program has returned.
THEOREM TypeCorrect == Spec => []TypeOK
<1>1. IInv => TypeOK
  <2>. SUFFICES ASSUME IInv PROVE TypeOK
    OBVIOUS
  <2>1. stack = <<>> <=> Len(stack) = 0
    BY EmptyByLength DEF IInv
  <2>2. Callers
    BY <2>1 DEF IInv, Stacked, Callers
  <2>3. DOMAIN stack = 1..Len(stack)
    BY DEF IInv, Stacked, Listed
  <2>. QED
    BY <2>2, <2>3 DEF IInv, Stacked, Fits, TypeOK
<1>. QED
  BY <1>1, InvariantHolds, PTL

\* A trip of a loop, or the entry of a construct, consumes a token or reports an
\* error, for every input and every depth of the constructs.
THEOREM StallsAreReported == Spec => NoSilentStall
<1>1. IInv /\ [Next]_vars =>
        [cursor'.pos = cursor.pos /\ Len(stack') >= Len(stack) => cursor'.err # 0]_vars
  BY TripEffect
<1>. QED
  BY <1>1, InvariantHolds, PTL DEF Spec, NoSilentStall

\* The parser does not go back in its input, and the error that it has reported
\* first stays the first: parser_error keeps the message it has.
THEOREM FirstErrorStays == Spec => [][Onward(cursor, cursor')]_vars
<1>1. IInv /\ [Next]_vars => [Onward(cursor, cursor')]_vars
  BY TripEffect
<1>. QED
  BY <1>1, InvariantHolds, PTL DEF Spec

-----------------------------------------------------------------------------
(* Devices in the text *)

\* The construct that began last with word is the one named at the token name.
Begins(c, word, name) == /\ name \in 2..c.pos /\ c.src[name - 1] = word
                         /\ \A j \in name..c.pos - 1 : c.src[j] # word

\* What the tokens declare that are consumed.
Found(c) == Declared(c.src, c.pos)

\* There is one last token, and it is known by what it is.
LEMMA LastBeforeIs ==
  ASSUME NEW tokens, NEW word, NEW i \in Nat, NEW k \in 1..i, tokens[k] = word,
         \A j \in k + 1..i : tokens[j] # word
  PROVE  LastBefore(tokens, word, i) = k
<1>. DEFINE l == LastBefore(tokens, word, i)
<1>1. l \in 1..i /\ tokens[l] = word /\ \A j \in l + 1..i : tokens[j] # word
  BY DEF LastBefore
<1>. HIDE DEF l
<1>2. l \in Nat /\ k \in Nat /\ (l < k => k \in l + 1..i) /\ (k < l => l \in k + 1..i)
  BY <1>1
<1>3. ~(l < k) /\ ~(k < l)
  BY <1>1, <1>2
<1>. QED
  BY <1>2, <1>3 DEF l

\* What has no device word in it changes nothing.
LEMMA PassesFound ==
  ASSUME NEW c, NEW d, IsCursor(c), Passes(c, d), d.err = 0
  PROVE  /\ Found(d) = Found(c)
         /\ \A word \in DeviceWords : \A name : Begins(c, word, name) => Begins(d, word, name)
<1>1. /\ d.src = c.src /\ c.pos \in Nat /\ d.pos \in Nat /\ 1 <= c.pos /\ c.pos <= d.pos
      /\ \A i \in c.pos..d.pos - 1 : c.src[i] \notin DeviceWords
  BY DEF IsCursor, Passes, Onward, Plain
<1>2. {i \in 1..d.pos - 1 : c.src[i] = "FIELD"} = {i \in 1..c.pos - 1 : c.src[i] = "FIELD"}
  BY <1>1 DEF DeviceWords
<1>3. ASSUME NEW word \in DeviceWords, NEW name, Begins(c, word, name)
      PROVE  Begins(d, word, name)
  <2>1. \A j \in name..d.pos - 1 : j \in name..c.pos - 1 \/ j \in c.pos..d.pos - 1
    BY <1>1, <1>3 DEF Begins
  <2>. QED
    BY <1>1, <1>3, <2>1 DEF Begins
<1>. QED
  BY <1>1, <1>2, <1>3 DEF Found, Declared

\* A device word: what it begins is named by the next token; a field is one more.
LEMMA WordFound ==
  ASSUME NEW c, IsCursor(c), NEW word \in DeviceWords, Current(c) = word
  PROVE  /\ Begins(Advance(c), word, c.pos + 1)
         /\ \A other, name : other # word /\ Begins(c, other, name)
                               => Begins(Advance(c), other, name)
         /\ word # "FIELD" => Found(Advance(c)) = Found(c)
         /\ \A p, r : word = "FIELD" /\ Begins(c, "PERIPHERAL", p) /\ Begins(c, "REGISTER", r)
                        => Found(Advance(c)) = Found(c) \cup {<<p, r, c.pos + 1>>}
<1>. DEFINE d == Advance(c)
            new == <<LastBefore(c.src, "PERIPHERAL", c.pos) + 1,
                     LastBefore(c.src, "REGISTER", c.pos) + 1, c.pos + 1>>
<1>1. /\ d.src = c.src /\ c.pos \in Nat /\ 1 <= c.pos /\ d.pos = c.pos + 1
      /\ c.src[c.pos] = word
  BY DEF IsCursor, Advance, Current, DeviceWords
<1>. HIDE DEF d
<1>2. \A j : j \in 1..d.pos - 1 <=> j \in 1..c.pos - 1 \/ j = c.pos
  BY <1>1
<1>3. Begins(d, word, c.pos + 1)
  BY <1>1 DEF Begins
<1>4. ASSUME NEW other, NEW name, other # word, Begins(c, other, name)
      PROVE  Begins(d, other, name)
  BY <1>1, <1>4 DEF Begins
<1>5. CASE word # "FIELD"
  <2>1. {i \in 1..d.pos - 1 : c.src[i] = "FIELD"} = {i \in 1..c.pos - 1 : c.src[i] = "FIELD"}
    BY <1>1, <1>2, <1>5
  <2>2. Found(d) = Found(c)
    BY <1>1, <2>1 DEF Found, Declared
  <2>. QED
    BY <1>3, <1>4, <1>5, <2>2 DEF d
<1>6. ASSUME word = "FIELD", NEW p, NEW r, Begins(c, "PERIPHERAL", p), Begins(c, "REGISTER", r)
      PROVE  Found(d) = Found(c) \cup {<<p, r, c.pos + 1>>}
  <2>1. {i \in 1..d.pos - 1 : c.src[i] = "FIELD"}
          = {i \in 1..c.pos - 1 : c.src[i] = "FIELD"} \cup {c.pos}
    BY <1>1, <1>2, <1>6
  <2>. HIDE DEF new
  <2>2. Found(d) = Found(c) \cup {new}
    BY <1>1, <2>1 DEF Found, Declared, new
  <2>3. LastBefore(c.src, "PERIPHERAL", c.pos) = p - 1
    <3>1. p - 1 \in 1..c.pos /\ c.src[p - 1] = "PERIPHERAL"
      BY <1>1, <1>6 DEF Begins
    <3>2. \A j \in (p - 1) + 1..c.pos : c.src[j] # "PERIPHERAL"
      BY <1>1, <1>6 DEF Begins
    <3>. QED
      BY <1>1, <3>1, <3>2, LastBeforeIs
  <2>4. LastBefore(c.src, "REGISTER", c.pos) = r - 1
    <3>1. r - 1 \in 1..c.pos /\ c.src[r - 1] = "REGISTER"
      BY <1>1, <1>6 DEF Begins
    <3>2. \A j \in (r - 1) + 1..c.pos : c.src[j] # "REGISTER"
      BY <1>1, <1>6 DEF Begins
    <3>. QED
      BY <1>1, <3>1, <3>2, LastBeforeIs
  <2>5. (p - 1) + 1 = p /\ (r - 1) + 1 = r
    BY <1>6 DEF Begins
  <2>6. new = <<p, r, c.pos + 1>>
    BY <2>3, <2>4, <2>5 DEF new
  <2>. QED
    BY <2>2, <2>6
<1>. QED
  BY <1>3, <1>4, <1>5, <1>6 DEF d

\* Where no error is found what was expected is there, and none was before.
LEMMA NoErrorBefore ==
  ASSUME NEW c, NEW d, Onward(c, d), d.err = 0
  PROVE  c.err = 0
BY DEF Onward

LEMMA ExpectedIsThere ==
  ASSUME NEW c, IsCursor(c), NEW type, Expect(c, type).err = 0
  PROVE  Current(c) = type /\ Expect(c, type) = Advance(c)
BY FailGoesOn DEF Expect

\* A device word that starts a construct, and the rest of its head.
LEMMA HeadFound ==
  ASSUME NEW c, IsCursor(c), NEW word \in DeviceWords, Current(c) = word,
         NEW d, Passes(Advance(c), d), d.err = 0
  PROVE  /\ Begins(d, word, c.pos + 1)
         /\ \A other \in DeviceWords : \A name : other # word /\ Begins(c, other, name)
                                               => Begins(d, other, name)
         /\ word # "FIELD" => Found(d) = Found(c)
         /\ \A p, r : word = "FIELD" /\ Begins(c, "PERIPHERAL", p) /\ Begins(c, "REGISTER", r)
                        => Found(d) = Found(c) \cup {<<p, r, c.pos + 1>>}
<1>. DEFINE e == Advance(c)
<1>1. IsCursor(e)
  BY AdvanceGoesOn, OnwardIsCursor
<1>2. /\ Begins(e, word, c.pos + 1)
      /\ \A other, name : other # word /\ Begins(c, other, name) => Begins(e, other, name)
      /\ word # "FIELD" => Found(e) = Found(c)
      /\ \A p, r : word = "FIELD" /\ Begins(c, "PERIPHERAL", p) /\ Begins(c, "REGISTER", r)
                     => Found(e) = Found(c) \cup {<<p, r, c.pos + 1>>}
  BY WordFound
<1>. HIDE DEF e
<1>3. Passes(e, d)
  BY DEF e
<1>4. /\ Found(d) = Found(e)
      /\ \A w \in DeviceWords : \A name : Begins(e, w, name) => Begins(d, w, name)
  BY <1>1, <1>3, PassesFound
<1>. QED
  BY <1>2, <1>4

-----------------------------------------------------------------------------
(* Devices in the tree *)

LEMMA ReceivedKids ==
  ASSUME NEW f, Listed(f.kids), NEW node
  PROVE  /\ Received(f, node).kind = f.kind /\ Received(f, node).head = f.head
         /\ \A kind : KidsOf(Received(f, node), kind)
                        = IF kind = node.kind THEN KidsOf(f, kind) \cup {node} ELSE KidsOf(f, kind)
<1>. DEFINE n    == Len(f.kids)
            more == Append(f.kids, node)
            g    == Received(f, node)
<1>1. n \in Nat /\ DOMAIN f.kids = 1..n
  BY DEF Listed
<1>2. /\ DOMAIN more = 1..n + 1
      /\ \A i \in 1..n : more[i] = f.kids[i]
      /\ more[n + 1] = node
  <2>1. Listed(more) /\ Len(more) = n + 1
    BY AppendEffect
  <2>. QED
    BY <2>1, AppendElements DEF Listed
<1>3. g.kids = more /\ g.kind = f.kind /\ g.head = f.head
  BY DEF Received, With
<1>. HIDE DEF more, n, g
<1>4. {more[i] : i \in DOMAIN more} = {f.kids[i] : i \in DOMAIN f.kids} \cup {node}
  BY <1>1, <1>2
<1>. QED
  BY <1>3, <1>4 DEF KidsOf, g

\* What that is for the owners below the node.
LEMMA AddOwners ==
  ASSUME NEW f, Listed(f.kids), NEW node
  PROVE  /\ node.kind # "peripheral" => OfProgram(Received(f, node)) = OfProgram(f)
         /\ node.kind = "peripheral" =>
              OfProgram(Received(f, node)) = OfProgram(f) \cup OfPeripheral(node)
         /\ node.kind = "register" =>
              OfPeripheral(Received(f, node)) = OfPeripheral(f) \cup OfRegister(f.head.name, node)
         /\ node.kind = "field" => \A name :
              OfRegister(name, Received(f, node))
                = OfRegister(name, f) \cup {<<name, f.head.name, node.name>>}
<1>. DEFINE g == Received(f, node)
<1>1. /\ g.kind = f.kind /\ g.head = f.head
      /\ \A kind : KidsOf(g, kind) = IF kind = node.kind THEN KidsOf(f, kind) \cup {node}
                                      ELSE KidsOf(f, kind)
  BY ReceivedKids
<1>. HIDE DEF g
<1>2. node.kind # "peripheral" => OfProgram(g) = OfProgram(f)
  BY <1>1 DEF OfProgram
<1>3. node.kind = "peripheral" => OfProgram(g) = OfProgram(f) \cup OfPeripheral(node)
  BY <1>1 DEF OfProgram
<1>4. node.kind = "register" => OfPeripheral(g) = OfPeripheral(f) \cup OfRegister(f.head.name, node)
  BY <1>1 DEF OfPeripheral
<1>5. node.kind = "field" => \A name :
        OfRegister(name, g) = OfRegister(name, f) \cup {<<name, f.head.name, node.name>>}
  BY <1>1 DEF OfRegister
<1>. QED
  BY <1>2, <1>3, <1>4, <1>5 DEF g

\* A node that begins has nothing below it.
LEMMA NothingBelow ==
  ASSUME NEW kind, NEW head
  PROVE  LET f == Node(kind, head)
         IN  /\ f.kind = kind /\ f.head = head
             /\ OfProgram(f) = {} /\ OfPeripheral(f) = {}
             /\ \A name : OfRegister(name, f) = {}
<1>. DEFINE f == Node(kind, head)
<1>1. f.kids = <<>> /\ f.kind = kind /\ f.head = head
  BY DEF Node
<1>. HIDE DEF f
<1>2. DOMAIN f.kids = {}
  <2>1. Listed(f.kids) /\ Len(f.kids) = 0
    BY <1>1, EmptyListed
  <2>. QED
    BY <2>1 DEF Listed
<1>3. \A k : KidsOf(f, k) = {}
  BY <1>2 DEF KidsOf
<1>. QED
  BY <1>1, <1>3 DEF OfProgram, OfPeripheral, OfRegister, f

-----------------------------------------------------------------------------
(* Which function is active *)

\* A device has a stack of its own; what is called in a function is not of it.
LEMMA StackShapes ==
  ASSUME NEW s, Stacked(s), Len(s) > 0
  PROVE  /\ s[1].kind = "program" => Len(s) = 1
         /\ s[1].kind = "peripheral" => Len(s) = 2
         /\ s[1].kind = "register" => Len(s) = 3 /\ s[2].kind = "peripheral"
         /\ s[1].kind = "function" => Len(s) = 2
         /\ s[1].kind \in {"block", "single"} =>
              Len(s) > 2 /\ s[2].kind \in {"function", "block", "single"}
<1>1. Len(s) \in Nat
  BY DEF Stacked, Listed
<1>2. \A i \in 1..Len(s) : s[i].kind = "program" => i = Len(s)
  BY <1>1 DEF Stacked, Calls
<1>. DEFINE Bottom(i) == i <= Len(s) /\ s[i].kind = "program" => i = Len(s)
<1>3. Bottom(1) /\ Bottom(2) /\ Bottom(3)
  <2>1. \A i \in Nat \ {0} : Bottom(i)
    BY <1>1, <1>2
  <2>. HIDE DEF Bottom
  <2>. QED
    BY <2>1
<1>4. s[Len(s)].kind = "program" /\ (Len(s) > 1 => <<s[2].kind, s[1].kind>> \in Calls)
  <2>1. Len(s) > 1 => <<s[1 + 1].kind, s[1].kind>> \in Calls
    BY <1>1 DEF Stacked
  <2>. QED
    BY <1>1, <2>1 DEF Stacked
<1>5. s[1].kind \in {"peripheral", "function"} => Len(s) = 2
  <2>1. Len(s) > 1 /\ s[2].kind = "program" => Len(s) = 2
    BY <1>1, <1>3
  <2>. QED
    BY <1>1, <1>4, <2>1 DEF Calls
<1>6. s[1].kind = "register" => Len(s) > 2 /\ s[2].kind = "peripheral"
  BY <1>1, <1>4 DEF Calls
<1>7. Len(s) > 2 => <<s[3].kind, s[2].kind>> \in Calls
  <2>1. Len(s) > 2 => <<s[2 + 1].kind, s[2].kind>> \in Calls
    BY <1>1 DEF Stacked
  <2>. QED
    BY <2>1
<1>8. s[1].kind = "register" => Len(s) = 3
  <2>1. Len(s) > 2 /\ s[3].kind = "program" => Len(s) = 3
    BY <1>1, <1>3
  <2>. QED
    BY <1>6, <1>7, <2>1 DEF Calls
<1>9. s[1].kind \in {"block", "single"} =>
        Len(s) > 2 /\ s[2].kind \in {"function", "block", "single"}
  BY <1>1, <1>4 DEF Calls
<1>10. s[1].kind = "program" => Len(s) = 1
  BY <1>1, <1>3
<1>. QED
  BY <1>5, <1>6, <1>8, <1>9, <1>10

\* The frames after a return, a call, and a node that is given.
LEMMA GiveFrames ==
  ASSUME NEW s, Stacked(s), s # <<>>, NEW node
  PROVE  /\ Len(Give(node, s)) = Len(s) /\ Len(s) >= 1 /\ Head(s) = s[1]
         /\ Give(node, s)[1] = Received(s[1], node)
         /\ \A i \in 2..Len(s) : Give(node, s)[i] = s[i]
<1>1. Listed(s)
  BY DEF Stacked
<1>. QED
  BY <1>1, ReplaceEffect, TailEffect DEF Give, Received

LEMMA ReturnFrames ==
  ASSUME NEW s, Stacked(s), Len(s) > 1, NEW node, NEW t, t = Give(node, Tail(s))
  PROVE  /\ Len(t) = Len(s) - 1 /\ Head(s) = s[1]
         /\ t[1] = Received(s[2], node)
         /\ \A i \in 2..Len(s) - 1 : t[i] = s[i + 1]
<1>. DEFINE u == Tail(s)
<1>1. Listed(s) /\ Len(s) \in Nat /\ s # <<>>
  BY EmptyListed DEF Stacked, Listed
<1>2. /\ Head(s) = s[1] /\ Listed(u) /\ Len(u) = Len(s) - 1
      /\ \A i \in 1..Len(u) : u[i] = s[i + 1]
  BY <1>1, TailEffect
<1>3. t = <<Received(Head(u), node)>> \o Tail(u)
  BY DEF Give, Received
<1>. HIDE DEF u
<1>4. Len(u) # 0 /\ u # <<>>
  BY <1>1, <1>2, EmptyListed
<1>5. /\ Len(t) = Len(u) /\ t[1] = Received(Head(u), node)
      /\ \A i \in 2..Len(u) : t[i] = u[i]
  BY <1>2, <1>3, <1>4, ReplaceEffect
<1>6. Head(u) = s[2]
  <2>1. Head(u) = u[1] /\ u[1] = s[1 + 1]
    BY <1>1, <1>2, <1>4, TailEffect
  <2>. QED
    BY <2>1
<1>7. ASSUME NEW i \in 2..Len(s) - 1 PROVE t[i] = s[i + 1]
  BY <1>1, <1>2, <1>5
<1>. QED
  BY <1>2, <1>5, <1>6, <1>7

-----------------------------------------------------------------------------
(* The tree and the text *)

\* What the tree has of a device, done and under construction, is what the
\* tokens so far declare, and what is open is what began last.
InProgram(c, t) == OfProgram(t) = Found(c)
InPeripheral(c, p, t) ==
  /\ Begins(c, "PERIPHERAL", p.head.name)
  /\ OfProgram(t) \cup OfPeripheral(p) = Found(c)
InRegister(c, r, p, t) ==
  /\ Begins(c, "PERIPHERAL", p.head.name) /\ Begins(c, "REGISTER", r.head.name)
  /\ OfProgram(t) \cup OfPeripheral(p) \cup OfRegister(p.head.name, r) = Found(c)

\* So it is for the stack, whatever is active.
InBody(c, s) == /\ Len(s) > 1 /\ s[1].kind \notin {"program", "peripheral", "register"}
                /\ s[Len(s) - 1].kind = "function"
                /\ InProgram(c, s[Len(s)])
Tracks(c, s) ==
  \/ Len(s) = 1 /\ InProgram(c, s[1])
  \/ Len(s) = 2 /\ s[1].kind = "peripheral" /\ InPeripheral(c, s[1], s[2])
  \/ Len(s) = 3 /\ s[1].kind = "register" /\ InRegister(c, s[1], s[2], s[3])
  \/ InBody(c, s)

\* Which of these it is tells the function on top.
LEMMA TracksWhere ==
  ASSUME NEW c, NEW s, Stacked(s), s # <<>>, Tracks(c, s)
  PROVE  /\ Head(s) = s[1] /\ Len(s) \in Nat /\ Len(s) > 0
         /\ s[1].kind = "program" => Len(s) = 1 /\ InProgram(c, s[1])
         /\ s[1].kind = "peripheral" => Len(s) = 2 /\ InPeripheral(c, s[1], s[2])
         /\ s[1].kind = "register" => Len(s) = 3 /\ s[2].kind = "peripheral"
                                        /\ InRegister(c, s[1], s[2], s[3])
         /\ s[1].kind = "function" => Len(s) = 2 /\ InProgram(c, s[2])
         /\ s[1].kind \in {"block", "single"} =>
              /\ Len(s) > 2 /\ s[2].kind \in {"function", "block", "single"}
              /\ s[Len(s) - 1].kind = "function" /\ InProgram(c, s[Len(s)])
<1>1. Head(s) = s[1] /\ Len(s) \in Nat /\ Len(s) > 0
  BY TailEffect DEF Stacked, Listed
<1>2. /\ s[1].kind = "program" => Len(s) = 1
      /\ s[1].kind = "peripheral" => Len(s) = 2
      /\ s[1].kind = "register" => Len(s) = 3 /\ s[2].kind = "peripheral"
      /\ s[1].kind = "function" => Len(s) = 2
      /\ s[1].kind \in {"block", "single"} =>
           Len(s) > 2 /\ s[2].kind \in {"function", "block", "single"}
  BY <1>1, StackShapes
<1>3. Len(s) = 1 => s[1].kind = "program"
  BY DEF Stacked
<1>. QED
  BY <1>1, <1>2, <1>3 DEF Tracks, InBody

\* A trip in the body of a function leaves the program as it is.
LEMMA BodyTrip ==
  ASSUME IInv, InProgram(cursor, stack[Len(stack)]), Passes(cursor, cursor'), cursor'.err = 0,
         Len(stack') > 1, stack'[1].kind \in {"function", "block", "single"},
         stack'[Len(stack') - 1].kind = "function", stack'[Len(stack')] = stack[Len(stack)]
  PROVE  Tracks(cursor', stack')
<1>1. Found(cursor') = Found(cursor)
  BY PassesFound DEF IInv
<1>2. InProgram(cursor', stack'[Len(stack')])
  BY <1>1 DEF InProgram
<1>. QED
  BY <1>2 DEF Tracks, InBody

LEMMA SimpleStatementTracks ==
  ASSUME IInv, Tracks(cursor, stack), SimpleStatement, cursor'.err = 0
  PROVE  Tracks(cursor', stack')
<1>1. stack # <<>> /\ Top.kind \in {"block", "single"}
  BY DEF SimpleStatement, InStatements, In
<1>2. IsCursor(cursor) /\ Stacked(stack)
  BY DEF IInv
<1>3. /\ Top = stack[1] /\ Len(stack) \in Nat /\ Len(stack) > 2
      /\ stack[Len(stack) - 1].kind = "function" /\ InProgram(cursor, stack[Len(stack)])
  BY <1>1, <1>2, TracksWhere DEF Top
<1>4. ASSUME NEW s, Makes(s), Consumes(cursor, s.c) PROVE Tracks(cursor', stack')
  <2>1. Passes(cursor, cursor') /\ (stack' = stack \/ stack' = Give(s.node, stack))
    BY <1>4, ConsumesIsPasses DEF Makes, Step
  <2>2. /\ Len(stack') = Len(stack) /\ stack'[1].kind = stack[1].kind
        /\ \A i \in 2..Len(stack) : stack'[i] = stack[i]
    <3>1. CASE stack' = stack
      BY <3>1
    <3>2. CASE stack' = Give(s.node, stack)
      <4>1. /\ Len(stack') = Len(stack) /\ stack'[1] = Received(stack[1], s.node)
            /\ \A i \in 2..Len(stack) : stack'[i] = stack[i]
        BY <1>1, <1>2, <3>2, GiveFrames
      <4>. QED
        BY <4>1 DEF Received, With
    <3>. QED
      BY <2>1, <3>1, <3>2
  <2>3. stack'[Len(stack') - 1].kind = "function" /\ stack'[Len(stack')] = stack[Len(stack)]
    BY <1>3, <2>2
  <2>. QED
    BY <1>1, <1>3, <2>1, <2>2, <2>3, BodyTrip
<1>5. CASE Ahead \in {"LET", "VAR"} /\ Makes(VarDecl(cursor))
  BY <1>2, <1>4, <1>5, VarDeclConsumes DEF Ahead
<1>6. CASE Ahead = "RETURN" /\ Makes(Return(cursor))
  BY <1>2, <1>4, <1>6, ReturnConsumes DEF Ahead
<1>7. CASE Makes(ExprStatement(cursor))
  BY <1>2, <1>4, <1>7, ExprStatementConsumes
<1>. QED
  BY <1>5, <1>6, <1>7 DEF SimpleStatement

LEMMA OpenBlockTracks ==
  ASSUME IInv, Tracks(cursor, stack), OpenBlock, cursor'.err = 0
  PROVE  Tracks(cursor', stack')
<1>. DEFINE g == Node("block", <<>>)
<1>1. stack # <<>> /\ Top.kind \in {"block", "single"} /\ IsCursor(cursor) /\ Stacked(stack)
  BY DEF OpenBlock, InStatements, In, IInv
<1>2. /\ Len(stack) \in Nat /\ Len(stack) > 2
      /\ stack[Len(stack) - 1].kind = "function" /\ InProgram(cursor, stack[Len(stack)])
  BY <1>1, TracksWhere DEF Top
<1>3. Passes(cursor, cursor') /\ stack' = <<g>> \o stack /\ g.kind = "block"
  BY <1>1, AdvancePasses DEF OpenBlock, Ahead, Step, Node, DeviceWords
<1>. HIDE DEF g
<1>4. /\ Len(stack') = Len(stack) + 1 /\ stack'[1] = g
      /\ \A i \in 1..Len(stack) : stack'[i + 1] = stack[i]
  BY <1>1, <1>3, PushEffect DEF Stacked
<1>5. stack'[Len(stack') - 1] = stack[Len(stack) - 1] /\ stack'[Len(stack')] = stack[Len(stack)]
  <2>1. stack'[(Len(stack) - 1) + 1] = stack[Len(stack) - 1]
    BY <1>2, <1>4
  <2>2. stack'[Len(stack) + 1] = stack[Len(stack)]
    BY <1>2, <1>4
  <2>. QED
    BY <1>2, <1>4, <2>1, <2>2
<1>. QED
  BY <1>2, <1>3, <1>4, <1>5, BodyTrip

\* The end of a block or of the statement behind '='.
LEMMA CloseBodyTracks ==
  ASSUME IInv, Tracks(cursor, stack), CloseBlock \/ CloseSingle, cursor'.err = 0
  PROVE  Tracks(cursor', stack')
<1>1. /\ stack # <<>> /\ Top.kind \in {"block", "single"} /\ IsCursor(cursor) /\ Stacked(stack)
      /\ \E node : stack' = Give(node, Tail(stack))
      /\ cursor' = cursor \/ cursor' = Expect(cursor, "RBRACE")
  BY DEF CloseBlock, CloseSingle, In, Step, IInv
<1>2. PICK node : stack' = Give(node, Tail(stack))
  BY <1>1
<1>3. /\ Len(stack) \in Nat /\ Len(stack) > 2
      /\ stack[2].kind \in {"function", "block", "single"}
      /\ stack[Len(stack) - 1].kind = "function" /\ InProgram(cursor, stack[Len(stack)])
  BY <1>1, TracksWhere DEF Top
<1>4. Passes(cursor, cursor')
  BY <1>1, PassesReflexive, ExpectConsumes, ConsumesIsPasses DEF DeviceWords
<1>5. /\ Len(stack') = Len(stack) - 1 /\ stack'[1] = Received(stack[2], node)
      /\ \A i \in 2..Len(stack) - 1 : stack'[i] = stack[i + 1]
  BY <1>1, <1>2, <1>3, ReturnFrames
<1>6. stack'[1].kind = stack[2].kind
  BY <1>5 DEF Received, With
<1>7. stack'[Len(stack')] = stack[Len(stack)]
  <2>1. stack'[Len(stack) - 1] = stack[(Len(stack) - 1) + 1]
    BY <1>3, <1>5
  <2>. QED
    BY <1>3, <1>5, <2>1
<1>8. stack'[Len(stack') - 1].kind = "function"
  <2>1. CASE Len(stack) = 3
    BY <1>3, <1>5, <1>6, <2>1
  <2>2. CASE Len(stack) # 3
    <3>1. stack'[Len(stack) - 2] = stack[(Len(stack) - 2) + 1]
      BY <1>3, <1>5, <2>2
    <3>. QED
      BY <1>3, <1>5, <3>1
  <2>. QED
    BY <2>1, <2>2
<1>. QED
  BY <1>3, <1>4, <1>5, <1>6, <1>7, <1>8, BodyTrip

\* A function goes to the program.
LEMMA FinishFunctionTracks ==
  ASSUME IInv, Tracks(cursor, stack), FinishFunction, cursor'.err = 0
  PROVE  Tracks(cursor', stack')
<1>1. /\ stack # <<>> /\ Top.kind = "function" /\ Stacked(stack) /\ IsCursor(cursor)
      /\ stack' = Give(Top, Tail(stack)) /\ cursor' = cursor
  BY DEF FinishFunction, In, Step, IInv
<1>2. Top = stack[1] /\ Len(stack) = 2 /\ InProgram(cursor, stack[2])
  BY <1>1, TracksWhere DEF Top
<1>3. Len(stack') = 1 /\ stack'[1] = Received(stack[2], Top)
  <2>1. Len(stack') = Len(stack) - 1 /\ stack'[1] = Received(stack[2], Top)
    <3>. Len(stack) > 1
      BY <1>2
    <3>. QED
      BY <1>1, ReturnFrames
  <2>. QED
    BY <1>2, <2>1
<1>4. Listed(stack[2].kids)
  BY <1>1, <1>2 DEF Stacked, Fits
<1>5. InProgram(cursor, stack'[1])
  BY <1>1, <1>2, <1>3, <1>4, AddOwners DEF InProgram
<1>. QED
  BY <1>1, <1>3, <1>5 DEF Tracks

LEMMA ParseFunctionTracks ==
  ASSUME IInv, Tracks(cursor, stack), ParseFunction, cursor'.err = 0
  PROVE  Tracks(cursor', stack')
<1>. DEFINE f == Signature(cursor)
            c == f.c
<1>1. stack # <<>> /\ Top.kind = "program" /\ IsCursor(cursor) /\ Stacked(stack)
  BY DEF ParseFunction, In, IInv
<1>2. Top = stack[1] /\ Len(stack) = 1 /\ InProgram(cursor, stack[1])
  BY <1>1, TracksWhere DEF Top
<1>3. Consumes(cursor, c)
  BY <1>1, SignatureConsumes DEF ParseFunction, Ahead
<1>4. f.node.kind = "function"
  BY DEF Signature, Result, Node
<1>5. \/ /\ Current(c) \in {"ASSIGN", "LBRACE"} /\ cursor' = Advance(c)
         /\ \E body \in {"single", "block"} : stack' = <<Node(body, <<>>), f.node>> \o stack
      \/ cursor' = Fail(c)
  BY DEF ParseFunction, Step
<1>. HIDE DEF f, c
<1>6. IsCursor(c)
  BY <1>3, ConsumesIsPasses, PassesIsOnward
<1>7. PICK body \in {"single", "block"} :
        /\ Current(c) \in {"ASSIGN", "LBRACE"} /\ cursor' = Advance(c)
        /\ stack' = <<Node(body, <<>>), f.node>> \o stack
  BY <1>5, <1>6, FailGoesOn
<1>8. Passes(cursor, cursor')
  BY <1>1, <1>3, <1>7, TokenAfter, ConsumesIsPasses DEF DeviceWords
<1>. DEFINE g == Node(body, <<>>)
<1>9. g.kind = body
  BY DEF Node
<1>10. Listed(stack) /\ stack' = <<g, f.node>> \o stack
  BY <1>1, <1>7 DEF Stacked
<1>. HIDE DEF g
<1>11. Len(stack') = 3 /\ stack'[1] = g /\ stack'[2] = f.node /\ stack'[3] = stack[1]
  <2>1. /\ Len(stack') = Len(stack) + 2 /\ stack'[1] = g /\ stack'[2] = f.node
        /\ \A i \in 1..Len(stack) : stack'[i + 2] = stack[i]
    BY <1>10, PushTwiceEffect
  <2>2. stack'[1 + 2] = stack[1]
    BY <1>2, <2>1
  <2>. QED
    BY <1>2, <2>1, <2>2
<1>12. Found(cursor') = Found(cursor)
  BY <1>1, <1>8, PassesFound
<1>13. InProgram(cursor', stack'[3])
  BY <1>2, <1>11, <1>12 DEF InProgram
<1>. QED
  BY <1>4, <1>9, <1>11, <1>13 DEF Tracks, InBody

\* The heads of the constructs of a device.
LEMMA ParsePeripheralTracks ==
  ASSUME IInv, Tracks(cursor, stack), ParsePeripheral, cursor'.err = 0
  PROVE  Tracks(cursor', stack')
<1>. DEFINE name  == Advance(cursor)
            at    == Expect(name, "IDENTIFIER")
            base  == Expect(at, "AT")
            open  == Expect(base, "NUMBER")
            after == Expect(open, "LBRACE")
            g     == Node("peripheral", [name |-> name.pos, base |-> base.pos])
<1>1. stack # <<>> /\ Top.kind = "program" /\ IsCursor(cursor) /\ Stacked(stack)
  BY DEF ParsePeripheral, In, IInv
<1>2. Top = stack[1] /\ Len(stack) = 1 /\ InProgram(cursor, stack[1])
  BY <1>1, TracksWhere DEF Top
<1>3. Current(cursor) = "PERIPHERAL"
  BY DEF ParsePeripheral, Ahead
<1>4. IsCursor(name) /\ name.pos = cursor.pos + 1
  BY <1>1, <1>3, AdvanceGoesOn, OnwardIsCursor DEF Advance, Current, IsCursor
<1>5. cursor' = after /\ stack' = <<g>> \o stack
  BY DEF ParsePeripheral, Step
<1>6. /\ g.kind = "peripheral" /\ g.head.name = cursor.pos + 1
      /\ OfPeripheral(g) = {}
  BY <1>4, NothingBelow
<1>. HIDE DEF name, g
<1>7. Consumes(name, at)
  BY <1>4, ExpectConsumes DEF DeviceWords
<1>8. Consumes(name, base)
  BY <1>4, <1>7, ExpectAfter, ConsumesIsPasses DEF DeviceWords
<1>9. Consumes(name, open)
  BY <1>4, <1>8, ExpectAfter, ConsumesIsPasses DEF DeviceWords
<1>10. Consumes(name, after)
  BY <1>4, <1>9, ExpectAfter, ConsumesIsPasses DEF DeviceWords
<1>. HIDE DEF after
<1>11. Passes(name, cursor') /\ name.pos <= cursor'.pos
  BY <1>5, <1>10, ConsumesIsPasses DEF Passes, Onward
<1>12. Begins(cursor', "PERIPHERAL", cursor.pos + 1) /\ Found(cursor') = Found(cursor)
  BY <1>1, <1>3, <1>11, HeadFound DEF name, DeviceWords
<1>13. Len(stack') = 2 /\ stack'[1] = g /\ stack'[2] = stack[1]
  <2>1. /\ Len(stack') = Len(stack) + 1 /\ stack'[1] = g
        /\ \A i \in 1..Len(stack) : stack'[i + 1] = stack[i]
    BY <1>1, <1>5, PushEffect DEF Stacked
  <2>2. stack'[1 + 1] = stack[1]
    BY <1>2, <2>1
  <2>. QED
    BY <1>2, <2>1, <2>2
<1>14. InPeripheral(cursor', stack'[1], stack'[2])
  BY <1>2, <1>6, <1>12, <1>13 DEF InProgram, InPeripheral
<1>. QED
  BY <1>6, <1>13, <1>14 DEF Tracks

LEMMA ParseRegisterTracks ==
  ASSUME IInv, Tracks(cursor, stack), ParseRegister, cursor'.err = 0
  PROVE  Tracks(cursor', stack')
<1>. DEFINE name   == Expect(cursor, "REGISTER")
            called == Expect(name, "IDENTIFIER")
            colon  == Expect(called, "COLON")
            typed  == MatchAny(colon, RegisterTypes)
            offset == Expect(typed, "AT")
            open   == Expect(offset, "NUMBER")
            after  == Expect(open, "LBRACE")
            g      == Node("register", [name   |-> name.pos,
                                        type   |-> IF Current(colon) \in RegisterTypes
                                                   THEN Current(colon) ELSE "U32",
                                        offset |-> offset.pos])
<1>1. stack # <<>> /\ Top.kind = "peripheral" /\ IsCursor(cursor) /\ Stacked(stack)
  BY DEF ParseRegister, In, IInv
<1>2. Top = stack[1] /\ Len(stack) = 2 /\ InPeripheral(cursor, stack[1], stack[2])
  BY <1>1, TracksWhere DEF Top
<1>3. cursor' = after /\ stack' = <<g>> \o stack
  BY DEF ParseRegister, Step
<1>4. IsCursor(name)
  BY <1>1, ExpectGoesOn, ProgressIsOnward, OnwardIsCursor
<1>5. /\ g.kind = "register" /\ g.head.name = name.pos
      /\ \A n : OfRegister(n, g) = {}
  BY NothingBelow
<1>. HIDE DEF name, g
<1>6. Consumes(name, called)
  BY <1>4, ExpectConsumes DEF DeviceWords
<1>7. Consumes(name, colon)
  BY <1>4, <1>6, ExpectAfter, ConsumesIsPasses DEF DeviceWords
<1>8. Consumes(name, typed)
  <2>1. IsCursor(colon)
    BY <1>7, ConsumesIsPasses, PassesIsOnward
  <2>2. Passes(colon, typed)
    BY <2>1, MatchPasses DEF RegisterTypes, DeviceWords
  <2>. QED
    BY <1>4, <1>7, <2>2, ConsumesKept
<1>9. Consumes(name, offset)
  BY <1>4, <1>8, ExpectAfter, ConsumesIsPasses DEF DeviceWords
<1>10. Consumes(name, open)
  BY <1>4, <1>9, ExpectAfter, ConsumesIsPasses DEF DeviceWords
<1>11. Consumes(name, after)
  BY <1>4, <1>10, ExpectAfter, ConsumesIsPasses DEF DeviceWords
<1>. HIDE DEF after
<1>12. Passes(name, cursor') /\ name.pos <= cursor'.pos /\ name.err = 0
  BY <1>3, <1>11, ConsumesIsPasses, NoErrorBefore DEF Passes, Onward
<1>13. Current(cursor) = "REGISTER" /\ name = Advance(cursor)
  BY <1>1, <1>12, ExpectedIsThere DEF name
<1>14. name.pos = cursor.pos + 1
  BY <1>1, <1>13 DEF Advance, Current, IsCursor
<1>15. /\ Begins(cursor', "REGISTER", cursor.pos + 1) /\ Found(cursor') = Found(cursor)
       /\ Begins(cursor', "PERIPHERAL", stack[1].head.name)
  BY <1>1, <1>2, <1>12, <1>13, HeadFound DEF DeviceWords, InPeripheral
<1>16. Len(stack') = 3 /\ stack'[1] = g /\ stack'[2] = stack[1] /\ stack'[3] = stack[2]
  <2>1. /\ Len(stack') = Len(stack) + 1 /\ stack'[1] = g
        /\ \A i \in 1..Len(stack) : stack'[i + 1] = stack[i]
    BY <1>1, <1>3, PushEffect DEF Stacked
  <2>2. stack'[1 + 1] = stack[1] /\ stack'[2 + 1] = stack[2]
    BY <1>2, <2>1
  <2>. QED
    BY <1>2, <2>1, <2>2
<1>17. InRegister(cursor', stack'[1], stack'[2], stack'[3])
  BY <1>2, <1>5, <1>14, <1>15, <1>16 DEF InPeripheral, InRegister
<1>. QED
  BY <1>5, <1>16, <1>17 DEF Tracks

\* A field is of the register on the stack, which began last, in the peripheral
\* below it.
LEMMA ParseFieldTracks ==
  ASSUME IInv, Tracks(cursor, stack), ParseField, cursor'.err = 0
  PROVE  Tracks(cursor', stack')
<1>. DEFINE name   == Expect(cursor, "FIELD")
            called == Expect(name, "IDENTIFIER")
            colon  == Expect(called, "COLON")
            low    == Expect(colon, "LBRACKET")
            first  == Expect(low, "NUMBER")
            high   == Expect(first, "COLON")
            last   == Expect(high, "NUMBER")
            access == Expect(last, "RBRACKET")
            bits   == MatchAny(access, AccessKinds)
            after  == Match(bits, "SEMICOLON")
            r == stack[1]
            p == stack[2]
            t == stack[3]
<1>1. stack # <<>> /\ Top.kind = "register" /\ IsCursor(cursor) /\ Stacked(stack)
  BY DEF ParseField, In, IInv
<1>2. Len(stack) = 3 /\ r.kind = "register" /\ InRegister(cursor, r, p, t)
  BY <1>1, TracksWhere DEF Top
<1>3. PICK node : /\ node.kind = "field" /\ node.name = name.pos
                  /\ Makes(Result(after, node))
  BY DEF ParseField
<1>4. /\ node.kind = "field" /\ node.name = name.pos /\ cursor' = after
      /\ after # cursor => stack' = Give(node, stack)
  BY <1>3 DEF Makes, Step, Result
<1>5. IsCursor(name)
  BY <1>1, ExpectGoesOn, ProgressIsOnward, OnwardIsCursor
<1>. HIDE DEF name
<1>6. Consumes(name, called)
  BY <1>5, ExpectConsumes DEF DeviceWords
<1>7. Consumes(name, colon)
  BY <1>5, <1>6, ExpectAfter, ConsumesIsPasses DEF DeviceWords
<1>8. Consumes(name, low)
  BY <1>5, <1>7, ExpectAfter, ConsumesIsPasses DEF DeviceWords
<1>9. Consumes(name, first)
  BY <1>5, <1>8, ExpectAfter, ConsumesIsPasses DEF DeviceWords
<1>10. Consumes(name, high)
  BY <1>5, <1>9, ExpectAfter, ConsumesIsPasses DEF DeviceWords
<1>11. Consumes(name, last)
  BY <1>5, <1>10, ExpectAfter, ConsumesIsPasses DEF DeviceWords
<1>12. Consumes(name, access)
  BY <1>5, <1>11, ExpectAfter, ConsumesIsPasses DEF DeviceWords
<1>13. Consumes(name, after)
  <2>1. IsCursor(access)
    BY <1>12, ConsumesIsPasses, PassesIsOnward
  <2>2. Passes(access, bits)
    BY <2>1, MatchPasses DEF AccessKinds, DeviceWords
  <2>3. Consumes(name, bits)
    BY <1>5, <1>12, <2>2, ConsumesKept
  <2>. QED
    BY <1>5, <2>3, SemicolonAfter
<1>. HIDE DEF after
<1>14. Passes(name, cursor') /\ name.pos <= cursor'.pos /\ name.err = 0 /\ cursor'.src = name.src
  BY <1>4, <1>13, ConsumesIsPasses, NoErrorBefore DEF Passes, Onward
<1>15. Current(cursor) = "FIELD" /\ name = Advance(cursor)
  BY <1>1, <1>14, ExpectedIsThere DEF name
<1>16. /\ name.pos = cursor.pos + 1 /\ name.src = cursor.src
       /\ stack' = Give(node, stack)
  <2>1. name.pos = cursor.pos + 1 /\ name.src = cursor.src /\ cursor.pos \in Nat
    BY <1>1, <1>15 DEF Advance, Current, IsCursor
  <2>2. cursor'.pos \in Nat
    BY <1>14, PassesIsOnward DEF IsCursor
  <2>. QED
    BY <1>4, <1>14, <2>1, <2>2
<1>17. /\ Begins(cursor', "REGISTER", r.head.name) /\ Begins(cursor', "PERIPHERAL", p.head.name)
       /\ Found(cursor') = Found(cursor) \cup {<<p.head.name, r.head.name, cursor.pos + 1>>}
  <2>. "FIELD" \in DeviceWords /\ "REGISTER" \in DeviceWords /\ "PERIPHERAL" \in DeviceWords
    BY DEF DeviceWords
  <2>1. Begins(cursor, "REGISTER", r.head.name) /\ Begins(cursor, "PERIPHERAL", p.head.name)
    BY <1>2 DEF InRegister
  <2>. HIDE DEF r, p
  <2>2. Passes(Advance(cursor), cursor')
    BY <1>14, <1>15
  <2>. QED
    BY <1>1, <1>15, <2>1, <2>2, HeadFound
<1>18. Listed(r.kids)
  BY <1>1, <1>2 DEF Stacked, Fits
<1>19. Len(stack') = 3 /\ stack'[1] = Received(r, node) /\ stack'[2] = p /\ stack'[3] = t
  BY <1>1, <1>2, <1>16, GiveFrames
<1>. HIDE DEF r, p, t
<1>20. stack'[1].kind = "register" /\ stack'[1].head = r.head
  BY <1>2, <1>18, <1>19, ReceivedKids
<1>21. OfRegister(p.head.name, stack'[1])
         = OfRegister(p.head.name, r) \cup {<<p.head.name, r.head.name, node.name>>}
  BY <1>4, <1>18, <1>19, AddOwners
<1>22. OfProgram(t) \cup OfPeripheral(p) \cup OfRegister(p.head.name, r) = Found(cursor)
  BY <1>2 DEF InRegister
<1>23. InRegister(cursor', stack'[1], p, t)
  BY <1>4, <1>16, <1>17, <1>20, <1>21, <1>22 DEF InRegister
<1>. QED
  BY <1>19, <1>20, <1>23 DEF Tracks

\* The '}' of a register or peripheral that is accepted is there.
LEMMA BraceIsThere ==
  ASSUME NEW c, IsCursor(c), NEW d, d = Expect(c, "RBRACE"), d.err = 0
  PROVE  /\ Passes(c, d) /\ c.pos \in Nat /\ d.pos \in Nat /\ d.pos = c.pos + 1
         /\ c.pos <= Len(c.src) /\ Len(c.src) \in Nat /\ Found(d) = Found(c)
<1>1. Current(c) = "RBRACE" /\ d = Advance(c)
  BY ExpectedIsThere
<1>2. Passes(c, d)
  BY ExpectConsumes, ConsumesIsPasses DEF DeviceWords
<1>. QED
  BY <1>1, <1>2, PassesFound DEF Advance, Current, IsCursor

LEMMA CloseRegisterTracks ==
  ASSUME IInv, Tracks(cursor, stack), CloseRegister, cursor'.err = 0
  PROVE  Tracks(cursor', stack')
<1>. DEFINE r == stack[1]
            p == stack[2]
            t == stack[3]
<1>1. /\ stack # <<>> /\ Top.kind = "register" /\ IsCursor(cursor) /\ Stacked(stack)
      /\ stack' = Give(Top, Tail(stack)) /\ cursor' = Expect(cursor, "RBRACE")
  BY DEF CloseRegister, In, Step, IInv
<1>2. /\ Top = r /\ Len(stack) = 3 /\ p.kind = "peripheral" /\ r.kind = "register"
      /\ InRegister(cursor, r, p, t)
  BY <1>1, TracksWhere DEF Top
<1>3. Len(stack') = 2 /\ stack'[1] = Received(p, r) /\ stack'[2] = t
  <2>1. /\ Len(stack') = Len(stack) - 1 /\ stack'[1] = Received(stack[2], Top)
        /\ \A i \in 2..Len(stack) - 1 : stack'[i] = stack[i + 1]
    <3>. Len(stack) > 1
      BY <1>2
    <3>. QED
      BY <1>1, ReturnFrames
  <2>2. stack'[2] = stack[2 + 1]
    BY <1>2, <2>1
  <2>. QED
    BY <1>2, <2>1, <2>2
<1>4. Passes(cursor, cursor') /\ Found(cursor') = Found(cursor)
  BY <1>1, BraceIsThere
<1>5. Listed(p.kids)
  BY <1>1, <1>2 DEF Stacked, Fits
<1>6. /\ Begins(cursor, "PERIPHERAL", p.head.name)
      /\ OfProgram(t) \cup OfPeripheral(p) \cup OfRegister(p.head.name, r) = Found(cursor)
  BY <1>2 DEF InRegister
<1>7. Begins(cursor', "PERIPHERAL", p.head.name)
  BY <1>1, <1>4, <1>6, PassesFound DEF DeviceWords
<1>. HIDE DEF r, p, t
<1>8. stack'[1].kind = "peripheral" /\ stack'[1].head = p.head
  BY <1>2, <1>3, <1>5, ReceivedKids
<1>9. OfPeripheral(stack'[1]) = OfPeripheral(p) \cup OfRegister(p.head.name, r)
  BY <1>2, <1>3, <1>5, AddOwners
<1>10. InPeripheral(cursor', stack'[1], t)
  BY <1>4, <1>6, <1>7, <1>8, <1>9 DEF InPeripheral
<1>. QED
  BY <1>3, <1>8, <1>10 DEF Tracks

LEMMA ClosePeripheralTracks ==
  ASSUME IInv, Tracks(cursor, stack), ClosePeripheral, cursor'.err = 0
  PROVE  Tracks(cursor', stack')
<1>. DEFINE p == stack[1]
            t == stack[2]
<1>1. /\ stack # <<>> /\ Top.kind = "peripheral" /\ IsCursor(cursor) /\ Stacked(stack)
      /\ stack' = Give(Top, Tail(stack)) /\ cursor' = Expect(cursor, "RBRACE")
  BY DEF ClosePeripheral, In, Step, IInv
<1>2. /\ Top = p /\ Len(stack) = 2 /\ p.kind = "peripheral" /\ InPeripheral(cursor, p, t)
  BY <1>1, TracksWhere DEF Top
<1>3. Len(stack') = 1 /\ stack'[1] = Received(t, p)
  <2>1. Len(stack') = Len(stack) - 1 /\ stack'[1] = Received(stack[2], Top)
    <3>. Len(stack) > 1
      BY <1>2
    <3>. QED
      BY <1>1, ReturnFrames
  <2>. QED
    BY <1>2, <2>1
<1>4. Found(cursor') = Found(cursor)
  BY <1>1, BraceIsThere
<1>5. Listed(t.kids)
  BY <1>1, <1>2 DEF Stacked, Fits
<1>6. OfProgram(stack'[1]) = OfProgram(t) \cup OfPeripheral(p)
  BY <1>2, <1>3, <1>5, AddOwners
<1>7. InProgram(cursor', stack'[1])
  BY <1>2, <1>4, <1>6 DEF InPeripheral, InProgram
<1>. QED
  BY <1>3, <1>7 DEF Tracks

\* The invariant: as long as there is no error the stack tracks the text, and at
\* the end so does the program.
Faithful ==
  /\ cursor.src \in Inputs
  /\ cursor.err = 0 =>
       IF Done THEN Current(cursor) = "EOF" /\ OfProgram(program) = Found(cursor)
       ELSE Tracks(cursor, stack)

LEMMA TripTracks ==
  ASSUME IInv, Next, Tracks(cursor, stack), cursor'.err = 0
  PROVE  IF Done' THEN Current(cursor') = "EOF" /\ OfProgram(program') = Found(cursor')
         ELSE Tracks(cursor', stack')
<1>1. CASE EndOfProgram
  <2>1. /\ stack # <<>> /\ Top.kind = "program" /\ Stacked(stack) /\ program' = Top
        /\ cursor' = cursor /\ stack' = <<>> /\ Current(cursor) = "EOF"
    BY <1>1 DEF EndOfProgram, In, Step, Ahead, IInv
  <2>2. OfProgram(Top) = Found(cursor)
    BY <2>1, TracksWhere DEF Top, InProgram
  <2>. QED
    BY <2>1, <2>2 DEF Done
<1>2. CASE RejectToken
  <2>1. cursor' = Fail(cursor)
    BY <1>2 DEF RejectToken, Step
  <2>. QED
    BY <2>1, FailGoesOn DEF IInv
<1>3. CASE ~EndOfProgram /\ ~RejectToken
  <2>1. Tracks(cursor', stack')
    BY <1>3, SimpleStatementTracks, OpenBlockTracks, CloseBodyTracks, FinishFunctionTracks,
       ParseFunctionTracks, ParsePeripheralTracks, ParseRegisterTracks, ParseFieldTracks,
       CloseRegisterTracks, ClosePeripheralTracks DEF Next
  <2>2. stack' # <<>>
    BY <2>1, EmptyListed DEF Tracks, InBody
  <2>. QED
    BY <2>1, <2>2 DEF Done
<1>. QED
  BY <1>1, <1>2, <1>3

LEMMA FaithfulHolds == Spec => []Faithful
<1>1. Init => Faithful
  <2>. SUFFICES ASSUME Init PROVE Faithful
    OBVIOUS
  <2>. DEFINE f == Node("program", <<>>)
  <2>1. PICK tokens \in Inputs : cursor = Start(tokens)
    BY DEF Init
  <2>2. /\ cursor.src \in Inputs /\ cursor.pos = 1
    BY <2>1 DEF Start
  <2>3. OfProgram(f) = {}
    BY NothingBelow
  <2>. HIDE DEF f
  <2>4. stack = <<f>> /\ ~Done
    BY DEF Init, Done, f
  <2>5. Len(stack) = 1 /\ stack[1] = f
    BY <2>4
  <2>6. Found(cursor) = {}
    BY <2>2 DEF Found, Declared
  <2>7. InProgram(cursor, f)
    BY <2>2, <2>3, <2>6 DEF InProgram
  <2>. QED
    BY <2>2, <2>4, <2>5, <2>7 DEF Faithful, Tracks
<1>2. IInv /\ Faithful /\ [Next]_vars => Faithful'
  <2>. SUFFICES ASSUME IInv, Faithful, [Next]_vars PROVE Faithful'
    OBVIOUS
  <2>1. CASE Next
    <3>1. Onward(cursor, cursor')
      BY <2>1, TripEffect
    <3>2. cursor'.src \in Inputs
      BY <3>1 DEF Onward, Faithful
    <3>3. ~Done
      BY <2>1 DEF Next, Done, SimpleStatement, InStatements, In, OpenBlock, CloseBlock,
         CloseSingle, ParseFunction, FinishFunction, ParsePeripheral, ParseRegister,
         ParseField, CloseRegister, ClosePeripheral, EndOfProgram, RejectToken
    <3>4. ASSUME cursor'.err = 0
          PROVE  IF Done' THEN Current(cursor') = "EOF" /\ OfProgram(program') = Found(cursor')
                 ELSE Tracks(cursor', stack')
      <4>1. Tracks(cursor, stack)
        BY <3>1, <3>3, <3>4, NoErrorBefore DEF Faithful
      <4>. QED
        BY <2>1, <3>2, <3>4, <4>1, TripTracks
    <3>. QED
      BY <3>2, <3>4 DEF Faithful
  <2>2. CASE UNCHANGED vars
    BY <2>2 DEF vars, Faithful, Done
  <2>. QED
    BY <2>1, <2>2
<1>. QED
  BY <1>1, <1>2, InvariantHolds, PTL DEF Spec


\* In every program that is accepted, however long it is and however many
\* peripherals, registers and functions it mixes, each field is in the tree below
\* the register, and each register below the peripheral, whose braces are open
\* around it, and nothing else is there: parser_parse_field, parser_parse_register
\* and parser_parse_peripheral store what they made where it belongs.
THEOREM FieldsAreOwned == Spec => []FieldsHaveTheirOwners
<1>1. IInv /\ Faithful => FieldsHaveTheirOwners
  <2>. SUFFICES ASSUME IInv, Faithful, Accepted
                PROVE  OfProgram(program) = Declared(cursor.src, Len(cursor.src) + 1)
    BY DEF FieldsHaveTheirOwners
  <2>1. Current(cursor) = "EOF" /\ OfProgram(program) = Found(cursor)
    BY DEF Accepted, Faithful
  <2>2. /\ cursor.src \in Seq(STRING \ {"EOF"}) /\ Len(cursor.src) \in Nat
        /\ cursor.pos \in 1..Len(cursor.src) + 1
    BY InputsAssumption DEF Faithful, IInv, IsCursor
  <2>3. cursor.pos = Len(cursor.src) + 1
    BY <2>1, <2>2 DEF Current
  <2>. QED
    BY <2>1, <2>3 DEF Found
<1>. QED
  BY <1>1, InvariantHolds, FaithfulHolds, PTL

-----------------------------------------------------------------------------
(* Lists and their concatenation *)

\* A function on 1..n is a list.
LEMMA ListOf ==
  ASSUME NEW n \in Nat, NEW f, f = [k \in 1..n |-> f[k]]
  PROVE  Listed(f) /\ Len(f) = n
<1>. DEFINE S == {f[k] : k \in 1..n}
<1>1. f \in [1..n -> S]
  OBVIOUS
<1>2. f \in Seq(S) /\ Len(f) = n
  BY <1>1, SeqDef
<1>. QED
  BY <1>2, SeqIsListed

\* Lists of the same elements are the same.
LEMMA ListEqual ==
  ASSUME NEW s, Listed(s), NEW t, Listed(t), Len(s) = Len(t), \A k \in 1..Len(s) : s[k] = t[k]
  PROVE  s = t
<1>1. s = [k \in 1..Len(s) |-> s[k]] /\ t = [k \in 1..Len(s) |-> t[k]]
  BY DEF Listed
<1>2. [k \in 1..Len(s) |-> s[k]] = [k \in 1..Len(s) |-> t[k]]
  OBVIOUS
<1>. QED
  BY <1>1, <1>2

\* One list behind another.
LEMMA ConcatEffect ==
  ASSUME NEW s, Listed(s), NEW t, Listed(t)
  PROVE  /\ Listed(s \o t) /\ Len(s \o t) = Len(s) + Len(t)
         /\ \A k \in 1..Len(s) : (s \o t)[k] = s[k]
         /\ \A k \in 1..Len(t) : (s \o t)[Len(s) + k] = t[k]
<1>. DEFINE S == ElementsOf(s) \cup ElementsOf(t)
<1>1. s \in Seq(S) /\ t \in Seq(S)
  BY ListedInSeq DEF ElementsOf
<1>. HIDE DEF S
<1>2. /\ s \o t \in Seq(S) /\ Len(s \o t) = Len(s) + Len(t)
      /\ \A i \in 1..Len(s) + Len(t) : (s \o t)[i] = IF i <= Len(s) THEN s[i] ELSE t[i - Len(s)]
  BY <1>1, ConcatProperties
<1>3. Len(s) \in Nat /\ Len(t) \in Nat
  BY DEF Listed
<1>4. \A k \in 1..Len(s) : (s \o t)[k] = s[k]
  BY <1>2, <1>3
<1>5. ASSUME NEW k \in 1..Len(t) PROVE (s \o t)[Len(s) + k] = t[k]
  <2>1. Len(s) + k \in 1..Len(s) + Len(t) /\ ~(Len(s) + k <= Len(s)) /\ (Len(s) + k) - Len(s) = k
    BY <1>3
  <2>. QED
    BY <1>2, <2>1
<1>. QED
  BY <1>2, <1>4, <1>5, SeqIsListed

LEMMA ConcatUnits ==
  ASSUME NEW s, Listed(s)
  PROVE  <<>> \o s = s /\ s \o <<>> = s
<1>1. s \in Seq(ElementsOf(s))
  BY ListedInSeq DEF ElementsOf
<1>. QED
  BY <1>1, ConcatEmptySeq

LEMMA ConcatTwice ==
  ASSUME NEW s, Listed(s), NEW t, Listed(t), NEW v, Listed(v)
  PROVE  (s \o t) \o v = s \o (t \o v)
<1>. DEFINE S == ElementsOf(s) \cup ElementsOf(t) \cup ElementsOf(v)
<1>1. s \in Seq(S) /\ t \in Seq(S) /\ v \in Seq(S)
  BY ListedInSeq DEF ElementsOf
<1>. HIDE DEF S
<1>. QED
  BY <1>1, ConcatAssociative

LEMMA OneListed ==
  ASSUME NEW x
  PROVE  Listed(<<x>>) /\ Len(<<x>>) = 1 /\ <<x>>[1] = x
<1>1. <<x>> \in Seq({x})
  OBVIOUS
<1>. QED
  BY <1>1, SeqIsListed

LEMMA AppendIsBehind ==
  ASSUME NEW s, Listed(s), NEW x
  PROVE  Append(s, x) = s \o <<x>>
<1>. DEFINE S == ElementsOf(s) \cup {x}
<1>1. s \in Seq(S) /\ x \in S
  BY ListedInSeq DEF ElementsOf
<1>. HIDE DEF S
<1>. QED
  BY <1>1, AppendIsConcat

LEMMA PairIsBehind ==
  ASSUME NEW x, NEW y
  PROVE  <<x, y>> = <<x>> \o <<y>>
<1>1. <<x, y>> = <<x, y>> \o <<>>
  <2>1. <<x, y>> \in Seq({x, y})
    OBVIOUS
  <2>. QED
    BY <2>1, ConcatEmptySeq
<1>2. <<x, y>> \o <<>> = <<x>> \o (<<y>> \o <<>>)
  BY EmptyListed, PushTwice
<1>3. <<y>> \o <<>> = <<y>>
  BY OneListed, ConcatUnits
<1>. QED
  BY <1>1, <1>2, <1>3

LEMMA TripleIsBehind ==
  ASSUME NEW x, NEW y, NEW z
  PROVE  <<x, y, z>> = <<x>> \o (<<y>> \o <<z>>)
<1>. DEFINE S == {x, y, z}
            a == <<x, y, z>>
            b == <<x>> \o <<y, z>>
<1>1. a \in Seq(S) /\ <<x>> \in Seq(S) /\ <<y, z>> \in Seq(S) /\ Len(a) = 3
      /\ a[1] = x /\ a[2] = y /\ a[3] = z
  OBVIOUS
<1>2. b \in Seq(S) /\ Len(b) = 3 /\ b[1] = x /\ b[2] = y /\ b[3] = z
  <2>1. <<y, z>> \in Seq(S) /\ Len(<<y, z>>) = 2 /\ <<y, z>>[1] = y /\ <<y, z>>[2] = z
    OBVIOUS
  <2>2. <<x>> \in Seq(S) /\ Len(<<x>>) = 1 /\ <<x>>[1] = x
    OBVIOUS
  <2>. QED
    BY <2>1, <2>2, ConcatProperties
<1>3. \A i \in 1..3 : a[i] = b[i]
  BY <1>1, <1>2
<1>. HIDE DEF a, b, S
<1>4. a = b
  BY <1>1, <1>2, <1>3, SeqEqual
<1>. QED
  BY <1>4, PairIsBehind DEF a, b

-----------------------------------------------------------------------------
(* What is measured of texts and trees *)

\* How many objects, Type objects and functions there are; all else that is
\* measured is a list.
Counted == {"objects", "types", "functions"}

None(w)        == IF w \in Counted THEN 0 ELSE <<>>
Plus(w, a, b)  == IF w \in Counted THEN a + b ELSE a \o b
IsAmount(w, a) == IF w \in Counted THEN a \in Nat ELSE Listed(a)
All(w, s)      == IF w \in Counted THEN Total(s) ELSE FlattenSeq(s)

\* A list of amounts.
Amounts(w, s) == Listed(s) /\ \A k \in 1..Len(s) : IsAmount(w, s[k])

LEMMA PlusAmount ==
  ASSUME NEW w, NEW a, NEW b, IsAmount(w, a), IsAmount(w, b)
  PROVE  IsAmount(w, Plus(w, a, b)) /\ IsAmount(w, None(w))
BY ConcatEffect, EmptyListed DEF IsAmount, Plus, None

LEMMA PlusNone ==
  ASSUME NEW w, NEW a, IsAmount(w, a)
  PROVE  Plus(w, None(w), a) = a /\ Plus(w, a, None(w)) = a
BY ConcatUnits DEF IsAmount, Plus, None

LEMMA PlusTwice ==
  ASSUME NEW w, NEW a, NEW b, NEW c, IsAmount(w, a), IsAmount(w, b), IsAmount(w, c)
  PROVE  Plus(w, Plus(w, a, b), c) = Plus(w, a, Plus(w, b, c))
<1>1. CASE w \in Counted
  BY <1>1 DEF IsAmount, Plus
<1>2. CASE w \notin Counted
  BY <1>2, ConcatTwice DEF IsAmount, Plus
<1>. QED
  BY <1>1, <1>2

-----------------------------------------------------------------------------
(* Sums *)

\* The sums of the first entries.
Sums(w, s, u) ==
  /\ u[0] = None(w) /\ IsAmount(w, u[0])
  /\ \A k \in 1..Len(s) : u[k] = Plus(w, u[k - 1], s[k]) /\ IsAmount(w, u[k])

LEMMA SumsExist ==
  ASSUME NEW w, NEW s, Amounts(w, s)
  PROVE  \E u : Sums(w, s, u) /\ u = [k \in 0..Len(s) |-> u[k]]
<1>. DEFINE S == UNION {ElementsOf(s[k]) : k \in 1..Len(s)}
            D == IF w \in Counted THEN Nat ELSE Seq(S)
            start == None(w)
            step  == [x \in (1..Len(s)) \X D |-> Plus(w, x[2], s[x[1]])]
<1>1. Len(s) \in Nat
  BY DEF Amounts, Listed
<1>2. \A a \in D : IsAmount(w, a)
  <2>. HIDE DEF S
  <2>. QED
    BY SeqIsListed DEF IsAmount
<1>3. start \in D
  <2>. HIDE DEF S
  <2>. QED
    BY EmptySeq DEF None
<1>4. \A a \in D : \A k \in 1..Len(s) : Plus(w, a, s[k]) \in D
  <2>. SUFFICES ASSUME NEW a \in D, NEW k \in 1..Len(s) PROVE Plus(w, a, s[k]) \in D
    OBVIOUS
  <2>1. CASE w \in Counted
    BY <2>1 DEF Plus, Amounts, IsAmount
  <2>2. CASE w \notin Counted
    <3>1. Listed(s[k])
      BY <2>2 DEF Amounts, IsAmount
    <3>2. \A i \in 1..Len(s[k]) : s[k][i] \in S
      BY DEF ElementsOf
    <3>. HIDE DEF S
    <3>3. s[k] \in Seq(S)
      BY <3>1, <3>2, ListedInSeq
    <3>. QED
      BY <2>2, <3>3, ConcatProperties DEF Plus
  <2>. QED
    BY <2>1, <2>2
<1>. HIDE DEF D, start
<1>5. step \in [(1..Len(s)) \X D -> D]
  BY <1>4
<1>6. \A k \in 1..Len(s) : \A a \in D : step[<<k, a>>] = Plus(w, a, s[k])
  OBVIOUS
<1>. HIDE DEF step
<1>7. PICK u : Unrolls(u, Len(s), D, start, step)
  BY <1>1, <1>3, <1>5, UnrolledExists
<1>8. u \in [0..Len(s) -> D] /\ u[0] = start /\ \A k \in 1..Len(s) : u[k] = step[<<k, u[k - 1]>>]
  BY <1>7 DEF Unrolls
<1>9. \A k \in 1..Len(s) : u[k] = Plus(w, u[k - 1], s[k]) /\ IsAmount(w, u[k])
  <2>. SUFFICES ASSUME NEW k \in 1..Len(s)
                PROVE  u[k] = Plus(w, u[k - 1], s[k]) /\ IsAmount(w, u[k])
    OBVIOUS
  <2>1. u[k - 1] \in D /\ u[k] \in D
    BY <1>1, <1>8
  <2>. QED
    BY <1>2, <1>6, <1>8, <2>1
<1>10. u[0] = None(w) /\ IsAmount(w, u[0])
  BY <1>1, <1>2, <1>3, <1>8 DEF start
<1>11. u = [k \in 0..Len(s) |-> u[k]]
  BY <1>8
<1>. QED
  BY <1>9, <1>10, <1>11 DEF Sums

\* The sums of two lists are the same as far as the lists are.
LEMMA SumsAgree ==
  ASSUME NEW w, NEW s, NEW t, NEW u, NEW v, Sums(w, s, u), Sums(w, t, v),
         NEW n \in Nat, Len(s) \in Nat, Len(t) \in Nat, n <= Len(s), n <= Len(t),
         \A k \in 1..n : s[k] = t[k]
  PROVE  u[n] = v[n]
<1>. DEFINE S == {k \in Nat : k <= n => u[k] = v[k]}
<1>1. 0 \in S
  BY DEF Sums
<1>2. ASSUME NEW k \in Nat, k \in S PROVE k + 1 \in S
  <2>. SUFFICES ASSUME k + 1 <= n PROVE u[k + 1] = v[k + 1]
    OBVIOUS
  <2>1. k + 1 \in 1..Len(s) /\ k + 1 \in 1..Len(t) /\ (k + 1) - 1 = k /\ k + 1 \in 1..n
    OBVIOUS
  <2>2. u[k + 1] = Plus(w, u[(k + 1) - 1], s[k + 1]) /\ v[k + 1] = Plus(w, v[(k + 1) - 1], t[k + 1])
    BY <2>1 DEF Sums
  <2>3. u[k] = v[k]
    BY <1>2, <2>1
  <2>. QED
    BY <2>1, <2>2, <2>3
<1>. HIDE DEF S
<1>3. n \in S
  BY <1>1, <1>2, Induction
<1>. QED
  BY <1>3 DEF S

\* What Total and FlattenSeq compute is the last of the sums.
LEMMA AllIsLast ==
  ASSUME NEW w, NEW s, Amounts(w, s), NEW u, Sums(w, s, u)
  PROVE  All(w, s) = u[Len(s)] /\ IsAmount(w, All(w, s))
<1>1. Len(s) \in Nat
  BY DEF Amounts, Listed
<1>2. PICK v : Sums(w, s, v) /\ v = [k \in 0..Len(s) |-> v[k]]
  BY SumsExist
<1>3. u[Len(s)] = v[Len(s)]
  BY <1>1, <1>2, SumsAgree
<1>7. IsAmount(w, u[Len(s)])
  BY <1>1 DEF Sums
<1>. SUFFICES All(w, s) = u[Len(s)]
  BY <1>7
<1>4. CASE w \in Counted
  <2>. DEFINE Is(f) == f = [k \in 0..Len(s) |-> IF k = 0 THEN 0 ELSE f[k - 1] + s[k]]
              g == CHOOSE f : Is(f)
  <2>1. Is(v)
    <3>1. \A k \in 0..Len(s) : v[k] = IF k = 0 THEN 0 ELSE v[k - 1] + s[k]
      BY <1>1, <1>2, <1>4 DEF Sums, Plus, None
    <3>. QED
      BY <1>2, <3>1
  <2>2. Is(g)
    BY <2>1
  <2>3. Total(s) = g[Len(s)]
    BY DEF Total
  <2>. HIDE DEF g
  <2>4. \A k \in 0..Len(s) : g[k] = IF k = 0 THEN 0 ELSE g[k - 1] + s[k]
    BY <2>2
  <2>. DEFINE S == {k \in Nat : k <= Len(s) => g[k] = v[k]}
  <2>5. 0 \in S
    BY <1>1, <1>2, <1>4, <2>4 DEF Sums, None
  <2>6. ASSUME NEW k \in Nat, k \in S PROVE k + 1 \in S
    <3>. SUFFICES ASSUME k + 1 <= Len(s) PROVE g[k + 1] = v[k + 1]
      OBVIOUS
    <3>1. k + 1 \in 1..Len(s) /\ (k + 1) - 1 = k /\ k + 1 # 0 /\ g[k] = v[k] /\ k + 1 \in 0..Len(s)
      BY <1>1, <2>6
    <3>2. g[k + 1] = g[(k + 1) - 1] + s[k + 1]
      BY <2>4, <3>1
    <3>3. v[k + 1] = v[(k + 1) - 1] + s[k + 1]
      BY <1>2, <1>4, <3>1 DEF Sums, Plus
    <3>. QED
      BY <3>1, <3>2, <3>3
  <2>. HIDE DEF S
  <2>7. Len(s) \in S
    BY <1>1, <2>5, <2>6, Induction
  <2>8. g[Len(s)] = v[Len(s)]
    BY <2>7 DEF S
  <2>. QED
    BY <1>3, <1>4, <2>3, <2>8 DEF All
<1>5. CASE w \notin Counted /\ Len(s) = 0
  <2>1. s = <<>>
    BY <1>5, ListedEmpty DEF Amounts
  <2>2. FlattenSeq(s) = <<>>
    BY <1>5, <2>1 DEF FlattenSeq
  <2>. QED
    BY <1>5, <2>2 DEF All, Sums, None
<1>6. CASE w \notin Counted /\ Len(s) # 0
  <2>. DEFINE Is(f) == f = [k \in 1..Len(s) |-> IF k = 1 THEN s[k] ELSE f[k - 1] \o s[k]]
              g == CHOOSE f : Is(f)
              h == [k \in 1..Len(s) |-> v[k]]
  <2>0. v[1] = s[1]
    <3>1. 1 \in 1..Len(s) /\ 1 - 1 = 0
      BY <1>1, <1>6
    <3>2. v[1] = v[0] \o s[1] /\ v[0] = <<>> /\ Listed(s[1])
      BY <1>2, <1>6, <3>1 DEF Sums, Plus, None, Amounts, IsAmount
    <3>. QED
      BY <3>2, ConcatUnits
  <2>1. Is(h)
    <3>1. ASSUME NEW k \in 1..Len(s) PROVE h[k] = IF k = 1 THEN s[k] ELSE h[k - 1] \o s[k]
      <4>1. CASE k = 1
        BY <2>0, <4>1
      <4>2. CASE k # 1
        <5>1. k - 1 \in 1..Len(s)
          BY <1>1, <4>2
        <5>2. v[k] = v[k - 1] \o s[k]
          BY <1>2, <1>6 DEF Sums, Plus
        <5>. QED
          BY <4>2, <5>1, <5>2
      <4>. QED
        BY <4>1, <4>2
    <3>2. h = [k \in 1..Len(s) |-> h[k]]
      <4>. HIDE DEF Is, g
      <4>. QED
        BY Zenon
    <3>. HIDE DEF h
    <3>. QED
      BY <3>1, <3>2
  <2>2. Is(g)
    BY <2>1
  <2>3. FlattenSeq(s) = g[Len(s)]
    BY <1>6 DEF FlattenSeq
  <2>. HIDE DEF g
  <2>4. \A k \in 1..Len(s) : g[k] = IF k = 1 THEN s[k] ELSE g[k - 1] \o s[k]
    BY <2>2
  <2>. DEFINE S == {k \in Nat : k + 1 <= Len(s) => g[k + 1] = v[k + 1]}
  <2>5. 0 \in S
    BY <1>1, <2>0, <2>4
  <2>6. ASSUME NEW k \in Nat, k \in S PROVE k + 1 \in S
    <3>. SUFFICES ASSUME k + 2 <= Len(s) PROVE g[k + 2] = v[k + 2]
      OBVIOUS
    <3>1. k + 2 \in 1..Len(s) /\ (k + 2) - 1 = k + 1 /\ k + 2 # 1 /\ g[k + 1] = v[k + 1]
      BY <1>1, <2>6
    <3>2. g[k + 2] = g[(k + 2) - 1] \o s[k + 2]
      BY <2>4, <3>1
    <3>3. v[k + 2] = v[(k + 2) - 1] \o s[k + 2]
      BY <1>2, <1>6, <3>1 DEF Sums, Plus
    <3>. QED
      BY <3>1, <3>2, <3>3
  <2>. HIDE DEF S
  <2>7. Len(s) - 1 \in S
    <3>. Len(s) - 1 \in Nat
      BY <1>1, <1>6
    <3>. QED
      BY <2>5, <2>6, Induction
  <2>8. g[Len(s)] = v[Len(s)]
    <3>. (Len(s) - 1) + 1 = Len(s)
      BY <1>1
    <3>. QED
      BY <2>7 DEF S
  <2>. QED
    BY <1>3, <1>6, <2>3, <2>8 DEF All
<1>. QED
  BY <1>4, <1>5, <1>6

LEMMA AllAmount ==
  ASSUME NEW w, NEW s, Amounts(w, s)
  PROVE  IsAmount(w, All(w, s))
BY SumsExist, AllIsLast

LEMMA AllEmpty ==
  ASSUME NEW w
  PROVE  Amounts(w, <<>>) /\ All(w, <<>>) = None(w)
<1>1. Amounts(w, <<>>)
  BY EmptyListed DEF Amounts
<1>2. PICK u : Sums(w, <<>>, u)
  BY <1>1, SumsExist
<1>3. All(w, <<>>) = u[0]
  BY <1>1, <1>2, AllIsLast, EmptyListed
<1>. QED
  BY <1>1, <1>2, <1>3 DEF Sums

LEMMA AllOne ==
  ASSUME NEW w, NEW a, IsAmount(w, a)
  PROVE  Amounts(w, <<a>>) /\ All(w, <<a>>) = a
<1>1. Amounts(w, <<a>>)
  BY OneListed DEF Amounts
<1>2. PICK u : Sums(w, <<a>>, u)
  BY <1>1, SumsExist
<1>3. All(w, <<a>>) = u[1]
  <2>1. All(w, <<a>>) = u[Len(<<a>>)]
    BY <1>1, <1>2, AllIsLast
  <2>. QED
    BY <2>1, OneListed
<1>4. u[1] = Plus(w, u[1 - 1], <<a>>[1]) /\ u[0] = None(w)
  BY <1>2, OneListed DEF Sums
<1>5. u[1] = Plus(w, None(w), a)
  BY <1>4, OneListed
<1>. QED
  BY <1>1, <1>3, <1>5, PlusNone

\* The sum of two lists, one behind the other.
LEMMA AllConcat ==
  ASSUME NEW w, NEW s, Amounts(w, s), NEW t, Amounts(w, t)
  PROVE  Amounts(w, s \o t) /\ All(w, s \o t) = Plus(w, All(w, s), All(w, t))
<1>. DEFINE m == Len(s)
            n == Len(t)
            r == s \o t
<1>1. Listed(s) /\ Listed(t) /\ m \in Nat /\ n \in Nat
  BY DEF Amounts, Listed
<1>2. /\ Listed(r) /\ Len(r) = m + n
      /\ \A k \in 1..m : r[k] = s[k]
      /\ \A k \in 1..n : r[m + k] = t[k]
  BY <1>1, ConcatEffect
<1>. HIDE DEF m, n, r
<1>3. Amounts(w, r)
  <2>. SUFFICES ASSUME NEW k \in 1..m + n PROVE IsAmount(w, r[k])
    BY <1>2 DEF Amounts
  <2>1. CASE k <= m
    <3>1. k \in 1..m
      BY <1>1, <2>1
    <3>. QED
      BY <1>2, <3>1 DEF Amounts, m
  <2>2. CASE k > m
    <3>1. k - m \in 1..n /\ m + (k - m) = k
      BY <1>1, <2>2
    <3>2. r[m + (k - m)] = t[k - m]
      BY <1>2, <3>1
    <3>. QED
      BY <3>1, <3>2 DEF Amounts, n
  <2>. QED
    BY <1>1, <2>1, <2>2
<1>4. PICK a : Sums(w, s, a)
  BY SumsExist
<1>5. PICK b : Sums(w, t, b)
  BY SumsExist
<1>6. PICK u : Sums(w, r, u)
  BY <1>3, SumsExist
<1>7. u[m] = a[m] /\ IsAmount(w, a[m]) /\ \A k \in 0..n : IsAmount(w, b[k])
  <2>1. u[m] = a[m]
    BY <1>1, <1>2, <1>4, <1>6, SumsAgree DEF m
  <2>2. IsAmount(w, a[m])
    BY <1>1, <1>4 DEF Sums, m
  <2>3. \A k \in 0..n : IsAmount(w, b[k])
    BY <1>1, <1>5 DEF Sums, n
  <2>. QED
    BY <2>1, <2>2, <2>3
<1>. DEFINE S == {k \in Nat : k <= n => u[m + k] = Plus(w, a[m], b[k])}
<1>8. 0 \in S
  <2>1. b[0] = None(w) /\ m + 0 = m
    BY <1>1, <1>5 DEF Sums
  <2>. QED
    BY <1>7, <2>1, PlusNone
<1>9. ASSUME NEW k \in Nat, k \in S PROVE k + 1 \in S
  <2>. SUFFICES ASSUME k + 1 <= n PROVE u[m + (k + 1)] = Plus(w, a[m], b[k + 1])
    OBVIOUS
  <2>1. /\ k + 1 \in 1..n /\ (k + 1) - 1 = k /\ m + (k + 1) \in 1..m + n
        /\ (m + (k + 1)) - 1 = m + k /\ k \in 0..n /\ u[m + k] = Plus(w, a[m], b[k])
    BY <1>1, <1>9
  <2>2. u[m + (k + 1)] = Plus(w, u[(m + (k + 1)) - 1], r[m + (k + 1)])
    BY <1>2, <1>6, <2>1 DEF Sums
  <2>3. b[k + 1] = Plus(w, b[(k + 1) - 1], t[k + 1]) /\ IsAmount(w, t[k + 1])
    BY <1>5, <2>1 DEF Sums, Amounts, n
  <2>4. r[m + (k + 1)] = t[k + 1]
    BY <1>2, <2>1
  <2>5. Plus(w, Plus(w, a[m], b[k]), t[k + 1]) = Plus(w, a[m], Plus(w, b[k], t[k + 1]))
    BY <1>7, <2>1, <2>3, PlusTwice
  <2>. QED
    BY <2>1, <2>2, <2>3, <2>4, <2>5
<1>. HIDE DEF S
<1>10. n \in S
  BY <1>1, <1>8, <1>9, Induction
<1>11. u[m + n] = Plus(w, a[m], b[n])
  BY <1>1, <1>10 DEF S
<1>12. All(w, s) = a[m] /\ All(w, t) = b[n] /\ All(w, r) = u[m + n]
  BY <1>2, <1>3, <1>4, <1>5, <1>6, AllIsLast DEF m, n
<1>. QED
  BY <1>3, <1>11, <1>12 DEF r

LEMMA AllAppend ==
  ASSUME NEW w, NEW s, Amounts(w, s), NEW a, IsAmount(w, a)
  PROVE  Amounts(w, Append(s, a)) /\ All(w, Append(s, a)) = Plus(w, All(w, s), a)
<1>1. Append(s, a) = s \o <<a>>
  BY AppendIsBehind DEF Amounts
<1>. QED
  BY <1>1, AllOne, AllConcat

LEMMA AllPush ==
  ASSUME NEW w, NEW s, Amounts(w, s), NEW a, IsAmount(w, a)
  PROVE  Amounts(w, <<a>> \o s) /\ All(w, <<a>> \o s) = Plus(w, a, All(w, s))
BY AllOne, AllConcat

\* Nothing is made of nothing.
LEMMA AllNone ==
  ASSUME NEW w, NEW s, Listed(s), \A k \in 1..Len(s) : s[k] = None(w)
  PROVE  Amounts(w, s) /\ All(w, s) = None(w)
<1>1. Amounts(w, s)
  BY PlusAmount, EmptyListed DEF Amounts, IsAmount, None
<1>2. PICK u : Sums(w, s, u)
  BY <1>1, SumsExist
<1>. DEFINE S == {k \in Nat : k <= Len(s) => u[k] = None(w)}
<1>3. 0 \in S
  BY <1>2 DEF Sums
<1>4. ASSUME NEW k \in Nat, k \in S PROVE k + 1 \in S
  <2>. SUFFICES ASSUME k + 1 <= Len(s) PROVE u[k + 1] = None(w)
    OBVIOUS
  <2>1. k + 1 \in 1..Len(s) /\ (k + 1) - 1 = k /\ u[k] = None(w)
    BY <1>4 DEF Listed
  <2>2. u[k + 1] = Plus(w, u[(k + 1) - 1], s[k + 1]) /\ IsAmount(w, u[k + 1])
    BY <1>2, <2>1 DEF Sums
  <2>3. IsAmount(w, None(w))
    BY EmptyListed DEF IsAmount, None
  <2>. QED
    BY <2>1, <2>2, <2>3, PlusNone
<1>. HIDE DEF S
<1>5. Len(s) \in S
  <2>. Len(s) \in Nat
    BY DEF Listed
  <2>. QED
    BY <1>3, <1>4, Induction
<1>6. u[Len(s)] = None(w)
  BY <1>5 DEF S, Listed
<1>. QED
  BY <1>1, <1>2, <1>6, AllIsLast

-----------------------------------------------------------------------------
(* Trees *)

\* The trees up to each height are those one lower and what is above them.
IsTrees(u, n) ==
  u = [k \in 0..n |-> IF k = 0 THEN Leaves ELSE Leaves \cup Above(u[k - 1])]

LEMMA TreesAgree ==
  ASSUME NEW m \in Nat, NEW n \in Nat, m <= n, NEW u, IsTrees(u, m), NEW v, IsTrees(v, n)
  PROVE  u[m] = v[m]
<1>1. \A k \in 0..m : u[k] = IF k = 0 THEN Leaves ELSE Leaves \cup Above(u[k - 1])
  BY DEF IsTrees
<1>2. \A k \in 0..n : v[k] = IF k = 0 THEN Leaves ELSE Leaves \cup Above(v[k - 1])
  BY DEF IsTrees
<1>. DEFINE S == {k \in Nat : k <= m => u[k] = v[k]}
<1>3. 0 \in S
  <2>1. 0 \in 0..m /\ 0 \in 0..n
    OBVIOUS
  <2>2. u[0] = Leaves /\ v[0] = Leaves
    BY <1>1, <1>2, <2>1
  <2>. QED
    BY <2>2
<1>4. ASSUME NEW k \in Nat, k \in S PROVE k + 1 \in S
  <2>. SUFFICES ASSUME k + 1 <= m PROVE u[k + 1] = v[k + 1]
    OBVIOUS
  <2>1. k + 1 \in 0..m /\ k + 1 \in 0..n /\ k + 1 # 0 /\ (k + 1) - 1 = k /\ u[k] = v[k]
    BY <1>4
  <2>2. u[k + 1] = Leaves \cup Above(u[(k + 1) - 1]) /\ v[k + 1] = Leaves \cup Above(v[(k + 1) - 1])
    BY <1>1, <1>2, <2>1
  <2>. QED
    BY <2>1, <2>2
<1>. HIDE DEF S
<1>5. m \in S
  BY <1>3, <1>4, Induction
<1>. QED
  BY <1>5 DEF S

LEMMA TreesEquation ==
  Trees[0] = Leaves /\ \A h \in Nat : Trees[h + 1] = Leaves \cup Above(Trees[h])
<1>. DEFINE S == {n \in Nat : \E u : IsTrees(u, n)}
<1>1. 0 \in S
  <2>. DEFINE u == [k \in 0..0 |-> Leaves]
  <2>1. IsTrees(u, 0)
    BY DEF IsTrees
  <2>. QED
    BY <2>1
<1>2. ASSUME NEW n \in Nat, n \in S PROVE n + 1 \in S
  <2>1. PICK u : IsTrees(u, n)
    BY <1>2
  <2>. DEFINE v == [k \in 0..n + 1 |-> IF k <= n THEN u[k] ELSE Leaves \cup Above(u[n])]
  <2>2. ASSUME NEW k \in 0..n + 1
        PROVE  v[k] = IF k = 0 THEN Leaves ELSE Leaves \cup Above(v[k - 1])
    <3>1. CASE k = 0
      BY <2>1, <3>1 DEF IsTrees
    <3>2. CASE k # 0 /\ k <= n
      <4>1. k \in 0..n /\ k - 1 \in 0..n + 1 /\ k - 1 <= n
        BY <3>2
      <4>2. u[k] = Leaves \cup Above(u[k - 1])
        BY <2>1, <3>2, <4>1 DEF IsTrees
      <4>. QED
        BY <3>2, <4>1, <4>2
    <3>3. CASE k = n + 1
      <4>1. ~(k <= n) /\ k # 0 /\ k - 1 = n /\ k - 1 <= n /\ k - 1 \in 0..n + 1
        BY <3>3
      <4>. QED
        BY <4>1
    <3>. QED
      BY <3>1, <3>2, <3>3
  <2>3. v = [k \in 0..n + 1 |-> v[k]]
    OBVIOUS
  <2>. HIDE DEF v
  <2>4. IsTrees(v, n + 1)
    BY <2>2, <2>3 DEF IsTrees
  <2>. QED
    BY <2>4
<1>. HIDE DEF S
<1>3. \A n \in Nat : \E u : IsTrees(u, n)
  BY <1>1, <1>2, Induction DEF S
<1>. DEFINE a == [n \in Nat |-> CHOOSE u : IsTrees(u, n)]
            f == [n \in Nat |-> a[n][n]]
<1>4. \A n \in Nat : IsTrees(a[n], n)
  BY <1>3
<1>. HIDE DEF a
<1>5. ASSUME NEW h \in Nat PROVE f[h] = IF h = 0 THEN Leaves ELSE Leaves \cup Above(f[h - 1])
  <2>1. a[h][h] = IF h = 0 THEN Leaves ELSE Leaves \cup Above(a[h][h - 1])
    <3>1. h \in 0..h
      OBVIOUS
    <3>2. \A k \in 0..h : a[h][k] = IF k = 0 THEN Leaves ELSE Leaves \cup Above(a[h][k - 1])
      BY <1>4 DEF IsTrees
    <3>. QED
      BY <3>1, <3>2
  <2>2. CASE h = 0
    BY <2>1, <2>2
  <2>3. CASE h # 0
    <3>1. h - 1 \in Nat /\ h - 1 <= h
      BY <2>3
    <3>2. IsTrees([k \in 0..h - 1 |-> a[h][k]], h - 1)
      <4>. DEFINE b == [k \in 0..h - 1 |-> a[h][k]]
      <4>1. ASSUME NEW k \in 0..h - 1
            PROVE  b[k] = IF k = 0 THEN Leaves ELSE Leaves \cup Above(b[k - 1])
        <5>1. k \in 0..h /\ (k # 0 => k - 1 \in 0..h - 1)
          BY <3>1
        <5>2. a[h][k] = IF k = 0 THEN Leaves ELSE Leaves \cup Above(a[h][k - 1])
          BY <1>4, <5>1 DEF IsTrees
        <5>. QED
          BY <5>1, <5>2
      <4>2. b = [k \in 0..h - 1 |-> b[k]]
        OBVIOUS
      <4>. HIDE DEF b
      <4>3. b = [k \in 0..h - 1 |-> IF k = 0 THEN Leaves ELSE Leaves \cup Above(b[k - 1])]
        BY <4>1, <4>2
      <4>. QED
        BY <4>3 DEF IsTrees, b
    <3>3. a[h - 1][h - 1] = a[h][h - 1]
      BY <1>4, <3>1, TreesAgree
    <3>. QED
      BY <2>1, <2>3, <3>1, <3>3
  <2>. QED
    BY <2>2, <2>3
<1>6. f = [h \in Nat |-> IF h = 0 THEN Leaves ELSE Leaves \cup Above(f[h - 1])]
  BY <1>5
<1>. HIDE DEF f
<1>7. Trees = [h \in Nat |-> IF h = 0 THEN Leaves ELSE Leaves \cup Above(Trees[h - 1])]
  BY <1>6 DEF Trees
<1>8. \A h \in Nat : Trees[h] = IF h = 0 THEN Leaves ELSE Leaves \cup Above(Trees[h - 1])
  BY <1>7
<1>9. ASSUME NEW h \in Nat PROVE Trees[h + 1] = Leaves \cup Above(Trees[h])
  <2>1. h + 1 \in Nat /\ h + 1 # 0 /\ (h + 1) - 1 = h
    OBVIOUS
  <2>2. Trees[h + 1] = Leaves \cup Above(Trees[(h + 1) - 1])
    BY <1>8, <2>1
  <2>. QED
    BY <2>1, <2>2
<1>. QED
  BY <1>8, <1>9

\* What is above more trees is more.
LEMMA AboveMonotonic ==
  ASSUME NEW S, NEW T, S \subseteq T
  PROVE  Above(S) \subseteq Above(T)
<1>1. Seq(S) \subseteq Seq(T)
  BY SeqMonotonic
<1>. QED
  BY <1>1 DEF Above

LEMMA TreesGrow == \A h \in Nat : Trees[h] \subseteq Trees[h + 1]
<1>. DEFINE S == {h \in Nat : Trees[h] \subseteq Trees[h + 1]}
<1>1. 0 \in S
  <2>1. Trees[0] = Leaves
    BY TreesEquation
  <2>2. Trees[0 + 1] = Leaves \cup Above(Trees[0])
    BY TreesEquation
  <2>. QED
    BY <2>1, <2>2
<1>2. ASSUME NEW h \in Nat, h \in S PROVE h + 1 \in S
  <2>1. Trees[h + 1] = Leaves \cup Above(Trees[h])
    BY TreesEquation
  <2>2. Trees[(h + 1) + 1] = Leaves \cup Above(Trees[h + 1])
    BY TreesEquation
  <2>3. Above(Trees[h]) \subseteq Above(Trees[h + 1])
    BY <1>2, AboveMonotonic
  <2>4. Trees[h + 1] \subseteq Trees[(h + 1) + 1]
    BY <2>1, <2>2, <2>3
  <2>. QED
    BY <2>4
<1>. HIDE DEF S
<1>. QED
  BY <1>1, <1>2, Induction DEF S

LEMMA TreesMonotonic ==
  ASSUME NEW g \in Nat, NEW h \in Nat, g <= h
  PROVE  Trees[g] \subseteq Trees[h]
<1>. DEFINE S == {d \in Nat : Trees[g] \subseteq Trees[g + d]}
<1>1. 0 \in S
  <2>. g + 0 = g
    OBVIOUS
  <2>. QED
    OBVIOUS
<1>2. ASSUME NEW d \in Nat, d \in S PROVE d + 1 \in S
  <2>1. Trees[g + d] \subseteq Trees[(g + d) + 1]
    BY TreesGrow
  <2>2. (g + d) + 1 = g + (d + 1)
    OBVIOUS
  <2>3. Trees[g + d] \subseteq Trees[g + (d + 1)]
    BY <2>1, <2>2
  <2>. QED
    BY <1>2, <2>3
<1>. HIDE DEF S
<1>3. h - g \in S
  <2>. h - g \in Nat
    OBVIOUS
  <2>. QED
    BY <1>1, <1>2, Induction
<1>4. g + (h - g) = h
  OBVIOUS
<1>. QED
  BY <1>3, <1>4 DEF S

LeafKinds == {"null", "number", "identifier", "boolean", "field"}
KidKinds  == {"block", "program", "function", "register", "peripheral"}

\* What is below a node of each kind.
LEMMA NodeShapes ==
  ASSUME NEW T, NEW n \in Leaves \cup Above(T)
  PROVE  /\ n.kind \in LeafKinds \cup KidKinds
                      \cup {"unary", "binary", "call", "var", "expr", "return"}
         /\ n.kind = "unary"  => n.operand \in T
         /\ n.kind = "binary" => n.left \in T /\ n.right \in T
         /\ n.kind = "call"   => n.func \in T /\ n.args \in Seq(T)
         /\ n.kind = "var"    => n.init \in T
         /\ n.kind = "expr"   => n.expr \in T
         /\ n.kind = "return" => n.value \in T
         /\ n.kind \in KidKinds => n.kids \in Seq(T)
BY DEF Leaves, Above, NullNode, LeafKinds, KidKinds

-----------------------------------------------------------------------------
(* What is measured of a tree *)

\* What a node has by itself.
Own(w, n) ==
  CASE w = "objects"   -> CASE n.kind = "null" -> 0 [] n.kind = "call" -> 2 [] OTHER -> 1
    [] w = "types"     -> IF n.kind \in {"var", "register"} THEN 1 ELSE 0
    [] w = "functions" -> IF n.kind = "function" THEN 1 ELSE 0
    [] w = "refs"      ->
         CASE n.kind \in {"number", "identifier", "boolean"} -> <<Ref(n.kind, n.at)>>
           [] n.kind = "field"      -> <<Ref("field", n.name), Ref("low", n.start), Ref("high", n.end)>>
           [] n.kind = "var"        -> <<Ref("variable", n.name), Ref("type", n.type)>>
           [] n.kind = "function"   -> <<Ref("function", n.head.name)>>
           [] n.kind = "register"   -> <<Ref("register", n.head.name), Ref("address", n.head.offset)>>
           [] n.kind = "peripheral" -> <<Ref("peripheral", n.head.name), Ref("address", n.head.base)>>
           [] OTHER                 -> <<>>
    [] w = "PERIPHERAL" -> IF n.kind = "peripheral" THEN <<n.head.name>> ELSE <<>>
    [] w = "REGISTER"   -> IF n.kind = "register" THEN <<n.head.name>> ELSE <<>>
    [] w = "FIELD"      -> IF n.kind = "field" THEN <<n.name>> ELSE <<>>
    [] OTHER            -> None(w)

\* The nodes whose kids are measured with them, with the statement behind '='.
Outer(w) ==
  CASE w \in {"objects", "refs"}           -> KidKinds \cup {"single"}
    [] w = "types"                         -> (KidKinds \cup {"single"}) \ {"register"}
    [] w \in {"functions", "PERIPHERAL"}   -> {"program"}
    [] w = "REGISTER"                      -> {"program", "peripheral"}
    [] w = "FIELD"                         -> {"program", "peripheral", "register"}
    [] OTHER                               -> {}

\* The nodes below one that are measured with it.
Parts(w, n) ==
  CASE n.kind \in Outer(w) -> n.kids
    [] n.kind = "unary"  /\ w \in {"objects", "refs"} -> <<n.operand>>
    [] n.kind = "binary" /\ w \in {"objects", "refs"} -> <<n.left, n.right>>
    [] n.kind = "call"   /\ w \in {"objects", "refs"} -> <<n.func>> \o n.args
    [] n.kind = "var"    /\ w \in {"objects", "refs"} -> <<n.init>>
    [] n.kind = "expr"   /\ w \in {"objects", "refs"} -> <<n.expr>>
    [] n.kind = "return" /\ w \in {"objects", "refs"} -> <<n.value>>
    [] OTHER             -> <<>>

\* What is measured of the nodes of an array, with f the measure of each.
Below(w, f, nodes) == All(w, [k \in 1..Len(nodes) |-> f[nodes[k]]])

Meas(w, f, n) == Plus(w, Own(w, n), Below(w, f, Parts(w, n)))

\* The measure of all trees up to a height.
Measures(w, h, f) == f = [t \in Trees[h] |-> Meas(w, f, t)]
Amount(w, h) == CHOOSE f : Measures(w, h, f)

LEMMA OwnAmount ==
  ASSUME NEW w, NEW n
  PROVE  IsAmount(w, Own(w, n))
<1>1. \A x, y, z : Listed(<<x>>) /\ Listed(<<x, y>>) /\ Listed(<<x, y, z>>)
  <2>. SUFFICES ASSUME NEW x, NEW y, NEW z
                PROVE  Listed(<<x>>) /\ Listed(<<x, y>>) /\ Listed(<<x, y, z>>)
    OBVIOUS
  <2>1. Listed(<<x>>) /\ Listed(<<y>>) /\ Listed(<<z>>)
    BY OneListed
  <2>2. <<x, y>> = <<x>> \o <<y>> /\ <<x, y, z>> = <<x>> \o (<<y>> \o <<z>>)
    BY PairIsBehind, TripleIsBehind
  <2>3. Listed(<<y>> \o <<z>>) /\ Listed(<<x>> \o <<y>>)
    BY <2>1, ConcatEffect
  <2>4. Listed(<<x>> \o (<<y>> \o <<z>>))
    BY <2>1, <2>3, ConcatEffect
  <2>. QED
    BY <2>1, <2>2, <2>3, <2>4
<1>2. Listed(<<>>)
  BY EmptyListed
<1>3. CASE w \in Counted
  BY <1>3 DEF IsAmount, Counted, Own
<1>4. CASE w = "refs"
  BY <1>1, <1>2, <1>4 DEF IsAmount, Counted, Own
<1>5. CASE w \in {"PERIPHERAL", "REGISTER", "FIELD"}
  BY <1>1, <1>2, <1>5 DEF IsAmount, Counted, Own
<1>6. CASE w \notin Counted \cup {"refs", "PERIPHERAL", "REGISTER", "FIELD"}
  BY <1>2, <1>6 DEF IsAmount, Counted, Own, None
<1>. QED
  BY <1>3, <1>4, <1>5, <1>6

LEMMA OuterKinds ==
  ASSUME NEW w
  PROVE  Outer(w) \subseteq KidKinds \cup {"single"}
<1>1. CASE w \in {"objects", "refs"}
  BY <1>1 DEF Outer
<1>2. CASE w \in {"types", "functions", "PERIPHERAL"}
  BY <1>2 DEF Outer, KidKinds
<1>3. CASE w \in {"REGISTER", "FIELD"}
  BY <1>3 DEF Outer, KidKinds
<1>4. CASE w \notin {"objects", "refs", "types", "functions", "PERIPHERAL", "REGISTER", "FIELD"}
  BY <1>4 DEF Outer
<1>. QED
  BY <1>1, <1>2, <1>3, <1>4

\* The parts of a node are the nodes below it.
LEMMA PartsBelow ==
  ASSUME NEW T, NEW w, NEW n \in Leaves \cup Above(T)
  PROVE  Parts(w, n) \in Seq(T)
<1>1. n.kind # "single" /\ Outer(w) \subseteq KidKinds \cup {"single"} /\ <<>> \in Seq(T)
  <2>1. n.kind # "single"
    BY NodeShapes DEF KidKinds, LeafKinds
  <2>2. Outer(w) \subseteq KidKinds \cup {"single"}
    BY OuterKinds
  <2>. QED
    BY <2>1, <2>2
<1>2. CASE n.kind \in Outer(w)
  <2>1. n.kids \in Seq(T)
    BY <1>1, <1>2, NodeShapes
  <2>2. n.kind \notin {"unary", "binary", "call", "var", "expr", "return"}
    BY <1>2, <1>1 DEF KidKinds
  <2>. QED
    BY <1>2, <2>1, <2>2 DEF Parts
<1>3. CASE n.kind \notin Outer(w) /\ n.kind = "call"
  <2>1. <<n.func>> \in Seq(T) /\ n.args \in Seq(T)
    BY <1>3, NodeShapes
  <2>2. <<n.func>> \o n.args \in Seq(T)
    BY <2>1, ConcatProperties
  <2>. QED
    BY <1>1, <1>3, <2>2 DEF Parts
<1>4. CASE n.kind \notin Outer(w) /\ n.kind = "binary"
  <2>1. n.left \in T /\ n.right \in T
    BY <1>4, NodeShapes
  <2>2. <<n.left, n.right>> \in Seq(T)
    BY <2>1
  <2>. QED
    BY <1>1, <1>4, <2>2 DEF Parts
<1>5. CASE n.kind \notin Outer(w) /\ n.kind \in {"unary", "var", "expr", "return"}
  <2>1. /\ n.kind = "unary" => <<n.operand>> \in Seq(T)
        /\ n.kind = "var" => <<n.init>> \in Seq(T)
        /\ n.kind = "expr" => <<n.expr>> \in Seq(T)
        /\ n.kind = "return" => <<n.value>> \in Seq(T)
    BY NodeShapes
  <2>. QED
    BY <1>1, <1>5, <2>1 DEF Parts
<1>6. CASE n.kind \notin Outer(w) /\ n.kind \notin {"call", "binary", "unary", "var", "expr", "return"}
  BY <1>1, <1>6 DEF Parts
<1>. QED
  BY <1>2, <1>3, <1>4, <1>5, <1>6

\* The measures of the nodes of an array.
LEMMA BelowAmount ==
  ASSUME NEW w, NEW T, NEW nodes \in Seq(T), NEW f, \A t \in T : IsAmount(w, f[t])
  PROVE  /\ Amounts(w, [k \in 1..Len(nodes) |-> f[nodes[k]]])
         /\ IsAmount(w, Below(w, f, nodes))
<1>. DEFINE s == [k \in 1..Len(nodes) |-> f[nodes[k]]]
<1>1. Len(nodes) \in Nat /\ \A k \in 1..Len(nodes) : nodes[k] \in T
  OBVIOUS
<1>2. s = [k \in 1..Len(nodes) |-> s[k]]
  OBVIOUS
<1>3. \A k \in 1..Len(nodes) : IsAmount(w, s[k])
  BY <1>1
<1>. HIDE DEF s
<1>4. Listed(s) /\ Len(s) = Len(nodes)
  BY <1>1, <1>2, ListOf
<1>5. Amounts(w, s)
  BY <1>3, <1>4 DEF Amounts
<1>6. Below(w, f, nodes) = All(w, s)
  BY DEF Below, s
<1>. QED
  BY <1>5, <1>6, AllAmount DEF s

LEMMA MeasAmount ==
  ASSUME NEW w, NEW T, NEW n \in Leaves \cup Above(T), NEW f, \A t \in T : IsAmount(w, f[t])
  PROVE  IsAmount(w, Meas(w, f, n))
<1>1. IsAmount(w, Below(w, f, Parts(w, n)))
  BY PartsBelow, BelowAmount
<1>. QED
  BY <1>1, OwnAmount, PlusAmount DEF Meas

\* They depend on those of the nodes only.
LEMMA BelowAgree ==
  ASSUME NEW w, NEW T, NEW nodes \in Seq(T), NEW f, NEW g, \A t \in T : f[t] = g[t]
  PROVE  Below(w, f, nodes) = Below(w, g, nodes)
<1>1. \A k \in 1..Len(nodes) : nodes[k] \in T
  OBVIOUS
<1>2. [k \in 1..Len(nodes) |-> f[nodes[k]]] = [k \in 1..Len(nodes) |-> g[nodes[k]]]
  BY <1>1
<1>. QED
  BY <1>2 DEF Below

LEMMA MeasAgree ==
  ASSUME NEW w, NEW T, NEW n \in Leaves \cup Above(T), NEW f, NEW g, \A t \in T : f[t] = g[t]
  PROVE  Meas(w, f, n) = Meas(w, g, n)
<1>1. Parts(w, n) \in Seq(T)
  BY PartsBelow
<1>. DEFINE nodes == Parts(w, n)
<1>. HIDE DEF nodes
<1>2. nodes \in Seq(T)
  BY <1>1 DEF nodes
<1>3. Below(w, f, nodes) = Below(w, g, nodes)
  BY <1>2, BelowAgree
<1>. QED
  BY <1>3 DEF Meas, nodes

\* Every tree is a leaf or above lower ones.
LEMMA TreeStep ==
  ASSUME NEW h \in Nat
  PROVE  /\ Trees[0] \subseteq Leaves \cup Above({})
         /\ Trees[h + 1] = Leaves \cup Above(Trees[h])
BY TreesEquation

LEMMA MeasuresExist ==
  ASSUME NEW w
  PROVE  \A h \in Nat : \E f : Measures(w, h, f)
<1>. DEFINE S == {h \in Nat : \E f : Measures(w, h, f)}
<1>1. 0 \in S
  <2>. DEFINE f == [t \in Trees[0] |-> Meas(w, <<>>, t)]
  <2>1. ASSUME NEW t \in Trees[0] PROVE f[t] = Meas(w, f, t)
    <3>1. t \in Leaves \cup Above({})
      BY TreesEquation
    <3>2. Meas(w, f, t) = Meas(w, <<>>, t)
      BY <3>1, MeasAgree
    <3>. QED
      BY <3>2
  <2>2. f = [t \in Trees[0] |-> f[t]]
    OBVIOUS
  <2>. HIDE DEF f
  <2>3. f = [t \in Trees[0] |-> Meas(w, f, t)]
    BY <2>1, <2>2
  <2>. QED
    BY <2>3 DEF Measures
<1>2. ASSUME NEW h \in Nat, h \in S PROVE h + 1 \in S
  <2>1. PICK f : Measures(w, h, f)
    BY <1>2
  <2>. DEFINE g == [t \in Trees[h + 1] |-> Meas(w, f, t)]
  <2>2. \A t \in Trees[h] : g[t] = f[t]
    <3>1. Trees[h] \subseteq Trees[h + 1]
      BY TreesGrow
    <3>2. \A t \in Trees[h] : f[t] = Meas(w, f, t)
      BY <2>1 DEF Measures
    <3>. QED
      BY <3>1, <3>2
  <2>3. ASSUME NEW t \in Trees[h + 1] PROVE g[t] = Meas(w, g, t)
    <3>. HIDE DEF g
    <3>1. t \in Leaves \cup Above(Trees[h])
      BY TreesEquation
    <3>2. Meas(w, g, t) = Meas(w, f, t)
      BY <2>2, <3>1, MeasAgree
    <3>. QED
      BY <3>2 DEF g
  <2>4. g = [t \in Trees[h + 1] |-> g[t]]
    OBVIOUS
  <2>. HIDE DEF g
  <2>5. g = [t \in Trees[h + 1] |-> Meas(w, g, t)]
    BY <2>3, <2>4
  <2>. QED
    BY <2>5 DEF Measures
<1>. HIDE DEF S
<1>. QED
  BY <1>1, <1>2, Induction DEF S

\* The measure of a tree is its own and that of its parts.
LEMMA AmountEquation ==
  ASSUME NEW w, NEW h \in Nat
  PROVE  \A t \in Trees[h] : /\ Amount(w, h)[t] = Meas(w, Amount(w, h), t)
                             /\ IsAmount(w, Amount(w, h)[t])
<1>. DEFINE f == Amount(w, h)
<1>1. Measures(w, h, f)
  BY MeasuresExist DEF Amount
<1>. HIDE DEF f
<1>2. \A t \in Trees[h] : f[t] = Meas(w, f, t)
  BY <1>1 DEF Measures
<1>. DEFINE S == {k \in Nat : k <= h => \A t \in Trees[k] : IsAmount(w, f[t])}
<1>3. 0 \in S
  <2>. SUFFICES ASSUME NEW t \in Trees[0] PROVE IsAmount(w, f[t])
    OBVIOUS
  <2>1. t \in Leaves \cup Above({}) /\ t \in Trees[h]
    BY TreesEquation, TreesMonotonic
  <2>2. IsAmount(w, Meas(w, f, t))
    BY <2>1, MeasAmount
  <2>. QED
    BY <1>2, <2>1, <2>2
<1>4. ASSUME NEW k \in Nat, k \in S PROVE k + 1 \in S
  <2>. SUFFICES ASSUME k + 1 <= h, NEW t \in Trees[k + 1] PROVE IsAmount(w, f[t])
    OBVIOUS
  <2>1. t \in Leaves \cup Above(Trees[k]) /\ t \in Trees[h]
    BY TreesEquation, TreesMonotonic
  <2>2. \A x \in Trees[k] : IsAmount(w, f[x])
    BY <1>4
  <2>3. IsAmount(w, Meas(w, f, t))
    BY <2>1, <2>2, MeasAmount
  <2>. QED
    BY <1>2, <2>1, <2>3
<1>. HIDE DEF S
<1>5. h \in S
  BY <1>3, <1>4, Induction
<1>6. \A t \in Trees[h] : IsAmount(w, f[t])
  BY <1>5 DEF S
<1>. QED
  BY <1>2, <1>6 DEF f

-----------------------------------------------------------------------------
(* The nodes of an array, one after the other *)

LEMMA BelowNone ==
  ASSUME NEW w, NEW f
  PROVE  Below(w, f, <<>>) = None(w)
<1>. DEFINE s == [k \in 1..Len(<<>>) |-> f[<<>>[k]]]
<1>1. s = [k \in 1..0 |-> s[k]]
  BY EmptyListed
<1>. HIDE DEF s
<1>2. Listed(s) /\ Len(s) = 0
  BY <1>1, ListOf
<1>3. s = <<>>
  BY <1>2, ListedEmpty
<1>. QED
  BY <1>3, AllEmpty DEF Below, s

LEMMA BelowOne ==
  ASSUME NEW w, NEW f, NEW x, IsAmount(w, f[x])
  PROVE  Below(w, f, <<x>>) = f[x]
<1>. DEFINE s == [k \in 1..Len(<<x>>) |-> f[<<x>>[k]]]
<1>1. s = [k \in 1..1 |-> s[k]] /\ s[1] = f[x]
  BY OneListed
<1>. HIDE DEF s
<1>2. Listed(s) /\ Len(s) = 1
  BY <1>1, ListOf
<1>3. s = <<f[x]>>
  BY <1>1, <1>2, OneListed, ListEqual
<1>. QED
  BY <1>3, AllOne DEF Below, s

LEMMA BelowConcat ==
  ASSUME NEW w, NEW T, NEW a \in Seq(T), NEW b \in Seq(T), NEW f, \A t \in T : IsAmount(w, f[t])
  PROVE  /\ a \o b \in Seq(T)
         /\ Below(w, f, a \o b) = Plus(w, Below(w, f, a), Below(w, f, b))
<1>. DEFINE r == a \o b
            s == [k \in 1..Len(a) |-> f[a[k]]]
            t == [k \in 1..Len(b) |-> f[b[k]]]
            v == [k \in 1..Len(r) |-> f[r[k]]]
<1>1. Listed(a) /\ Listed(b) /\ Len(a) \in Nat /\ Len(b) \in Nat
  BY SeqIsListed
<1>2. r \in Seq(T)
  BY ConcatProperties
<1>3. /\ Len(r) = Len(a) + Len(b)
      /\ \A k \in 1..Len(a) : r[k] = a[k]
      /\ \A k \in 1..Len(b) : r[Len(a) + k] = b[k]
  BY <1>1, ConcatEffect
<1>4. Amounts(w, s) /\ Amounts(w, t)
  BY BelowAmount
<1>5. s = [k \in 1..Len(a) |-> s[k]] /\ t = [k \in 1..Len(b) |-> t[k]]
      /\ v = [k \in 1..Len(a) + Len(b) |-> v[k]]
  BY <1>3
<1>6. (\A k \in 1..Len(a) : s[k] = f[a[k]]) /\ (\A k \in 1..Len(b) : t[k] = f[b[k]])
      /\ \A k \in 1..Len(r) : v[k] = f[r[k]]
  OBVIOUS
<1>. HIDE DEF r, s, t, v
<1>7. Listed(s) /\ Len(s) = Len(a) /\ Listed(t) /\ Len(t) = Len(b)
  BY <1>1, <1>5, ListOf
<1>8. Listed(v) /\ Len(v) = Len(a) + Len(b)
  <2>1. Len(a) + Len(b) \in Nat
    BY <1>1
  <2>. QED
    BY <1>5, <2>1, ListOf
<1>9. v = s \o t
  <2>. DEFINE st == s \o t
  <2>1. /\ Listed(st) /\ Len(st) = Len(a) + Len(b)
        /\ \A k \in 1..Len(a) : st[k] = s[k]
        /\ \A k \in 1..Len(b) : st[Len(a) + k] = t[k]
    <3>1. /\ Listed(st) /\ Len(st) = Len(s) + Len(t)
          /\ \A k \in 1..Len(s) : st[k] = s[k]
          /\ \A k \in 1..Len(t) : st[Len(s) + k] = t[k]
      <4>1. Listed(s) /\ Listed(t)
        BY <1>7
      <4>. QED
        BY <4>1, ConcatEffect
    <3>. QED
      BY <1>7, <3>1
  <2>. HIDE DEF st
  <2>2. ASSUME NEW k \in 1..Len(v) PROVE v[k] = st[k]
    <3>1. CASE k <= Len(a)
      <4>1. k \in 1..Len(a) /\ k \in 1..Len(r)
        BY <1>1, <1>3, <1>8, <3>1
      <4>. QED
        BY <1>3, <1>6, <2>1, <4>1
    <3>2. CASE k > Len(a)
      <4>1. k - Len(a) \in 1..Len(b) /\ Len(a) + (k - Len(a)) = k /\ k \in 1..Len(r)
        BY <1>1, <1>3, <1>8, <3>2
      <4>2. r[Len(a) + (k - Len(a))] = b[k - Len(a)] /\ st[Len(a) + (k - Len(a))] = t[k - Len(a)]
        BY <1>3, <2>1, <4>1
      <4>3. v[k] = f[r[k]] /\ t[k - Len(a)] = f[b[k - Len(a)]]
        BY <1>6, <4>1
      <4>4. r[k] = b[k - Len(a)] /\ st[k] = t[k - Len(a)]
        BY <4>1, <4>2
      <4>. QED
        BY <4>3, <4>4
    <3>3. k \in Nat /\ Len(a) \in Nat
      BY <1>1, <1>8
    <3>. QED
      BY <3>1, <3>2, <3>3
  <2>. QED
    BY <1>8, <2>1, <2>2, ListEqual DEF st
<1>10. All(w, v) = Plus(w, All(w, s), All(w, t))
  BY <1>4, <1>9, AllConcat
<1>. QED
  BY <1>2, <1>10 DEF Below, r, s, t, v

LEMMA BelowAppend ==
  ASSUME NEW w, NEW T, NEW a \in Seq(T), NEW x \in T, NEW f, \A t \in T : IsAmount(w, f[t])
  PROVE  /\ Append(a, x) \in Seq(T)
         /\ Below(w, f, Append(a, x)) = Plus(w, Below(w, f, a), f[x])
<1>1. <<x>> \in Seq(T) /\ Append(a, x) = a \o <<x>>
  BY AppendIsBehind, SeqIsListed
<1>2. Below(w, f, <<x>>) = f[x]
  BY BelowOne
<1>. DEFINE b == <<x>>
<1>. HIDE DEF b
<1>4. b \in Seq(T)
  BY <1>1 DEF b
<1>3. /\ a \o b \in Seq(T)
      /\ Below(w, f, a \o b) = Plus(w, Below(w, f, a), Below(w, f, b))
  BY <1>4, BelowConcat
<1>. QED
  BY <1>1, <1>2, <1>3 DEF b

LEMMA BelowPair ==
  ASSUME NEW w, NEW T, NEW x \in T, NEW y \in T, NEW f, \A t \in T : IsAmount(w, f[t])
  PROVE  Below(w, f, <<x, y>>) = Plus(w, f[x], f[y])
<1>1. <<x>> \in Seq(T) /\ <<y>> \in Seq(T) /\ <<x, y>> = <<x>> \o <<y>>
  BY PairIsBehind
<1>2. Below(w, f, <<x>>) = f[x] /\ Below(w, f, <<y>>) = f[y]
  BY BelowOne
<1>. DEFINE a == <<x>>
            b == <<y>>
<1>. HIDE DEF a, b
<1>3. a \in Seq(T) /\ b \in Seq(T)
  BY <1>1 DEF a, b
<1>4. Below(w, f, a \o b) = Plus(w, Below(w, f, a), Below(w, f, b))
  BY <1>3, BelowConcat
<1>. QED
  BY <1>1, <1>2, <1>4 DEF a, b

LEMMA BelowPush ==
  ASSUME NEW w, NEW T, NEW x \in T, NEW b \in Seq(T), NEW f, \A t \in T : IsAmount(w, f[t])
  PROVE  Below(w, f, <<x>> \o b) = Plus(w, f[x], Below(w, f, b))
<1>1. <<x>> \in Seq(T)
  OBVIOUS
<1>2. Below(w, f, <<x>>) = f[x]
  BY BelowOne
<1>. DEFINE a == <<x>>
<1>. HIDE DEF a
<1>3. a \in Seq(T)
  BY <1>1 DEF a
<1>4. Below(w, f, a \o b) = Plus(w, Below(w, f, a), Below(w, f, b))
  BY <1>3, BelowConcat
<1>. QED
  BY <1>2, <1>4 DEF a

-----------------------------------------------------------------------------
(* What the loops over the tree compute *)

\* The measure of a node of each kind, for what is measured of expressions too.
ByKind(w, f, n, measure) ==
  /\ n.kind \in LeafKinds => measure = Own(w, n)
  /\ n.kind = "unary"  => measure = Plus(w, Own(w, n), f[n.operand])
  /\ n.kind = "binary" => measure = Plus(w, Own(w, n), Plus(w, f[n.left], f[n.right]))
  /\ n.kind = "call"   => measure = Plus(w, Own(w, n), Plus(w, f[n.func], Below(w, f, n.args)))
  /\ n.kind = "var"    => measure = Plus(w, Own(w, n), f[n.init])
  /\ n.kind = "expr"   => measure = Plus(w, Own(w, n), f[n.expr])
  /\ n.kind = "return" => measure = Plus(w, Own(w, n), f[n.value])
  /\ n.kind \in KidKinds => measure = Plus(w, Own(w, n), Below(w, f, n.kids))

LEMMA MeasByKind ==
  ASSUME NEW w \in {"objects", "refs"}, NEW T, NEW n \in Leaves \cup Above(T),
         NEW f, \A t \in T : IsAmount(w, f[t])
  PROVE  ByKind(w, f, n, Meas(w, f, n))
<1>1. Outer(w) = KidKinds \cup {"single"}
  BY DEF Outer
<1>2. CASE n.kind \in LeafKinds
  <2>1. Parts(w, n) = <<>>
    BY <1>1, <1>2 DEF Parts, LeafKinds, KidKinds
  <2>2. Meas(w, f, n) = Own(w, n)
    BY <2>1, BelowNone, OwnAmount, PlusNone DEF Meas
  <2>. QED
    BY <1>2, <2>2 DEF ByKind, LeafKinds, KidKinds
<1>3. CASE n.kind = "unary"
  <2>1. Parts(w, n) = <<n.operand>>
    BY <1>1, <1>3 DEF Parts, KidKinds
  <2>2. IsAmount(w, f[n.operand])
    BY <1>3, NodeShapes
  <2>3. Meas(w, f, n) = Plus(w, Own(w, n), f[n.operand])
    BY <2>1, <2>2, BelowOne DEF Meas
  <2>. QED
    BY <1>3, <2>3 DEF ByKind, LeafKinds, KidKinds
<1>4. CASE n.kind = "binary"
  <2>1. Parts(w, n) = <<n.left, n.right>>
    BY <1>1, <1>4 DEF Parts, KidKinds
  <2>2. n.left \in T /\ n.right \in T
    BY <1>4, NodeShapes
  <2>3. Below(w, f, <<n.left, n.right>>) = Plus(w, f[n.left], f[n.right])
    BY <2>2, BelowPair
  <2>4. Meas(w, f, n) = Plus(w, Own(w, n), Plus(w, f[n.left], f[n.right]))
    BY <2>1, <2>3 DEF Meas
  <2>. QED
    BY <1>4, <2>4 DEF ByKind, LeafKinds, KidKinds
<1>5. CASE n.kind = "call"
  <2>1. Parts(w, n) = <<n.func>> \o n.args
    BY <1>1, <1>5 DEF Parts, KidKinds
  <2>2. n.func \in T /\ n.args \in Seq(T)
    BY <1>5, NodeShapes
  <2>3. Below(w, f, <<n.func>> \o n.args) = Plus(w, f[n.func], Below(w, f, n.args))
    BY <2>2, BelowPush
  <2>4. Meas(w, f, n) = Plus(w, Own(w, n), Plus(w, f[n.func], Below(w, f, n.args)))
    BY <2>1, <2>3 DEF Meas
  <2>. QED
    BY <1>5, <2>4 DEF ByKind, LeafKinds, KidKinds
<1>6. CASE n.kind = "var"
  <2>1. Parts(w, n) = <<n.init>>
    BY <1>1, <1>6 DEF Parts, KidKinds
  <2>2. IsAmount(w, f[n.init])
    BY <1>6, NodeShapes
  <2>3. Meas(w, f, n) = Plus(w, Own(w, n), f[n.init])
    BY <2>1, <2>2, BelowOne DEF Meas
  <2>. QED
    BY <1>6, <2>3 DEF ByKind, LeafKinds, KidKinds
<1>7. CASE n.kind = "expr"
  <2>1. Parts(w, n) = <<n.expr>>
    BY <1>1, <1>7 DEF Parts, KidKinds
  <2>2. IsAmount(w, f[n.expr])
    BY <1>7, NodeShapes
  <2>3. Meas(w, f, n) = Plus(w, Own(w, n), f[n.expr])
    BY <2>1, <2>2, BelowOne DEF Meas
  <2>. QED
    BY <1>7, <2>3 DEF ByKind, LeafKinds, KidKinds
<1>8. CASE n.kind = "return"
  <2>1. Parts(w, n) = <<n.value>>
    BY <1>1, <1>8 DEF Parts, KidKinds
  <2>2. IsAmount(w, f[n.value])
    BY <1>8, NodeShapes
  <2>3. Meas(w, f, n) = Plus(w, Own(w, n), f[n.value])
    BY <2>1, <2>2, BelowOne DEF Meas
  <2>. QED
    BY <1>8, <2>3 DEF ByKind, LeafKinds, KidKinds
<1>9. CASE n.kind \in KidKinds
  <2>1. Parts(w, n) = n.kids
    BY <1>1, <1>9 DEF Parts, KidKinds
  <2>2. Meas(w, f, n) = Plus(w, Own(w, n), Below(w, f, n.kids))
    BY <2>1 DEF Meas
  <2>. QED
    BY <1>9, <2>2 DEF ByKind, LeafKinds, KidKinds
<1>10. n.kind \in LeafKinds \cup KidKinds \cup {"unary", "binary", "call", "var", "expr", "return"}
  BY NodeShapes
<1>. QED
  BY <1>2, <1>3, <1>4, <1>5, <1>6, <1>7, <1>8, <1>9, <1>10

LEMMA FreedIsMeas ==
  ASSUME NEW T, NEW n \in Leaves \cup Above(T), NEW f, \A t \in T : IsAmount("objects", f[t])
  PROVE  FreedOf(f, n) = Meas("objects", f, n)
<1>. DEFINE w == "objects"
<1>0. "objects" \in Counted /\ \A t \in T : f[t] \in Nat
  BY DEF Counted, IsAmount
<1>1. \A s : AllFreed(f, s) = Below(w, f, s)
  BY <1>0 DEF AllFreed, Below, All
<1>2. \A a, b : Plus(w, a, b) = a + b
  BY <1>0 DEF Plus
<1>3. CASE n.kind \in LeafKinds
  <2>1. Meas(w, f, n) = Own(w, n)
    BY <1>3, MeasByKind DEF ByKind
  <2>. QED
    BY <1>3, <2>1 DEF LeafKinds, FreedOf, Own
<1>4. CASE n.kind = "unary"
  <2>1. Meas(w, f, n) = Plus(w, Own(w, n), f[n.operand])
    BY <1>4, MeasByKind DEF ByKind
  <2>. QED
    BY <1>2, <1>4, <2>1 DEF FreedOf, Own
<1>5. CASE n.kind = "binary"
  <2>1. Meas(w, f, n) = Plus(w, Own(w, n), Plus(w, f[n.left], f[n.right]))
    BY <1>5, MeasByKind DEF ByKind
  <2>2. f[n.left] \in Nat /\ f[n.right] \in Nat
    BY <1>0, <1>5, NodeShapes
  <2>. QED
    BY <1>2, <1>5, <2>1, <2>2 DEF FreedOf, Own
<1>6. CASE n.kind = "call"
  <2>1. Meas(w, f, n) = Plus(w, Own(w, n), Plus(w, f[n.func], Below(w, f, n.args)))
    BY <1>6, MeasByKind DEF ByKind
  <2>2. f[n.func] \in Nat /\ Below(w, f, n.args) \in Nat
    <3>1. n.func \in T /\ n.args \in Seq(T)
      BY <1>6, NodeShapes
    <3>2. IsAmount(w, Below(w, f, n.args))
      BY <3>1, BelowAmount
    <3>. QED
      BY <1>0, <3>1, <3>2 DEF IsAmount
  <2>. QED
    BY <1>1, <1>2, <1>6, <2>1, <2>2 DEF FreedOf, FreedCall, Own
<1>7. CASE n.kind = "var"
  <2>1. Meas(w, f, n) = Plus(w, Own(w, n), f[n.init])
    BY <1>7, MeasByKind DEF ByKind
  <2>. QED
    BY <1>2, <1>7, <2>1 DEF FreedOf, Own
<1>8. CASE n.kind = "expr"
  <2>1. Meas(w, f, n) = Plus(w, Own(w, n), f[n.expr])
    BY <1>8, MeasByKind DEF ByKind
  <2>. QED
    BY <1>2, <1>8, <2>1 DEF FreedOf, Own
<1>9. CASE n.kind = "return"
  <2>1. Meas(w, f, n) = Plus(w, Own(w, n), f[n.value])
    BY <1>9, MeasByKind DEF ByKind
  <2>. QED
    BY <1>2, <1>9, <2>1 DEF FreedOf, Own
<1>10. CASE n.kind \in KidKinds
  <2>1. Meas(w, f, n) = Plus(w, Own(w, n), Below(w, f, n.kids))
    BY <1>10, MeasByKind DEF ByKind
  <2>. QED
    BY <1>1, <1>2, <1>10, <2>1 DEF FreedOf, Own, KidKinds
<1>11. n.kind \in LeafKinds \cup KidKinds \cup {"unary", "binary", "call", "var", "expr", "return"}
  BY NodeShapes
<1>. QED
  BY <1>3, <1>4, <1>5, <1>6, <1>7, <1>8, <1>9, <1>10, <1>11

LEMMA FreedTypesIsMeas ==
  ASSUME NEW T, NEW n \in Leaves \cup Above(T), NEW f, \A t \in T : IsAmount("types", f[t])
  PROVE  FreedTypesOf(f, n) = Meas("types", f, n)
<1>. DEFINE w == "types"
<1>0. "types" \in Counted /\ \A t \in T : f[t] \in Nat
  BY DEF Counted, IsAmount
<1>1. \A s : AllFreed(f, s) = Below(w, f, s)
  BY <1>0 DEF AllFreed, Below, All
<1>2. \A a, b : Plus(w, a, b) = a + b
  BY <1>0 DEF Plus
<1>3. Outer(w) = {"block", "program", "function", "peripheral", "single"}
  BY DEF Outer, KidKinds
<1>4. CASE n.kind \in {"block", "program", "function", "peripheral"}
  <2>1. Parts(w, n) = n.kids /\ Own(w, n) = 0
    BY <1>3, <1>4 DEF Parts, Own
  <2>2. Below(w, f, n.kids) \in Nat
    <3>1. n.kids \in Seq(T)
      BY <1>4, NodeShapes DEF KidKinds
    <3>2. IsAmount(w, Below(w, f, n.kids))
      BY <3>1, BelowAmount
    <3>. QED
      BY <1>0, <3>2 DEF IsAmount
  <2>. QED
    BY <1>1, <1>2, <1>4, <2>1, <2>2 DEF FreedTypesOf, Meas
<1>5. CASE n.kind \notin {"block", "program", "function", "peripheral"}
  <2>1. n.kind # "single"
    BY NodeShapes DEF KidKinds, LeafKinds
  <2>2. Parts(w, n) = <<>>
    BY <1>3, <1>5, <2>1 DEF Parts
  <2>3. Below(w, f, Parts(w, n)) = 0
    BY <1>0, <2>2, BelowNone DEF None
  <2>. QED
    BY <1>2, <1>5, <2>3 DEF FreedTypesOf, Meas, Own
<1>. QED
  BY <1>4, <1>5

LEMMA RefsIsMeas ==
  ASSUME NEW T, NEW n \in Leaves \cup Above(T), NEW f, \A t \in T : IsAmount("refs", f[t])
  PROVE  RefsOf(f, n) = Meas("refs", f, n)
<1>. DEFINE w == "refs"
<1>0. "refs" \notin Counted /\ (\A t \in T : Listed(f[t])) /\ Listed(<<>>)
  BY EmptyListed DEF Counted, IsAmount
<1>1. \A s : AllRefs(f, s) = Below(w, f, s)
  BY <1>0 DEF AllRefs, Below, All
<1>2. \A a, b : Plus(w, a, b) = a \o b
  BY <1>0 DEF Plus
<1>3. CASE n.kind \in LeafKinds
  <2>1. Meas(w, f, n) = Own(w, n)
    BY <1>3, MeasByKind DEF ByKind
  <2>. QED
    BY <1>3, <2>1 DEF LeafKinds, RefsOf, Own
<1>4. CASE n.kind = "unary"
  <2>1. Meas(w, f, n) = Plus(w, Own(w, n), f[n.operand])
    BY <1>4, MeasByKind DEF ByKind
  <2>2. Own(w, n) = <<>> /\ Listed(f[n.operand])
    BY <1>0, <1>4, NodeShapes DEF Own
  <2>3. Meas(w, f, n) = f[n.operand]
    BY <1>2, <2>1, <2>2, ConcatUnits
  <2>. QED
    BY <1>4, <2>3 DEF RefsOf
<1>5. CASE n.kind = "binary"
  <2>1. Meas(w, f, n) = Plus(w, Own(w, n), Plus(w, f[n.left], f[n.right]))
    BY <1>5, MeasByKind DEF ByKind
  <2>2. Own(w, n) = <<>> /\ Listed(f[n.left]) /\ Listed(f[n.right])
    BY <1>0, <1>5, NodeShapes DEF Own
  <2>3. Listed(f[n.left] \o f[n.right])
    BY <2>2, ConcatEffect
  <2>. DEFINE ab == f[n.left] \o f[n.right]
  <2>5. Meas(w, f, n) = <<>> \o ab
    BY <1>2, <2>1, <2>2
  <2>. HIDE DEF ab
  <2>6. Listed(ab)
    BY <2>3 DEF ab
  <2>7. <<>> \o ab = ab
    BY <2>6, ConcatUnits
  <2>4. Meas(w, f, n) = f[n.left] \o f[n.right]
    BY <2>5, <2>7 DEF ab
  <2>. QED
    BY <1>5, <2>4 DEF RefsOf
<1>6. CASE n.kind = "call"
  <2>1. Meas(w, f, n) = Plus(w, Own(w, n), Plus(w, f[n.func], Below(w, f, n.args)))
    BY <1>6, MeasByKind DEF ByKind
  <2>2. Own(w, n) = <<>> /\ Listed(f[n.func]) /\ Listed(Below(w, f, n.args))
    <3>1. n.func \in T /\ n.args \in Seq(T)
      BY <1>6, NodeShapes
    <3>2. IsAmount(w, Below(w, f, n.args))
      BY <3>1, BelowAmount
    <3>. QED
      BY <1>0, <1>6, <3>1, <3>2 DEF IsAmount, Own
  <2>3. Listed(f[n.func] \o Below(w, f, n.args))
    BY <2>2, ConcatEffect
  <2>. DEFINE ab == f[n.func] \o Below(w, f, n.args)
  <2>5. Meas(w, f, n) = <<>> \o ab
    BY <1>2, <2>1, <2>2
  <2>. HIDE DEF ab
  <2>6. Listed(ab)
    BY <2>3 DEF ab
  <2>7. <<>> \o ab = ab
    BY <2>6, ConcatUnits
  <2>4. Meas(w, f, n) = f[n.func] \o Below(w, f, n.args)
    BY <2>5, <2>7 DEF ab
  <2>. QED
    BY <1>1, <1>6, <2>4 DEF RefsOf
<1>7. CASE n.kind = "var"
  <2>1. Meas(w, f, n) = Plus(w, Own(w, n), f[n.init])
    BY <1>7, MeasByKind DEF ByKind
  <2>. QED
    BY <1>2, <1>7, <2>1 DEF RefsOf, Own
<1>8. CASE n.kind = "expr"
  <2>1. Meas(w, f, n) = Plus(w, Own(w, n), f[n.expr])
    BY <1>8, MeasByKind DEF ByKind
  <2>2. Own(w, n) = <<>> /\ Listed(f[n.expr])
    BY <1>0, <1>8, NodeShapes DEF Own
  <2>3. Meas(w, f, n) = f[n.expr]
    BY <1>2, <2>1, <2>2, ConcatUnits
  <2>. QED
    BY <1>8, <2>3 DEF RefsOf
<1>9. CASE n.kind = "return"
  <2>1. Meas(w, f, n) = Plus(w, Own(w, n), f[n.value])
    BY <1>9, MeasByKind DEF ByKind
  <2>2. Own(w, n) = <<>> /\ Listed(f[n.value])
    BY <1>0, <1>9, NodeShapes DEF Own
  <2>3. Meas(w, f, n) = f[n.value]
    BY <1>2, <2>1, <2>2, ConcatUnits
  <2>. QED
    BY <1>9, <2>3 DEF RefsOf
<1>10. CASE n.kind \in KidKinds
  <2>1. Meas(w, f, n) = Plus(w, Own(w, n), Below(w, f, n.kids))
    BY <1>10, MeasByKind DEF ByKind
  <2>2. Listed(Below(w, f, n.kids))
    <3>1. n.kids \in Seq(T)
      BY <1>10, NodeShapes
    <3>2. IsAmount(w, Below(w, f, n.kids))
      BY <3>1, BelowAmount
    <3>. QED
      BY <1>0, <3>2 DEF IsAmount
  <2>3. <<>> \o Below(w, f, n.kids) = Below(w, f, n.kids)
    BY <2>2, ConcatUnits
  <2>4. CASE n.kind \in {"block", "program"}
    <3>1. Own(w, n) = <<>>
      BY <2>4 DEF Own
    <3>. QED
      BY <1>1, <1>2, <2>1, <2>3, <2>4, <3>1 DEF RefsOf
  <2>5. CASE n.kind \in {"function", "register", "peripheral"}
    BY <1>1, <1>2, <2>1, <2>5 DEF RefsOf, Own
  <2>. QED
    BY <1>10, <2>4, <2>5 DEF KidKinds
<1>11. n.kind \in LeafKinds \cup KidKinds \cup {"unary", "binary", "call", "var", "expr", "return"}
  BY NodeShapes
<1>. QED
  BY <1>3, <1>4, <1>5, <1>6, <1>7, <1>8, <1>9, <1>10, <1>11

Walked == {"objects", "types", "refs"}
Walk(w, f, n) == CASE w = "objects" -> FreedOf(f, n)
                   [] w = "types"   -> FreedTypesOf(f, n)
                   [] w = "refs"    -> RefsOf(f, n)
Walks(w, h, f) == f = [t \in Trees[h] |-> Walk(w, f, t)]

LEMMA WalkIsMeas ==
  ASSUME NEW w \in Walked, NEW T, NEW n \in Leaves \cup Above(T), NEW f,
         \A t \in T : IsAmount(w, f[t])
  PROVE  Walk(w, f, n) = Meas(w, f, n)
<1>1. CASE w = "objects"
  BY <1>1, FreedIsMeas DEF Walk
<1>2. CASE w = "types"
  BY <1>2, FreedTypesIsMeas DEF Walk
<1>3. CASE w = "refs"
  BY <1>3, RefsIsMeas DEF Walk
<1>. QED
  BY <1>1, <1>2, <1>3 DEF Walked

LEMMA WalkExists ==
  ASSUME NEW w \in Walked, NEW h \in Nat
  PROVE  Walks(w, h, [t \in Trees[h] |-> Amount(w, h)[t]])
<1>. DEFINE f == Amount(w, h)
            g == [t \in Trees[h] |-> f[t]]
<1>1. \A t \in Trees[h] : f[t] = Meas(w, f, t) /\ IsAmount(w, f[t])
  BY AmountEquation
<1>. HIDE DEF f
<1>2. \A t \in Trees[h] : g[t] = f[t] /\ IsAmount(w, g[t])
  BY <1>1
<1>3. g = [t \in Trees[h] |-> g[t]]
  OBVIOUS
<1>. HIDE DEF g
<1>4. ASSUME NEW t \in Trees[h] PROVE g[t] = Walk(w, g, t)
  <2>1. PICK T : T \subseteq Trees[h] /\ t \in Leaves \cup Above(T)
    <3>1. CASE h = 0
      <4>1. t \in Leaves \cup Above({})
        BY <3>1, TreesEquation
      <4>. QED
        BY <4>1
    <3>2. CASE h # 0
      <4>1. h - 1 \in Nat /\ (h - 1) + 1 = h
        BY <3>2
      <4>2. Trees[(h - 1) + 1] = Leaves \cup Above(Trees[h - 1]) /\ Trees[h - 1] \subseteq Trees[(h - 1) + 1]
        BY <4>1, TreesEquation, TreesGrow
      <4>. QED
        BY <4>1, <4>2
    <3>. QED
      BY <3>1, <3>2
  <2>2. Walk(w, g, t) = Meas(w, g, t)
    BY <1>2, <2>1, WalkIsMeas
  <2>3. \A x \in T : g[x] = f[x]
    BY <1>2, <2>1
  <2>4. Meas(w, g, t) = Meas(w, f, t)
    BY <2>1, <2>3, MeasAgree
  <2>. QED
    BY <1>1, <1>2, <2>2, <2>4
<1>5. g = [t \in Trees[h] |-> Walk(w, g, t)]
  BY <1>3, <1>4
<1>. QED
  BY <1>5 DEF Walks, g, f

LEMMA WalkIsAmount ==
  ASSUME NEW w \in Walked, NEW h \in Nat, NEW g, Walks(w, h, g), NEW n \in Trees[h]
  PROVE  g[n] = Amount(w, h)[n]
<1>. DEFINE f == Amount(w, h)
<1>1. \A t \in Trees[h] : f[t] = Meas(w, f, t) /\ IsAmount(w, f[t])
  BY AmountEquation
<1>. HIDE DEF f
<1>2. \A t \in Trees[h] : g[t] = Walk(w, g, t)
  BY DEF Walks
<1>. DEFINE S == {k \in Nat : k <= h => \A t \in Trees[k] : g[t] = f[t]}
<1>3. 0 \in S
  <2>. SUFFICES ASSUME NEW t \in Trees[0] PROVE g[t] = f[t]
    OBVIOUS
  <2>1. t \in Leaves \cup Above({}) /\ t \in Trees[h]
    BY TreesEquation, TreesMonotonic
  <2>2. Walk(w, g, t) = Meas(w, g, t)
    BY <2>1, WalkIsMeas
  <2>3. Meas(w, g, t) = Meas(w, f, t)
    BY <2>1, MeasAgree
  <2>. QED
    BY <1>1, <1>2, <2>1, <2>2, <2>3
<1>4. ASSUME NEW k \in Nat, k \in S PROVE k + 1 \in S
  <2>. SUFFICES ASSUME k + 1 <= h, NEW t \in Trees[k + 1] PROVE g[t] = f[t]
    OBVIOUS
  <2>1. t \in Leaves \cup Above(Trees[k]) /\ t \in Trees[h] /\ Trees[k] \subseteq Trees[h]
    BY TreesEquation, TreesMonotonic
  <2>2. \A x \in Trees[k] : g[x] = f[x] /\ IsAmount(w, g[x])
    BY <1>1, <1>4, <2>1
  <2>3. Walk(w, g, t) = Meas(w, g, t)
    BY <2>1, <2>2, WalkIsMeas
  <2>4. Meas(w, g, t) = Meas(w, f, t)
    BY <2>1, <2>2, MeasAgree
  <2>. QED
    BY <1>1, <1>2, <2>1, <2>3, <2>4
<1>. HIDE DEF S
<1>5. h \in S
  BY <1>3, <1>4, Induction
<1>. QED
  BY <1>5 DEF S, f

\* What is freed of a tree, and what it refers to, are measures of it.
LEMMA WalkedAmounts ==
  ASSUME NEW h \in Nat, NEW n \in Trees[h]
  PROVE  /\ FreedObjects(h, n) = Amount("objects", h)[n]
         /\ FreedTypes(h, n) = Amount("types", h)[n]
         /\ Frontier(h, n) = Amount("refs", h)[n]
<1>1. FreedObjects(h, n) = Amount("objects", h)[n]
  <2>. DEFINE Is(f) == f = [t \in Trees[h] |-> FreedOf(f, t)]
              g == CHOOSE f : Is(f)
  <2>1. FreedObjects(h, n) = g[n]
    BY DEF FreedObjects
  <2>2. \A f : Walks("objects", h, f) <=> Is(f)
    BY DEF Walks, Walk
  <2>3. \E f : Is(f)
    BY <2>2, WalkExists DEF Walked
  <2>4. Is(g)
    BY <2>3
  <2>. HIDE DEF g, Is
  <2>5. Walks("objects", h, g)
    BY <2>2, <2>4
  <2>. QED
    BY <2>1, <2>5, WalkIsAmount DEF Walked
<1>2. FreedTypes(h, n) = Amount("types", h)[n]
  <2>. DEFINE Is(f) == f = [t \in Trees[h] |-> FreedTypesOf(f, t)]
              g == CHOOSE f : Is(f)
  <2>1. FreedTypes(h, n) = g[n]
    BY DEF FreedTypes
  <2>2. \A f : Walks("types", h, f) <=> Is(f)
    BY DEF Walks, Walk
  <2>3. \E f : Is(f)
    BY <2>2, WalkExists DEF Walked
  <2>4. Is(g)
    BY <2>3
  <2>. HIDE DEF g, Is
  <2>5. Walks("types", h, g)
    BY <2>2, <2>4
  <2>. QED
    BY <2>1, <2>5, WalkIsAmount DEF Walked
<1>3. Frontier(h, n) = Amount("refs", h)[n]
  <2>. DEFINE Is(f) == f = [t \in Trees[h] |-> RefsOf(f, t)]
              g == CHOOSE f : Is(f)
  <2>1. Frontier(h, n) = g[n]
    BY DEF Frontier
  <2>2. \A f : Walks("refs", h, f) <=> Is(f)
    BY DEF Walks, Walk
  <2>3. \E f : Is(f)
    BY <2>2, WalkExists DEF Walked
  <2>4. Is(g)
    BY <2>3
  <2>. HIDE DEF g, Is
  <2>5. Walks("refs", h, g)
    BY <2>2, <2>4
  <2>. QED
    BY <2>1, <2>5, WalkIsAmount DEF Walked
<1>. QED
  BY <1>1, <1>2, <1>3

-----------------------------------------------------------------------------
(* Lists of lists *)

\* What is measured of lists behind each other is what is measured of each.
LEMMA BelowFlat ==
  ASSUME NEW w, NEW T, NEW f, \A t \in T : IsAmount(w, f[t]),
         NEW s, Listed(s), \A k \in 1..Len(s) : s[k] \in Seq(T)
  PROVE  /\ FlattenSeq(s) \in Seq(T)
         /\ Below(w, f, FlattenSeq(s)) = All(w, [k \in 1..Len(s) |-> Below(w, f, s[k])])
<1>. DEFINE n == Len(s)
            l == [k \in 1..n |-> Below(w, f, s[k])]
<1>1. n \in Nat /\ \A k \in 1..n : Listed(s[k])
  BY SeqIsListed DEF Listed
<1>2. l = [k \in 1..n |-> l[k]] /\ \A k \in 1..n : l[k] = Below(w, f, s[k])
  OBVIOUS
<1>3. Amounts("refs", s)
  BY <1>1 DEF Amounts, IsAmount, Counted
<1>4. PICK u : Sums("refs", s, u)
  BY <1>3, SumsExist
<1>. DEFINE v == [k \in 0..n |-> Below(w, f, u[k])]
<1>5. \A k \in 0..n : v[k] = Below(w, f, u[k])
  OBVIOUS
<1>. HIDE DEF l, v
<1>6. Listed(l) /\ Len(l) = n
  BY <1>1, <1>2, ListOf
<1>7. Amounts(w, l)
  <2>1. \A k \in 1..n : IsAmount(w, Below(w, f, s[k]))
    BY BelowAmount
  <2>. QED
    BY <1>2, <1>6, <2>1 DEF Amounts
<1>8. u[0] = <<>> /\ v[0] = None(w) /\ IsAmount(w, v[0])
  <2>1. u[0] = <<>>
    BY <1>4 DEF Sums, None, Counted
  <2>2. v[0] = Below(w, f, <<>>)
    BY <1>1, <1>5, <2>1
  <2>3. IsAmount(w, None(w))
    BY EmptyListed DEF IsAmount, None
  <2>. QED
    BY <2>1, <2>2, <2>3, BelowNone
<1>9. \A k \in 1..n : u[k] = u[k - 1] \o s[k]
  BY <1>4 DEF Sums, Plus, Counted
<1>. DEFINE S == {k \in Nat : k <= n => u[k] \in Seq(T)}
<1>10. 0 \in S
  BY <1>8, EmptySeq
<1>11. ASSUME NEW k \in Nat, k \in S PROVE k + 1 \in S
  <2>. SUFFICES ASSUME k + 1 <= n PROVE u[k + 1] \in Seq(T)
    OBVIOUS
  <2>1. k + 1 \in 1..n /\ (k + 1) - 1 = k /\ u[k] \in Seq(T)
    BY <1>1, <1>11
  <2>2. u[k + 1] = u[(k + 1) - 1] \o s[k + 1] /\ s[k + 1] \in Seq(T)
    BY <1>9, <2>1
  <2>. QED
    BY <2>1, <2>2, ConcatProperties
<1>. HIDE DEF S
<1>12. \A k \in Nat : k <= n => u[k] \in Seq(T)
  BY <1>10, <1>11, Induction DEF S
<1>13. ASSUME NEW k \in 1..n PROVE v[k] = Plus(w, v[k - 1], l[k]) /\ IsAmount(w, v[k])
  <2>1. k - 1 \in 0..n /\ k \in 0..n /\ u[k - 1] \in Seq(T) /\ u[k] \in Seq(T) /\ s[k] \in Seq(T)
    BY <1>1, <1>12
  <2>2. Below(w, f, u[k - 1] \o s[k]) = Plus(w, Below(w, f, u[k - 1]), Below(w, f, s[k]))
    BY <2>1, BelowConcat
  <2>3. IsAmount(w, Below(w, f, u[k]))
    BY <2>1, BelowAmount
  <2>. QED
    BY <1>2, <1>5, <1>9, <2>1, <2>2, <2>3
<1>14. Sums(w, l, v)
  BY <1>6, <1>8, <1>13 DEF Sums
<1>15. All(w, l) = v[n] /\ All("refs", s) = u[n]
  BY <1>3, <1>4, <1>6, <1>7, <1>14, AllIsLast
<1>16. v[n] = Below(w, f, u[n]) /\ u[n] \in Seq(T)
  BY <1>1, <1>5, <1>12
<1>17. All("refs", s) = FlattenSeq(s)
  BY DEF All, Counted
<1>. QED
  BY <1>15, <1>16, <1>17 DEF l

\* b is the first k of a.
StartOf(b, k, a) == Listed(b) /\ Len(b) = k /\ \A j \in 1..k : b[j] = a[j]

LEMMA StartOfMore ==
  ASSUME NEW b, NEW k \in Nat, NEW a, StartOf(b, k, a)
  PROVE  StartOf(Append(b, a[k + 1]), k + 1, a)
<1>. DEFINE c == Append(b, a[k + 1])
<1>1. Listed(b) /\ Len(b) = k /\ \A j \in 1..k : b[j] = a[j]
  BY DEF StartOf
<1>2. Listed(c) /\ Len(c) = k + 1
  BY <1>1, AppendEffect
<1>3. (\A j \in 1..k : c[j] = b[j]) /\ c[k + 1] = a[k + 1]
  BY <1>1, AppendElements
<1>. HIDE DEF c
<1>4. ASSUME NEW j \in 1..k + 1 PROVE c[j] = a[j]
  <2>1. j \in 1..k \/ j = k + 1
    OBVIOUS
  <2>. QED
    BY <1>1, <1>3, <2>1
<1>. QED
  BY <1>2, <1>4 DEF StartOf, c

\* One of each is all of them.
LEMMA FlatOnes ==
  ASSUME NEW w, w \notin Counted, NEW n \in Nat, NEW a, a = [k \in 1..n |-> a[k]],
         NEW s, s = [k \in 1..n |-> <<a[k]>>]
  PROVE  All(w, s) = a
<1>1. /\ s = [k \in 1..n |-> s[k]] /\ \A k \in 1..n : s[k] = <<a[k]>>
  OBVIOUS
<1>2. Listed(s) /\ Len(s) = n /\ Listed(a) /\ Len(a) = n
  BY <1>1, ListOf
<1>3. Amounts(w, s)
  BY <1>1, <1>2, OneListed DEF Amounts, IsAmount
<1>4. PICK u : Sums(w, s, u)
  BY <1>3, SumsExist
<1>. DEFINE S == {k \in Nat : k <= n => StartOf(u[k], k, a)}
<1>5. 0 \in S
  BY <1>4, EmptyListed DEF Sums, None, StartOf
<1>6. ASSUME NEW k \in Nat, k \in S PROVE k + 1 \in S
  <2>. SUFFICES ASSUME k + 1 <= n PROVE StartOf(u[k + 1], k + 1, a)
    OBVIOUS
  <2>1. k + 1 \in 1..n /\ (k + 1) - 1 = k /\ StartOf(u[k], k, a)
    BY <1>6
  <2>2. u[k + 1] = u[(k + 1) - 1] \o s[k + 1] /\ s[k + 1] = <<a[k + 1]>>
    BY <1>1, <1>2, <1>4, <2>1 DEF Sums, Plus
  <2>3. u[k + 1] = Append(u[k], a[k + 1])
    BY <2>1, <2>2, AppendIsBehind DEF StartOf
  <2>. QED
    BY <2>1, <2>3, StartOfMore
<1>. HIDE DEF S
<1>7. n \in S
  BY <1>5, <1>6, Induction
<1>8. Listed(u[n]) /\ Len(u[n]) = n /\ \A j \in 1..n : u[n][j] = a[j]
  BY <1>7 DEF S, StartOf
<1>9. u[n] = a
  BY <1>2, <1>8, ListEqual
<1>. QED
  BY <1>2, <1>3, <1>4, <1>9, AllIsLast

-----------------------------------------------------------------------------
(* What there is in a part of a text *)

\* What is measured of token k, in what begins at token i.
Mark(w, src, i, k) ==
  CASE w = "refs"         -> RefAt(src, k)
    [] w = "objects"      -> ObjectsAt(src, i, k)
    [] w = "types"        -> IF src[k] \in TypeNames THEN 1 ELSE 0
    [] w \in DeviceWords  -> IF src[k] = w THEN <<k + 1>> ELSE <<>>
    [] OTHER              -> None(w)

Span(w, src, i, j) == All(w, [k \in 1..j - i |-> Mark(w, src, i, i + k - 1)])

LEMMA MarkAmount ==
  ASSUME NEW w, NEW src, NEW i, NEW k
  PROVE  IsAmount(w, Mark(w, src, i, k))
<1>1. Listed(<<>>) /\ \A x : Listed(<<x>>)
  BY EmptyListed, OneListed
<1>2. CASE w = "refs"
  BY <1>1, <1>2 DEF Mark, RefAt, IsAmount, Counted
<1>3. CASE w = "objects"
  BY <1>3 DEF Mark, ObjectsAt, IsAmount, Counted, DeviceWords
<1>4. CASE w = "types"
  BY <1>4 DEF Mark, IsAmount, Counted, DeviceWords
<1>5. CASE w \in DeviceWords
  BY <1>1, <1>5 DEF Mark, IsAmount, Counted, DeviceWords
<1>6. CASE w \notin {"refs", "objects", "types"} /\ w \notin DeviceWords
  BY <1>1, <1>6 DEF Mark, IsAmount, None
<1>. QED
  BY <1>2, <1>3, <1>4, <1>5, <1>6

Marks(w, src, i, j) == [k \in 1..j - i |-> Mark(w, src, i, i + k - 1)]

LEMMA SpanMarks ==
  ASSUME NEW w, NEW src, NEW i \in Nat, NEW j \in Nat, i <= j
  PROVE  /\ Listed(Marks(w, src, i, j)) /\ Len(Marks(w, src, i, j)) = j - i
         /\ Amounts(w, Marks(w, src, i, j))
         /\ \A k \in 1..j - i : Marks(w, src, i, j)[k] = Mark(w, src, i, i + (k - 1))
         /\ Span(w, src, i, j) = All(w, Marks(w, src, i, j))
<1>. DEFINE s == Marks(w, src, i, j)
            n == j - i
<1>1. n \in Nat
  OBVIOUS
<1>2. s = [k \in 1..n |-> s[k]] /\ \A k \in 1..n : s[k] = Mark(w, src, i, i + (k - 1))
  BY DEF Marks
<1>6. Span(w, src, i, j) = All(w, s)
  BY DEF Span, Marks
<1>. HIDE DEF s, n
<1>3. Listed(s) /\ Len(s) = n
  BY <1>1, <1>2, ListOf
<1>4. \A k \in 1..n : IsAmount(w, s[k])
  BY <1>2, MarkAmount
<1>5. Amounts(w, s)
  BY <1>3, <1>4 DEF Amounts
<1>. QED
  BY <1>2, <1>3, <1>5, <1>6 DEF s, n

LEMMA SpanAmount ==
  ASSUME NEW w, NEW src, NEW i \in Nat, NEW j \in Nat, i <= j
  PROVE  IsAmount(w, Span(w, src, i, j))
BY SpanMarks, AllAmount

LEMMA SpanNone ==
  ASSUME NEW w, NEW src, NEW i \in Nat
  PROVE  Span(w, src, i, i) = None(w)
<1>. DEFINE s == Marks(w, src, i, i)
<1>1. Listed(s) /\ Len(s) = 0 /\ Span(w, src, i, i) = All(w, s)
  <2>1. i <= i /\ i - i = 0
    OBVIOUS
  <2>. QED
    BY <2>1, SpanMarks
<1>. HIDE DEF s
<1>2. s = <<>>
  BY <1>1, ListedEmpty
<1>. QED
  BY <1>1, <1>2, AllEmpty

LEMMA SpanOne ==
  ASSUME NEW w, NEW src, NEW i \in Nat
  PROVE  Span(w, src, i, i + 1) = Mark(w, src, i, i)
<1>. DEFINE j == i + 1
            s == Marks(w, src, i, j)
            x == Mark(w, src, i, i)
            one == <<x>>
<1>0. j \in Nat /\ i <= j /\ j - i = 1 /\ 1 \in 1..1 /\ i + (1 - 1) = i
  OBVIOUS
<1>. HIDE DEF j
<1>1. /\ Listed(s) /\ Len(s) = j - i
      /\ \A k \in 1..j - i : s[k] = Mark(w, src, i, i + (k - 1))
  BY <1>0, SpanMarks
<1>2. Span(w, src, i, j) = All(w, s)
  BY <1>0, SpanMarks
<1>. HIDE DEF s
<1>3. s[1] = Mark(w, src, i, i + (1 - 1)) /\ Len(s) = 1
  BY <1>0, <1>1
<1>4. Listed(one) /\ Len(one) = 1 /\ one[1] = x
  BY OneListed
<1>5. All(w, one) = x
  BY MarkAmount, AllOne
<1>6. s[1] = x
  BY <1>0, <1>3
<1>. HIDE DEF one, x
<1>7. s = one
  BY <1>1, <1>3, <1>4, <1>6, ListEqual
<1>. QED
  BY <1>2, <1>5, <1>7 DEF j, x

\* Where a part may end and another begin: a '(' is counted with the name of a call.
CallAt(src, m) == src[m] = "LPAREN" /\ src[m - 1] = "IDENTIFIER"

LEMMA MarkStart ==
  ASSUME NEW w, NEW src, NEW i \in Nat, NEW m \in Nat, NEW x \in Nat, i <= m, m <= x,
         w = "objects" /\ i < m => ~CallAt(src, m)
  PROVE  Mark(w, src, i, x) = Mark(w, src, m, x)
<1>1. CASE w # "objects"
  BY <1>1 DEF Mark
<1>2. CASE w = "objects" /\ (x = m \/ x > m)
  BY <1>2 DEF Mark, ObjectsAt, CallAt
<1>. QED
  BY <1>1, <1>2

LEMMA SpanSplit ==
  ASSUME NEW w, NEW src, NEW i \in Nat, NEW m \in Nat, NEW j \in Nat, i <= m, m <= j,
         w = "objects" /\ i < m /\ m < j => ~CallAt(src, m)
  PROVE  Span(w, src, i, j) = Plus(w, Span(w, src, i, m), Span(w, src, m, j))
<1>. DEFINE s == Marks(w, src, i, m)
            t == Marks(w, src, m, j)
            v == Marks(w, src, i, j)
            st == s \o t
<1>1. /\ Listed(s) /\ Len(s) = m - i /\ Amounts(w, s)
      /\ \A k \in 1..m - i : s[k] = Mark(w, src, i, i + (k - 1))
  BY SpanMarks
<1>2. /\ Listed(t) /\ Len(t) = j - m /\ Amounts(w, t)
      /\ \A k \in 1..j - m : t[k] = Mark(w, src, m, m + (k - 1))
  BY SpanMarks
<1>3. /\ Listed(v) /\ Len(v) = j - i /\ Amounts(w, v)
      /\ \A k \in 1..j - i : v[k] = Mark(w, src, i, i + (k - 1))
  <2>1. i <= j
    OBVIOUS
  <2>. QED
    BY <2>1, SpanMarks
<1>4. /\ Span(w, src, i, j) = All(w, v) /\ Span(w, src, i, m) = All(w, s)
      /\ Span(w, src, m, j) = All(w, t)
  <2>1. i <= j
    OBVIOUS
  <2>. QED
    BY <2>1, SpanMarks
<1>. HIDE DEF s, t, v
<1>5. /\ Listed(st) /\ Len(st) = Len(s) + Len(t)
      /\ \A k \in 1..Len(s) : st[k] = s[k]
      /\ \A k \in 1..Len(t) : st[Len(s) + k] = t[k]
  <2>1. Listed(s) /\ Listed(t)
    BY <1>1, <1>2
  <2>. QED
    BY <2>1, ConcatEffect
<1>. HIDE DEF st
<1>6. ASSUME NEW k \in 1..Len(v) PROVE v[k] = st[k]
  <2>0. k \in 1..j - i /\ k \in Nat
    BY <1>3
  <2>1. CASE k <= m - i
    <3>1. k \in 1..m - i
      BY <2>0, <2>1
    <3>2. st[k] = s[k] /\ s[k] = Mark(w, src, i, i + (k - 1))
      BY <1>1, <1>5, <3>1
    <3>. QED
      BY <1>3, <2>0, <3>2
  <2>2. CASE k > m - i
    <3>. DEFINE l == k - (m - i)
    <3>1. l \in 1..j - m /\ Len(s) + l = k /\ m + (l - 1) = i + (k - 1)
          /\ m + (l - 1) \in Nat /\ m <= m + (l - 1)
      BY <1>1, <2>0, <2>2
    <3>. HIDE DEF l
    <3>2. st[k] = t[l]
      BY <1>2, <1>5, <3>1
    <3>3. t[l] = Mark(w, src, m, m + (l - 1))
      BY <1>2, <3>1
    <3>4. m < j
      BY <3>1
    <3>5. Mark(w, src, i, m + (l - 1)) = Mark(w, src, m, m + (l - 1))
      BY <3>1, <3>4, MarkStart
    <3>. QED
      BY <1>3, <2>0, <3>1, <3>2, <3>3, <3>5
  <2>. QED
    BY <2>0, <2>1, <2>2
<1>7. Len(v) = Len(st)
  BY <1>1, <1>2, <1>3, <1>5
<1>8. v = st
  BY <1>3, <1>5, <1>6, <1>7, ListEqual
<1>9. All(w, st) = Plus(w, All(w, s), All(w, t))
  BY <1>1, <1>2, AllConcat DEF st
<1>. QED
  BY <1>4, <1>8, <1>9

\* One more token at the end.
LEMMA SpanStep ==
  ASSUME NEW w, NEW src, NEW i \in Nat, NEW j \in Nat, i <= j
  PROVE  Span(w, src, i, j + 1) = Plus(w, Span(w, src, i, j), Mark(w, src, i, j))
<1>. DEFINE n == j + 1
            s == Marks(w, src, i, j)
            v == Marks(w, src, i, n)
            x == Mark(w, src, i, j)
            st == Append(s, x)
<1>0. n \in Nat /\ i <= n /\ n = j + 1
  OBVIOUS
<1>. HIDE DEF n
<1>1. /\ Listed(s) /\ Len(s) = j - i /\ Amounts(w, s)
      /\ \A k \in 1..j - i : s[k] = Mark(w, src, i, i + (k - 1))
  BY SpanMarks
<1>3. /\ Listed(v) /\ Len(v) = n - i
      /\ \A k \in 1..n - i : v[k] = Mark(w, src, i, i + (k - 1))
  BY <1>0, SpanMarks
<1>4. Span(w, src, i, n) = All(w, v) /\ Span(w, src, i, j) = All(w, s)
  BY <1>0, SpanMarks
<1>. HIDE DEF s, v, x
<1>5. /\ Listed(st) /\ Len(st) = Len(s) + 1
      /\ \A k \in 1..Len(s) : st[k] = s[k]
      /\ st[Len(s) + 1] = x
  BY <1>1, AppendEffect, AppendElements
<1>. HIDE DEF st
<1>6. ASSUME NEW k \in 1..Len(v) PROVE v[k] = st[k]
  <2>0. k \in 1..n - i /\ k \in Nat
    BY <1>3
  <2>1. CASE k <= j - i
    <3>1. k \in 1..j - i
      BY <1>0, <2>0, <2>1
    <3>2. st[k] = s[k] /\ s[k] = Mark(w, src, i, i + (k - 1))
      BY <1>1, <1>5, <3>1
    <3>. QED
      BY <1>3, <2>0, <3>2
  <2>2. CASE k > j - i
    <3>1. k = Len(s) + 1 /\ i + (k - 1) = j
      BY <1>0, <1>1, <2>0, <2>2
    <3>. QED
      BY <1>3, <1>5, <2>0, <3>1 DEF x
  <2>. QED
    BY <2>0, <2>1, <2>2
<1>7. Len(v) = Len(st)
  BY <1>0, <1>1, <1>3, <1>5
<1>8. v = st
  BY <1>3, <1>5, <1>6, <1>7, ListEqual
<1>9. All(w, st) = Plus(w, All(w, s), x)
  BY <1>1, MarkAmount, AllAppend DEF st, x
<1>. QED
  BY <1>4, <1>8, <1>9 DEF x, n

-----------------------------------------------------------------------------
(* Trees of expressions *)

\* What is measured of expressions, too.
Both == {"objects", "refs"}

LEMMA AmountByKind ==
  ASSUME NEW w \in Both, NEW h \in Nat, NEW n \in Trees[h]
  PROVE  ByKind(w, Amount(w, h), n, Amount(w, h)[n])
<1>. DEFINE f == Amount(w, h)
            T == Trees[h]
<1>1. \A t \in T : f[t] = Meas(w, f, t) /\ IsAmount(w, f[t])
  BY AmountEquation
<1>2. n \in Leaves \cup Above(T)
  <2>1. T \subseteq Trees[h + 1] /\ Trees[h + 1] = Leaves \cup Above(T)
    BY TreesGrow, TreesEquation
  <2>. QED
    BY <2>1
<1>3. f[n] = Meas(w, f, n)
  BY <1>1
<1>. HIDE DEF f, T
<1>4. \A t \in T : IsAmount(w, f[t])
  BY <1>1
<1>5. w \in {"objects", "refs"}
  BY DEF Both
<1>6. ByKind(w, f, n, Meas(w, f, n))
  BY <1>2, <1>4, <1>5, MeasByKind
<1>. QED
  BY <1>3, <1>6 DEF f

\* A node is one higher than what is below it.
LEMMA HigherTree ==
  ASSUME NEW g \in Nat, NEW h \in Nat, g < h, NEW n \in Leaves \cup Above(Trees[g])
  PROVE  n \in Trees[h]
<1>1. n \in Trees[g + 1] /\ g + 1 \in Nat /\ g + 1 <= h
  BY TreesEquation
<1>. QED
  BY <1>1, TreesMonotonic

LEMMA LeafTree ==
  ASSUME NEW h \in Nat, NEW n \in Leaves
  PROVE  n \in Trees[h]
<1>1. n \in Trees[0] /\ 0 <= h
  BY TreesEquation
<1>. QED
  BY <1>1, TreesMonotonic

\* An operator is a node.
OpOwn(w) == IF w = "objects" THEN 1 ELSE None(w)

LEMMA OpOwnAmount ==
  ASSUME NEW w \in Both
  PROVE  IsAmount(w, OpOwn(w))
BY EmptyListed DEF Both, IsAmount, OpOwn, None, Counted

\* It may as well be counted behind its left operand.
LEMMA OpInside ==
  ASSUME NEW w \in Both, NEW a, NEW b, IsAmount(w, a), IsAmount(w, b)
  PROVE  Plus(w, OpOwn(w), Plus(w, a, b)) = Plus(w, a, Plus(w, OpOwn(w), b))
<1>1. CASE w = "objects"
  BY <1>1 DEF IsAmount, Counted, Plus, OpOwn
<1>2. CASE w = "refs"
  <2>1. OpOwn(w) = None(w)
    BY <1>2 DEF OpOwn
  <2>2. IsAmount(w, Plus(w, a, b))
    BY PlusAmount
  <2>. QED
    BY <2>1, <2>2, PlusNone
<1>. QED
  BY <1>1, <1>2 DEF Both

\* What the operators of a level have, with their right operands.
MoreAmounts(w, h, more) ==
  [k \in 1..Len(more) |-> Plus(w, OpOwn(w), Amount(w, h)[more[k].right])]

IsMore(T, more) ==
  Listed(more) /\ \A k \in 1..Len(more) : more[k].op \in STRING /\ more[k].right \in T

LEMMA MoreIsAmount ==
  ASSUME NEW w \in Both, NEW h \in Nat, NEW more, IsMore(Trees[h], more)
  PROVE  /\ Amounts(w, MoreAmounts(w, h, more)) /\ Len(MoreAmounts(w, h, more)) = Len(more)
         /\ \A k \in 1..Len(more) : MoreAmounts(w, h, more)[k] =
                                      Plus(w, OpOwn(w), Amount(w, h)[more[k].right])
<1>. DEFINE s == MoreAmounts(w, h, more)
            f == Amount(w, h)
<1>1. Len(more) \in Nat /\ \A k \in 1..Len(more) : more[k].right \in Trees[h]
  BY DEF IsMore, Listed
<1>2. \A t \in Trees[h] : IsAmount(w, f[t])
  BY AmountEquation
<1>3. s = [k \in 1..Len(more) |-> s[k]]
      /\ \A k \in 1..Len(more) : s[k] = Plus(w, OpOwn(w), f[more[k].right])
  BY DEF MoreAmounts
<1>. HIDE DEF s, f
<1>4. Listed(s) /\ Len(s) = Len(more)
  BY <1>1, <1>3, ListOf
<1>5. \A k \in 1..Len(more) : IsAmount(w, s[k])
  BY <1>1, <1>2, <1>3, OpOwnAmount, PlusAmount
<1>. QED
  BY <1>3, <1>4, <1>5 DEF Amounts, s, f

\* The tree of a level has what its operands and operators have.
LEMMA JoinedEffect ==
  ASSUME NEW g \in Nat, NEW h \in Nat, NEW left \in Trees[g], NEW more, IsMore(Trees[g], more),
         g + Len(more) <= h
  PROVE  /\ Joined(left, more) \in Trees[g + Len(more)]
         /\ \A w \in Both : Amount(w, h)[Joined(left, more)] =
                              Plus(w, Amount(w, h)[left], All(w, MoreAmounts(w, h, more)))
<1>. DEFINE n == Len(more)
            D == UNION {Trees[k] : k \in Nat}
            node(t, k) == [kind |-> "binary", op |-> more[k].op, left |-> t, right |-> more[k].right]
            step == [x \in (1..n) \X D |-> node(x[2], x[1])]
            Is(f) == f = [i \in 0..n |-> IF i = 0 THEN left ELSE node(f[i - 1], i)]
            tree == CHOOSE f : Is(f)
<1>1. n \in Nat /\ \A k \in 1..n : more[k].op \in STRING /\ more[k].right \in Trees[g]
  BY DEF IsMore, Listed
<1>2. ASSUME NEW k \in 1..n, NEW m \in Nat, g <= m, NEW t \in Trees[m]
      PROVE  node(t, k) \in Trees[m + 1]
  <2>1. more[k].right \in Trees[m]
    BY <1>1, <1>2, TreesMonotonic
  <2>2. node(t, k) \in Above(Trees[m])
    BY <1>1, <2>1 DEF Above
  <2>. QED
    BY <2>2, TreesEquation
<1>3. ASSUME NEW x \in (1..n) \X D PROVE step[x] \in D
  <2>1. PICK m \in Nat : x[2] \in Trees[m]
    OBVIOUS
  <2>. DEFINE b == IF m <= g THEN g ELSE m
  <2>2. b \in Nat /\ g <= b /\ m <= b
    OBVIOUS
  <2>3. x[2] \in Trees[b]
    BY <2>1, <2>2, TreesMonotonic
  <2>4. node(x[2], x[1]) \in Trees[b + 1] /\ b + 1 \in Nat
    BY <1>2, <2>2, <2>3
  <2>. QED
    BY <2>4
<1>4. Joined(left, more) = tree[n]
  BY DEF Joined
<1>5. \E f : Is(f)
  <2>1. left \in D
    OBVIOUS
  <2>2. step \in [(1..n) \X D -> D]
    <3>1. step = [x \in (1..n) \X D |-> step[x]]
      OBVIOUS
    <3>. HIDE DEF step, D
    <3>. QED
      BY <1>3, <3>1
  <2>3. \A k \in 1..n : \A t \in D : step[<<k, t>>] = node(t, k)
    OBVIOUS
  <2>. HIDE DEF D, step, n, node
  <2>4. PICK u : Unrolls(u, n, D, left, step)
    BY <1>1, <2>1, <2>2, UnrolledExists
  <2>5. /\ u \in [0..n -> D] /\ u[0] = left
        /\ \A k \in 1..n : u[k] = step[<<k, u[k - 1]>>]
    BY <2>4 DEF Unrolls
  <2>6. ASSUME NEW i \in 0..n PROVE u[i] = IF i = 0 THEN left ELSE node(u[i - 1], i)
    <3>1. CASE i = 0
      BY <2>5, <3>1
    <3>2. CASE i # 0
      <4>1. i \in 1..n /\ i - 1 \in 0..n
        BY <1>1, <3>2
      <4>2. u[i - 1] \in D /\ u[i] = step[<<i, u[i - 1]>>]
        BY <2>5, <4>1
      <4>. QED
        BY <2>3, <3>2, <4>1, <4>2
    <3>. QED
      BY <3>1, <3>2
  <2>7. u = [i \in 0..n |-> u[i]]
    BY <2>5
  <2>8. u = [i \in 0..n |-> IF i = 0 THEN left ELSE node(u[i - 1], i)]
    BY <2>6, <2>7
  <2>. QED
    BY <2>8
<1>6. Is(tree)
  BY <1>5
<1>. HIDE DEF tree
<1>7. \A i \in 0..n : tree[i] = IF i = 0 THEN left ELSE node(tree[i - 1], i)
  BY <1>6
<1>. HIDE DEF step, D, Is
<1>13. tree[0] = left
  <2>1. 0 \in 0..n
    BY <1>1
  <2>. HIDE DEF node
  <2>. QED
    BY <1>7, <2>1
<1>. DEFINE S == {k \in Nat : k <= n => tree[k] \in Trees[g + k]}
<1>8. 0 \in S
  <2>1. g + 0 = g
    OBVIOUS
  <2>. QED
    BY <1>13, <2>1
<1>9. ASSUME NEW k \in Nat, k \in S PROVE k + 1 \in S
  <2>. SUFFICES ASSUME k + 1 <= n PROVE tree[k + 1] \in Trees[g + (k + 1)]
    OBVIOUS
  <2>1. /\ tree[k] \in Trees[g + k] /\ k + 1 \in 1..n /\ k + 1 \in 0..n /\ k + 1 # 0
        /\ (k + 1) - 1 = k /\ g + k \in Nat /\ g <= g + k /\ (g + k) + 1 = g + (k + 1)
    BY <1>1, <1>9
  <2>2. tree[k + 1] = node(tree[(k + 1) - 1], k + 1)
    BY <1>7, <2>1
  <2>. HIDE DEF node, S
  <2>3. node(tree[k], k + 1) \in Trees[(g + k) + 1]
    BY <1>2, <2>1
  <2>. QED
    BY <2>1, <2>2, <2>3
<1>. HIDE DEF S
<1>10. \A k \in 0..n : tree[k] \in Trees[g + k]
  <2>1. Nat \subseteq S
    BY <1>8, <1>9, Induction
  <2>. QED
    BY <1>1, <2>1 DEF S
<1>11. ASSUME NEW w \in Both
       PROVE  Amount(w, h)[tree[n]] = Plus(w, Amount(w, h)[left], All(w, MoreAmounts(w, h, more)))
  <2>. DEFINE f == Amount(w, h)
              s == MoreAmounts(w, h, more)
  <2>1. \A k \in 0..n : tree[k] \in Trees[h]
    <3>. SUFFICES ASSUME NEW k \in 0..n PROVE tree[k] \in Trees[h]
      OBVIOUS
    <3>1. g + k \in Nat /\ g + k <= h
      BY <1>1
    <3>. QED
      BY <1>10, <3>1, TreesMonotonic
  <2>2. \A t \in Trees[h] : IsAmount(w, f[t])
    BY AmountEquation
  <2>3. Trees[g] \subseteq Trees[h]
    <3>1. g <= h
      BY <1>1
    <3>. QED
      BY <3>1, TreesMonotonic
  <2>4. IsMore(Trees[h], more)
    BY <2>3 DEF IsMore
  <2>5. /\ Amounts(w, s) /\ Len(s) = n
        /\ \A k \in 1..n : s[k] = Plus(w, OpOwn(w), f[more[k].right])
    BY <2>4, MoreIsAmount
  <2>6. PICK u : Sums(w, s, u)
    BY <2>5, SumsExist
  <2>7. All(w, s) = u[n]
    BY <2>5, <2>6, AllIsLast
  <2>. HIDE DEF f, s
  <2>. DEFINE R == {k \in Nat : k <= n => f[tree[k]] = Plus(w, f[left], u[k])}
  <2>8. 0 \in R
    <3>1. u[0] = None(w)
      BY <2>6 DEF Sums
    <3>2. IsAmount(w, f[left])
      BY <2>2, <2>3
    <3>3. f[tree[0]] = Plus(w, f[left], u[0])
      BY <1>13, <3>1, <3>2, PlusNone
    <3>. QED
      BY <3>3
  <2>9. ASSUME NEW k \in Nat, k \in R PROVE k + 1 \in R
    <3>. SUFFICES ASSUME k + 1 <= n PROVE f[tree[k + 1]] = Plus(w, f[left], u[k + 1])
      OBVIOUS
    <3>1. /\ f[tree[k]] = Plus(w, f[left], u[k]) /\ k + 1 \in 1..n /\ k + 1 \in 0..n /\ k + 1 # 0
          /\ (k + 1) - 1 = k /\ k \in 0..n
      BY <1>1, <2>9
    <3>. DEFINE t == tree[k + 1]
                r == more[k + 1].right
    <3>2. t = node(tree[k], k + 1)
      <4>1. t = node(tree[(k + 1) - 1], k + 1)
        BY <1>7, <3>1
      <4>. QED
        BY <3>1, <4>1
    <3>3. t.kind = "binary" /\ t.left = tree[k] /\ t.right = r
      BY <3>2
    <3>4. t \in Trees[h] /\ tree[k] \in Trees[h] /\ r \in Trees[h]
      BY <1>1, <2>1, <2>3, <3>1
    <3>. HIDE DEF t, r, node
    <3>5. f[t] = Plus(w, Own(w, t), Plus(w, f[tree[k]], f[r]))
      BY <3>3, <3>4, AmountByKind DEF f, ByKind
    <3>6. Own(w, t) = OpOwn(w)
      BY <3>3 DEF Own, OpOwn, Both, None, Counted
    <3>7. IsAmount(w, f[tree[k]]) /\ IsAmount(w, f[r]) /\ IsAmount(w, f[left]) /\ IsAmount(w, OpOwn(w))
      BY <2>2, <2>3, <3>4, OpOwnAmount
    <3>8. f[t] = Plus(w, f[tree[k]], Plus(w, OpOwn(w), f[r]))
      BY <3>5, <3>6, <3>7, OpInside
    <3>9. s[k + 1] = Plus(w, OpOwn(w), f[r])
      BY <2>5, <3>1 DEF r
    <3>10. IsAmount(w, s[k + 1])
      BY <2>5, <3>1 DEF Amounts
    <3>11. u[k + 1] = Plus(w, u[(k + 1) - 1], s[k + 1]) /\ IsAmount(w, u[k])
      BY <2>5, <2>6, <3>1 DEF Sums
    <3>12. Plus(w, Plus(w, f[left], u[k]), s[k + 1]) = Plus(w, f[left], Plus(w, u[k], s[k + 1]))
      BY <3>7, <3>10, <3>11, PlusTwice
    <3>. QED
      BY <3>1, <3>8, <3>9, <3>11, <3>12 DEF t
  <2>. HIDE DEF R
  <2>10. n \in R
    BY <1>1, <2>8, <2>9, Induction
  <2>. QED
    BY <2>7, <2>10 DEF R, f, s
<1>12. tree[n] \in Trees[g + n]
  BY <1>1, <1>10
<1>. QED
  BY <1>4, <1>11, <1>12

\* Operands of trees up to a height, and as many operators as there is room for.
Joinable(g, h, left, more) ==
  g \in Nat /\ h \in Nat /\ left \in Trees[g] /\ IsMore(Trees[g], more) /\ g + Len(more) <= h

LEMMA JoinedMeasured ==
  ASSUME NEW g, NEW h, NEW left, NEW more, Joinable(g, h, left, more)
  PROVE  /\ Joined(left, more) \in Trees[g + Len(more)]
         /\ \A w \in Both : Amount(w, h)[Joined(left, more)] =
                              Plus(w, Amount(w, h)[left], All(w, MoreAmounts(w, h, more)))
<1>1. g \in Nat /\ h \in Nat /\ left \in Trees[g] /\ IsMore(Trees[g], more) /\ g + Len(more) <= h
  BY DEF Joinable
<1>2. Joined(left, more) \in Trees[g + Len(more)]
  BY <1>1, JoinedEffect
<1>3. ASSUME NEW w \in Both
      PROVE  Amount(w, h)[Joined(left, more)] =
               Plus(w, Amount(w, h)[left], All(w, MoreAmounts(w, h, more)))
  BY <1>1, JoinedEffect
<1>. QED
  BY <1>2, <1>3

-----------------------------------------------------------------------------
(* Expressions in a text *)

RoleWords == {"PERIPHERAL", "REGISTER", "FIELD", "LET", "VAR", "AT", "LBRACKET", "COLON"}
               \cup FunctionWords

\* What statements are written with behind their let or var.
BodyTokens == NodeTokens \cup {"LPAREN", "RPAREN", "COMMA", "SEMICOLON", "RETURN", "ASSIGN"}

\* The parser stands behind a word that gives a role to what is next.
AfterRole(c) == c.pos > 1 /\ c.src[c.pos - 1] \in RoleWords

\* It does not stand between a name and the '(' of a call.
Apart(d) == Current(d) = "LPAREN" => d.src[d.pos - 1] # "IDENTIFIER"

\* From c to d there is nothing but tokens of statements.
Covers(c, d) == /\ Passes(c, d)
                /\ \A i \in c.pos..d.pos - 1 : c.src[i] \in BodyTokens
                /\ c.pos < d.pos => Apart(d)

\* References can be told when there is no error, and a name has no other role.
Tells(w, c, d) == w = "refs" => d.err = 0 /\ ~AfterRole(c)

Counts(w, c, d, a) == /\ IsAmount(w, a)
                      /\ Tells(w, c, d) => a = Span(w, c.src, c.pos, d.pos)

LEMMA BodyIsPlain ==
  /\ BodyTokens \cap RoleWords = {} /\ BodyTokens \cap DeviceWords = {}
  /\ BodyTokens \cap TypeNames = {} /\ "EOF" \notin BodyTokens
BY DEF BodyTokens, NodeTokens, RoleWords, DeviceWords, TypeNames, FunctionWords

LEMMA CoversPositions ==
  ASSUME NEW src \in Seq(STRING), NEW c \in Cursors(src), NEW d, Covers(c, d)
  PROVE  /\ d \in Cursors(src) /\ d.src = src /\ c.src = src
         /\ c.pos \in Nat /\ d.pos \in Nat /\ c.pos >= 1 /\ c.pos <= d.pos
         /\ d.pos <= Len(src) + 1 /\ Len(src) \in Nat
         /\ d.pos - c.pos \in Nat /\ d.pos - c.pos <= Len(src)
         /\ d.err = 0 => c.err = 0
         /\ Left(d) \in Nat /\ Left(d) <= Left(c) /\ Left(c) \in Nat
<1>1. d \in Cursors(src) /\ c.pos <= d.pos /\ (c.err # 0 => d.err = c.err)
  BY PassesStays, PassesIsOnward DEF Covers, Onward
<1>2. /\ c.src = src /\ d.src = src /\ c.pos \in 1..Len(src) + 1 /\ d.pos \in 1..Len(src) + 1
      /\ Len(src) \in Nat
  BY <1>1 DEF Cursors
<1>3. Left(d) \in Nat /\ Left(d) <= Left(c) /\ Left(c) \in Nat
  BY LeftFalls DEF Covers
<1>. QED
  BY <1>1, <1>2, <1>3

LEMMA CoversJoin ==
  ASSUME NEW src \in Seq(STRING), NEW c \in Cursors(src), NEW d, NEW e, Covers(c, d), Covers(d, e)
  PROVE  Covers(c, e)
<1>1. d \in Cursors(src) /\ d.src = src /\ c.src = src /\ c.pos \in Nat /\ d.pos \in Nat /\ c.pos <= d.pos
  BY CoversPositions
<1>2. e.src = src /\ e.pos \in Nat /\ d.pos <= e.pos /\ e \in Cursors(src)
  BY <1>1, CoversPositions
<1>3. Passes(c, e)
  BY CursorsAreCursors, PassesTransitive DEF Covers
<1>4. ASSUME NEW i \in c.pos..e.pos - 1 PROVE src[i] \in BodyTokens
  <2>1. i \in c.pos..d.pos - 1 \/ i \in d.pos..e.pos - 1
    BY <1>1, <1>2
  <2>. QED
    BY <1>1, <2>1 DEF Covers
<1>5. ASSUME c.pos < e.pos PROVE Apart(e)
  <2>1. CASE d.pos < e.pos
    BY <2>1 DEF Covers
  <2>2. CASE d.pos = e.pos
    <3>1. Apart(d) /\ Current(e) = Current(d) /\ e.src[e.pos - 1] = d.src[d.pos - 1]
      BY <1>1, <1>2, <1>5, <2>2 DEF Covers, Current
    <3>. QED
      BY <3>1 DEF Apart
  <2>. QED
    BY <1>1, <1>2, <2>1, <2>2
<1>. QED
  BY <1>1, <1>3, <1>4, <1>5 DEF Covers

LEMMA TellsBoth ==
  ASSUME NEW src \in Seq(STRING), NEW c \in Cursors(src), NEW d, NEW e, Covers(c, d), Covers(d, e),
         NEW w, Tells(w, c, e)
  PROVE  Tells(w, c, d) /\ Tells(w, d, e)
<1>. SUFFICES ASSUME w = "refs" PROVE d.err = 0 /\ ~AfterRole(d)
  BY DEF Tells
<1>1. e.err = 0 /\ ~AfterRole(c)
  BY DEF Tells
<1>2. /\ d \in Cursors(src) /\ d.src = src /\ c.src = src /\ c.pos \in Nat /\ d.pos \in Nat
      /\ c.pos >= 1 /\ c.pos <= d.pos
  BY CoversPositions
<1>3. d.err = 0
  BY <1>1, <1>2, CoversPositions
<1>4. CASE d.pos = c.pos
  BY <1>1, <1>2, <1>3, <1>4 DEF AfterRole
<1>5. CASE d.pos # c.pos
  <2>1. d.pos - 1 \in c.pos..d.pos - 1
    BY <1>2, <1>5
  <2>2. d.src[d.pos - 1] \in BodyTokens
    BY <1>2, <2>1 DEF Covers
  <2>. QED
    BY <1>3, <2>2, BodyIsPlain DEF AfterRole
<1>. QED
  BY <1>4, <1>5

\* What is counted from c to d and from d to e is counted from c to e.
LEMMA CountsJoin ==
  ASSUME NEW src \in Seq(STRING), NEW c \in Cursors(src), NEW d, NEW e, Covers(c, d), Covers(d, e),
         NEW w, NEW a, NEW b, Counts(w, c, d, a), Counts(w, d, e, b)
  PROVE  Counts(w, c, e, Plus(w, a, b))
<1>1. IsAmount(w, Plus(w, a, b))
  BY PlusAmount DEF Counts
<1>2. ASSUME Tells(w, c, e) PROVE Plus(w, a, b) = Span(w, c.src, c.pos, e.pos)
  <2>1. /\ d \in Cursors(src) /\ d.src = src /\ c.src = src /\ c.pos \in Nat /\ d.pos \in Nat
        /\ c.pos <= d.pos
    BY CoversPositions
  <2>2. e.pos \in Nat /\ d.pos <= e.pos /\ e.pos <= Len(src) + 1 /\ Len(src) \in Nat
    BY <2>1, CoversPositions
  <2>3. a = Span(w, src, c.pos, d.pos) /\ b = Span(w, src, d.pos, e.pos)
    BY <1>2, <2>1, TellsBoth DEF Counts
  <2>4. c.pos < d.pos /\ d.pos < e.pos => ~CallAt(src, d.pos)
    BY <2>1, <2>2 DEF Covers, Apart, CallAt, Current
  <2>5. Span(w, src, c.pos, e.pos) = Plus(w, Span(w, src, c.pos, d.pos), Span(w, src, d.pos, e.pos))
    BY <2>1, <2>2, <2>4, SpanSplit
  <2>. QED
    BY <2>1, <2>3, <2>5
<1>. QED
  BY <1>1, <1>2 DEF Counts

\* Nothing is counted of nothing.
LEMMA CoversNothing ==
  ASSUME NEW src \in Seq(STRING), NEW c \in Cursors(src)
  PROVE  /\ Covers(c, c) /\ Covers(c, Fail(c))
         /\ \A w : Counts(w, c, c, None(w)) /\ Counts(w, c, Fail(c), None(w))
<1>1. IsCursor(c) /\ c.src = src /\ c.pos \in Nat
  BY CursorsAreCursors DEF Cursors
<1>2. Passes(c, c) /\ Passes(c, Fail(c)) /\ Fail(c).pos = c.pos
  BY <1>1, PassesReflexive, FailConsumes, ConsumesIsPasses, FailGoesOn
<1>3. Covers(c, c) /\ Covers(c, Fail(c))
  BY <1>1, <1>2 DEF Covers
<1>4. \A w : IsAmount(w, None(w)) /\ Span(w, src, c.pos, c.pos) = None(w)
  BY <1>1, SpanNone, EmptyListed DEF IsAmount, None
<1>. QED
  BY <1>1, <1>2, <1>3, <1>4 DEF Counts

\* A token that is no name.
LEMMA CoversToken ==
  ASSUME NEW src \in Seq(STRING), NEW c \in Cursors(src), Current(c) \in BodyTokens \ {"IDENTIFIER"}
  PROVE  /\ Covers(c, Advance(c)) /\ Advance(c).pos = c.pos + 1
         /\ \A w : Counts(w, c, Advance(c), Mark(w, src, c.pos, c.pos))
<1>. DEFINE d == Advance(c)
<1>1. /\ IsCursor(c) /\ c.src = src /\ c.pos \in Nat /\ c.pos >= 1 /\ Len(src) \in Nat
  BY CursorsAreCursors DEF Cursors
<1>2. Current(c) # "EOF" /\ Current(c) \notin DeviceWords
  BY BodyIsPlain
<1>3. c.pos <= Len(src) /\ Current(c) = src[c.pos]
  BY <1>1, <1>2 DEF Current
<1>4. d.src = src /\ d.pos = c.pos + 1
  BY <1>1, <1>3 DEF Advance, Cursors
<1>5. Passes(c, d)
  BY <1>1, <1>2, AdvancePasses
<1>6. Covers(c, d)
  <2>1. ASSUME NEW i \in c.pos..d.pos - 1 PROVE src[i] \in BodyTokens
    <3>1. i = c.pos
      BY <1>1, <1>4
    <3>. QED
      BY <1>3, <3>1
  <2>2. Apart(d)
    <3>1. d.pos - 1 = c.pos
      BY <1>1, <1>4
    <3>. QED
      BY <1>3, <1>4, <3>1 DEF Apart
  <2>. QED
    BY <1>1, <1>5, <2>1, <2>2 DEF Covers
<1>7. \A w : Span(w, src, c.pos, c.pos + 1) = Mark(w, src, c.pos, c.pos)
  BY <1>1, SpanOne
<1>. QED
  BY <1>1, <1>4, <1>6, <1>7, MarkAmount DEF Counts

\* A name that is not called.
LEMMA CoversName ==
  ASSUME NEW src \in Seq(STRING), NEW c \in Cursors(src), Current(c) = "IDENTIFIER",
         Current(Advance(c)) # "LPAREN"
  PROVE  /\ Covers(c, Advance(c)) /\ Advance(c).pos = c.pos + 1
         /\ \A w : Counts(w, c, Advance(c), Mark(w, src, c.pos, c.pos))
<1>. DEFINE d == Advance(c)
<1>1. /\ IsCursor(c) /\ c.src = src /\ c.pos \in Nat /\ c.pos >= 1 /\ Len(src) \in Nat
  BY CursorsAreCursors DEF Cursors
<1>3. c.pos <= Len(src) /\ Current(c) = src[c.pos]
  BY <1>1 DEF Current
<1>4. d.src = src /\ d.pos = c.pos + 1
  BY <1>1, <1>3 DEF Advance, Cursors
<1>5. Passes(c, d)
  BY <1>1, AdvancePasses DEF DeviceWords
<1>6. Covers(c, d)
  <2>1. ASSUME NEW i \in c.pos..d.pos - 1 PROVE src[i] \in BodyTokens
    <3>1. i = c.pos
      BY <1>1, <1>4
    <3>. QED
      BY <1>3, <3>1 DEF BodyTokens, NodeTokens
  <2>2. Apart(d)
    BY DEF Apart
  <2>. QED
    BY <1>1, <1>5, <2>1, <2>2 DEF Covers
<1>7. \A w : Span(w, src, c.pos, c.pos + 1) = Mark(w, src, c.pos, c.pos)
  BY <1>1, SpanOne
<1>. QED
  BY <1>1, <1>4, <1>6, <1>7, MarkAmount DEF Counts

\* The name of a call and its '(', which makes two objects.
LEMMA CoversCall ==
  ASSUME NEW src \in Seq(STRING), NEW c \in Cursors(src), Current(c) = "IDENTIFIER",
         Current(Advance(c)) = "LPAREN"
  PROVE  LET d == Advance(Advance(c)) IN
         /\ Covers(c, d) /\ d.pos = c.pos + 2
         /\ \A w : Counts(w, c, d, Plus(w, Mark(w, src, c.pos, c.pos), Mark(w, src, c.pos, c.pos + 1)))
<1>. DEFINE m == Advance(c)
            d == Advance(m)
<1>1. /\ IsCursor(c) /\ c.src = src /\ c.pos \in Nat /\ c.pos >= 1 /\ Len(src) \in Nat
  BY CursorsAreCursors DEF Cursors
<1>2. c.pos <= Len(src) /\ src[c.pos] = "IDENTIFIER"
  BY <1>1 DEF Current
<1>3. m.src = src /\ m.pos = c.pos + 1 /\ IsCursor(m)
  BY <1>1, <1>2, AdvanceGoesOn, OnwardIsCursor DEF Advance, Cursors
<1>4. m.pos <= Len(src) /\ src[m.pos] = "LPAREN"
  <2>1. Current(m) = "LPAREN"
    OBVIOUS
  <2>. HIDE DEF m
  <2>. QED
    BY <1>3, <2>1 DEF Current
<1>5. Passes(c, m)
  BY <1>1, AdvancePasses DEF DeviceWords
<1>6. Passes(m, d)
  <2>1. Current(m) = "LPAREN"
    OBVIOUS
  <2>. HIDE DEF m
  <2>. QED
    BY <1>3, <2>1, AdvancePasses DEF DeviceWords
<1>7. d.src = src /\ d.pos = c.pos + 2
  <2>1. d = [m EXCEPT !.pos = @ + 1]
    <3>. HIDE DEF m
    <3>. QED
      BY <1>3, <1>4 DEF Advance
  <2>. HIDE DEF d, m
  <2>2. d.src = m.src /\ d.pos = m.pos + 1
    BY <1>3, <2>1 DEF IsCursor
  <2>. QED
    BY <1>1, <1>3, <2>2
<1>. HIDE DEF m, d
<1>8. Passes(c, d)
  BY <1>1, <1>5, <1>6, PassesTransitive
<1>9. Covers(c, d)
  <2>1. ASSUME NEW i \in c.pos..d.pos - 1 PROVE src[i] \in BodyTokens
    <3>1. i = c.pos \/ i = m.pos
      BY <1>1, <1>3, <1>7
    <3>. QED
      BY <1>2, <1>4, <3>1 DEF BodyTokens, NodeTokens
  <2>2. Apart(d)
    <3>1. d.pos - 1 = m.pos
      BY <1>1, <1>3, <1>7
    <3>. QED
      BY <1>4, <1>7, <3>1 DEF Apart
  <2>. QED
    BY <1>1, <1>8, <2>1, <2>2 DEF Covers
<1>10. ASSUME NEW w
       PROVE  Counts(w, c, d, Plus(w, Mark(w, src, c.pos, c.pos), Mark(w, src, c.pos, c.pos + 1)))
  <2>1. Span(w, src, c.pos, c.pos + 1) = Mark(w, src, c.pos, c.pos)
    BY <1>1, SpanOne
  <2>2. c.pos + 1 \in Nat /\ c.pos <= c.pos + 1 /\ (c.pos + 1) + 1 = c.pos + 2
    BY <1>1
  <2>3. Span(w, src, c.pos, (c.pos + 1) + 1)
          = Plus(w, Span(w, src, c.pos, c.pos + 1), Mark(w, src, c.pos, c.pos + 1))
    BY <1>1, <2>2, SpanStep
  <2>4. IsAmount(w, Plus(w, Mark(w, src, c.pos, c.pos), Mark(w, src, c.pos, c.pos + 1)))
    BY MarkAmount, PlusAmount
  <2>. QED
    BY <1>1, <1>7, <2>1, <2>2, <2>3, <2>4 DEF Counts
<1>. QED
  BY <1>7, <1>9, <1>10 DEF m, d

\* What is measured of each kind of token.
QuietTokens == {"LPAREN", "RPAREN", "COMMA", "SEMICOLON", "RETURN", "ASSIGN"}
OpTokens    == NodeTokens \ {"NUMBER", "IDENTIFIER", "TRUE", "FALSE"}

LEMMA MarkOfToken ==
  ASSUME NEW src \in Seq(STRING), NEW c \in Cursors(src), NEW w \in Both,
         w = "refs" => ~AfterRole(c), Current(c) \in BodyTokens
  PROVE  LET a == Mark(w, src, c.pos, c.pos) IN
         /\ Current(c) = "NUMBER" => a = Own(w, Leaf("number", c))
         /\ Current(c) \in {"TRUE", "FALSE"} => a = Own(w, Leaf("boolean", c))
         /\ Current(c) = "IDENTIFIER" => a = Own(w, Leaf("identifier", c))
         /\ Current(c) \in OpTokens => a = OpOwn(w)
         /\ Current(c) \in QuietTokens => a = None(w)
<1>. DEFINE i == c.pos
            t == src[i]
<1>1. c.src = src /\ i \in Nat /\ i >= 1
  BY DEF Cursors
<1>2. Current(c) = t
  BY <1>1, BodyIsPlain DEF Current
<1>3. CASE w = "objects"
  <2>1. Mark(w, src, i, i) = ObjectsAt(src, i, i)
    BY <1>3 DEF Mark, DeviceWords
  <2>2. ~(i > i)
    BY <1>1
  <2>3. ObjectsAt(src, i, i) = IF t \in NodeTokens THEN 1 ELSE 0
    BY <2>2 DEF ObjectsAt
  <2>4. t \in {"NUMBER", "IDENTIFIER", "TRUE", "FALSE"} \cup OpTokens => t \in NodeTokens
    BY DEF OpTokens, NodeTokens
  <2>5. t \in QuietTokens => t \notin NodeTokens
    BY DEF QuietTokens, NodeTokens
  <2>6. \A kind \in {"number", "identifier", "boolean"} : Own(w, Leaf(kind, c)) = 1
    BY <1>3 DEF Own, Leaf
  <2>7. OpOwn(w) = 1 /\ None(w) = 0
    BY <1>3 DEF OpOwn, None, Counted
  <2>. QED
    BY <1>2, <2>1, <2>3, <2>4, <2>5, <2>6, <2>7
<1>4. CASE w = "refs"
  <2>1. Mark(w, src, i, i) = RefAt(src, i)
    BY <1>4 DEF Mark, DeviceWords
  <2>2. t \notin TypeNames
    BY <1>2, BodyIsPlain
  <2>3. ~(i # 1 /\ src[i - 1] \in RoleWords)
    BY <1>1, <1>4 DEF AfterRole
  <2>4. RoleAt(src, i) = IF t = "NUMBER" THEN "number" ELSE IF t = "IDENTIFIER" THEN "identifier" ELSE "boolean"
    BY <2>3 DEF RoleAt, RoleWords, FunctionWords
  <2>5. RefAt(src, i) = IF t \in {"IDENTIFIER", "NUMBER", "TRUE", "FALSE"}
                        THEN <<Ref(RoleAt(src, i), i)>> ELSE <<>>
    BY <2>2 DEF RefAt, IsReferred
  <2>6. \A kind \in {"number", "identifier", "boolean"} : Own(w, Leaf(kind, c)) = <<Ref(kind, i)>>
    BY <1>4 DEF Own, Leaf
  <2>7. OpOwn(w) = <<>> /\ None(w) = <<>>
    BY <1>4 DEF OpOwn, None, Counted
  <2>8. t \in OpTokens \cup QuietTokens => t \notin {"IDENTIFIER", "NUMBER", "TRUE", "FALSE"}
    BY DEF OpTokens, NodeTokens, QuietTokens
  <2>. QED
    BY <1>2, <2>1, <2>4, <2>5, <2>6, <2>7, <2>8
<1>. QED
  BY <1>3, <1>4 DEF Both

\* What is counted may be known only where it can be told.
LEMMA CountsAs ==
  ASSUME NEW c, NEW d, NEW w, NEW a, NEW b, Counts(w, c, d, a), IsAmount(w, b),
         Tells(w, c, d) => a = b
  PROVE  Counts(w, c, d, b)
BY DEF Counts

LEMMA TokenCounts ==
  ASSUME NEW src \in Seq(STRING), NEW c \in Cursors(src), NEW w \in Both
  PROVE  LET d == Advance(c) IN
         /\ Current(c) = "NUMBER" => Counts(w, c, d, Own(w, Leaf("number", c)))
         /\ Current(c) \in {"TRUE", "FALSE"} => Counts(w, c, d, Own(w, Leaf("boolean", c)))
         /\ Current(c) = "IDENTIFIER" /\ Current(d) # "LPAREN" =>
              Counts(w, c, d, Own(w, Leaf("identifier", c)))
         /\ Current(c) \in OpTokens => Counts(w, c, d, OpOwn(w))
         /\ Current(c) \in QuietTokens => Counts(w, c, d, None(w))
<1>. DEFINE d == Advance(c)
            a == Mark(w, src, c.pos, c.pos)
<1>1. IsAmount(w, OpOwn(w)) /\ IsAmount(w, None(w)) /\ \A n : IsAmount(w, Own(w, n))
  BY OpOwnAmount, OwnAmount, EmptyListed DEF IsAmount, None
<1>2. /\ Current(c) \in {"NUMBER", "TRUE", "FALSE"} \cup OpTokens \cup QuietTokens =>
           Current(c) \in BodyTokens \ {"IDENTIFIER"}
      /\ Current(c) = "IDENTIFIER" => Current(c) \in BodyTokens
  BY DEF OpTokens, QuietTokens, BodyTokens, NodeTokens
<1>3. ASSUME Tells(w, c, d), Current(c) \in BodyTokens
      PROVE  /\ Current(c) = "NUMBER" => a = Own(w, Leaf("number", c))
             /\ Current(c) \in {"TRUE", "FALSE"} => a = Own(w, Leaf("boolean", c))
             /\ Current(c) = "IDENTIFIER" => a = Own(w, Leaf("identifier", c))
             /\ Current(c) \in OpTokens => a = OpOwn(w)
             /\ Current(c) \in QuietTokens => a = None(w)
  <2>1. w = "refs" => ~AfterRole(c)
    BY <1>3 DEF Tells
  <2>. QED
    BY <1>3, <2>1, MarkOfToken
<1>4. Current(c) \in BodyTokens \ {"IDENTIFIER"} => Counts(w, c, d, a)
  BY CoversToken
<1>5. Current(c) = "IDENTIFIER" /\ Current(d) # "LPAREN" => Counts(w, c, d, a)
  BY CoversName
<1>. HIDE DEF d, a
<1>6. CASE Current(c) = "NUMBER"
  <2>1. Counts(w, c, d, a) /\ (Tells(w, c, d) => a = Own(w, Leaf("number", c)))
    BY <1>2, <1>3, <1>4, <1>6
  <2>2. Counts(w, c, d, Own(w, Leaf("number", c)))
    BY <1>1, <2>1, CountsAs
  <2>. QED
    BY <1>6, <2>2 DEF d, OpTokens, QuietTokens
<1>7. CASE Current(c) \in {"TRUE", "FALSE"}
  <2>1. Counts(w, c, d, a) /\ (Tells(w, c, d) => a = Own(w, Leaf("boolean", c)))
    BY <1>2, <1>3, <1>4, <1>7
  <2>2. Counts(w, c, d, Own(w, Leaf("boolean", c)))
    BY <1>1, <2>1, CountsAs
  <2>. QED
    BY <1>7, <2>2 DEF d, OpTokens, QuietTokens
<1>8. CASE Current(c) = "IDENTIFIER" /\ Current(d) # "LPAREN"
  <2>1. Counts(w, c, d, a) /\ (Tells(w, c, d) => a = Own(w, Leaf("identifier", c)))
    BY <1>2, <1>3, <1>5, <1>8
  <2>2. Counts(w, c, d, Own(w, Leaf("identifier", c)))
    BY <1>1, <2>1, CountsAs
  <2>. QED
    BY <1>8, <2>2 DEF d, OpTokens, QuietTokens
<1>9. CASE Current(c) \in OpTokens
  <2>1. Counts(w, c, d, a) /\ (Tells(w, c, d) => a = OpOwn(w))
    BY <1>2, <1>3, <1>4, <1>9
  <2>2. Counts(w, c, d, OpOwn(w))
    BY <1>1, <2>1, CountsAs
  <2>. QED
    BY <1>9, <2>2 DEF d, OpTokens, NodeTokens, QuietTokens
<1>10. CASE Current(c) \in QuietTokens
  <2>1. Counts(w, c, d, a) /\ (Tells(w, c, d) => a = None(w))
    BY <1>2, <1>3, <1>4, <1>10
  <2>2. Counts(w, c, d, None(w))
    BY <1>1, <2>1, CountsAs
  <2>. QED
    BY <1>10, <2>2 DEF d, OpTokens, NodeTokens, QuietTokens
<1>. QED
  BY <1>6, <1>7, <1>8, <1>9, <1>10 DEF d

\* The node of a call is made at its '('.
CallOwn(w) == IF w = "objects" THEN 2 ELSE None(w)

LEMMA CallCounts ==
  ASSUME NEW src \in Seq(STRING), NEW c \in Cursors(src), NEW w \in Both,
         Current(c) = "IDENTIFIER", Current(Advance(c)) = "LPAREN"
  PROVE  /\ Counts(w, c, Advance(Advance(c)), Plus(w, CallOwn(w), Own(w, Leaf("identifier", c))))
         /\ IsAmount(w, CallOwn(w))
<1>. DEFINE d == Advance(Advance(c))
            a == Mark(w, src, c.pos, c.pos)
            b == Mark(w, src, c.pos, c.pos + 1)
            o == Own(w, Leaf("identifier", c))
<1>1. Counts(w, c, d, Plus(w, a, b))
  BY CoversCall
<1>2. IsAmount(w, CallOwn(w)) /\ IsAmount(w, o) /\ IsAmount(w, None(w))
  BY OwnAmount, EmptyListed DEF IsAmount, CallOwn, None, Counted, Both
<1>3. /\ c.src = src /\ c.pos \in Nat /\ c.pos >= 1 /\ Len(src) \in Nat
      /\ c.pos <= Len(src) /\ src[c.pos] = "IDENTIFIER"
  BY DEF Cursors, Current
<1>4. src[c.pos + 1] = "LPAREN"
  <2>1. Advance(c).src = src /\ Advance(c).pos = c.pos + 1
    BY <1>3 DEF Advance, Cursors
  <2>. QED
    BY <2>1 DEF Current
<1>5. ASSUME Tells(w, c, d) PROVE Plus(w, a, b) = Plus(w, CallOwn(w), o)
  <2>0. w = "refs" => ~AfterRole(c)
    BY <1>5 DEF Tells
  <2>1. a = o
    BY <2>0, MarkOfToken DEF BodyTokens, NodeTokens
  <2>2. CASE w = "objects"
    <3>1. b = 2
      <4>1. c.pos + 1 > c.pos /\ (c.pos + 1) - 1 = c.pos /\ src[c.pos + 1] \notin NodeTokens
        BY <1>3, <1>4 DEF NodeTokens
      <4>2. ObjectsAt(src, c.pos, c.pos + 1) = 2
        BY <1>3, <1>4, <4>1 DEF ObjectsAt
      <4>. QED
        BY <2>2, <4>2 DEF Mark, DeviceWords
    <3>2. o = 1
      BY <2>2 DEF Own, Leaf
    <3>. QED
      BY <2>1, <2>2, <3>1, <3>2 DEF Plus, CallOwn, Counted
  <2>3. CASE w = "refs"
    <3>1. b = <<>>
      <4>1. ~IsReferred(src, c.pos + 1)
        BY <1>4 DEF IsReferred, TypeNames
      <4>. QED
        BY <2>3, <4>1 DEF Mark, RefAt, DeviceWords
    <3>2. b = None(w) /\ CallOwn(w) = None(w)
      BY <2>3, <3>1 DEF None, CallOwn, Counted
    <3>. QED
      BY <1>2, <2>1, <3>2, PlusNone
  <2>. QED
    BY <2>2, <2>3 DEF Both
<1>6. IsAmount(w, Plus(w, CallOwn(w), o))
  BY <1>2, PlusAmount
<1>. HIDE DEF d, a, b, o
<1>7. Counts(w, c, d, Plus(w, CallOwn(w), o))
  BY <1>1, <1>5, <1>6, CountsAs
<1>. QED
  BY <1>2, <1>7 DEF d, o

-----------------------------------------------------------------------------
(* What the expression functions promise *)

GoodOperand(c, r) ==
  /\ Covers(c, r.c) /\ r.node \in Trees[r.c.pos - c.pos]
  /\ \A w \in Both : Counts(w, c, r.c, Amount(w, Height(c.src))[r.node])

GoodOperators(c, r) ==
  /\ Covers(c, r.c) /\ Len(r.node) \in Nat /\ Len(r.node) <= r.c.pos - c.pos
  /\ IsMore(Trees[(r.c.pos - c.pos) - Len(r.node)], r.node)
  /\ \A w \in Both : Counts(w, c, r.c, All(w, MoreAmounts(w, Height(c.src), r.node)))

GoodArguments(c, r) ==
  /\ Covers(c, r.c) /\ r.node \in Seq(Trees[r.c.pos - c.pos])
  /\ \A w \in Both : Counts(w, c, r.c, Below(w, Amount(w, Height(c.src)), r.node))

Good(goal, r) == CASE goal.what = "operand"   -> GoodOperand(goal.c, r)
                   [] goal.what = "operators" -> GoodOperators(goal.c, r)
                   [] goal.what = "arguments" -> GoodArguments(goal.c, r)

\* f keeps the promise for every goal that weighs less than n.
Fine(f, src, n) == \A goal \in Goals(src) : Weight(goal) < n => Good(goal, f[goal])

LEMMA FineOperand ==
  ASSUME NEW src \in Seq(STRING), NEW n, NEW f, Fine(f, src, n),
         NEW level \in 0..8, NEW c \in Cursors(src), Left(c) * 11 + level + 1 < n
  PROVE  GoodOperand(c, f[ToOperand(level, c)])
<1>1. ToOperand(level, c) \in Goals(src)
  BY LevelsCount DEF Goals, ToOperand
<1>2. Weight(ToOperand(level, c)) < n
  <2>1. Left(c) \in Nat
    BY LeftFalls
  <2>2. Weight(ToOperand(level, c)) = Left(c) * 11 + (level + 1)
    BY DEF Weight, Rank, ToOperand
  <2>. QED
    BY <2>1, <2>2
<1>3. Good(ToOperand(level, c), f[ToOperand(level, c)])
  BY <1>1, <1>2 DEF Fine
<1>. QED
  BY <1>3 DEF Good, ToOperand

LEMMA FineOperators ==
  ASSUME NEW src \in Seq(STRING), NEW n, NEW f, Fine(f, src, n),
         NEW level \in 1..8, NEW c \in Cursors(src), Left(c) * 11 < n
  PROVE  GoodOperators(c, f[ToOperators(level, c)])
<1>1. ToOperators(level, c) \in Goals(src)
  BY LevelsCount DEF Goals, ToOperators
<1>2. Weight(ToOperators(level, c)) < n
  BY LeftFalls DEF Weight, Rank, ToOperators
<1>3. Good(ToOperators(level, c), f[ToOperators(level, c)])
  BY <1>1, <1>2 DEF Fine
<1>. QED
  BY <1>3 DEF Good, ToOperators

LEMMA FineArguments ==
  ASSUME NEW src \in Seq(STRING), NEW n, NEW f, Fine(f, src, n),
         NEW c \in Cursors(src), Left(c) * 11 + 10 < n
  PROVE  GoodArguments(c, f[ToArguments(c)])
<1>1. ToArguments(c) \in Goals(src)
  BY DEF Goals, ToArguments
<1>2. Weight(ToArguments(c)) < n
  BY DEF Weight, Rank, ToArguments
<1>3. Good(ToArguments(c), f[ToArguments(c)])
  BY <1>1, <1>2 DEF Fine
<1>. QED
  BY <1>3 DEF Good, ToArguments

\* The trees of a part of the text are among those of the text.
LEMMA TreesOfText ==
  ASSUME NEW src \in Seq(STRING), NEW k \in Nat, k <= Len(src)
  PROVE  Height(src) \in Nat /\ Trees[k] \subseteq Trees[Height(src)]
<1>1. Height(src) \in Nat /\ k <= Height(src)
  BY DEF Height
<1>. QED
  BY <1>1, TreesMonotonic

-----------------------------------------------------------------------------
(* The loop of a level *)

LEMMA MoreNone ==
  ASSUME NEW w, NEW h
  PROVE  All(w, MoreAmounts(w, h, <<>>)) = None(w) /\ \A T : IsMore(T, <<>>)
<1>. DEFINE s == MoreAmounts(w, h, <<>>)
<1>1. s = [k \in 1..0 |-> s[k]]
  BY EmptyListed DEF MoreAmounts
<1>. HIDE DEF s
<1>2. Listed(s) /\ Len(s) = 0
  BY <1>1, ListOf
<1>3. s = <<>>
  BY <1>2, ListedEmpty
<1>. QED
  BY <1>3, AllEmpty, EmptyListed DEF s, IsMore

LEMMA MorePush ==
  ASSUME NEW h \in Nat, NEW T, T \subseteq Trees[h], NEW more, IsMore(T, more),
         NEW e, e.op \in STRING, e.right \in T
  PROVE  /\ IsMore(T, <<e>> \o more) /\ Len(<<e>> \o more) = Len(more) + 1
         /\ \A w \in Both : All(w, MoreAmounts(w, h, <<e>> \o more)) =
              Plus(w, Plus(w, OpOwn(w), Amount(w, h)[e.right]), All(w, MoreAmounts(w, h, more)))
<1>. DEFINE m == <<e>> \o more
<1>1. Listed(more) /\ Len(more) \in Nat
  BY DEF IsMore, Listed
<1>2. /\ Listed(m) /\ Len(m) = Len(more) + 1 /\ m[1] = e
      /\ \A k \in 1..Len(more) : m[k + 1] = more[k]
  BY <1>1, PushEffect
<1>. HIDE DEF m
<1>3. IsMore(T, m)
  <2>1. ASSUME NEW k \in 1..Len(m) PROVE m[k].op \in STRING /\ m[k].right \in T
    <3>1. CASE k = 1
      BY <1>2, <3>1
    <3>2. CASE k # 1
      <4>1. k - 1 \in 1..Len(more) /\ (k - 1) + 1 = k
        BY <1>1, <1>2, <3>2
      <4>2. m[(k - 1) + 1] = more[k - 1]
        BY <1>2, <4>1
      <4>. QED
        BY <4>1, <4>2 DEF IsMore
    <3>. QED
      BY <3>1, <3>2
  <2>. QED
    BY <1>2, <2>1 DEF IsMore
<1>4. IsMore(Trees[h], m) /\ IsMore(Trees[h], more)
  BY <1>3 DEF IsMore
<1>5. ASSUME NEW w \in Both
      PROVE  All(w, MoreAmounts(w, h, m)) =
               Plus(w, Plus(w, OpOwn(w), Amount(w, h)[e.right]), All(w, MoreAmounts(w, h, more)))
  <2>. DEFINE s == MoreAmounts(w, h, more)
              t == MoreAmounts(w, h, m)
              f == Amount(w, h)
              x == Plus(w, OpOwn(w), f[e.right])
              v == <<x>> \o s
  <2>1. /\ Amounts(w, s) /\ Len(s) = Len(more)
        /\ \A k \in 1..Len(more) : s[k] = Plus(w, OpOwn(w), f[more[k].right])
    BY <1>4, MoreIsAmount
  <2>2. /\ Amounts(w, t) /\ Len(t) = Len(m)
        /\ \A k \in 1..Len(m) : t[k] = Plus(w, OpOwn(w), f[m[k].right])
    BY <1>4, MoreIsAmount
  <2>3. IsAmount(w, x)
    <3>1. e.right \in Trees[h]
      OBVIOUS
    <3>2. IsAmount(w, f[e.right])
      BY <3>1, AmountEquation
    <3>. QED
      BY <3>2, OpOwnAmount, PlusAmount
  <2>4. x = Plus(w, OpOwn(w), f[e.right])
    OBVIOUS
  <2>. HIDE DEF s, t, f, x
  <2>5. Listed(s) /\ Listed(t)
    BY <2>1, <2>2 DEF Amounts
  <2>6. Listed(v) /\ Len(v) = Len(s) + 1 /\ v[1] = x /\ \A k \in 1..Len(s) : v[k + 1] = s[k]
    BY <2>5, PushEffect
  <2>7. Amounts(w, v) /\ All(w, v) = Plus(w, x, All(w, s))
    BY <2>1, <2>3, AllPush
  <2>. HIDE DEF v
  <2>8. ASSUME NEW k \in 1..Len(t) PROVE t[k] = v[k]
    <3>1. CASE k = 1
      BY <1>2, <2>2, <2>4, <2>6, <3>1
    <3>2. CASE k # 1
      <4>1. k - 1 \in 1..Len(more) /\ (k - 1) + 1 = k /\ k \in 1..Len(m)
        BY <1>1, <1>2, <2>2, <3>2
      <4>2. m[(k - 1) + 1] = more[k - 1] /\ v[(k - 1) + 1] = s[k - 1]
        BY <1>2, <2>1, <2>6, <4>1
      <4>3. t[k] = Plus(w, OpOwn(w), f[m[k].right])
            /\ s[k - 1] = Plus(w, OpOwn(w), f[more[k - 1].right])
        BY <2>1, <2>2, <4>1
      <4>. QED
        BY <4>1, <4>2, <4>3
    <3>. QED
      BY <3>1, <3>2
  <2>9. Len(t) = Len(v)
    BY <1>2, <2>1, <2>2, <2>6
  <2>10. t = v
    BY <2>5, <2>6, <2>8, <2>9, ListEqual
  <2>. QED
    BY <2>4, <2>7, <2>10 DEF s, t, f
<1>. QED
  BY <1>2, <1>3, <1>5 DEF m

LEMMA LevelsAreOps ==
  ASSUME NEW level \in 1..8
  PROVE  Levels[level] \subseteq OpTokens
<1>. level = 1 \/ level = 2 \/ level = 3 \/ level = 4 \/ level = 5 \/ level = 6 \/ level = 7 \/ level = 8
  OBVIOUS
<1>. QED
  BY DEF Levels, OpTokens, NodeTokens

LEMMA CurrentIsString ==
  ASSUME NEW src \in Seq(STRING), NEW c \in Cursors(src), Current(c) # "EOF"
  PROVE  Current(c) \in STRING
<1>1. c.src = src /\ c.pos \in Nat /\ c.pos >= 1 /\ Len(src) \in Nat
  BY DEF Cursors
<1>2. c.pos <= Len(src) /\ Current(c) = src[c.pos]
  BY <1>1 DEF Current
<1>. QED
  BY <1>1, <1>2

LEMMA OpIsToken == OpTokens \cup QuietTokens \subseteq BodyTokens \ {"IDENTIFIER"} /\ "EOF" \notin OpTokens
BY DEF OpTokens, QuietTokens, BodyTokens, NodeTokens

\* An operator or another token that is no name is consumed.
LEMMA StepCovers ==
  ASSUME NEW src \in Seq(STRING), NEW c \in Cursors(src), Current(c) \in OpTokens \cup QuietTokens
  PROVE  /\ Covers(c, Advance(c)) /\ Advance(c) \in Cursors(src)
         /\ Advance(c).pos = c.pos + 1 /\ Left(Advance(c)) = Left(c) - 1
         /\ \A w \in Both : Counts(w, c, Advance(c), IF Current(c) \in OpTokens THEN OpOwn(w) ELSE None(w))
<1>1. Current(c) \in BodyTokens \ {"IDENTIFIER"} /\ Current(c) # "EOF"
  BY OpIsToken, BodyIsPlain
<1>2. Covers(c, Advance(c)) /\ Advance(c).pos = c.pos + 1
  BY <1>1, CoversToken
<1>3. Advance(c) \in Cursors(src) /\ Left(Advance(c)) = Left(c) - 1
  BY <1>1, LeftFalls
<1>4. \A w \in Both : Counts(w, c, Advance(c), IF Current(c) \in OpTokens THEN OpOwn(w) ELSE None(w))
  BY TokenCounts
<1>. QED
  BY <1>2, <1>3, <1>4

LEMMA OperatorsFine ==
  ASSUME NEW src \in Seq(STRING), NEW n \in Nat, NEW f, Fine(f, src, n),
         NEW level \in 1..8, NEW c \in Cursors(src), Left(c) * 11 <= n
  PROVE  GoodOperators(c, Operators(f, level, c))
<1>. DEFINE next  == Advance(c)
            right == f[ToOperand(level - 1, next)]
            more  == f[ToOperators(level, right.c)]
            e     == [op |-> Current(c), right |-> right.node]
            h     == Height(src)
<1>0. c.src = src /\ h \in Nat /\ c.pos \in Nat
  BY DEF Cursors, Height
<1>1. CASE Current(c) \in Levels[level]
  <2>1. Current(c) \in OpTokens
    BY <1>1, LevelsAreOps
  <2>2. /\ Covers(c, next) /\ next \in Cursors(src) /\ next.pos = c.pos + 1
        /\ Left(next) = Left(c) - 1 /\ Left(c) \in Nat
        /\ \A w \in Both : Counts(w, c, next, OpOwn(w))
    BY <2>1, StepCovers, LeftFalls
  <2>. HIDE DEF next
  <2>3. Left(next) * 11 + (level - 1) + 1 < n /\ level - 1 \in 0..8
    BY <2>2
  <2>4. GoodOperand(next, right)
    BY <2>2, <2>3, FineOperand
  <2>. HIDE DEF right
  <2>5. Covers(next, right.c)
    BY <2>4 DEF GoodOperand
  <2>6. /\ right.c \in Cursors(src) /\ next.src = src /\ next.pos \in Nat /\ right.c.pos \in Nat
        /\ right.c.pos - next.pos \in Nat /\ right.c.pos - next.pos <= Len(src)
        /\ Left(right.c) \in Nat /\ Left(right.c) <= Left(next)
    BY <2>2, <2>5, CoversPositions
  <2>7. Left(right.c) * 11 < n
    BY <2>2, <2>6
  <2>8. GoodOperators(right.c, more)
    BY <2>6, <2>7, FineOperators
  <2>. HIDE DEF more
  <2>9. Covers(right.c, more.c)
    BY <2>8 DEF GoodOperators
  <2>10. /\ right.c.src = src /\ more.c.pos \in Nat /\ more.c.pos - right.c.pos \in Nat
    BY <2>6, <2>9, CoversPositions
  <2>11. Covers(c, right.c) /\ Covers(c, more.c)
    BY <2>2, <2>5, <2>9, CoversJoin
  <2>12. more.c.pos - c.pos \in Nat /\ more.c.pos - c.pos <= Len(src)
    BY <2>11, CoversPositions
  <2>. DEFINE a == right.c.pos - next.pos
              b == more.c.pos - right.c.pos
              x == more.c.pos - c.pos
              l == Len(more.node)
              g == x - (l + 1)
              T == Trees[g]
              list == <<e>> \o more.node
  <2>13. /\ l \in Nat /\ l <= b /\ IsMore(Trees[b - l], more.node)
         /\ \A w \in Both : Counts(w, right.c, more.c, All(w, MoreAmounts(w, h, more.node)))
    BY <2>8, <2>10 DEF GoodOperators
  <2>14. right.node \in Trees[a] /\ \A w \in Both : Counts(w, next, right.c, Amount(w, h)[right.node])
    BY <2>4, <2>6 DEF GoodOperand
  <2>15. x = (a + b) + 1 /\ a \in Nat /\ b \in Nat
    <3>1. a \in Nat /\ b \in Nat
      BY <2>6, <2>10
    <3>2. right.c.pos \in Nat /\ more.c.pos \in Nat /\ next.pos = c.pos + 1
      BY <2>2, <2>6, <2>10
    <3>. HIDE DEF right, more, next
    <3>3. ASSUME NEW p \in Nat, NEW q \in Nat, NEW r \in Nat
          PROVE  r - p = ((q - (p + 1)) + (r - q)) + 1
      OBVIOUS
    <3>4. x = ((right.c.pos - (c.pos + 1)) + b) + 1
      BY <1>0, <3>2, <3>3
    <3>. QED
      BY <3>1, <3>2, <3>4
  <2>. HIDE DEF a, b, x, l
  <2>16. g \in Nat /\ b - l \in Nat /\ a <= g /\ b - l <= g /\ l + 1 <= x /\ g <= Len(src) /\ Len(src) \in Nat
    <3>1. a \in Nat /\ b \in Nat /\ l \in Nat /\ l <= b /\ x = (a + b) + 1
      BY <2>13, <2>15 DEF l
    <3>2. x <= Len(src) /\ Len(src) \in Nat
      BY <2>12 DEF x
    <3>3. x - (l + 1) = a + (b - l) /\ b - l \in Nat
      BY <3>1
    <3>. QED
      BY <3>1, <3>2, <3>3
  <2>. HIDE DEF g
  <2>17. Trees[a] \subseteq T /\ Trees[b - l] \subseteq T /\ T \subseteq Trees[h]
    BY <2>15, <2>16, TreesMonotonic, TreesOfText
  <2>18. IsMore(T, more.node) /\ e.op \in STRING /\ e.right \in T
    <3>1. Current(c) # "EOF"
      BY <2>1, OpIsToken
    <3>2. Current(c) \in STRING
      BY <3>1, CurrentIsString
    <3>. QED
      BY <2>13, <2>14, <2>17, <3>2 DEF IsMore
  <2>19. e.right = right.node
    OBVIOUS
  <2>. HIDE DEF e, T, h
  <2>25. h \in Nat /\ T \subseteq Trees[h] /\ IsMore(T, more.node) /\ e.op \in STRING /\ e.right \in T
    BY <1>0, <2>17, <2>18
  <2>20. /\ IsMore(T, list) /\ Len(list) = Len(more.node) + 1
         /\ \A w \in Both : All(w, MoreAmounts(w, h, list)) =
              Plus(w, Plus(w, OpOwn(w), Amount(w, h)[e.right]), All(w, MoreAmounts(w, h, more.node)))
    BY <2>25, MorePush
  <2>. HIDE DEF list
  <2>21. ASSUME NEW w \in Both PROVE Counts(w, c, more.c, All(w, MoreAmounts(w, h, list)))
    <3>1. Counts(w, c, right.c, Plus(w, OpOwn(w), Amount(w, h)[right.node]))
      BY <2>2, <2>5, <2>14, CountsJoin
    <3>2. Counts(w, c, more.c, Plus(w, Plus(w, OpOwn(w), Amount(w, h)[right.node]),
                                      All(w, MoreAmounts(w, h, more.node))))
      BY <2>9, <2>11, <2>13, <3>1, CountsJoin
    <3>. QED
      BY <2>19, <2>20, <3>2
  <2>22. Operators(f, level, c) = Result(more.c, list)
    BY <1>1 DEF Operators, more, right, next, list, e
  <2>23. Len(list) = l + 1
    BY <2>20 DEF l
  <2>24. Len(list) \in Nat /\ Len(list) <= more.c.pos - c.pos
         /\ IsMore(Trees[(more.c.pos - c.pos) - Len(list)], list)
    <3>1. x - Len(list) = g
      BY <2>23 DEF g
    <3>. QED
      BY <2>13, <2>16, <2>20, <2>23, <3>1 DEF T, x
  <2>. QED
    BY <1>0, <2>11, <2>21, <2>22, <2>24 DEF GoodOperators, Result, h
<1>2. CASE Current(c) \notin Levels[level]
  <2>1. Operators(f, level, c) = Result(c, <<>>)
    BY <1>2 DEF Operators
  <2>2. Covers(c, c) /\ \A w : Counts(w, c, c, None(w))
    BY CoversNothing
  <2>3. \A w \in Both : All(w, MoreAmounts(w, h, <<>>)) = None(w)
    BY MoreNone
  <2>4. Len(<<>>) = 0 /\ c.pos - c.pos = 0 /\ IsMore(Trees[(c.pos - c.pos) - Len(<<>>)], <<>>)
    BY <1>0, EmptyListed, MoreNone
  <2>. QED
    BY <1>0, <2>1, <2>2, <2>3, <2>4 DEF GoodOperators, Result
<1>. QED
  BY <1>1, <1>2

LEMMA BinaryFine ==
  ASSUME NEW src \in Seq(STRING), NEW n \in Nat, NEW f, Fine(f, src, n),
         NEW level \in 1..8, NEW c \in Cursors(src), Left(c) * 11 + level + 1 <= n
  PROVE  GoodOperand(c, Binary(f, level, c))
<1>. DEFINE left == f[ToOperand(level - 1, c)]
            more == f[ToOperators(level, left.c)]
            h    == Height(src)
            tree == Joined(left.node, more.node)
<1>0. c.src = src /\ h \in Nat /\ Left(c) \in Nat
  BY LeftFalls DEF Cursors, Height
<1>1. Left(c) * 11 + (level - 1) + 1 < n /\ level - 1 \in 0..8
  BY <1>0
<1>2. GoodOperand(c, left)
  BY <1>1, FineOperand
<1>. HIDE DEF left
<1>3. Covers(c, left.c)
  BY <1>2 DEF GoodOperand
<1>4. /\ left.c \in Cursors(src) /\ c.pos \in Nat /\ left.c.pos \in Nat
      /\ left.c.pos - c.pos \in Nat /\ Left(left.c) \in Nat /\ Left(left.c) <= Left(c)
  BY <1>3, CoversPositions, SMTT(30)
<1>5. Left(left.c) * 11 < n
  BY <1>0, <1>4
<1>6. GoodOperators(left.c, more)
  BY <1>4, <1>5, FineOperators
<1>. HIDE DEF more
<1>7. Covers(left.c, more.c)
  BY <1>6 DEF GoodOperators
<1>8. left.c.src = src /\ more.c.pos \in Nat /\ more.c.pos - left.c.pos \in Nat
  BY <1>4, <1>7, CoversPositions
<1>9. Covers(c, more.c)
  BY <1>3, <1>7, CoversJoin
<1>10. more.c.pos - c.pos \in Nat /\ more.c.pos - c.pos <= Len(src) /\ Len(src) \in Nat
  BY <1>9, CoversPositions
<1>. DEFINE a == left.c.pos - c.pos
            b == more.c.pos - left.c.pos
            x == more.c.pos - c.pos
            l == Len(more.node)
            g == x - l
            T == Trees[g]
<1>11. /\ l \in Nat /\ l <= b /\ IsMore(Trees[b - l], more.node)
       /\ \A w \in Both : Counts(w, left.c, more.c, All(w, MoreAmounts(w, h, more.node)))
  BY <1>6, <1>8 DEF GoodOperators
<1>12. left.node \in Trees[a] /\ \A w \in Both : Counts(w, c, left.c, Amount(w, h)[left.node])
  BY <1>0, <1>2 DEF GoodOperand
<1>13. x = a + b /\ a \in Nat /\ b \in Nat
  BY <1>4, <1>8
<1>14. x <= Len(src) /\ Len(src) \in Nat
  BY <1>10
<1>. HIDE DEF a, b, x, l
<1>15. /\ g \in Nat /\ b - l \in Nat /\ a <= g /\ b - l <= g /\ g <= Len(src) /\ g + l = x
  <2>1. x - l = a + (b - l) /\ b - l \in Nat
    BY <1>11, <1>13
  <2>. QED
    BY <1>11, <1>13, <1>14, <2>1
<1>. HIDE DEF g
<1>16. Trees[a] \subseteq T /\ Trees[b - l] \subseteq T
  BY <1>13, <1>15, TreesMonotonic
<1>17. left.node \in T /\ IsMore(T, more.node)
  BY <1>11, <1>12, <1>16 DEF IsMore
<1>18. g + Len(more.node) <= h
  BY <1>14, <1>15 DEF l, h, Height
<1>. DEFINE t == left.node
            m == more.node
<1>. HIDE DEF h
<1>23. Joinable(g, h, t, m)
  BY <1>0, <1>15, <1>17, <1>18 DEF Joinable
<1>. HIDE DEF t, m, T, tree
<1>24. /\ Joined(t, m) \in Trees[g + Len(m)]
       /\ \A w \in Both : Amount(w, h)[Joined(t, m)] =
                            Plus(w, Amount(w, h)[t], All(w, MoreAmounts(w, h, m)))
  BY <1>23, JoinedMeasured
<1>19. /\ tree \in Trees[g + l]
       /\ \A w \in Both : Amount(w, h)[tree] =
                            Plus(w, Amount(w, h)[left.node], All(w, MoreAmounts(w, h, more.node)))
  BY <1>24 DEF t, m, tree, l
<1>20. ASSUME NEW w \in Both PROVE Counts(w, c, more.c, Amount(w, h)[tree])
  <2>1. Counts(w, c, more.c, Plus(w, Amount(w, h)[left.node], All(w, MoreAmounts(w, h, more.node))))
    BY <1>3, <1>7, <1>11, <1>12, CountsJoin
  <2>. QED
    BY <1>19, <2>1
<1>21. tree \in Trees[more.c.pos - c.pos]
  BY <1>15, <1>19 DEF x
<1>22. Binary(f, level, c) = Result(more.c, tree)
  BY DEF Binary, left, more, tree
<1>. QED
  BY <1>0, <1>9, <1>20, <1>21, <1>22 DEF GoodOperand, Result, h

\* What is behind is as good as nothing when it is quiet.
LEMMA QuietCounts ==
  ASSUME NEW src \in Seq(STRING), NEW c \in Cursors(src), NEW d, NEW e, Covers(c, d), Covers(d, e),
         NEW w, NEW a, Counts(w, c, d, a), Counts(w, d, e, None(w))
  PROVE  Covers(c, e) /\ Counts(w, c, e, a)
<1>1. Plus(w, a, None(w)) = a
  BY PlusNone DEF Counts
<1>2. Counts(w, c, e, Plus(w, a, None(w)))
  BY CountsJoin
<1>. QED
  BY <1>1, <1>2, CoversJoin

LEMMA ExpectFine ==
  ASSUME NEW src \in Seq(STRING), NEW c \in Cursors(src), NEW t \in QuietTokens
  PROVE  /\ Covers(c, Expect(c, t)) /\ Covers(c, Match(c, t))
         /\ \A w \in Both : Counts(w, c, Expect(c, t), None(w)) /\ Counts(w, c, Match(c, t), None(w))
<1>1. CASE Current(c) = t
  <2>1. Expect(c, t) = Advance(c) /\ Match(c, t) = Advance(c)
    BY <1>1 DEF Expect, Match, MatchAny
  <2>2. Current(c) \in OpTokens \cup QuietTokens /\ Current(c) \notin OpTokens
    BY <1>1 DEF OpTokens, QuietTokens, NodeTokens
  <2>3. Covers(c, Advance(c)) /\ \A w \in Both : Counts(w, c, Advance(c), None(w))
    BY <2>2, StepCovers
  <2>. QED
    BY <2>1, <2>3
<1>2. CASE Current(c) # t
  <2>1. Expect(c, t) = Fail(c) /\ Match(c, t) = c
    BY <1>2 DEF Expect, Match, MatchAny
  <2>. QED
    BY <2>1, CoversNothing
<1>. QED
  BY <1>1, <1>2

LEMMA PushInSeq ==
  ASSUME NEW T, NEW x \in T, NEW s \in Seq(T)
  PROVE  <<x>> \o s \in Seq(T) /\ <<x>> \in Seq(T) /\ <<x>> \o <<>> = <<x>>
<1>1. <<x>> \in Seq(T)
  OBVIOUS
<1>2. <<x>> \o s \in Seq(T)
  OBVIOUS
<1>. DEFINE one == <<x>>
<1>3. Listed(one)
  BY OneListed
<1>. HIDE DEF one
<1>4. one \o <<>> = one
  BY <1>3, ConcatUnits
<1>. QED
  BY <1>1, <1>2, <1>4 DEF one

LEMMA ArgumentsFine ==
  ASSUME NEW src \in Seq(STRING), NEW n \in Nat, NEW f, Fine(f, src, n),
         NEW c \in Cursors(src), Left(c) * 11 + 10 <= n
  PROVE  GoodArguments(c, Arguments(f, c))
<1>. DEFINE arg  == f[ToOperand(8, c)]
            next == Advance(arg.c)
            rest == f[ToArguments(next)]
            h    == Height(src)
<1>0. c.src = src /\ h \in Nat /\ c.pos \in Nat /\ Left(c) \in Nat
  BY LeftFalls DEF Cursors, Height
<1>1. GoodOperand(c, arg)
  <2>1. Left(c) * 11 + 8 + 1 < n /\ 8 \in 0..8
    BY <1>0
  <2>. QED
    BY <2>1, FineOperand
<1>. HIDE DEF arg, h
<1>2. /\ Covers(c, arg.c) /\ arg.node \in Trees[arg.c.pos - c.pos]
      /\ \A w \in Both : Counts(w, c, arg.c, Amount(w, h)[arg.node])
  BY <1>0, <1>1 DEF GoodOperand, h
<1>3. /\ arg.c \in Cursors(src) /\ arg.c.pos \in Nat /\ arg.c.pos - c.pos \in Nat
      /\ arg.c.pos - c.pos <= Len(src) /\ Len(src) \in Nat
      /\ Left(arg.c) \in Nat /\ Left(arg.c) <= Left(c)
  BY <1>2, CoversPositions
<1>4. \A w \in Both : \A t \in Trees[h] : IsAmount(w, Amount(w, h)[t])
  BY <1>0, AmountEquation
<1>5. arg.node \in Trees[h]
  BY <1>2, <1>3, TreesOfText DEF h
<1>6. CASE Current(arg.c) = "COMMA"
  <2>1. Current(arg.c) \in OpTokens \cup QuietTokens /\ Current(arg.c) \notin OpTokens
    BY <1>6 DEF OpTokens, QuietTokens, NodeTokens
  <2>2. /\ Covers(arg.c, next) /\ next \in Cursors(src) /\ next.pos = arg.c.pos + 1
        /\ Left(next) = Left(arg.c) - 1 /\ \A w \in Both : Counts(w, arg.c, next, None(w))
    BY <1>3, <2>1, StepCovers
  <2>. HIDE DEF next
  <2>3. Left(next) * 11 + 10 < n
    BY <1>0, <1>3, <2>2
  <2>4. GoodArguments(next, rest)
    BY <2>2, <2>3, FineArguments
  <2>5. next.src = src
    BY <2>2 DEF Cursors
  <2>. HIDE DEF rest
  <2>6. /\ Covers(next, rest.c) /\ rest.node \in Seq(Trees[rest.c.pos - next.pos])
        /\ \A w \in Both : Counts(w, next, rest.c, Below(w, Amount(w, h), rest.node))
    BY <2>4, <2>5 DEF GoodArguments, h
  <2>7. rest.c.pos \in Nat /\ rest.c.pos - next.pos \in Nat
    BY <2>2, <2>6, CoversPositions
  <2>8. Covers(c, next) /\ Covers(c, rest.c)
    BY <1>2, <1>3, <2>2, <2>6, CoversJoin
  <2>9. rest.c.pos - c.pos \in Nat /\ rest.c.pos - c.pos <= Len(src)
    BY <2>8, CoversPositions
  <2>. DEFINE a == arg.c.pos - c.pos
              b == rest.c.pos - next.pos
              x == rest.c.pos - c.pos
              list == <<arg.node>> \o rest.node
  <2>10. a <= x /\ b <= x
    <3>1. arg.c.pos \in Nat /\ next.pos = arg.c.pos + 1 /\ rest.c.pos \in Nat
          /\ rest.c.pos >= next.pos /\ next.pos >= c.pos /\ rest.c.pos >= arg.c.pos
      <4>1. arg.c.pos >= c.pos
        BY <1>0, <1>3
      <4>2. rest.c.pos >= next.pos
        BY <1>3, <2>2, <2>7
      <4>3. next.pos = arg.c.pos + 1 /\ arg.c.pos \in Nat /\ c.pos \in Nat
        BY <1>0, <1>3, <2>2
      <4>4. rest.c.pos \in Nat
        BY <2>7
      <4>. QED
        BY <4>1, <4>2, <4>3, <4>4
    <3>. QED
      BY <1>0, <3>1, SMTT(30)
  <2>11. Trees[a] \subseteq Trees[x] /\ Trees[b] \subseteq Trees[x] /\ Trees[x] \subseteq Trees[h]
    BY <1>3, <2>7, <2>9, <2>10, TreesMonotonic, TreesOfText DEF h
  <2>12. arg.node \in Trees[x] /\ rest.node \in Seq(Trees[x])
    BY <1>2, <2>6, <2>11
  <2>13. list \in Seq(Trees[x])
    <3>. HIDE DEF x
    <3>. QED
      BY <2>12, PushInSeq
  <2>. HIDE DEF a, b, list
  <2>14. ASSUME NEW w \in Both PROVE Counts(w, c, rest.c, Below(w, Amount(w, h), list))
    <3>1. Counts(w, c, next, Amount(w, h)[arg.node])
      BY <1>2, <2>2, QuietCounts
    <3>2. Counts(w, c, rest.c, Plus(w, Amount(w, h)[arg.node], Below(w, Amount(w, h), rest.node)))
      BY <2>6, <2>8, <3>1, CountsJoin
    <3>. DEFINE g == Amount(w, h)
                T == Trees[h]
                t == arg.node
                b2 == rest.node
    <3>3. t \in T /\ b2 \in Seq(T) /\ \A z \in T : IsAmount(w, g[z])
      BY <1>4, <1>5, <2>11, <2>12
    <3>. HIDE DEF g, T, t, b2
    <3>4. Below(w, g, <<t>> \o b2) = Plus(w, g[t], Below(w, g, b2))
      BY <3>3, BelowPush
    <3>. QED
      BY <3>2, <3>4 DEF g, t, b2, list
  <2>15. Arguments(f, c) = Result(rest.c, list)
    BY <1>6, LevelsCount DEF Arguments, arg, next, rest, list
  <2>. QED
    BY <1>0, <2>8, <2>13, <2>14, <2>15 DEF GoodArguments, Result, h
<1>7. CASE Current(arg.c) # "COMMA"
  <2>. DEFINE list == <<arg.node>> \o <<>>
              one  == <<arg.node>>
  <2>1. list = one /\ one \in Seq(Trees[arg.c.pos - c.pos])
    <3>1. <<>> \in Seq(Trees[arg.c.pos - c.pos])
      OBVIOUS
    <3>. QED
      BY <1>2, <3>1, PushInSeq
  <2>2. ASSUME NEW w \in Both PROVE Below(w, Amount(w, h), one) = Amount(w, h)[arg.node]
    BY <1>4, <1>5, BelowOne
  <2>. HIDE DEF list, one
  <2>3. Arguments(f, c) = Result(arg.c, list)
    BY <1>7, LevelsCount DEF Arguments, arg, list, Result
  <2>4. \A w \in Both : Counts(w, c, arg.c, Below(w, Amount(w, h), list))
    BY <1>2, <2>1, <2>2
  <2>5. list \in Seq(Trees[arg.c.pos - c.pos])
    BY <2>1
  <2>. QED
    BY <1>0, <1>2, <2>3, <2>4, <2>5 DEF GoodArguments, Result, h
<1>. QED
  BY <1>6, <1>7

\* A call, from its name on.
LEMMA CallAfterFine ==
  ASSUME NEW src \in Seq(STRING), NEW n \in Nat, NEW f, Fine(f, src, n), NEW c \in Cursors(src),
         Current(c) = "IDENTIFIER", Current(Advance(c)) = "LPAREN", Left(c) * 11 + 1 <= n
  PROVE  GoodOperand(c, CallAfter(f, Leaf("identifier", c), Advance(Advance(c))))
<1>. DEFINE d     == Advance(Advance(c))
            ident == Leaf("identifier", c)
            args  == IF Current(d) = "RPAREN" THEN Result(d, <<>>) ELSE f[ToArguments(d)]
            last  == Expect(args.c, "RPAREN")
            call  == [kind |-> "call", func |-> ident, args |-> args.node]
            h     == Height(src)
<1>0. c.src = src /\ h \in Nat /\ c.pos \in Nat /\ Left(c) \in Nat /\ Len(src) \in Nat
  BY LeftFalls DEF Cursors, Height
<1>1. /\ Covers(c, d) /\ d.pos = c.pos + 2
      /\ \A w \in Both : /\ Counts(w, c, d, Plus(w, CallOwn(w), Own(w, ident)))
                         /\ IsAmount(w, CallOwn(w))
  BY CoversCall, CallCounts
<1>. HIDE DEF d
<1>2. d \in Cursors(src) /\ d.src = src /\ d.pos \in Nat /\ Left(d) \in Nat /\ Left(d) = Left(c) - 2
  <2>1. d \in Cursors(src) /\ d.src = src /\ d.pos \in Nat /\ Left(d) \in Nat
    BY <1>1, CoversPositions
  <2>. QED
    BY <1>0, <1>1, <2>1 DEF Left
<1>3. GoodArguments(d, args)
  <2>1. CASE Current(d) = "RPAREN"
    <3>1. args = Result(d, <<>>)
      BY <2>1
    <3>2. Covers(d, d) /\ \A w : Counts(w, d, d, None(w)) /\ Below(w, Amount(w, h), <<>>) = None(w)
      BY <1>2, CoversNothing, BelowNone
    <3>3. <<>> \in Seq(Trees[d.pos - d.pos])
      OBVIOUS
    <3>. HIDE DEF args
    <3>. QED
      BY <1>2, <3>1, <3>2, <3>3 DEF GoodArguments, Result, h
  <2>2. CASE Current(d) # "RPAREN"
    <3>1. args = f[ToArguments(d)]
      BY <2>2
    <3>2. Left(d) * 11 + 10 < n
      BY <1>0, <1>2
    <3>. QED
      BY <1>2, <3>1, <3>2, FineArguments
  <2>. QED
    BY <2>1, <2>2
<1>. HIDE DEF args, h
<1>4. /\ Covers(d, args.c) /\ args.node \in Seq(Trees[args.c.pos - d.pos])
      /\ \A w \in Both : Counts(w, d, args.c, Below(w, Amount(w, h), args.node))
  BY <1>2, <1>3 DEF GoodArguments, h
<1>5. args.c \in Cursors(src) /\ args.c.pos \in Nat /\ args.c.pos - d.pos \in Nat
  BY <1>2, <1>4, CoversPositions
<1>6. Covers(args.c, last) /\ \A w \in Both : Counts(w, args.c, last, None(w))
  BY <1>5, ExpectFine DEF QuietTokens
<1>. HIDE DEF last
<1>7. Covers(c, args.c) /\ Covers(c, last)
  BY <1>1, <1>4, <1>5, <1>6, CoversJoin, <1>2
<1>8. last.pos \in Nat /\ args.c.pos <= last.pos /\ last.pos - c.pos \in Nat /\ last.pos - c.pos <= Len(src)
  <2>1. last.pos \in Nat /\ args.c.pos <= last.pos
    BY <1>5, <1>6, CoversPositions
  <2>2. last.pos - c.pos \in Nat /\ last.pos - c.pos <= Len(src)
    BY <1>7, CoversPositions
  <2>. QED
    BY <2>1, <2>2
<1>. DEFINE k == args.c.pos - d.pos
            x == last.pos - c.pos
<1>9. k \in Nat /\ x \in Nat /\ k < x /\ x <= Len(src)
  <2>1. k < x
    <3>1. d.pos = c.pos + 2 /\ c.pos \in Nat /\ d.pos \in Nat
      BY <1>0, <1>1, <1>2
    <3>2. args.c.pos \in Nat /\ last.pos \in Nat /\ args.c.pos <= last.pos
      BY <1>5, <1>8
    <3>. QED
      BY <3>1, <3>2
  <2>. QED
    BY <1>5, <1>8, <2>1
<1>10. args.node \in Seq(Trees[k])
  BY <1>4
<1>. HIDE DEF k, x
<1>11. ident \in Leaves /\ ident \in Trees[k] /\ ident \in Trees[h] /\ ident.kind = "identifier"
  <2>1. ident \in Leaves /\ ident.kind = "identifier"
    BY <1>0 DEF Leaves, Leaf
  <2>. HIDE DEF ident
  <2>. QED
    BY <1>0, <1>9, <2>1, LeafTree
<1>. HIDE DEF ident
<1>12. call \in Above(Trees[k]) /\ call.kind = "call" /\ call.func = ident /\ call.args = args.node
  BY <1>10, <1>11 DEF Above
<1>. HIDE DEF call
<1>13. call \in Trees[x]
  BY <1>9, <1>12, HigherTree
<1>14. call \in Trees[h]
  BY <1>9, <1>13, TreesOfText DEF h
<1>15. ASSUME NEW w \in Both PROVE Counts(w, c, last, Amount(w, h)[call])
  <2>1. ByKind(w, Amount(w, h), call, Amount(w, h)[call]) /\ ByKind(w, Amount(w, h), ident, Amount(w, h)[ident])
    BY <1>0, <1>11, <1>14, AmountByKind
  <2>2. Amount(w, h)[call] = Plus(w, Own(w, call), Plus(w, Amount(w, h)[ident], Below(w, Amount(w, h), args.node)))
    BY <1>12, <2>1 DEF ByKind
  <2>3. Amount(w, h)[ident] = Own(w, ident)
    BY <1>11, <2>1 DEF ByKind, LeafKinds
  <2>4. Own(w, call) = CallOwn(w)
    <3>1. CASE w = "objects"
      BY <1>12, <3>1 DEF Own, CallOwn
    <3>2. CASE w = "refs"
      BY <1>12, <3>2 DEF Own, CallOwn, None, Counted
    <3>. QED
      BY <3>1, <3>2 DEF Both
  <2>5. IsAmount(w, CallOwn(w)) /\ IsAmount(w, Own(w, ident)) /\ IsAmount(w, Below(w, Amount(w, h), args.node))
    BY <1>1, <1>4, OwnAmount DEF Counts
  <2>6. Counts(w, c, args.c, Plus(w, Plus(w, CallOwn(w), Own(w, ident)), Below(w, Amount(w, h), args.node)))
    BY <1>1, <1>4, CountsJoin
  <2>7. Plus(w, Plus(w, CallOwn(w), Own(w, ident)), Below(w, Amount(w, h), args.node)) = Amount(w, h)[call]
    BY <2>2, <2>3, <2>4, <2>5, PlusTwice
  <2>8. Counts(w, c, args.c, Amount(w, h)[call])
    BY <2>6, <2>7
  <2>. QED
    BY <1>6, <1>7, <2>8, QuietCounts
<1>16. CallAfter(f, ident, d) = Result(last, call)
  BY DEF CallAfter, args, last, call, ident
<1>. QED
  BY <1>0, <1>7, <1>13, <1>15, <1>16 DEF GoodOperand, Result, h, x, d, ident

LEMMA ParenthesizedFine ==
  ASSUME NEW src \in Seq(STRING), NEW n \in Nat, NEW f, Fine(f, src, n),
         NEW c \in Cursors(src), Left(c) * 11 + 9 < n
  PROVE  GoodOperand(c, Parenthesized(f, c))
<1>. DEFINE inner == f[ToOperand(8, c)]
            last  == Expect(inner.c, "RPAREN")
<1>1. GoodOperand(c, inner)
  <2>1. Left(c) * 11 + 8 + 1 < n /\ 8 \in 0..8
    BY LeftFalls
  <2>. QED
    BY <2>1, FineOperand
<1>. HIDE DEF inner
<1>2. Covers(c, inner.c)
  BY <1>1 DEF GoodOperand
<1>3. inner.c \in Cursors(src) /\ inner.c.pos \in Nat /\ inner.c.pos - c.pos \in Nat /\ c.pos \in Nat
  BY <1>2, CoversPositions
<1>4. Covers(inner.c, last) /\ \A w \in Both : Counts(w, inner.c, last, None(w))
  BY <1>3, ExpectFine DEF QuietTokens
<1>. HIDE DEF last
<1>5. Covers(c, last)
  BY <1>2, <1>4, CoversJoin
<1>6. last.pos \in Nat /\ inner.c.pos <= last.pos /\ last.pos - c.pos \in Nat
  BY <1>3, <1>4, <1>5, CoversPositions
<1>. DEFINE k == inner.c.pos - c.pos
            x == last.pos - c.pos
<1>7. k \in Nat /\ x \in Nat /\ k <= x
  BY <1>3, <1>6
<1>8. inner.node \in Trees[k]
  BY <1>1 DEF GoodOperand
<1>. HIDE DEF k, x
<1>9. inner.node \in Trees[x]
  BY <1>7, <1>8, TreesMonotonic
<1>10. \A w \in Both : Counts(w, c, last, Amount(w, Height(c.src))[inner.node])
  BY <1>1, <1>2, <1>4, QuietCounts DEF GoodOperand
<1>11. Parenthesized(f, c) = Result(last, inner.node)
  BY LevelsCount DEF Parenthesized, inner, last
<1>. QED
  BY <1>5, <1>9, <1>10, <1>11 DEF GoodOperand, Result, x

LEMMA LeafFine ==
  ASSUME NEW src \in Seq(STRING), NEW c \in Cursors(src), NEW kind \in {"number", "identifier", "boolean"},
         Covers(c, Advance(c)), \A w \in Both : Counts(w, c, Advance(c), Own(w, Leaf(kind, c)))
  PROVE  GoodOperand(c, Result(Advance(c), Leaf(kind, c)))
<1>. DEFINE n == Leaf(kind, c)
            h == Height(src)
            d == Advance(c)
<1>1. c.src = src /\ c.pos \in Nat /\ h \in Nat
  BY DEF Cursors, Height
<1>2. n \in Leaves /\ n.kind \in LeafKinds
  BY <1>1 DEF Leaf, Leaves, LeafKinds
<1>. HIDE DEF n, h, d
<1>3. d.pos - c.pos \in Nat
  BY CoversPositions DEF d
<1>4. n \in Trees[d.pos - c.pos] /\ n \in Trees[h]
  BY <1>1, <1>2, <1>3, LeafTree
<1>5. ASSUME NEW w \in Both PROVE Amount(w, h)[n] = Own(w, n)
  BY <1>1, <1>2, <1>4, AmountByKind DEF ByKind
<1>. QED
  BY <1>1, <1>4, <1>5 DEF GoodOperand, Result, n, h, d

LEMMA PrimaryFine ==
  ASSUME NEW src \in Seq(STRING), NEW n \in Nat, NEW f, Fine(f, src, n),
         NEW c \in Cursors(src), Left(c) * 11 + 1 <= n
  PROVE  GoodOperand(c, Primary(f, c))
<1>. DEFINE next   == Advance(c)
            inside == Advance(next)
<1>1. c.src = src /\ c.pos \in Nat /\ Left(c) \in Nat
  BY LeftFalls DEF Cursors
<1>2. ASSUME Current(c) \in {"NUMBER", "TRUE", "FALSE", "LPAREN"}
      PROVE  Covers(c, next) /\ next \in Cursors(src) /\ Left(next) = Left(c) - 1
  <2>1. Current(c) \in BodyTokens \ {"IDENTIFIER"} /\ Current(c) # "EOF"
    BY <1>2 DEF BodyTokens, NodeTokens
  <2>. QED
    BY <2>1, CoversToken, LeftFalls
<1>3. CASE Current(c) = "NUMBER"
  <2>1. Primary(f, c) = Result(next, Leaf("number", c))
    BY <1>3 DEF Primary, PrimaryTokens, next
  <2>2. \A w \in Both : Counts(w, c, next, Own(w, Leaf("number", c)))
    BY <1>3, TokenCounts
  <2>. QED
    BY <1>2, <1>3, <2>1, <2>2, LeafFine
<1>4. CASE Current(c) \in {"TRUE", "FALSE"}
  <2>1. Primary(f, c) = Result(next, Leaf("boolean", c))
    BY <1>4 DEF Primary, PrimaryTokens, next
  <2>2. \A w \in Both : Counts(w, c, next, Own(w, Leaf("boolean", c)))
    BY <1>4, TokenCounts
  <2>. QED
    BY <1>2, <1>4, <2>1, <2>2, LeafFine
<1>5. CASE Current(c) \notin PrimaryTokens
  <2>. DEFINE d == Fail(c)
  <2>1. Primary(f, c) = Result(d, NullNode)
    BY <1>5 DEF Primary, PrimaryTokens
  <2>2. Covers(c, d) /\ \A w : Counts(w, c, d, None(w))
    BY CoversNothing
  <2>. HIDE DEF d
  <2>. DEFINE h == Height(src)
              z == NullNode
  <2>3. h \in Nat
    BY DEF Height
  <2>4. d.pos - c.pos \in Nat
    BY <2>2, CoversPositions
  <2>5. z \in Leaves /\ z.kind = "null"
    BY DEF Leaves, NullNode
  <2>. HIDE DEF h, z
  <2>6. z \in Trees[d.pos - c.pos] /\ z \in Trees[h]
    BY <2>3, <2>4, <2>5, LeafTree
  <2>7. ASSUME NEW w \in Both PROVE Amount(w, h)[z] = None(w)
    <3>1. Amount(w, h)[z] = Own(w, z)
      BY <2>3, <2>5, <2>6, AmountByKind DEF ByKind, LeafKinds
    <3>2. CASE w = "objects"
      BY <2>5, <3>1, <3>2 DEF Own, None, Counted
    <3>3. CASE w = "refs"
      BY <2>5, <3>1, <3>3 DEF Own, None, Counted
    <3>. QED
      BY <3>2, <3>3 DEF Both
  <2>. QED
    BY <1>1, <2>1, <2>2, <2>6, <2>7 DEF GoodOperand, Result, h, z
<1>6. CASE Current(c) = "LPAREN"
  <2>1. Primary(f, c) = Parenthesized(f, next)
    BY <1>6 DEF Primary, PrimaryTokens, next
  <2>2. /\ Covers(c, next) /\ next \in Cursors(src) /\ Left(next) = Left(c) - 1 /\ next.pos = c.pos + 1
        /\ \A w \in Both : Counts(w, c, next, None(w))
    <3>1. Current(c) \in OpTokens \cup QuietTokens /\ Current(c) \notin OpTokens
      BY <1>6 DEF OpTokens, QuietTokens, NodeTokens
    <3>. QED
      BY <3>1, StepCovers
  <2>. HIDE DEF next
  <2>. DEFINE r == Parenthesized(f, next)
              h == Height(src)
  <2>3. Left(next) * 11 + 9 < n
    BY <1>1, <2>2
  <2>4. GoodOperand(next, r)
    BY <2>2, <2>3, ParenthesizedFine
  <2>. HIDE DEF r, h
  <2>5. next.src = src /\ next.pos \in Nat
    BY <2>2 DEF Cursors
  <2>6. /\ Covers(next, r.c) /\ r.node \in Trees[r.c.pos - next.pos]
        /\ \A w \in Both : Counts(w, next, r.c, Amount(w, h)[r.node])
    BY <2>4, <2>5 DEF GoodOperand, h
  <2>7. Covers(c, r.c)
    BY <2>2, <2>6, CoversJoin
  <2>8. r.c.pos - c.pos \in Nat /\ r.c.pos - next.pos \in Nat /\ r.c.pos \in Nat
    BY <2>2, <2>6, <2>7, CoversPositions
  <2>9. r.c.pos - next.pos <= r.c.pos - c.pos
    BY <1>1, <2>2, <2>8
  <2>10. r.node \in Trees[r.c.pos - c.pos]
    BY <2>6, <2>8, <2>9, TreesMonotonic
  <2>11. ASSUME NEW w \in Both PROVE Counts(w, c, r.c, Amount(w, h)[r.node])
    <3>1. Counts(w, c, r.c, Plus(w, None(w), Amount(w, h)[r.node]))
      BY <2>2, <2>6, CountsJoin
    <3>2. Plus(w, None(w), Amount(w, h)[r.node]) = Amount(w, h)[r.node]
      BY <2>6, PlusNone DEF Counts
    <3>. QED
      BY <3>1, <3>2
  <2>. QED
    BY <1>1, <2>1, <2>7, <2>10, <2>11 DEF GoodOperand, h, r
<1>7. CASE Current(c) = "IDENTIFIER" /\ Current(next) = "LPAREN"
  <2>1. Primary(f, c) = CallAfter(f, Leaf("identifier", c), inside)
    BY <1>7 DEF Primary, PrimaryTokens, next
  <2>. QED
    BY <1>7, <2>1, CallAfterFine
<1>8. CASE Current(c) = "IDENTIFIER" /\ Current(next) # "LPAREN"
  <2>1. Primary(f, c) = Result(next, Leaf("identifier", c))
    BY <1>8 DEF Primary, PrimaryTokens, next
  <2>2. \A w \in Both : Counts(w, c, next, Own(w, Leaf("identifier", c)))
    BY <1>8, TokenCounts
  <2>3. Covers(c, next)
    BY <1>8, CoversName
  <2>. QED
    BY <2>1, <2>2, <2>3, LeafFine
<1>. QED
  BY <1>3, <1>4, <1>5, <1>6, <1>7, <1>8 DEF PrimaryTokens

LEMMA UnaryFine ==
  ASSUME NEW src \in Seq(STRING), NEW n \in Nat, NEW f, Fine(f, src, n),
         NEW c \in Cursors(src), Left(c) * 11 + 1 <= n
  PROVE  GoodOperand(c, Unary(f, c))
<1>. DEFINE next    == Advance(c)
            operand == f[ToOperand(0, next)]
            node    == [kind |-> "unary", op |-> Current(c), operand |-> operand.node]
            h       == Height(src)
<1>1. c.src = src /\ c.pos \in Nat /\ Left(c) \in Nat /\ h \in Nat
  BY LeftFalls DEF Cursors, Height
<1>. HIDE DEF h
<1>2. CASE Current(c) \in UnaryOps
  <2>1. Current(c) \in OpTokens /\ Current(c) # "EOF"
    BY <1>2 DEF UnaryOps, OpTokens, NodeTokens
  <2>2. /\ Covers(c, next) /\ next \in Cursors(src) /\ next.pos = c.pos + 1
        /\ Left(next) = Left(c) - 1 /\ \A w \in Both : Counts(w, c, next, OpOwn(w))
    BY <2>1, StepCovers
  <2>. HIDE DEF next
  <2>3. Left(next) * 11 + 0 + 1 < n /\ 0 \in 0..8
    BY <1>1, <2>2
  <2>4. GoodOperand(next, operand)
    BY <2>2, <2>3, FineOperand
  <2>. HIDE DEF operand
  <2>5. next.src = src /\ next.pos \in Nat
    BY <2>2 DEF Cursors
  <2>6. /\ Covers(next, operand.c) /\ operand.node \in Trees[operand.c.pos - next.pos]
        /\ \A w \in Both : Counts(w, next, operand.c, Amount(w, h)[operand.node])
    BY <2>4, <2>5 DEF GoodOperand, h
  <2>7. Covers(c, operand.c)
    BY <2>2, <2>6, CoversJoin
  <2>8. operand.c.pos - next.pos \in Nat /\ operand.c.pos \in Nat
    BY <2>2, <2>6, CoversPositions
  <2>9. operand.c.pos - c.pos \in Nat /\ operand.c.pos - c.pos <= Len(src)
    BY <2>7, CoversPositions
  <2>. DEFINE k == operand.c.pos - next.pos
              x == operand.c.pos - c.pos
  <2>10. k \in Nat /\ x \in Nat /\ k < x /\ x <= Len(src)
    BY <1>1, <2>2, <2>8, <2>9
  <2>11. operand.node \in Trees[k]
    BY <2>6
  <2>. HIDE DEF k, x
  <2>12. /\ node \in Above(Trees[k]) /\ node.kind = "unary" /\ node.operand = operand.node
    BY <2>1, <2>11, CurrentIsString DEF Above
  <2>. HIDE DEF node
  <2>13. node \in Trees[x]
    BY <2>10, <2>12, HigherTree
  <2>14. node \in Trees[h]
    BY <2>10, <2>13, TreesOfText DEF h
  <2>15. ASSUME NEW w \in Both PROVE Counts(w, c, operand.c, Amount(w, h)[node])
    <3>1. Amount(w, h)[node] = Plus(w, Own(w, node), Amount(w, h)[operand.node])
      BY <1>1, <2>12, <2>14, AmountByKind DEF ByKind
    <3>2. Own(w, node) = OpOwn(w)
      BY <2>12 DEF Own, OpOwn, Both, None, Counted
    <3>3. Counts(w, c, operand.c, Plus(w, OpOwn(w), Amount(w, h)[operand.node]))
      BY <2>2, <2>6, CountsJoin
    <3>. QED
      BY <3>1, <3>2, <3>3
  <2>16. Unary(f, c) = Result(operand.c, node)
    BY <1>2 DEF Unary, operand, next, node
  <2>. QED
    BY <1>1, <2>7, <2>13, <2>15, <2>16 DEF GoodOperand, Result, h, x
<1>3. CASE Current(c) \notin UnaryOps
  <2>1. Unary(f, c) = Primary(f, c)
    BY <1>3 DEF Unary
  <2>. QED
    BY <2>1, PrimaryFine
<1>. QED
  BY <1>2, <1>3

LEMMA ReachFine ==
  ASSUME NEW src \in Seq(STRING), NEW n \in Nat, NEW f, Fine(f, src, n),
         NEW goal \in Goals(src), Weight(goal) <= n
  PROVE  Good(goal, Reach(f, goal))
<1>1. /\ goal.c \in Cursors(src) /\ goal.what \in {"operand", "operators", "arguments"}
      /\ goal.what = "operand" => goal.level \in 0..8
      /\ goal.what = "operators" => goal.level \in 1..8
  BY LevelsCount DEF Goals
<1>2. Left(goal.c) \in Nat
  BY <1>1, LeftFalls
<1>3. CASE goal.what = "operand" /\ goal.level = 0
  <2>1. Reach(f, goal) = Unary(f, goal.c)
    BY <1>3 DEF Reach
  <2>2. Left(goal.c) * 11 + 1 <= n
    BY <1>2, <1>3 DEF Weight, Rank
  <2>3. GoodOperand(goal.c, Unary(f, goal.c))
    BY <1>1, <2>2, UnaryFine
  <2>. QED
    BY <1>3, <2>1, <2>3 DEF Good
<1>4. CASE goal.what = "operand" /\ goal.level \in 1..8
  <2>1. Reach(f, goal) = Binary(f, goal.level, goal.c)
    BY <1>4 DEF Reach
  <2>2. Left(goal.c) * 11 + goal.level + 1 <= n
    <3>1. Weight(goal) = Left(goal.c) * 11 + (goal.level + 1)
      BY <1>4 DEF Weight, Rank
    <3>. QED
      BY <1>2, <1>4, <3>1
  <2>3. GoodOperand(goal.c, Binary(f, goal.level, goal.c))
    BY <1>1, <1>4, <2>2, BinaryFine
  <2>. QED
    BY <1>4, <2>1, <2>3 DEF Good
<1>5. CASE goal.what = "operators"
  <2>1. Reach(f, goal) = Operators(f, goal.level, goal.c)
    BY <1>5 DEF Reach
  <2>2. Left(goal.c) * 11 <= n
    BY <1>2, <1>5 DEF Weight, Rank
  <2>3. GoodOperators(goal.c, Operators(f, goal.level, goal.c))
    BY <1>1, <1>5, <2>2, OperatorsFine
  <2>. QED
    BY <1>5, <2>1, <2>3 DEF Good
<1>6. CASE goal.what = "arguments"
  <2>1. Reach(f, goal) = Arguments(f, goal.c)
    BY <1>6 DEF Reach
  <2>2. Left(goal.c) * 11 + 10 <= n
    BY <1>2, <1>6 DEF Weight, Rank
  <2>3. GoodArguments(goal.c, Arguments(f, goal.c))
    BY <1>1, <2>2, ArgumentsFine
  <2>. QED
    BY <1>6, <2>1, <2>3 DEF Good
<1>. QED
  BY <1>1, <1>3, <1>4, <1>5, <1>6

LEMMA ParsesFine ==
  ASSUME NEW src \in Seq(STRING), NEW f, NEW m \in Nat, Parses(f, src, m)
  PROVE  Fine(f, src, m)
<1>. DEFINE S == {n \in Nat : n <= m => Fine(f, src, n)}
<1>1. 0 \in S
  BY WeightBounds DEF Fine
<1>2. ASSUME NEW n \in Nat, n \in S PROVE n + 1 \in S
  <2>. SUFFICES ASSUME n + 1 <= m PROVE Fine(f, src, n + 1)
    OBVIOUS
  <2>1. Fine(f, src, n)
    BY <1>2
  <2>2. ASSUME NEW goal \in Goals(src), Weight(goal) < n + 1 PROVE Good(goal, f[goal])
    <3>1. Weight(goal) \in Nat /\ Weight(goal) <= n /\ Weight(goal) < m
      BY <2>2, WeightBounds
    <3>2. f[goal] = Reach(f, goal)
      BY <3>1 DEF Parses
    <3>3. Good(goal, Reach(f, goal))
      BY <2>1, <3>1, ReachFine
    <3>. QED
      BY <3>2, <3>3
  <2>. QED
    BY <2>2 DEF Fine
<1>. HIDE DEF S
<1>3. m \in S
  BY <1>1, <1>2, Induction
<1>. QED
  BY <1>3 DEF S

\* An expression has what is counted of its tokens.
LEMMA ExpressionFine ==
  ASSUME NEW c, IsCursor(c)
  PROVE  GoodOperand(c, Expression(c))
<1>. DEFINE src == c.src
            n   == Len(src) * 11 + 11
            f   == CHOOSE f : f = [goal \in Goals(src) |-> Reach(f, goal)]
            top == ToOperand(8, c)
<1>1. src \in Seq(STRING) /\ Len(src) \in Nat /\ c \in Cursors(src)
  BY CursorsAreCursors DEF IsCursor
<1>. HIDE DEF src
<1>2. f = [goal \in Goals(src) |-> Reach(f, goal)]
  BY <1>1, ParseExists
<1>3. Expression(c) = f[top]
  BY LevelsCount DEF Expression, src
<1>. HIDE DEF f
<1>4. Parses(f, src, n)
  BY <1>2 DEF Parses
<1>5. n \in Nat
  BY <1>1
<1>. HIDE DEF n
<1>6. Fine(f, src, n)
  BY <1>1, <1>4, <1>5, ParsesFine
<1>7. top \in Goals(src) /\ top.what = "operand" /\ top.c = c
  BY <1>1, LevelsCount DEF Goals, ToOperand
<1>8. Weight(top) < n
  BY <1>1, <1>7, WeightBounds DEF n
<1>. HIDE DEF top
<1>9. Good(top, f[top])
  BY <1>6, <1>7, <1>8 DEF Fine
<1>. QED
  BY <1>3, <1>7, <1>9 DEF Good
=============================================================================
