----------------------------- MODULE LexerProofs -----------------------------
(***************************************************************************)
(* What holds of the lexer for every text, of whatever length.             *)
(*                                                                         *)
(* Strings have no theory here: of a text the proofs know that it has a    *)
(* length and that none of its characters is NUL (TextsAssumption).  Every *)
(* loop of the lexer is a While that advances at each turn, so that it     *)
(* ends, and ends in each set of lexers that advancing does not leave.     *)
(***************************************************************************)
EXTENDS Lexer, Foundations, FiniteSetTheorems

-----------------------------------------------------------------------------
(* The text *)

LEMMA TextIsMarked ==
  ASSUME input \in Texts
  PROVE  Len(input) \in Nat /\ \A i \in 1..Len(input) : SubSeq(input, i, i) # NUL
BY TextsAssumption

\* current is NUL at the end of the text, and there alone.
LEMMA EndOfText ==
  ASSUME input \in Texts, NEW l \in Lexers
  PROVE  Char(l, 0) = NUL <=> l.pos = Len(input)
<1>1. l.pos \in 0..Len(input) /\ Len(input) \in Nat
  BY TextIsMarked DEF Lexers
<1>2. CASE l.pos = Len(input)
  BY <1>1, <1>2 DEF Char
<1>3. CASE l.pos # Len(input)
  <2>1. l.pos + 0 + 1 \in 1..Len(input)
    BY <1>1, <1>3
  <2>2. Char(l, 0) = SubSeq(input, l.pos + 0 + 1, l.pos + 0 + 1)
    BY <2>1 DEF Char
  <2>. QED
    BY <1>3, <2>1, <2>2, TextIsMarked
<1>. QED
  BY <1>2, <1>3

\* lexer_advance takes one character of the text, if there is one.
LEMMA AdvanceEffect ==
  ASSUME input \in Texts, NEW l \in Lexers
  PROVE  /\ Advance(l) \in Lexers
         /\ Char(l, 0) # NUL => Advance(l).pos = l.pos + 1
         /\ Char(l, 0) # NUL => Char(Advance(l), 0) = Char(l, 1)
<1>1. /\ l.pos \in 0..Len(input) /\ l.line \in Nat \ {0} /\ l.column \in Nat
      /\ Len(input) \in Nat
  BY TextIsMarked DEF Lexers
<1>2. Char(l, 0) # NUL => l.pos + 1 \in 0..Len(input)
  BY <1>1, EndOfText
<1>3. Advance(l) \in Lexers /\ (Char(l, 0) # NUL => Advance(l).pos = l.pos + 1)
  BY <1>1, <1>2 DEF Advance, Lexers
<1>4. Char(l, 0) # NUL => Char(Advance(l), 0) = Char(l, 1)
  <2>. SUFFICES ASSUME Char(l, 0) # NUL PROVE Char(Advance(l), 0) = Char(l, 1)
    OBVIOUS
  <2>1. Advance(l).pos + 0 + 1 = l.pos + 1 + 1
    BY <1>1, <1>3
  <2>. QED
    BY <2>1 DEF Char
<1>. QED
  BY <1>3, <1>4

-----------------------------------------------------------------------------
(* Loops *)

\* A set of lexers that lexer_advance does not leave before the end of the text.
Steady(I) == I \subseteq Lexers /\ \A k \in I : Char(k, 0) # NUL => Advance(k) \in I

\* Those of a set that are at l or behind it.
From(I, l) == {k \in I : k = l \/ k.pos > l.pos}

\* How much of the text is left.
Left == [k \in Lexers |-> Len(input) - k.pos]

LEMMA LexersSteady == input \in Texts => Steady(Lexers)
BY AdvanceEffect DEF Steady

LEMMA FromSteady ==
  ASSUME input \in Texts, NEW I, Steady(I), NEW l \in I
  PROVE  Steady(From(I, l)) /\ l \in From(I, l)
<1>1. ASSUME NEW k \in From(I, l), Char(k, 0) # NUL PROVE Advance(k) \in From(I, l)
  <2>1. /\ k \in Lexers /\ l \in Lexers /\ Advance(k) \in I
        /\ k.pos \in Nat /\ l.pos \in Nat /\ k.pos >= l.pos
    BY <1>1, TextIsMarked DEF Steady, From, Lexers
  <2>2. Advance(k).pos = k.pos + 1
    BY <1>1, <2>1, AdvanceEffect
  <2>. QED
    BY <2>1, <2>2 DEF From
<1>. QED
  BY <1>1 DEF From, Steady

\* A loop whose turns come forward ends.
LEMMA ForwardEnds ==
  ASSUME input \in Texts, NEW goes, NEW step, DOMAIN step = Lexers,
         \A k \in Lexers : k \in goes => step[k] \in Lexers /\ step[k].pos > k.pos
  PROVE  IsLoop(Lexers, goes, step, Left)
<1>1. \A k \in Lexers : k.pos \in 0..Len(input) /\ Len(input) \in Nat
  BY TextIsMarked DEF Lexers
<1>2. Left \in [Lexers -> Nat]
  BY <1>1 DEF Left
<1>3. ASSUME NEW k \in Lexers, k \in goes
      PROVE  step[k] \in Lexers /\ Left[step[k]] < Left[k]
  <2>1. step[k] \in Lexers /\ step[k].pos > k.pos
    BY <1>3
  <2>2. Left[k] = Len(input) - k.pos /\ Left[step[k]] = Len(input) - step[k].pos
    BY <2>1 DEF Left
  <2>. QED
    BY <1>1, <2>1, <2>2
<1>. QED
  BY <1>2, <1>3 DEF IsLoop

\* The loops that do nothing but advance, and not beyond the end of the text.
LEMMA AdvancingEnds ==
  ASSUME input \in Texts, NEW goes, \A k \in Lexers : k \in goes => Char(k, 0) # NUL
  PROVE  IsLoop(Lexers, goes, Forward, Left)
<1>1. ASSUME NEW k \in Lexers, k \in goes
      PROVE  Forward[k] \in Lexers /\ Forward[k].pos > k.pos
  BY <1>1, AdvanceEffect, TextIsMarked DEF Forward, Lexers
<1>2. DOMAIN Forward = Lexers
  BY DEF Forward
<1>. QED
  BY <1>1, <1>2, ForwardEnds

LEMMA AdvancingEffect ==
  ASSUME input \in Texts, NEW goes, \A k \in Lexers : k \in goes => Char(k, 0) # NUL,
         NEW I, Steady(I), NEW l \in I
  PROVE  /\ While(goes, Forward, l) \in From(I, l)
         /\ While(goes, Forward, l) \notin goes
<1>1. Steady(From(I, l)) /\ l \in From(I, l)
  BY FromSteady
<1>2. \A k \in From(I, l) : k \in goes => Forward[k] \in From(I, l)
  BY <1>1 DEF Forward, Steady
<1>3. From(I, l) \subseteq Lexers
  BY <1>1 DEF Steady
<1>4. IsLoop(Lexers, goes, Forward, Left)
  BY AdvancingEnds
<1>. QED
  BY <1>1, <1>2, <1>3, <1>4, WhileInvariant

LEMMA AdvanceWhileEffect ==
  ASSUME input \in Texts, NEW set, NUL \notin set, NEW I, Steady(I), NEW l \in I
  PROVE  /\ AdvanceWhile(l, set) \in From(I, l)
         /\ Char(l, 0) \in set => AdvanceWhile(l, set).pos > l.pos
<1>. DEFINE goes == {k \in Lexers : Char(k, 0) \in set}
<1>1. \A k \in Lexers : k \in goes => Char(k, 0) # NUL
  OBVIOUS
<1>2. Char(l, 0) \in set => l \in goes
  BY DEF Steady
<1>. HIDE DEF goes
<1>3. While(goes, Forward, l) \in From(I, l) /\ While(goes, Forward, l) \notin goes
  BY <1>1, AdvancingEffect
<1>4. l \in goes => While(goes, Forward, l).pos > l.pos
  BY <1>3 DEF From
<1>. QED
  BY <1>2, <1>3, <1>4 DEF AdvanceWhile, goes

\* At a character that is not of the set, there is nothing to do.
LEMMA AdvanceWhileNot ==
  ASSUME input \in Texts, NEW set, NUL \notin set, NEW l \in Lexers, Char(l, 0) \notin set
  PROVE  AdvanceWhile(l, set) = l
<1>. DEFINE goes == {k \in Lexers : Char(k, 0) \in set}
<1>1. (\A k \in Lexers : k \in goes => Char(k, 0) # NUL) /\ l \notin goes
  OBVIOUS
<1>. HIDE DEF goes
<1>2. IsLoop(Lexers, goes, Forward, Left)
  BY <1>1, AdvancingEnds
<1>3. While(goes, Forward, l) = l
  BY <1>1, <1>2, WhileEquation
<1>. QED
  BY <1>3 DEF AdvanceWhile, goes

-----------------------------------------------------------------------------
(* Blanks and strings *)

LEMMA TwiceEffect ==
  ASSUME input \in Texts, NEW I, Steady(I), NEW l \in I, Char(l, 0) # NUL, Char(l, 1) # NUL
  PROVE  Twice(l) \in I /\ Twice(l).pos = l.pos + 2
<1>1. l \in Lexers /\ Advance(l) \in I /\ Advance(l) \in Lexers /\ l.pos \in Nat
  BY TextIsMarked DEF Steady, Lexers
<1>2. Char(Advance(l), 0) # NUL /\ Advance(l).pos = l.pos + 1
  BY <1>1, AdvanceEffect
<1>3. Twice(l) \in I /\ Twice(l).pos = Advance(l).pos + 1
  BY <1>1, <1>2, AdvanceEffect DEF Twice, Steady
<1>. QED
  BY <1>1, <1>2, <1>3

LEMMA ToLineEndEffect ==
  ASSUME input \in Texts, NEW I, Steady(I), NEW l \in I
  PROVE  ToLineEnd(l) \in From(I, l) /\ Char(ToLineEnd(l), 0) \in {"\n", NUL}
<1>. DEFINE goes == {k \in Lexers : Char(k, 0) \notin {"\n", NUL}}
<1>1. \A k \in Lexers : k \in goes => Char(k, 0) # NUL
  OBVIOUS
<1>2. \A k \in Lexers : k \notin goes => Char(k, 0) \in {"\n", NUL}
  OBVIOUS
<1>. HIDE DEF goes
<1>3. While(goes, Forward, l) \in From(I, l) /\ While(goes, Forward, l) \notin goes
  BY <1>1, AdvancingEffect
<1>4. While(goes, Forward, l) \in Lexers
  BY <1>3 DEF From, Steady
<1>. QED
  BY <1>2, <1>3, <1>4 DEF ToLineEnd, goes

LEMMA ToCommentEndEffect ==
  ASSUME input \in Texts, NEW I, Steady(I), NEW l \in I
  PROVE  ToCommentEnd(l) \in From(I, l)
<1>. DEFINE goes == {k \in Lexers : Char(k, 0) # NUL /\ ~AtCommentEnd(k)}
            end == While(goes, Forward, l)
<1>1. \A k \in Lexers : k \in goes => Char(k, 0) # NUL
  OBVIOUS
<1>2. ToCommentEnd(l) = IF AtCommentEnd(end) THEN Twice(end) ELSE end
  BY DEF ToCommentEnd
<1>. HIDE DEF goes
<1>3. end \in From(I, l)
  BY <1>1, AdvancingEffect
<1>. HIDE DEF end
<1>4. CASE AtCommentEnd(end)
  <2>1. Char(end, 0) # NUL /\ Char(end, 1) # NUL
    BY <1>4 DEF AtCommentEnd, NUL
  <2>2. Steady(From(I, l))
    BY FromSteady
  <2>3. Twice(end) \in From(I, l)
    BY <1>3, <2>1, <2>2, TwiceEffect
  <2>. QED
    BY <1>2, <1>4, <2>3
<1>. QED
  BY <1>2, <1>3, <1>4

\* A comment is left behind its beginning.
LEMMA SkipCommentEffect ==
  ASSUME input \in Texts, NEW I, Steady(I), NEW l \in I, AtComment(l)
  PROVE  SkipComment(l) \in I /\ SkipComment(l).pos > l.pos
<1>1. l \in Lexers /\ l.pos \in Nat /\ Char(l, 0) = "/" /\ Char(l, 1) \in {"/", "*"}
  BY TextIsMarked DEF Steady, Lexers, AtComment
<1>2. CASE Char(l, 1) = "/"
  <2>1. ToLineEnd(l) \in From(I, l) /\ ToLineEnd(l) # l
    BY <1>1, ToLineEndEffect DEF NUL
  <2>. QED
    BY <1>2, <2>1 DEF SkipComment, From
<1>3. CASE Char(l, 1) = "*"
  <2>1. Twice(l) \in I /\ Twice(l).pos = l.pos + 2
    BY <1>1, <1>3, TwiceEffect DEF NUL
  <2>2. ToCommentEnd(Twice(l)) \in From(I, Twice(l))
    BY <2>1, ToCommentEndEffect
  <2>3. ToCommentEnd(Twice(l)) \in I /\ ToCommentEnd(Twice(l)).pos > l.pos
    <3>1. /\ ToCommentEnd(Twice(l)) \in I
          /\ \/ ToCommentEnd(Twice(l)) = Twice(l)
             \/ ToCommentEnd(Twice(l)).pos > l.pos + 2
      BY <2>1, <2>2 DEF From
    <3>2. ToCommentEnd(Twice(l)).pos \in Nat
      BY <3>1, TextIsMarked DEF Steady, Lexers
    <3>. QED
      BY <1>1, <2>1, <3>1, <3>2
  <2>. QED
    BY <1>3, <2>3 DEF SkipComment
<1>. QED
  BY <1>1, <1>2, <1>3

\* A comment and the blanks behind it: a turn of the loop of lexer_next_token.
LEMMA BlankTurn ==
  ASSUME input \in Texts, NEW I, Steady(I), NEW l \in I, AtComment(l)
  PROVE  /\ AdvanceWhile(SkipComment(l), Space) \in I
         /\ AdvanceWhile(SkipComment(l), Space).pos > l.pos
<1>. DEFINE c == SkipComment(l)
            b == AdvanceWhile(c, Space)
<1>1. c \in I /\ c.pos > l.pos
  BY SkipCommentEffect
<1>. HIDE DEF c
<1>2. b \in From(I, c)
  BY <1>1, AdvanceWhileEffect DEF Space, NUL
<1>. HIDE DEF b
<1>3. b \in I /\ b.pos \in Nat /\ c.pos \in Nat /\ l.pos \in Nat /\ b.pos >= c.pos
  BY <1>1, <1>2, TextIsMarked DEF From, Steady, Lexers
<1>. QED
  BY <1>1, <1>3 DEF b, c

\* The loop over comments as AdvancingEffect has the others.
LEMMA BlanksEnd ==
  ASSUME input \in Texts
  PROVE  IsLoop(Lexers, {k \in Lexers : AtComment(k)},
                [k \in Lexers |-> AdvanceWhile(SkipComment(k), Space)], Left)
<1>. DEFINE goes == {k \in Lexers : AtComment(k)}
            step == [k \in Lexers |-> AdvanceWhile(SkipComment(k), Space)]
<1>1. ASSUME NEW k \in Lexers, k \in goes PROVE step[k] \in Lexers /\ step[k].pos > k.pos
  BY <1>1, BlankTurn, LexersSteady
<1>2. DOMAIN step = Lexers
  OBVIOUS
<1>. HIDE DEF goes, step
<1>3. IsLoop(Lexers, goes, step, Left)
  BY <1>1, <1>2, ForwardEnds
<1>. QED
  BY <1>3 DEF goes, step

LEMMA SkipBlankEffect ==
  ASSUME input \in Texts, NEW I, Steady(I), NEW l \in I
  PROVE  SkipBlank(l) \in I
<1>. DEFINE goes == {k \in Lexers : AtComment(k)}
            step == [k \in Lexers |-> AdvanceWhile(SkipComment(k), Space)]
            s == AdvanceWhile(l, Space)
<1>1. s \in I
  BY AdvanceWhileEffect DEF Space, NUL, From
<1>2. \A k \in I : k \in goes => step[k] \in I
  BY BlankTurn DEF Steady
<1>3. IsLoop(Lexers, goes, step, Left) /\ I \subseteq Lexers
  BY BlanksEnd DEF Steady
<1>4. SkipBlank(l) = While(goes, step, s)
  BY DEF SkipBlank
<1>. HIDE DEF goes, step, s
<1>. QED
  BY <1>1, <1>2, <1>3, <1>4, WhileInvariant

\* Behind the last character there is no blank to skip.
LEMMA SkipNothing ==
  ASSUME input \in Texts, NEW l \in Lexers, Char(l, 0) = NUL
  PROVE  SkipBlank(l) = l
<1>. DEFINE goes == {k \in Lexers : AtComment(k)}
            step == [k \in Lexers |-> AdvanceWhile(SkipComment(k), Space)]
<1>1. AdvanceWhile(l, Space) = l
  BY AdvanceWhileNot DEF Space, NUL
<1>2. IsLoop(Lexers, goes, step, Left) /\ l \notin goes
  BY BlanksEnd DEF AtComment, NUL
<1>3. SkipBlank(l) = While(goes, step, l)
  BY <1>1 DEF SkipBlank
<1>. HIDE DEF goes, step
<1>. QED
  BY <1>2, <1>3, WhileEquation

LEMMA ToStringEndEffect ==
  ASSUME input \in Texts, NEW I, Steady(I), NEW l \in I
  PROVE  ToStringEnd(l) \in From(I, l)
<1>. DEFINE goes == {k \in Lexers : Char(k, 0) \notin {Quote, NUL}}
            step == [k \in Lexers |-> IF Char(k, 0) = "\\" /\ Char(k, 1) # NUL
                                      THEN Twice(k) ELSE Advance(k)]
<1>1. ASSUME NEW J, Steady(J), NEW k \in J, k \in goes
      PROVE  step[k] \in J /\ step[k].pos > k.pos
  <2>1. k \in Lexers /\ k.pos \in Nat /\ Char(k, 0) # NUL
    <3>1. Char(k, 0) \notin {Quote, NUL}
      BY <1>1
    <3>. HIDE DEF goes, step
    <3>2. k \in Lexers
      BY <1>1 DEF Steady
    <3>3. Char(k, 0) # NUL
      BY <3>1
    <3>4. k.pos \in Nat
      BY <3>2, TextIsMarked DEF Lexers
    <3>. QED
      BY <3>2, <3>3, <3>4
  <2>2. Advance(k) \in J /\ Advance(k).pos = k.pos + 1
    BY <1>1, <2>1, AdvanceEffect DEF Steady
  <2>3. Char(k, 1) # NUL => Twice(k) \in J /\ Twice(k).pos = k.pos + 2
    BY <1>1, <2>1, TwiceEffect
  <2>4. step[k] = IF Char(k, 0) = "\\" /\ Char(k, 1) # NUL THEN Twice(k) ELSE Advance(k)
    BY <2>1
  <2>. QED
    BY <2>1, <2>2, <2>3, <2>4
<1>2. DOMAIN step = Lexers
  OBVIOUS
<1>3. ToStringEnd(l) = While(goes, step, l)
  BY DEF ToStringEnd
<1>. HIDE DEF goes, step
<1>4. IsLoop(Lexers, goes, step, Left)
  BY <1>1, <1>2, LexersSteady, ForwardEnds
<1>5. Steady(From(I, l)) /\ l \in From(I, l) /\ From(I, l) \subseteq Lexers
  BY FromSteady DEF Steady
<1>6. \A k \in From(I, l) : k \in goes => step[k] \in From(I, l)
  BY <1>1, <1>5
<1>. QED
  BY <1>3, <1>4, <1>5, <1>6, WhileInvariant

-----------------------------------------------------------------------------
(* Tokens *)

LEMMA FromEffect ==
  ASSUME input \in Texts, NEW I, Steady(I), NEW l \in I, NEW e \in From(I, l)
  PROVE  /\ e \in I /\ e.pos >= l.pos
         /\ l.pos \in 0..Len(input) /\ e.pos \in 0..Len(input) /\ Len(input) \in Nat
<1>1. l \in Lexers /\ e \in I /\ e \in Lexers /\ (e = l \/ e.pos > l.pos)
  BY DEF From, Steady
<1>. QED
  BY <1>1, TextIsMarked DEF Lexers

LEMMA ToNumberEndEffect ==
  ASSUME input \in Texts, NEW I, Steady(I), NEW l \in I
  PROVE  /\ ToNumberEnd(l) \in From(I, l)
         /\ Char(l, 0) \in Digits => ToNumberEnd(l).pos > l.pos
<1>1. ASSUME NEW set, NUL \notin set, Char(l, 0) # NUL, Char(l, 1) # NUL
      PROVE  /\ AdvanceWhile(Twice(l), set) \in From(I, l)
             /\ AdvanceWhile(Twice(l), set).pos > l.pos
  <2>1. Twice(l) \in I /\ Twice(l).pos = l.pos + 2 /\ l.pos \in Nat
    BY <1>1, TwiceEffect, TextIsMarked DEF Steady, Lexers
  <2>2. AdvanceWhile(Twice(l), set) \in From(I, Twice(l))
    BY <1>1, <2>1, AdvanceWhileEffect
  <2>. DEFINE e == AdvanceWhile(Twice(l), set)
  <2>. HIDE DEF e
  <2>3. e \in I /\ e.pos >= l.pos + 2 /\ e.pos \in Nat
    BY <2>1, <2>2, FromEffect DEF e
  <2>. QED
    BY <2>1, <2>3 DEF From, e
<1>2. NUL \notin HexDigits /\ NUL \notin Digits /\ NUL \notin {"0", "1"}
  BY DEF HexDigits, Digits, NUL
<1>3. /\ AdvanceWhile(l, Digits) \in From(I, l)
      /\ Char(l, 0) \in Digits => AdvanceWhile(l, Digits).pos > l.pos
  BY <1>2, AdvanceWhileEffect
<1>4. ASSUME Char(l, 0) = "0", Char(l, 1) \in {"x", "X"} \/ Char(l, 1) \in {"b", "B"}
      PROVE  Char(l, 0) # NUL /\ Char(l, 1) # NUL
  BY <1>4 DEF NUL
<1>. QED
  BY <1>1, <1>2, <1>3, <1>4 DEF ToNumberEnd

LEMMA OperatorEffect ==
  ASSUME input \in Texts, NEW I, Steady(I), NEW l \in I
  PROVE  /\ Operator(l).end \in From(I, l)
         /\ Operator(l).spelling \in {""} \cup DOMAIN Operators
         /\ Operator(l).spelling # "" => Operator(l).end.pos > l.pos
<1>. DEFINE spellings == {""} \cup DOMAIN Operators
            parts == [end : Lexers, spelling : spellings]
            goes == {o \in parts : Char(o.end, 0) # NUL /\ Longer(o) \in DOMAIN Operators}
            step == [o \in parts |-> [end |-> Advance(o.end), spelling |-> Longer(o)]]
            left == [o \in parts |-> Left[o.end]]
            ahead == {o \in [end : From(I, l), spelling : spellings] :
                        o.spelling = "" \/ o.end.pos > l.pos}
            first == [end |-> l, spelling |-> ""]
<1>1. Operator(l) = While(goes, step, first)
  BY DEF Operator
<1>. HIDE DEF spellings
<1>2. Steady(From(I, l)) /\ l \in From(I, l) /\ From(I, l) \subseteq Lexers
  BY FromSteady DEF Steady
<1>3. ASSUME NEW o \in parts, o \in goes
      PROVE  /\ Char(o.end, 0) # NUL /\ Longer(o) \in spellings
             /\ step[o] = [end |-> Advance(o.end), spelling |-> Longer(o)]
  BY <1>3 DEF spellings
<1>4. IsLoop(parts, goes, step, left)
  <2>1. ASSUME NEW o \in parts, o \in goes PROVE step[o] \in parts /\ left[step[o]] < left[o]
    <3>1. o.end \in Lexers /\ o.end.pos \in 0..Len(input) /\ Len(input) \in Nat
      BY TextIsMarked DEF Lexers
    <3>2. Advance(o.end) \in Lexers /\ Advance(o.end).pos = o.end.pos + 1
      BY <1>3, <2>1, <3>1, AdvanceEffect
    <3>3. step[o] \in parts /\ step[o].end = Advance(o.end)
      BY <1>3, <2>1, <3>2
    <3>4. left[step[o]] = Len(input) - Advance(o.end).pos /\ left[o] = Len(input) - o.end.pos
      BY <3>1, <3>2, <3>3 DEF Left
    <3>. QED
      BY <3>1, <3>2, <3>3, <3>4
  <2>2. left \in [parts -> Nat]
    <3>1. \A k \in Lexers : Left[k] \in Nat
      BY TextIsMarked DEF Left, Lexers
    <3>. QED
      BY <3>1
  <2>3. DOMAIN step = parts
    OBVIOUS
  <2>. HIDE DEF parts, goes, step, left
  <2>. QED
    BY <2>1, <2>2, <2>3 DEF IsLoop
<1>5. \A o \in ahead : o \in goes => step[o] \in ahead
  <2>1. ASSUME NEW o \in ahead, o \in goes PROVE step[o] \in ahead
    <3>1. o \in parts /\ o.end \in From(I, l)
      BY <1>2
    <3>2. Advance(o.end) \in From(I, l) /\ Advance(o.end).pos = o.end.pos + 1
      BY <1>2, <1>3, <2>1, <3>1, AdvanceEffect DEF Steady
    <3>3. Advance(o.end).pos > l.pos
      <4>. DEFINE e == o.end
      <4>1. e.pos >= l.pos /\ e.pos \in Int /\ l.pos \in Int
        <5>1. e \in From(I, l)
          BY <3>1
        <5>. HIDE DEF e, parts, goes, step, left, ahead, first
        <5>2. e.pos >= l.pos /\ l.pos \in 0..Len(input) /\ e.pos \in 0..Len(input)
          BY <5>1, FromEffect
        <5>. QED
          BY <5>2
      <4>. HIDE DEF ahead, goes, step
      <4>. QED
        BY <3>2, <4>1
    <3>4. /\ step[o] = [end |-> Advance(o.end), spelling |-> Longer(o)]
          /\ Longer(o) \in spellings
      BY <1>3, <2>1, <3>1
    <3>5. [end |-> Advance(o.end), spelling |-> Longer(o)] \in ahead
      BY <3>2, <3>3, <3>4
    <3>. HIDE DEF ahead, goes, step
    <3>. QED
      BY <3>4, <3>5
  <2>. QED
    BY <2>1
<1>6. ahead \subseteq parts /\ first \in ahead
  BY <1>2 DEF spellings
<1>7. Operator(l) \in ahead
  <2>. HIDE DEF parts, goes, step, left, ahead, first
  <2>. QED
    BY <1>1, <1>4, <1>5, <1>6, WhileInvariant
<1>. QED
  BY <1>7 DEF spellings

\* A table gives one of its values.
LEMMA TableValue ==
  ASSUME NEW pairs, NEW s \in DOMAIN Table(pairs)
  PROVE  \E p \in pairs : Table(pairs)[s] = p[2]
<1>1. \E p \in pairs : p[1] = s
  BY DEF Table
<1>2. (CHOOSE p \in pairs : p[1] = s) \in pairs
  BY <1>1
<1>. QED
  BY <1>2 DEF Table

\* Neither a word nor an operator is taken for a string or for the end.
LEMMA WordTypeIsOwn ==
  ASSUME NEW word
  PROVE  WordType(word) \notin {"STRING", "EOF"}
<1>1. CASE word \in DOMAIN Keywords
  <2>1. Keywords[word] \notin {"STRING", "EOF"}
    BY <1>1, TableValue DEF Keywords
  <2>. QED
    BY <1>1, <2>1 DEF WordType
<1>. QED
  BY <1>1 DEF WordType

LEMMA OperatorTypeIsOwn ==
  ASSUME NEW spelling \in DOMAIN Operators
  PROVE  Operators[spelling] \notin {"STRING", "EOF"}
<1>1. \A p \in Spellings : \E s, t : p = <<s, t>> /\ t # "STRING" /\ t # "EOF"
  BY ZenonT(60) DEF Spellings
<1>2. PICK p \in Spellings : Operators[spelling] = p[2]
  BY TableValue DEF Operators
<1>. QED
  BY <1>1, <1>2

\* t is a token that begins at a lexer of I and that the text has room for.
Begun(I, t) ==
  \E f \in I : /\ t.line = f.line /\ t.column = f.column
               /\ t.at = IF t.type = "STRING" THEN f.pos + 1 ELSE f.pos
               /\ t.at \in 0..Len(input) /\ t.length \in 0..Len(input) - t.at

\* The branches of lexer_next_token, each from the first character of its token.
LEMMA StringTokenEffect ==
  ASSUME input \in Texts, NEW I, Steady(I), NEW l \in I, Char(l, 0) = Quote
  PROVE  LET r == StringToken(l)
         IN  /\ r.lexer \in I /\ r.lexer.pos > l.pos
             /\ Begun(I, r.token) /\ r.token.type = "STRING"
<1>. DEFINE a == Advance(l)
            end == ToStringEnd(a)
            next == IF Char(end, 0) = Quote THEN Advance(end) ELSE end
<1>0. Char(l, 0) # NUL
  BY DEF NUL, Quote
<1>1. l \in Lexers /\ l.pos \in Nat /\ Char(l, 0) # NUL
  BY <1>0, TextIsMarked DEF Steady, Lexers
<1>2. a \in I /\ a.pos = l.pos + 1
  BY <1>1, AdvanceEffect DEF Steady
<1>. HIDE DEF a
<1>3. end \in From(I, a)
  BY <1>2, ToStringEndEffect
<1>. HIDE DEF end
<1>4. end \in I /\ end.pos >= a.pos /\ end.pos \in 0..Len(input) /\ Len(input) \in Nat
  BY <1>2, <1>3, FromEffect
<1>5. next \in I /\ next.pos > l.pos
  <2>1. Char(end, 0) = Quote => Char(end, 0) # NUL
    BY DEF NUL, Quote
  <2>2. end \in Lexers
    BY <1>4 DEF Steady
  <2>3. Char(end, 0) = Quote => Advance(end) \in I /\ Advance(end).pos = end.pos + 1
    BY <1>4, <2>1, <2>2, AdvanceEffect DEF Steady
  <2>. QED
    BY <1>1, <1>2, <1>4, <2>3
<1>. HIDE DEF next
<1>6. StringToken(l) = Returned(next, "STRING", l, l.pos + 1, end.pos - (l.pos + 1))
  BY DEF StringToken, next, end, a
<1>7. l.pos + 1 \in 0..Len(input) /\ end.pos - (l.pos + 1) \in 0..Len(input) - (l.pos + 1)
  BY <1>1, <1>2, <1>4
<1>. QED
  BY <1>5, <1>6, <1>7 DEF Returned, Begun

LEMMA SpanEffect ==
  ASSUME input \in Texts, NEW I, Steady(I), NEW l \in I,
         NEW end \in From(I, l), end.pos > l.pos, NEW type, type \notin {"STRING", "EOF"}
  PROVE  LET r == Returned(end, type, l, l.pos, end.pos - l.pos)
         IN  /\ r.lexer \in I /\ r.lexer.pos > l.pos
             /\ Begun(I, r.token) /\ r.token.type \notin {"STRING", "EOF"}
<1>1. /\ end \in I /\ end.pos >= l.pos
      /\ l.pos \in 0..Len(input) /\ end.pos \in 0..Len(input) /\ Len(input) \in Nat
  BY FromEffect
<1>2. end.pos - l.pos \in 0..Len(input) - l.pos
  BY <1>1
<1>. QED
  BY <1>1, <1>2 DEF Returned, Begun

LEMMA OperatorTokenEffect ==
  ASSUME input \in Texts, NEW I, Steady(I), NEW l \in I, Char(l, 0) # NUL
  PROVE  LET r == OperatorToken(l)
         IN  /\ r.lexer \in I /\ r.lexer.pos > l.pos
             /\ Begun(I, r.token) /\ r.token.type \notin {"STRING", "EOF"}
<1>. DEFINE op == Operator(l)
<1>1. /\ op.end \in From(I, l) /\ op.spelling \in {""} \cup DOMAIN Operators
      /\ op.spelling # "" => op.end.pos > l.pos
  BY OperatorEffect
<1>. HIDE DEF op
<1>2. CASE op.spelling = ""
  <2>1. OperatorToken(l) = Returned(Advance(l), "ERROR", l, l.pos, 0)
    BY <1>2 DEF OperatorToken, op
  <2>2. /\ Advance(l) \in I /\ Advance(l).pos > l.pos
        /\ l.pos \in 0..Len(input) /\ Len(input) \in Nat
    BY AdvanceEffect, TextIsMarked DEF Steady, Lexers
  <2>3. 0 \in 0..Len(input) - l.pos
    BY <2>2
  <2>. QED
    BY <2>1, <2>2, <2>3 DEF Returned, Begun
<1>3. CASE op.spelling # ""
  <2>1. Operators[op.spelling] \notin {"STRING", "EOF"} /\ op.end.pos > l.pos
    BY <1>1, <1>3, OperatorTypeIsOwn
  <2>2. OperatorToken(l)
          = Returned(op.end, Operators[op.spelling], l, l.pos, op.end.pos - l.pos)
    BY <1>3 DEF OperatorToken, op
  <2>. QED
    BY <1>1, <2>1, <2>2, SpanEffect
<1>. QED
  BY <1>2, <1>3

\* A token that is not EOF, and what follows it.
LEMMA TokenEffect ==
  ASSUME input \in Texts, NEW I, Steady(I), NEW l \in I, Char(SkipBlank(l), 0) # NUL
  PROVE  /\ Lex(l).lexer \in I /\ Lex(l).lexer.pos > l.pos
         /\ Begun(I, Lex(l).token) /\ Lex(l).token.type # "EOF"
<1>. DEFINE s == SkipBlank(l)
<1>1. s \in I /\ Char(s, 0) # NUL /\ s.pos >= l.pos
  <2>1. s \in From(I, l)
    BY FromSteady, SkipBlankEffect
  <2>. QED
    BY <2>1, FromEffect
<1>2. Lex(l) = IF Char(s, 0) = Quote THEN StringToken(s)
               ELSE IF Char(s, 0) \in Digits THEN NumberToken(s)
               ELSE IF Char(s, 0) \in Letters THEN WordToken(s)
               ELSE OperatorToken(s)
  BY DEF Lex
<1>. HIDE DEF s
<1>. DEFINE Good(r) == /\ r.lexer \in I /\ r.lexer.pos > s.pos
                    /\ Begun(I, r.token) /\ r.token.type # "EOF"
<1>3. Char(s, 0) = Quote => Good(StringToken(s))
  BY <1>1, StringTokenEffect
<1>4. Char(s, 0) \in Digits => Good(NumberToken(s))
  <2>1. ASSUME Char(s, 0) \in Digits
        PROVE  /\ ToNumberEnd(s) \in From(I, s) /\ ToNumberEnd(s).pos > s.pos
               /\ "NUMBER" \notin {"STRING", "EOF"}
    BY <1>1, <2>1, ToNumberEndEffect
  <2>. QED
    BY <1>1, <2>1, SpanEffect DEF NumberToken
<1>5. Char(s, 0) \in Letters => Good(WordToken(s))
  <2>. DEFINE end == AdvanceWhile(s, Letters \cup Digits)
  <2>1. NUL \notin Letters \cup Digits
    BY DEF NUL, Letters, Digits
  <2>2. end \in From(I, s) /\ (Char(s, 0) \in Letters => end.pos > s.pos)
    BY <1>1, <2>1, AdvanceWhileEffect
  <2>3. WordToken(s) = Returned(end, WordType(SubSeq(input, s.pos + 1, end.pos)),
                                s, s.pos, end.pos - s.pos)
    BY DEF WordToken
  <2>. HIDE DEF end
  <2>. QED
    BY <1>1, <2>2, <2>3, SpanEffect, WordTypeIsOwn
<1>6. Good(OperatorToken(s))
  BY <1>1, OperatorTokenEffect
<1>7. Good(Lex(l))
  <2>. HIDE DEF Good
  <2>. QED
    BY <1>2, <1>3, <1>4, <1>5, <1>6
<1>8. Lex(l).lexer.pos \in Nat /\ s.pos \in Nat /\ l.pos \in Nat
  BY <1>1, <1>7, TextIsMarked DEF Steady, Lexers
<1>. QED
  BY <1>1, <1>7, <1>8

\* EOF, from where nothing but blanks is left.
LEMMA EofEffect ==
  ASSUME input \in Texts, NEW I, Steady(I), NEW l \in I, Char(SkipBlank(l), 0) = NUL
  PROVE  LET s == SkipBlank(l)
         IN  /\ Lex(l) = Returned(s, "EOF", s, s.pos, 0)
             /\ s \in I /\ Begun(I, Lex(l).token)
<1>. DEFINE s == SkipBlank(l)
<1>1. s \in I /\ Lex(l) = Returned(s, "EOF", s, s.pos, 0)
  BY SkipBlankEffect DEF Lex
<1>. HIDE DEF s
<1>2. s.pos \in 0..Len(input) /\ 0 \in 0..Len(input) - s.pos
  BY <1>1, TextIsMarked DEF Steady, Lexers
<1>3. Begun(I, Lex(l).token)
  BY <1>1, <1>2 DEF Returned, Begun
<1>. QED
  BY <1>1, <1>3 DEF s

LEMMA LexEffect ==
  ASSUME input \in Texts, NEW I, Steady(I), NEW l \in I
  PROVE  Lex(l).lexer \in I /\ Begun(I, Lex(l).token)
<1>1. CASE Char(SkipBlank(l), 0) = NUL
  BY <1>1, EofEffect DEF Returned
<1>. QED
  BY <1>1, TokenEffect

-----------------------------------------------------------------------------
(* Places *)

\* The lexers whose line and column are those of their position.
Placed == {l \in Lexers : IsPlace(l.line, l.column, l.pos)}

LEMMA NewlinesFinite ==
  ASSUME NEW p \in Nat
  PROVE  IsFiniteSet(Newlines(p)) /\ Newlines(p) \subseteq 1..p
<1>1. IsFiniteSet(1..p)
  BY FS_Interval
<1>2. Newlines(p) \subseteq 1..p
  BY DEF Newlines
<1>. QED
  BY <1>1, <1>2, FS_Subset

\* lexer_advance keeps line and column with the position.
LEMMA PlacedSteady ==
  ASSUME input \in Texts
  PROVE  Steady(Placed)
<1>. SUFFICES ASSUME NEW l \in Placed, Char(l, 0) # NUL PROVE Advance(l) \in Placed
  BY DEF Steady, Placed
<1>. DEFINE p == l.pos
            c == l.column
<1>1. /\ l \in Lexers /\ p \in 0..Len(input) /\ c \in Nat /\ l.line \in Nat \ {0}
      /\ Len(input) \in Nat /\ IsPlace(l.line, c, p) /\ p # Len(input)
  BY TextIsMarked, EndOfText DEF Placed, Lexers
<1>2. Char(l, 0) = SubSeq(input, p + 1, p + 1)
  <2>1. p + 0 + 1 = p + 1 /\ p + 1 <= Len(input)
    BY <1>1
  <2>. QED
    BY <2>1 DEF Char
<1>3. Advance(l) \in Lexers /\ Advance(l).pos = p + 1
  BY <1>1, AdvanceEffect
<1>4. /\ IsFiniteSet(Newlines(p)) /\ Newlines(p) \subseteq 1..p
      /\ Cardinality(Newlines(p)) \in Nat
  BY <1>1, NewlinesFinite, FS_CardinalityType
<1>5. /\ l.line = 1 + Cardinality(Newlines(p))
      /\ \/ c = p /\ Newlines(p) = {}
         \/ p - c \in Newlines(p) /\ Newlines(p) \cap (p - c + 1)..p = {}
  BY <1>1 DEF IsPlace
<1>6. CASE Char(l, 0) = "\n"
  <2>1. Newlines(p + 1) = Newlines(p) \cup {p + 1} /\ p + 1 \notin Newlines(p)
    <3>1. 1..p + 1 = 1..p \cup {p + 1} /\ p + 1 \notin 1..p
      BY <1>1
    <3>2. SubSeq(input, p + 1, p + 1) = "\n"
      BY <1>2, <1>6
    <3>. HIDE DEF p
    <3>. QED
      BY <1>4, <3>1, <3>2, Zenon DEF Newlines
  <2>2. Cardinality(Newlines(p + 1)) = Cardinality(Newlines(p)) + 1
    BY <1>4, <2>1, FS_AddElement
  <2>3. Advance(l).line = l.line + 1 /\ Advance(l).column = 0
    BY <1>6 DEF Advance
  <2>4. (p + 1) - 0 \in Newlines(p + 1) /\ Newlines(p + 1) \cap ((p + 1) - 0 + 1)..p + 1 = {}
    BY <1>1, <2>1
  <2>5. IsPlace(l.line + 1, 0, p + 1)
    BY <1>1, <1>4, <1>5, <2>2, <2>4 DEF IsPlace
  <2>. QED
    BY <1>3, <2>3, <2>5 DEF Placed
<1>7. CASE Char(l, 0) # "\n"
  <2>1. Newlines(p + 1) = Newlines(p)
    <3>1. 1..p + 1 = 1..p \cup {p + 1}
      BY <1>1
    <3>2. SubSeq(input, p + 1, p + 1) # "\n"
      BY <1>2, <1>7
    <3>. HIDE DEF p
    <3>. QED
      BY <3>1, <3>2, Zenon DEF Newlines
  <2>2. Advance(l).line = l.line /\ Advance(l).column = c + 1
    BY <1>7 DEF Advance
  <2>3. (p + 1) - (c + 1) = p - c /\ (c = p => c + 1 = p + 1)
    BY <1>1
  <2>4. \/ c + 1 = p + 1 /\ Newlines(p + 1) = {}
        \/ /\ (p + 1) - (c + 1) \in Newlines(p + 1)
           /\ Newlines(p + 1) \cap ((p + 1) - (c + 1) + 1)..p + 1 = {}
    BY <1>1, <1>4, <1>5, <2>1, <2>3
  <2>5. IsPlace(l.line, c + 1, p + 1)
    <3>. HIDE DEF p, c
    <3>. QED
      BY <1>5, <2>1, <2>4 DEF IsPlace
  <2>. QED
    BY <1>3, <2>2, <2>5 DEF Placed
<1>. QED
  BY <1>6, <1>7

-----------------------------------------------------------------------------
(* The inductive invariant *)

\* The text is the one that lexer_create was given; lexer_next_token is called
\* at a place of it and has returned a token of it; and EOF was returned at the
\* end, as the very token that the next call will return.
Started == input \in Texts /\ lexer \in Placed

Told == token = [type |-> "none"] \/ Begun(Placed, token)

Ended == token.type = "EOF" =>
           /\ Char(lexer, 0) = NUL
           /\ token = Returned(lexer, "EOF", lexer, lexer.pos, 0).token

IInv == Started /\ Told /\ Ended

LEMMA InitIInv == Init => IInv
<1>. SUFFICES ASSUME Init PROVE IInv
  OBVIOUS
<1>1. input \in Texts /\ lexer = [pos |-> 0, line |-> 1, column |-> 0]
      /\ token = [type |-> "none"]
  BY DEF Init
<1>2. Newlines(0) = {}
  BY DEF Newlines
<1>3. Cardinality(Newlines(0)) = 0
  BY <1>2, FS_EmptySet
<1>4. IsPlace(1, 0, 0)
  BY <1>2, <1>3 DEF IsPlace
<1>5. lexer \in Lexers
  BY <1>1, TextIsMarked DEF Lexers
<1>. QED
  BY <1>1, <1>4, <1>5 DEF IInv, Started, Told, Ended, Placed

\* What a call returns, when it returns EOF.
LEMMA EofIsTheEnd ==
  ASSUME input \in Texts, NEW l \in Lexers, Lex(l).token.type = "EOF"
  PROVE  /\ Char(Lex(l).lexer, 0) = NUL
         /\ Lex(l).token = Returned(Lex(l).lexer, "EOF", Lex(l).lexer, Lex(l).lexer.pos, 0).token
<1>. DEFINE s == SkipBlank(l)
<1>1. Char(s, 0) = NUL
  BY TokenEffect, LexersSteady
<1>2. Lex(l) = Returned(s, "EOF", s, s.pos, 0)
  BY <1>1, EofEffect, LexersSteady
<1>. HIDE DEF s
<1>3. Lex(l).lexer = s
  BY <1>2 DEF Returned
<1>. QED
  BY <1>1, <1>2, <1>3

LEMMA NextIInv == IInv /\ [Next]_vars => IInv'
<1>. SUFFICES ASSUME IInv, [Next]_vars PROVE IInv'
  OBVIOUS
<1>1. CASE NextToken
  <2>1. /\ input' = input /\ input \in Texts /\ lexer \in Placed /\ lexer \in Lexers
        /\ lexer' = Lex(lexer).lexer /\ token' = Lex(lexer).token
    BY <1>1 DEF NextToken, IInv, Started, Placed
  <2>2. lexer' \in Placed /\ Begun(Placed, token')
    BY <2>1, PlacedSteady, LexEffect
  <2>3. Placed' = Placed
    BY <2>1 DEF Placed, Lexers, IsPlace, Newlines
  <2>4. Started'
    BY <2>1, <2>2, <2>3 DEF Started
  <2>5. Told'
    BY <2>1, <2>2, <2>3 DEF Told, Begun
  <2>6. Ended'
    <3>1. token'.type = "EOF" => /\ Char(lexer', 0) = NUL
                                 /\ token' = Returned(lexer', "EOF", lexer', lexer'.pos, 0).token
      BY <2>1, EofIsTheEnd
    <3>. QED
      BY <2>1, <3>1 DEF Ended, Char, Returned
  <2>. QED
    BY <2>4, <2>5, <2>6 DEF IInv
<1>2. CASE UNCHANGED vars
  BY <1>2 DEF vars, IInv, Started, Told, Ended, Placed, Lexers, Begun, IsPlace, Newlines,
              Char, Returned
<1>. QED
  BY <1>1, <1>2 DEF Next

LEMMA Invariance == Spec => []IInv
BY InitIInv, NextIInv, PTL DEF Spec

-----------------------------------------------------------------------------
(* The properties *)

\* The position stays in the text, and what a token names is in the text.
THEOREM TypeCorrect == Spec => []TypeOK
<1>1. ASSUME IInv PROVE TypeOK
  <2>1. lexer \in Lexers
    BY <1>1 DEF IInv, Started, Placed
  <2>2. lexer.pos \in 0..Len(input) /\ lexer.line \in Nat \ {0} /\ lexer.column \in Nat
    BY <2>1 DEF Lexers
  <2>3. token.type # "none" => token.at \in 0..Len(input) /\ token.length \in 0..Len(input) - token.at
    BY <1>1 DEF IInv, Told, Begun
  <2>. QED
    BY <2>2, <2>3 DEF TypeOK
<1>. QED
  BY <1>1, Invariance, PTL

\* The line and the column that lexer_advance counts are those of the position,
\* after blanks, comments, strings and tokens of any length, and the diagnostics
\* of the parser, which take them from the token, point at its first character.
THEOREM PositionsCorrect == Spec => []PositionsAreRight
<1>1. ASSUME IInv PROVE PositionsAreRight
  <2>1. IsPlace(lexer.line, lexer.column, lexer.pos)
    BY <1>1 DEF IInv, Started, Placed
  <2>2. ASSUME token.type # "none"
        PROVE  IsPlace(token.line, token.column,
                       IF token.type = "STRING" THEN token.at - 1 ELSE token.at)
    <3>1. PICK f \in Placed : /\ token.line = f.line /\ token.column = f.column
                              /\ token.at = IF token.type = "STRING" THEN f.pos + 1 ELSE f.pos
      BY <1>1, <2>2 DEF IInv, Told, Begun
    <3>2. IsPlace(f.line, f.column, f.pos) /\ f.pos \in Int
      BY <1>1, TextIsMarked DEF IInv, Started, Placed, Lexers
    <3>3. f.pos = IF token.type = "STRING" THEN token.at - 1 ELSE token.at
      BY <3>1, <3>2
    <3>. QED
      BY <3>1, <3>2, <3>3
  <2>. QED
    BY <2>1, <2>2 DEF PositionsAreRight
<1>. QED
  BY <1>1, Invariance, PTL

\* A parser that asks behind the end gets the same EOF again and again.
THEOREM EofStays == Spec => EofIsFinal
<1>1. ASSUME IInv, [Next]_vars PROVE [token.type = "EOF" => UNCHANGED <<lexer, token>>]_vars
  <2>1. ASSUME NextToken, token.type = "EOF" PROVE UNCHANGED <<lexer, token>>
    <3>1. /\ lexer' = Lex(lexer).lexer /\ token' = Lex(lexer).token
          /\ input \in Texts /\ lexer \in Lexers /\ Char(lexer, 0) = NUL
          /\ token = Returned(lexer, "EOF", lexer, lexer.pos, 0).token
      BY <1>1, <2>1 DEF NextToken, IInv, Started, Ended, Placed
    <3>2. Lex(lexer) = Returned(lexer, "EOF", lexer, lexer.pos, 0)
      BY <3>1, SkipNothing DEF Lex
    <3>. QED
      BY <3>1, <3>2 DEF Returned
  <2>. QED
    BY <1>1, <2>1 DEF Next
<1>. QED
  BY <1>1, Invariance, PTL DEF Spec, EofIsFinal

\* A token takes at least one character of the text, an ERROR too: a caller that
\* asks until it has EOF has it after as many tokens as the text has characters.
THEOREM TokensConsume ==
  Spec => [][token'.type # "EOF" => lexer'.pos > lexer.pos]_vars
<1>1. ASSUME IInv, [Next]_vars
      PROVE  [token'.type # "EOF" => lexer'.pos > lexer.pos]_vars
  <2>1. ASSUME NextToken, token'.type # "EOF" PROVE lexer'.pos > lexer.pos
    <3>1. /\ lexer' = Lex(lexer).lexer /\ token' = Lex(lexer).token
          /\ input \in Texts /\ lexer \in Lexers
      BY <1>1, <2>1 DEF NextToken, IInv, Started, Placed
    <3>2. Char(SkipBlank(lexer), 0) # NUL
      BY <2>1, <3>1, LexersSteady, EofEffect DEF Returned
    <3>. QED
      BY <3>1, <3>2, LexersSteady, TokenEffect
  <2>. QED
    BY <1>1, <2>1 DEF Next
<1>. QED
  BY <1>1, Invariance, PTL DEF Spec

=============================================================================
