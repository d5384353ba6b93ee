------------------------------- MODULE Numbers -------------------------------
(***************************************************************************)
(* How src/parser.c reads a number: strtoull(current.value, NULL, 0), with *)
(* the base left to the text.  The value of a token has no end of its own, *)
(* so the argument is all of the source text from the token on, and what   *)
(* strtoull takes of it is for strtoull to decide.                         *)
(***************************************************************************)
EXTENDS Integers, Sequences

CONSTANT ULLongMax   \* ULLONG_MAX, which is 2^64 - 1

ASSUME ULLongMaxAssumption == ULLongMax \in Nat

\* What the character i of a text counts as a digit, in any base up to 16.
DigitAt(text, i) ==
  LET At(digits) == {d \in 1..16 : SubSeq(digits, d, d) = SubSeq(text, i, i)}
      places     == At("0123456789abcdef") \cup At("0123456789ABCDEF")
  IN  IF i > Len(text) \/ places = {} THEN 16 ELSE (CHOOSE d \in places : TRUE) - 1

Saturated(n) == IF n > ULLongMax THEN ULLongMax ELSE n

\* The digits from the place first on, taken together, and where they end.
\* strtoull goes on to the end of the digits when the value is too large.
ReadFrom(text, first, base) ==
  LET end   == CHOOSE e \in first..Len(text) + 1 :
                 /\ DigitAt(text, e) >= base
                 /\ \A i \in first..e - 1 : DigitAt(text, i) < base
      value[e \in first..end] ==
        IF e = first THEN 0 ELSE Saturated(value[e - 1] * base + DigitAt(text, e - 1))
  IN  [value |-> value[end], length |-> end - 1]

\* strtoull with base 0, of a text that begins with a digit: 0x and a digit are
\* hexadecimal, another 0 in front is octal.  It knows no prefix 0b.
StrToULL(text) ==
  LET hex   == DigitAt(text, 3) < 16 /\ SubSeq(text, 1, 2) \in {"0x", "0X"}
      octal == ~hex /\ SubSeq(text, 1, 1) = "0"
  IN  ReadFrom(text, IF hex THEN 3 ELSE 1, IF hex THEN 16 ELSE IF octal THEN 8 ELSE 10)
=============================================================================
