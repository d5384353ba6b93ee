----------------------------- MODULE Expressions -----------------------------
(***************************************************************************)
(* parser_parse_expression on all token sequences over an alphabet.  A     *)
(* state is a text; one more token at its end is a step.                   *)
(***************************************************************************)
EXTENDS ExprParser

CONSTANTS Alphabet,  \* the tokens of the texts
          MaxLength  \* how long a text may become

ASSUME AlphabetAssumption  == Alphabet \subseteq STRING
ASSUME MaxLengthAssumption == MaxLength \in Nat

VARIABLE text

Type == /\ Len(text) < MaxLength
        /\ \E t \in Alphabet : text' = Append(text, t)

TextSpec == text = <<>> /\ [][Type]_text

\* From every position, with or without an earlier error: the call leaves the
\* text alone, never moves back, keeps an error already reported, and if it
\* consumes nothing it reports one.  The loops of the statement functions
\* rely on it.
ConsumesOrReports ==
  \A i \in 1..Len(text) + 1 : \A e \in {0, 1} :
    LET c == [src |-> text, pos |-> i, err |-> e]
    IN  Progress(c, Expression(c).c)
=============================================================================
