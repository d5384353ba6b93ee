----------------------------- MODULE TokenCursor -----------------------------
(***************************************************************************)
(* The token window of the parser: parser_advance, parser_match,           *)
(* parser_check, parser_expect and parser_error of src/parser.c, as        *)
(* functions of a cursor.                                                  *)
(*                                                                         *)
(* A cursor is the Parser struct seen from the grammar functions: the      *)
(* token stream the lexer delivers (src), the index of parser->current     *)
(* (pos) and parser->error (err): 0 while there is none, then the index of *)
(* the token the first message points at.  parser->peek is always the      *)
(* following token and no grammar function reads it.  Past the last token  *)
(* the lexer delivers EOF for ever, so pos stays at Len(src) + 1.          *)
(***************************************************************************)
EXTENDS Naturals, Sequences

\* parser->current.type
Current(c) == IF c.pos <= Len(c.src) THEN c.src[c.pos] ELSE "EOF"

Advance(c) == IF c.pos <= Len(c.src) THEN [c EXCEPT !.pos = @ + 1] ELSE c

\* A parser_error that prints and does not remember.
FailForgotten(c) == c

\* parser_error: report and remember; the position does not move.
Fail(c) == [c EXCEPT !.err = IF @ = 0 THEN c.pos ELSE @]

\* parser_match, for one of several tokens: consume it if it is there.
MatchAny(c, types) == IF Current(c) \in types THEN Advance(c) ELSE c

Match(c, type) == MatchAny(c, {type})

\* An Expect that lets a mismatch pass.
ExpectSilent(c, type) == IF Current(c) = type THEN Advance(c) ELSE c

\* parser_expect: a mismatch is reported and nothing is consumed.
Expect(c, type) == IF Current(c) = type THEN Advance(c) ELSE Fail(c)

\* parser_create: the first token is current and there is no error yet.
Start(tokens) == [src |-> tokens, pos |-> 1, err |-> 0]

\* Result of a grammar function: where the parser stands, and the node built.
Result(c, node) == [c |-> c, node |-> node]

\* The NULL of a grammar function that has given up.
NullNode == [kind |-> "null"]

\* The parser stands on a token or on EOF, and its error is at a token that it
\* has come to.
IsCursor(c) == c \in [src : Seq(STRING), pos : 1..Len(c.src) + 1, err : 0..c.pos]

\* From c to d the tokens are left alone, the position does not go back, and the
\* error that was reported first is kept.
Onward(c, d) == /\ IsCursor(d) /\ d.src = c.src
                /\ c.pos <= d.pos
                /\ c.err # 0 => d.err = c.err

\* What is more, a token is consumed or an error reported.
Progress(c, d) == Onward(c, d) /\ (d.pos = c.pos => d.err # 0)
=============================================================================
