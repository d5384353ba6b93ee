------------------------------- MODULE MCLexer -------------------------------
(***************************************************************************)
(* The lexer on every text up to a length, for alphabets that exercise one *)
(* part of it each, compared with a definition of what a token is that     *)
(* reads the text as a whole instead of character by character.            *)
(***************************************************************************)
EXTENDS Lexer, Numbers

CharsOf(s) == {SubSeq(s, i, i) : i \in 1..Len(s)}

RECURSIVE TextsOver(_, _)
TextsOver(chars, n) ==
  IF n = 0 THEN {""}
  ELSE LET shorter == TextsOver(chars, n - 1)
       IN  shorter \cup {t \o c : t \in shorter, c \in CharsOf(chars)}

\* Blanks and comments, strings, numbers, operators, words, and a bit of all.
MCTexts == TextsOver("/*\n a", 6)
           \cup TextsOver("\"\\n/\n", 6)
           \cup TextsOver("0xb19fg", 4)
           \cup TextsOver("<>=-/", 4)
           \cup TextsOver("u8if_ ", 4)
           \cup TextsOver("a0\"/*<@#\n ", 4)

-----------------------------------------------------------------------------
(* What a token is.  [i, j) is the part of the text from position i to the *)
(* one before j, or to its end.                                            *)

Part(i, j) == SubSeq(input, i + 1, IF j <= Len(input) THEN j ELSE Len(input))
CharAt(i)  == Part(i, i + 1)
Consists(i, j, set) == \A k \in i..j - 1 : CharAt(k) \in set
Contains(i, j, part) == \E k \in i..j - Len(part) : Part(k, k + Len(part)) = part

LineComment(i, j) == /\ Part(i, i + 2) = "//" /\ j >= i + 2
                     /\ ~Contains(i, j, "\n")
                     /\ j = Len(input) \/ CharAt(j) = "\n"

BlockComment(i, j) == /\ Part(i, i + 2) = "/*" /\ j >= i + 2
                      /\ \/ j >= i + 4 /\ Part(j - 2, j) = "*/" /\ ~Contains(i + 2, j - 1, "*/")
                         \/ j = Len(input) /\ ~Contains(i + 2, j, "*/")

BlankPart(i, j) == \/ CharAt(i) \in Space /\ j = i + 1
                   \/ LineComment(i, j) \/ BlockComment(i, j)

\* [i, j) can be cut into blanks and comments.
Blank(i, j) ==
  \E cuts \in SUBSET (i..j) :
    /\ {i, j} \subseteq cuts
    /\ \A c \in cuts \ {j} : \E d \in cuts : /\ d > c /\ cuts \cap c + 1..d - 1 = {}
                                             /\ BlankPart(c, d)

\* A quote of a string counts unless the run of '\' before it is odd.
Escaped(i, k) == Cardinality({m \in i + 1..k - 1 : Consists(m, k, {"\\"})}) % 2 = 1
Closes(i, k) == k > i /\ CharAt(k) = "\"" /\ ~Escaped(i, k)

StringPart(i, j) ==
  /\ CharAt(i) = "\""
  /\ LET closing == {k \in i + 1..Len(input) - 1 : Closes(i, k)}
     IN  IF closing = {} THEN j = Len(input)
         ELSE j - 1 \in closing /\ \A k \in closing : j - 1 <= k

NumberPart(i, j) ==
  \/ j > i /\ Consists(i, j, Digits)
  \/ j >= i + 2 /\ Part(i, i + 2) \in {"0x", "0X"} /\ Consists(i + 2, j, HexDigits)
  \/ j >= i + 2 /\ Part(i, i + 2) \in {"0b", "0B"} /\ Consists(i + 2, j, {"0", "1"})

WordPart(i, j) == j > i /\ CharAt(i) \in Letters /\ Consists(i, j, Letters \cup Digits)

\* The types that the part [i, j) of the text can have as a token.
TypesOf(i, j) ==
  (IF StringPart(i, j) THEN {"STRING"} ELSE {})
  \cup (IF NumberPart(i, j) THEN {"NUMBER"} ELSE {})
  \cup (IF WordPart(i, j) THEN {WordType(Part(i, j))} ELSE {})
  \cup (IF Part(i, j) \in DOMAIN Operators THEN {Operators[Part(i, j)]} ELSE {})

LongestAt(i, j) == TypesOf(i, j) # {} /\ \A k \in j + 1..Len(input) : TypesOf(i, k) = {}

\* A call of lexer_next_token takes up blanks and comments and then the longest
\* token there, with the type of its text; a character that begins no token is
\* an ERROR, and EOF comes when nothing but blanks is left.  So no character is
\* lost between two tokens, and none belongs to two.
TokensAreRight ==
  [][\E i \in lexer.pos..lexer'.pos :
       /\ Blank(lexer.pos, i)
       /\ \A k \in i + 1..Len(input) : ~BlankPart(i, k)
       /\ CASE token'.type = "EOF"    -> i = Len(input)
            [] token'.type = "ERROR"  -> /\ i < Len(input) /\ lexer'.pos = i + 1
                                         /\ \A k \in i..Len(input) : TypesOf(i, k) = {}
            [] OTHER -> /\ LongestAt(i, lexer'.pos)
                        /\ token'.type \in TypesOf(i, lexer'.pos)]_vars
-----------------------------------------------------------------------------
(* Number tokens and the numbers that the parser makes of them.            *)

\* The value of the digits of the part [i, j) in a base, and of a token.
Written(i, j, base) ==
  LET digit(k) == DigitAt(CharAt(k), 1)
      sum[k \in i..j] == IF k = j THEN 0 ELSE digit(k) * base^(j - 1 - k) + sum[k + 1]
  IN  sum[i]

\* A NUMBER token is read by a scanner of its own, strtoull, that is not told
\* where the token ends.  It never takes a character that the lexer left to the
\* next token; and of a decimal number without a 0 in front, and of 0x with
\* digits, it takes all and makes the value that is written, or the largest one
\* there is.  Of any other token it takes the octal digits in front: 010 is 8, 09
\* is 0, and so is every binary literal of the lexer, 0b11 as well.
NumbersAreRead ==
  token.type = "NUMBER" =>
    LET i == token.at
        j == token.at + token.length
        hex == Part(i, i + 2) \in {"0x", "0X"} /\ j > i + 2
        IsOctal(k) == CharAt(k) \in CharsOf("01234567")
        Reads(first, end, base) ==
          StrToULL(Part(i, Len(input))) =
            [value |-> Saturated(Written(first, end, base)), length |-> end - i]
    IN  /\ CharAt(i) # "0" => Reads(i, j, 10)
        /\ hex => Reads(i + 2, j, 16)
        /\ CharAt(i) = "0" /\ ~hex =>
             \E end \in i + 1..j :
                /\ \A k \in i..end - 1 : IsOctal(k)
                /\ end = j \/ ~IsOctal(end)
                /\ Reads(i, end, 8)
=============================================================================
