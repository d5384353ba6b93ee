----------------------------- MODULE MCCompiler ------------------------------
(***************************************************************************)
(* The compiler on short source texts and on argument lists of every kind, *)
(* with every failure main can meet, and what its header is worth compared *)
(* with the text it was made from.                                         *)
(***************************************************************************)
EXTENDS Compiler

CONSTANTS ULLongMax,       \* see Numbers
          UInt32Modulus    \* offsets and addresses are kept as uint32_t

N == INSTANCE Numbers

\* The words of a text, which are single tokens with a blank between two.
Words(text) ==
  LET ends == SelectSeq([i \in 1..Len(text) + 2 |-> i - 1],
                        LAMBDA i : i \in {0, Len(text) + 1} \/ SubSeq(text, i, i) = " ")
  IN  [k \in 1..Len(ends) - 1 |-> SubSeq(text, ends[k] + 1, ends[k + 1] - 1)]

\* The first call of the lexer on a word.
Lx(input) == INSTANCE Lexer WITH Texts <- {}, lexer <- 0, token <- 0, calls <- 0
MCTokensOf(text) ==
  [k \in 1..Len(Words(text)) |->
     Lx(Words(text)[k])!Lex([pos |-> 0, line |-> 1, column |-> 0]).token.type]

\* strtoull of a word, kept in 32 bits.
MCNumber(text, k) == N!StrToULL(Words(text)[k]).value % UInt32Modulus

\* What is there to be printed from word k on, to the end of the text.
Kept == {"."} \cup Lx("")!Letters \cup Lx("")!Digits
Behind(text, k) ==
  LET blanks == SelectSeq([i \in 1..Len(text) + 1 |-> i - 1],
                          LAMBDA i : i = 0 \/ SubSeq(text, i, i) = " ")
  IN  IF k > Len(blanks) THEN {} ELSE blanks[k] + 1..Len(text)
MCRestLength(text, k) == Cardinality(Behind(text, k))
MCSafeLength(text, k) == Cardinality({i \in Behind(text, k) : SubSeq(text, i, i) \in Kept})

\* Two registers, with or without a type and a field, at offsets that leave no
\* gap, a gap, and that strtoull reads in its own way; a second peripheral.
Registers(name) ==
  {"register " \o name \o " : " \o type \o "@ " \o offset \o " { " \o fields :
     type \in {"", "u8 "}, offset \in {"0", "4", "0x4", "010", "0b100"},
     fields \in {"} ", "field E : [ 0 : 1 ] ro } "}}

Devices ==
  {"peripheral U @ 0x40 { " \o a \o b \o end :
     a \in Registers("A"), b \in Registers("B") \cup {""},
     end \in {"}", "} peripheral V @ 8 { register C : @ 0 { } }"}}

\* Statements that are right, and wrong in every place where the parser goes on.
Statements ==
  {"let x : u32 = g ( 1 , h ( y ) ) + - 2 ; ", "var x : i8 = ( true ) ", "return ", "return ! z ; ",
   "{ return 1 } ", "{ ", "a ( ) ; ", "a ( 1 ", "let x : u8 return ", "let : u8 = 1 ", "let x : y ",
   "( 1 * ; "}

Functions ==
  {head \o first \o second \o end :
     head \in {"fn f ( ) -> u32 { ", "proc f ( ) : void = ", "func f : u8 "},
     first \in Statements, second \in Statements \cup {""},
     end \in {"}", "} peripheral U @ 1 { register A : @ 0 { } }"}}

\* Devices with mistakes that are survived, and one that the parser turns on for
\* ever.
Wrong ==
  {"fn f ( ) ->", "peripheral U @ 0 { } }", "peripheral U @ 0 { register A @ 0 { field } }",
   "peripheral U @ 0 { ( }", "peripheral U @ 0 { register A : @ 0 { field F : [ 0 : 1 ] }"}

\* Behind its names there is so much that no line with one fits.
Long == "peripheral U @ 0 { register A : @ 0 { field F : [ 0 : 1 ] } } fn main ( ) -> u32 { "
        \o "return the_answer_to_the_ultimate_question_of_life_the_universe_and_everything_and_all ; }"

MCSources == Devices \cup Functions \cup Wrong \cup {Long}

OnDevice == "peripheral U @ 2 { register A : @ 0 { } }"

Text(text) == [has |-> "text", text |-> text]

\* An input file holds one of the texts; an old header stands beside the first.
\* Some have names that are too long for main.
MCDisks ==
  {[p \in {"u.bitn", "generated.h"} |->
      IF p = "u.bitn" THEN Text(text) ELSE Header(<<[piece |-> "old"]>>, {})] : text \in MCSources}
  \cup {[p \in {"u", "./u", "u.h"} |-> Text(text)] : text \in Devices}
  \cup {[p \in {"devices", "device.bitn", "a.b.c.d.e"} |-> Text(text)] :
           text \in {OnDevice, "peripheral U @ 0 { register A : @ 0 { field } }"}}

MCArgLists ==
  {<<>>, <<"--compile">>, <<"-c">>, <<"u.bitn", "--target">>, <<"--verbose", "u.bitn">>,
   <<"--compile", "u.bitn">>, <<"u.bitn", "--target", "--compile">>,
   <<"u.bitn", "--target", "pico", "--compile">>, <<"--compile", "u">>, <<"./u", "--compile">>,
   <<"u.h", "--compile">>, <<"--compile", "-c", OnDevice>>,
   <<"-c", OnDevice, "--compile", "u.bitn">>, <<"-x", "u", "u.bitn", "--compile">>,
   <<"--compile", "devices">>, <<"--compile", "device.bitn">>, <<"--compile", "a.b.c.d.e">>}

MCDefaultSource == "fn main ( ) -> u32 { return 42 ; }"

-----------------------------------------------------------------------------
(* The layout of the registers *)

Pieces(header, kind) == SelectSeq(header, LAMBDA p : p.piece = kind)

\* The offset that stands in the text, decimal or hexadecimal as it looks; 64
\* for one that looks otherwise.
Written(k) ==
  LET in(n) == \/ Words(source)[k] = ToString(n)
               \/ n < 10 /\ Words(source)[k] = "0x" \o ToString(n)
  IN  CHOOSE n \in 0..64 : in(n) \/ (n = 64 /\ \A m \in 0..63 : ~in(m))

\* The offset of the register named at token k.
OffsetOf(k) == CHOOSE j \in k..Len(cursor.src) : /\ cursor.src[j] = "NUMBER"
                                                 /\ \A m \in k..j - 1 : cursor.src[m] # "NUMBER"

\* The registers of the peripheral at token p, by the tokens of their names.
RegistersOf(p) ==
  SelectSeq(NamesAfter("REGISTER"),
            LAMBDA k : k > p /\ \A q \in p + 1..k : cursor.src[q] # "PERIPHERAL")

\* Every register of the text is a member of the struct of its peripheral, with
\* the offset of the text in its comment.  Where a C compiler puts it is where the
\* text wants it if its offset is 4 times the number of registers in front of it,
\* and only then: no other offset is made good.  A struct with a line that is cut
\* is no C.
LayoutAsDeclared ==
  exit = "ok" /\ Wanted /\ ~broken =>
    LET file    == disk[Output(options.input)]
        structs == Pieces(file.pieces, "struct")
        isCut(s) == \E line \in file.cut :
                      /\ line.piece = "struct"
                      /\ line.name \in {structs[s].name}
                                       \cup {structs[s].members[m].name : m \in 1..Len(structs[s].members)}
    IN  \A s \in {t \in 1..Len(structs) : ~isCut(t)} :
          LET registers == RegistersOf(structs[s].name)
              at(k) == Written(OffsetOf(registers[k]))
          IN  \A k \in 1..Len(registers) : \E m \in 1..Len(structs[s].members) :
                /\ structs[s].members[m].name = registers[k]
                /\ at(k) # 64 => /\ structs[s].members[m].offset = at(k)
                                 /\ Place(m) = at(k) <=> at(k) = 4 * (k - 1)
=============================================================================
