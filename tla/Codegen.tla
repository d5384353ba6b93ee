------------------------------- MODULE Codegen -------------------------------
(***************************************************************************)
(* codegen_generate of backend/codegen/codegen.c: the header as the list   *)
(* of the pieces it writes, in their order.  The wording is left out.  A   *)
(* name is the index of its token, like in the parser: what is printed is  *)
(* the source text from there to its end, in comments as it is and in code *)
(* what sanitize_identifier keeps of it.                                   *)
(***************************************************************************)
EXTENDS Naturals, Sequences, SequencesExt

CONSTANTS Number(_, _),      \* the number that the parser reads at a token of a text
          RestLength(_, _),  \* the characters from a token to the end of the text
          SafeLength(_, _),  \* those of them that sanitize_identifier keeps
          BufferSize         \* of the line that codegen_write formats

\* The nodes of an array that are of a kind, in their order.
OfKind(nodes, kind) ==
  FlattenSeq([k \in 1..Len(nodes) |-> IF nodes[k].kind = kind THEN <<nodes[k]>> ELSE <<>>])

\* A struct that leaves out registers without fields.
MembersWithFields(text, registers) ==
  LET some == SelectSeq(registers, LAMBDA r : r.kids # <<>>)
  IN  [k \in 1..Len(some) |-> [name   |-> some[k].head.name,
                               offset |-> Number(text, some[k].head.offset)]]

\* The members of a struct, one MMIO_REG per register in the order of the file;
\* the offset is printed in a comment.
Members(text, registers) ==
  [k \in 1..Len(registers) |-> [name   |-> registers[k].head.name,
                                offset |-> Number(text, registers[k].head.offset)]]

\* codegen_peripheral
Struct(text, p) == [piece |-> "struct", name |-> p.head.name,
                    base |-> Number(text, p.head.base), members |-> Members(text, p.kids)]

\* codegen_register and codegen_field_accessors, whatever the bits of a field.
Bitfields(text, r) == [piece |-> "bitfield", name |-> r.head.name,
                       offset |-> Number(text, r.head.offset),
                       members |-> [k \in 1..Len(r.kids) |-> r.kids[k].name]]
Accessors(r) == [piece |-> "accessors", name |-> r.head.name,
                 members |-> [k \in 1..Len(r.kids) |-> r.kids[k].name]]

ForRegister(text, r) ==
  IF r.kids = <<>> THEN <<Bitfields(text, r)>> ELSE <<Bitfields(text, r), Accessors(r)>>

ForPeripheral(text, p) ==
  <<Struct(text, p)>> \o FlattenSeq([k \in 1..Len(p.kids) |-> ForRegister(text, p.kids[k])])

\* codegen_generate
Generated(text, program) ==
  LET ps == OfKind(program.kids, "peripheral")
  IN  <<[piece |-> "begin"]>>
      \o FlattenSeq([k \in 1..Len(ps) |-> ForPeripheral(text, ps[k])])
      \o <<[piece |-> "end"]>>

-----------------------------------------------------------------------------
(* Lines *)

\* The hexadecimal digits of a number of 32 bits.
Digits(n) == Cardinality({0} \cup {d \in 1..7 : 16^d <= n})

\* The lengths of the lines with the name of a piece, and of those with one of
\* its members.
OwnLines(text, p) ==
  LET raw  == RestLength(text, p.name)
      safe == SafeLength(text, p.name)
  IN  CASE p.piece = "struct"    -> {raw + 16, safe + 7, 2 * safe + 38}
        [] p.piece = "bitfield"  -> {raw + 27 + Digits(p.offset), safe + 16}
        [] p.piece = "accessors" -> {}

MemberLine(text, p, k) ==
  CASE p.piece = "struct"    -> SafeLength(text, p.members[k].name) + 26 + Digits(p.members[k].offset)
    [] p.piece = "bitfield"  -> SafeLength(text, p.members[k]) + 32
    [] p.piece = "accessors" -> SafeLength(text, p.members[k]) + 23

\* The names that a piece has inside.
NamesIn(p) == IF p.piece = "struct" THEN [k \in 1..Len(p.members) |-> p.members[k].name]
              ELSE p.members

\* The lines of a piece that codegen_write cuts, and with them what is behind
\* the name: a line and its NUL have to fit the buffer.
TooLong(length) == length >= BufferSize
Cut(text, p) ==
  IF p.piece \in {"begin", "end"} THEN {}
  ELSE {[piece |-> p.piece, name |-> n] :
          n \in {m \in {p.name} : \E length \in OwnLines(text, p) : TooLong(length)}
               \cup {NamesIn(p)[k] : k \in {j \in 1..Len(p.members) : TooLong(MemberLine(text, p, j))}}}

\* The strings of sanitize_identifier that nobody frees: those of the members of
\* structs and of bit fields.
NamesLost(p) == IF p.piece \in {"struct", "bitfield"} THEN Len(p.members) ELSE 0

\* Where a C compiler puts member k of a struct of uint32_t.
Place(k) == 4 * (k - 1)
=============================================================================
