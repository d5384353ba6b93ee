------------------------------ MODULE MCParser -------------------------------
(***************************************************************************)
(* The parser on a few programs that use every construct and on every      *)
(* token sequence one edit away from them, compared with the grammar.      *)
(***************************************************************************)
EXTENDS Ast

G == INSTANCE Grammar

Device == << "PERIPHERAL", "IDENTIFIER", "AT", "NUMBER", "LBRACE",
               "REGISTER", "IDENTIFIER", "COLON", "AT", "NUMBER", "LBRACE",
                 "FIELD", "IDENTIFIER", "COLON", "LBRACKET", "NUMBER", "COLON",
                    "NUMBER", "RBRACKET", "RO", "SEMICOLON",
                 "FIELD", "IDENTIFIER", "COLON", "LBRACKET", "NUMBER", "COLON",
                    "NUMBER", "RBRACKET",
               "RBRACE",
               "REGISTER", "IDENTIFIER", "COLON", "U8", "AT", "NUMBER", "LBRACE",
                 "FIELD", "IDENTIFIER", "COLON", "LBRACKET", "NUMBER", "COLON",
                    "NUMBER", "RBRACKET", "W1C",
               "RBRACE",
             "RBRACE" >>

Braces == << "FN", "IDENTIFIER", "LPAREN", "RPAREN", "ARROW", "U32", "LBRACE",
               "VAR", "IDENTIFIER", "COLON", "U8", "ASSIGN", "NUMBER", "SEMICOLON",
               "LBRACE", "RETURN", "SEMICOLON", "RBRACE",
               "IDENTIFIER", "LPAREN", "NUMBER", "COMMA", "IDENTIFIER", "RPAREN",
               "RETURN",
             "RBRACE" >>

Mixed == << "PROC", "IDENTIFIER", "LPAREN", "RPAREN", "COLON", "VOID", "ASSIGN",
               "RETURN", "NUMBER", "PLUS", "IDENTIFIER",
            "PERIPHERAL", "IDENTIFIER", "AT", "NUMBER", "LBRACE", "RBRACE",
            "FUNC", "IDENTIFIER", "LPAREN", "RPAREN", "COLON", "U8", "ASSIGN",
               "LBRACE", "LET", "IDENTIFIER", "COLON", "I8", "ASSIGN", "TRUE",
               "RBRACE" >>

Programs == {Device, Braces, Mixed}

\* One token of each role; the ones that share a role in the grammar are left out.
Tokens == {"PERIPHERAL", "REGISTER", "FIELD", "IDENTIFIER", "NUMBER", "AT", "COLON",
           "LBRACE", "RBRACE", "LBRACKET", "SEMICOLON", "RW", "U16", "FN", "PROC",
           "LPAREN", "RPAREN", "ARROW", "ASSIGN", "RETURN", "LET", "MINUS", "UNKNOWN"}

\* p with one token dropped, replaced or inserted, or cut off.
Edits(p) ==
  LET from(i) == SubSeq(p, i, Len(p))
      upto(i) == SubSeq(p, 1, i)
      at      == 1..Len(p)
  IN  {upto(i - 1) \o from(i + 1) : i \in at}
      \cup {upto(i) : i \in {0} \cup at}
      \cup {upto(i - 1) \o <<t>> \o from(i + k) : i \in at, t \in Tokens, k \in {0, 1}}

\* The device of README.md:35-71; base_address, type, offset, start_bit, end_bit
\* and access are ordinary names to the lexer.
ReadmeField == << "FIELD", "IDENTIFIER", "LBRACE",
                    "IDENTIFIER", "COLON", "NUMBER", "IDENTIFIER", "COLON", "NUMBER",
                    "IDENTIFIER", "COLON", "RW",
                  "RBRACE" >>
ReadmeRegister == << "REGISTER", "IDENTIFIER", "LBRACE",
                       "IDENTIFIER", "COLON", "U32", "IDENTIFIER", "COLON", "NUMBER" >>
                  \o ReadmeField \o ReadmeField \o << "RBRACE" >>
ReadmeDevice == << "PERIPHERAL", "IDENTIFIER", "LBRACE", "IDENTIFIER", "COLON", "NUMBER" >>
                \o ReadmeRegister \o ReadmeRegister \o << "RBRACE" >>

ReadmeInputs == {ReadmeDevice, Device}

MCInputs == UNION {Edits(p) : p \in Programs}

-----------------------------------------------------------------------------

\* README.md shows a device definition: the parser accepts it.
AcceptsReadmeExample == <>Accepted

\* The parser ends without an error on the programs of the language and on
\* nothing else (parser_parse_program against the grammar).
AcceptsTheLanguage == Done => (cursor.err = 0 <=> G!InLanguage(cursor.src))

\* No error is reported at a token up to which the input agrees with a
\* correct program: the position in a message is never too early.
NoEarlyError ==
  \A p \in Programs :
    cursor.err # 0 =>
      \E i \in 1..cursor.err : i > Len(cursor.src) \/ i > Len(p) \/ cursor.src[i] # p[i]
=============================================================================
