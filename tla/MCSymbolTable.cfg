SPECIFICATION Spec
CONSTANTS
  a = a
  b = b
  u8 = u8
  u32 = u32
  NULL = NULL
  Names <- MCNames
  Decls <- MCDecls
  InitialCapacity = 1
  MaxDepth = 3
INVARIANTS
  TypeOK
  NoDuplicates
  WithinCapacity
PROPERTIES
  ImplementsLexicalScoping
CHECK_DEADLOCK FALSE
