SPECIFICATION Spec
CONSTANTS
  Sessions <- ParsedSessions
  Names <- ParsedNames
  Types <- MCTypes
  Exprs <- ParsedExprs
  Size <- MCSize
  UIntModulus = 65536
  NULL = NULL
  InitialCapacity = 1
  MaxDepth = 6
INVARIANTS
  FindsDeclaredVariables
CHECK_DEADLOCK FALSE
