SPECIFICATION Spec
CONSTANTS
  Sessions <- MCSessions
  Names <- MCNames
  Types <- MCTypes
  Exprs <- MCExprs
  Size <- MCSize
  UIntModulus = 65536
  NULL = NULL
  InitialCapacity = 1
  MaxDepth = 6
INVARIANTS
  TypeOK
  ScopesFollowTheWalk
  VerdictHasMessages
  AcceptsWellTyped
  TypesHaveOwners
CHECK_DEADLOCK FALSE
