SPECIFICATION FairSpec
CONSTANTS
  Texts <- MCTexts
  ULLongMax = 99
INVARIANTS
  TypeOK
  PositionsAreRight
  NumbersAreRead
PROPERTIES
  TokensAreRight
  EofIsFinal
  ReachesEof
