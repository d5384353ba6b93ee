SPECIFICATION FairSpec
CONSTANTS
  Inputs <- MCInputs
INVARIANTS
  TypeOK
  AcceptsTheLanguage
  NoEarlyError
  NothingLost
  FieldsHaveTheirOwners
PROPERTIES
  NoSilentStall
  Settles
CHECK_DEADLOCK FALSE
