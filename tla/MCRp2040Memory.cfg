SPECIFICATION Spec
CONSTANTS
  WordModulus = 16
  PsrHigh = 4
  StackTop = 13
  MstatusReset = 6
  SramBase = 8
  SramSize = 5
  ChunkSize = 2
  WordSize = 2
  Files <- MCFiles
  Given <- MCGiven
  MaxCalls = 4
INVARIANTS
  TypeOK
  PartsHaveOwners
  LoadedOrReported
PROPERTIES
  RegistersReadBack
CHECK_DEADLOCK FALSE
