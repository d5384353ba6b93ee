SPECIFICATION MainSpec
CONSTANTS
  Inputs = {}
  ArgLists <- MCArgLists
  Disks <- MCDisks
  DefaultSource <- MCDefaultSource
  TokensOf <- MCTokensOf
  Number <- MCNumber
  RestLength <- MCRestLength
  SafeLength <- MCSafeLength
  BufferSize = 136
  NameSize = 8
  ULLongMax = 1000
  UInt32Modulus = 256
INVARIANTS
  OnlyTypesAndNamesLeak
  HeaderWholeOrUntouched
  LayoutAsDeclared
PROPERTIES
  DriverReturns
