SPECIFICATION Spec
CONSTANTS
  Documents <- All
  CodePoint <- Codes
  Infinite <- Huge
  MaxDepth = 3
  Trees <- DataTrees
INVARIANTS
  TypeOK
  CallsNest
  TokensDecoded
  Located
  DepthIsNesting
  ReadAsWritten
  SamePath
  RoundTrips
PROPERTY Ends
CHECK_DEADLOCK FALSE
