SPECIFICATION Spec
CONSTANTS
  Documents <- Structures
  CodePoint <- Codes
  Infinite <- Huge
  MaxDepth = 3
  Trees <- DataTrees
INVARIANT NoStrayBrace
CHECK_DEADLOCK FALSE
