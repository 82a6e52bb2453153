SPECIFICATION Spec
CONSTANTS
  Documents <- Includes
  CodePoint <- Codes
  Infinite <- Huge
  MaxDepth = 3
  Trees <- DataTrees
INVARIANT FileNotRelativized
CHECK_DEADLOCK FALSE
