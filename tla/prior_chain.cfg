SPECIFICATION Spec
CONSTANTS
  Key = {"a", "b"}
  Atom = {"x", "y"}
  NoValue = NoValue
  Source <- Sources
INVARIANTS
  TypeOK
  PriorsSelfRefFree
  ResetsComplete
PROPERTY KeepsHistory
CHECK_DEADLOCK FALSE
