SPECIFICATION Spec
CONSTANTS
  Locate <- Opens
  Contents <- MayHold
  Disks <- AllDisks
  Registry <- Packages
  Cwd <- Here
  Documents <- Texts
  Shared <- Writable
  MaxPath = 3
INVARIANTS
  TypeOK
  NoRepeat
  Faithful
PROPERTY Ends
CHECK_DEADLOCK FALSE
