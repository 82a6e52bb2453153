SPECIFICATION Spec
CONSTANTS
  Families <- AllFamilies
  Files <- MountedFiles
  Env <- SomeEnv
  EnvLists <- SomeLists
  NumericKeys <- Numeric
  UseSystemEnvironment = TRUE
  MaxDepth = 20
INVARIANTS
  TypeOK
  Faithful
  PriorsSelfRefFree
  Terminates
  OrderIndependent
PROPERTY CacheStable
CHECK_DEADLOCK FALSE
