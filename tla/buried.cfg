SPECIFICATION Spec
CONSTANTS
  Families <- BuriedFamilies
  Files <- NoFiles
  Env <- NoEnv
  EnvLists <- NoEnv
  NumericKeys <- Numeric
  UseSystemEnvironment = TRUE
  MaxDepth = 20
INVARIANTS
  MergeKeepsFields
CHECK_DEADLOCK FALSE
