SPECIFICATION Spec
CONSTANTS
  Families <- UndefinedTargetFamilies
  Files <- NoFiles
  Env <- NoEnv
  EnvLists <- NoEnv
  NumericKeys <- Numeric
  UseSystemEnvironment = TRUE
  MaxDepth = 20
INVARIANTS
  UndefinedIsError
CHECK_DEADLOCK FALSE
