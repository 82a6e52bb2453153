SPECIFICATION Spec
CONSTANTS
  Families <- TwoStepFamilies
  Files <- NoFiles
  Env <- NoEnv
  EnvLists <- NoEnv
  NumericKeys <- Numeric
  UseSystemEnvironment = TRUE
  MaxDepth = 20
INVARIANTS
  CyclesAreErrors
CHECK_DEADLOCK FALSE
