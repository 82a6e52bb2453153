SPECIFICATION Spec
CONSTANTS
  Documents <- ChainDocuments
  Sources <- ChainSources
  MaxCalls = 3
  Files <- NoFiles
  Env <- NoEnv
  EnvLists <- NoEnv
  NumericKeys <- Numeric
  UseSystemEnvironment = TRUE
  MaxDepth = 20
INVARIANTS
  TypeOK
  ChainFaithful
  SourceOnlyAnswers
CHECK_DEADLOCK FALSE
