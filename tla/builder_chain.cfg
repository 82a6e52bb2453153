SPECIFICATION BuilderSpec
CONSTANTS
  Families <- FlatFamilies
  Files <- FlatFiles
PROPERTY ImplementsPriorChain
CHECK_DEADLOCK FALSE
