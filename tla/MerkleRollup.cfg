SPECIFICATION Spec
CONSTANTS
  NumAccounts = 2
  TokenIds = {1}
  Keys = {1, 2}
  Admin = 1
  I64Max = 3
  TREE_DEPTH = 2
  MaskBit = 0
  KeyHash <- MCKeyHash
  Builders = {b1, b2}
  Batches <- MCBatches
  Cores = 2
  MaxRuns = 3
  MaxItems = 2
  MaxBacklog = 2
INVARIANTS
  RootsAgree
  WitnessesRefine
PROPERTIES
  ImplementsRollup
CHECK_DEADLOCK FALSE
