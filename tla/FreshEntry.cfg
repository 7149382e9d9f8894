SPECIFICATION Spec
CONSTANTS
  NumAccounts = 3
  TokenIds = {1, 2}
  Keys = {1, 2, 3}
  Admin = 1
  I64Max = 7
  TREE_DEPTH = 3
  MaskBit = 1
  KeyHash <- MCKeyHash
  Batches <- MCBatches
  MaxRuns = 4
INVARIANT WitnessAlwaysReplays
CHECK_DEADLOCK FALSE
