SPECIFICATION FairSpec
CONSTANTS
  NumAccounts = 2
  TokenIds = {1}
  Keys = {1, 2}
  Admin = 1
  I64Max = 3
  Builders = {b1}
  Batches <- MCSignedBatches
  Orderly = TRUE
  Cores = 2
  MaxRuns = 3
  MaxItems = 3
  MaxBacklog = 4
PROPERTY CatchesUp
CHECK_DEADLOCK FALSE
