SPECIFICATION Spec
CONSTANTS
  NumAccounts = 2
  TokenIds = {1}
  Keys = {1, 2}
  Admin = 1
  I64Max = 3
  Builders = {b1, b2}
  Batches <- MCBatches
  Orderly = FALSE
  Cores = 2
  MaxRuns = 3
  MaxItems = 2
  MaxBacklog = 3
INVARIANTS
  TypeOK
  AllOrNothing
  CommittedStateStored
PROPERTIES
  SignedTransitions
  ImplementsTokenSupply
CHECK_DEADLOCK FALSE
