SPECIFICATION Spec
CONSTANTS
  NumAccounts = 3
  TokenIds = {1, 2}
  Keys = {1, 2}
  Admin = 1
  I64Max = 7
  Payloads <- MCPayloads
  MaxItems = 2
  Capacity = 8
INVARIANTS
  TypeOK
  CheckpointExact
  AgreesWithV2
PROPERTY ImplementsTokenSupply
