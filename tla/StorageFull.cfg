SPECIFICATION Spec
CONSTANTS
  NumAccounts = 3
  TokenIds = {1, 2}
  Keys = {1, 2}
  Admin = 1
  I64Max = 7
  Payloads <- MCPayloads
  MaxItems = 1
  Capacity = 3
INVARIANT KnownTokensAreHeld
