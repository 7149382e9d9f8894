SPECIFICATION Spec
CONSTANTS
  NumAccounts = 3
  TokenIds = {1}
  Keys = {1, 2}
  Admin = 1
  I64Max = 3
  Requests <- MCEdgeRequests
  MaxOps = 3
INVARIANT DebitsAlwaysSigned
