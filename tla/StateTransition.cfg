SPECIFICATION Spec
CONSTANTS
  NumAccounts = 3
  TokenIds = {1, 2}
  Keys = {1, 2}
  Admin = 1
  I64Max = 3
  Requests <- MCRequests
  MaxOps = 3
INVARIANTS
  TypeOK
  SupplyKept
  FreshSupplySigned
  DebitsSigned
  NettingExact
  TransitionExact
PROPERTIES
  ImplementsTokenSupply
