SPECIFICATION Spec
CONSTANTS
  NumAccounts = 2
  TokenIds = {1}
  Keys = {1, 2}
  Admin = 1
  I64Max = 3
  Procs = {p1, p2}
  Batches <- MCBatches
  Options <- MCOptions
  Cores = 2
  Writes = 2
  MaxRuns = 2
  MaxCrashes = 2
SYMMETRY MCSymmetry
INVARIANTS
  TypeOK
  HeadNamesState
  SubmittedIsSaved
  DeliveredAsAssumed
  CrashDamagesOneFile
  OverrideRecovers
PROPERTIES
  StateFilesKept
CHECK_DEADLOCK FALSE
