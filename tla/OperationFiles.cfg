SPECIFICATION Spec
CONSTANTS
  NumAccounts = 16
  TokenIds = {1, 2}
  Keys <- MCKeys
  Admin = 5
  I64Max = 3
  Signers = {s1, s2}
  Unsigned <- MCUnsigned
  HandWritten <- MCHandWritten
  IdBytes = 2
  MaxEdits = 1
  MaxCrashes = 1
SYMMETRY MCSymmetry
INVARIANTS
  ReadsWhole
  SignedFilesVerify
  DecodesNumerals
CHECK_DEADLOCK FALSE
