SPECIFICATION Spec
CONSTANTS
  Capacity = 2
  MaxLoss = 1
  Script <- StartOnly
  File <- MCFile2
INVARIANT NoSilentLoss
CHECK_DEADLOCK FALSE
