SPECIFICATION FairSpec
CONSTANTS
  Capacity = 2
  MaxLoss = 1
  Script <- StartThenExit
  File <- MCFile3
PROPERTIES
  TransferCompletes
  SenderComesBack
CHECK_DEADLOCK FALSE
