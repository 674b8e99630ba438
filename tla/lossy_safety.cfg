SPECIFICATION Spec
CONSTANTS
  Capacity = 3
  MaxLoss = 3
  Script <- LineStartExit
  File <- MCFileMixed
INVARIANTS
  TypeOK
  LockStep
  SenderNeverCutOff
PROPERTY OrderedDelivery
CHECK_DEADLOCK FALSE
