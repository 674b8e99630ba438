SPECIFICATION FairSpec
CONSTANTS
  Clients <- ThreeClients
  None = None
  Slots = 3
  Files <- Mixed
  Directory <- Here
  Killable <- TheFirst
  ServerKillable = TRUE
INVARIANTS
  TypeOK
  DiskIsTrue
  ServedInStep
PROPERTIES
  ComeAndGo
CHECK_DEADLOCK FALSE
