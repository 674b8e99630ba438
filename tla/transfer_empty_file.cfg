SPECIFICATION FairSpec
CONSTANTS
  Clients <- OneClient
  None = None
  Slots = 1
  Files <- FirstEmpty
  Directory <- Here
  Killable <- Nobody
  ServerKillable = FALSE
PROPERTIES
  AllServed
CHECK_DEADLOCK FALSE
