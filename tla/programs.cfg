SPECIFICATION Spec
CONSTANTS
  ListElements = {a, b}
  ListBound = 4
  Typed <- SomeLines
  MayInterrupt = TRUE
  Clients <- SomeClients
  Chunks <- SomeChunks
  Lines = {"start", "other", "end"}
  Sizes = {0, 3}
  Room = 1
  SleepMayFail = TRUE
  Pids = {1, 2, 3}
  Helpers = {2}
  Programs = {"a", "b"}
  FdsOf <- SomeFds
  LsofOf <- SomeLsof
  MaxChanges = 2
  Users = {1, 2, 3}
  Titles = {1, 2, 3}
  BorrowRecords <- SomeRecords
  MaxRecords = 5
  Collection = {1, 2, 3, 4, 5}
  Criteria = {"title", "author"}
  Attribute <- SomeAttributes
  Carriers <- SomeCarriers
  HiddenFiles <- SomeHidden
  NoFile = NoFile
  FileNames = {"a", "b"}
  Texts <- SomeTexts
  Reviews <- SomeReviews
  Commands <- SomeCommands
  Tiny = 20
  MaxRuns = 3
  MaxInterrupts = 1
INVARIANTS
  ProgramsTypeOK
  ListsAndPages
  EchoInOrder
  
  RatingsFollowReviews
  SecretsAreFound
PROPERTIES
  HandedOver
  ProgramsEnd
CHECK_DEADLOCK FALSE
