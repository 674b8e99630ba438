SPECIFICATION FairSpec
CONSTANTS
  Programs <- MCPrograms
  Files <- MCFiles
  Shorn <- MCShorn
  Garbage = Garbage
  Null = Null
  Tries <- MCTries
  Codes <- MCCodes
  Unwritable = {}
  Disks <- MCDisks
  Scripts <- MCScripts
  Inputs <- NotFiles
  Outputs <- Anyhow
  MaxLog = 3
INVARIANTS
  TypeOK
  StartsAfresh
PROPERTIES
  ReadEvalLoop
  OutputIsRight
  ExitEnds
CHECK_DEADLOCK FALSE
