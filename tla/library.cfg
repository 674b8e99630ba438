SPECIFICATION Spec
CONSTANTS
  Capacity = 4
  Patrons = {p}
  Books = {a, b}
  MaxBuffer = 6
  MaxIndexed = 2
  MaxCopies = 1
  TableKeys = {3, 6, 11, 19}
  CharSum <- SingleChars
  Values = {0, 1}
  Default = 0
  MaxFirstSize = 4
  HopRange = 2
  MaxOccupied = 4
  SetKeys = {1, 2, 3, 4, 5, 6, 7}
  Nil = Nil
  MaxErased = 3
INVARIANTS
  LibraryTypeOK
  QueueServes
  TableIsMap
  TreeIsOrdered
PROPERTIES
  SetIsKept
CHECK_DEADLOCK FALSE
