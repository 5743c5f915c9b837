\* From the smallest table that works, through two growths; addresses 0 .. 8.
CONSTANTS
  InitSize = 2
  UintMax = 9
  MaxBlocks = 4
  Garbage <- MCGarbage
SPECIFICATION FairSpec
CHECK_DEADLOCK FALSE
INVARIANTS
  TypeOK
  RoomForNext
  Sorted
  SearchCorrect
PROPERTIES
  SearchEnds
