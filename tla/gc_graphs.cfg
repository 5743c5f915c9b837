\* Three cells, boxes of two pointers: the mark phase branches, and meets a
\* cycle that is not all of the memory.
CONSTANTS
  MemSize = 4
  MaxKids = 2
  MaxStack = 2
  OtherVals = {}
  GcNum = 3
  GcDen = 4
SPECIFICATION FairSpec
CHECK_DEADLOCK FALSE
INVARIANTS
  ListsOK
  NoDangling
PROPERTIES
  CollectionEnds
