\* Collections that start with cells still free, stack entries that are no
\* pointers.
CONSTANTS
  MemSize = 4
  MaxKids = 1
  MaxStack = 2
  OtherVals = {1}
  GcNum = 1
  GcDen = 2
SPECIFICATION Spec
CHECK_DEADLOCK FALSE
INVARIANTS
  TypeOK
  FreeListOK
  PendingLive
  CleanBetweenCollections
  OomOnlyWhenFull
PROPERTIES
  CollectsAllGarbage
  ImplementsHeap
