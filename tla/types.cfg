SPECIFICATION Spec
CONSTANTS
  Source <- Types
  Depth = 2
  Records <- MCRecords
  Enums <- MCEnums
  Program <- MCProgram
INVARIANTS
  AcceptedHasCode
  NoConfusion
  NumbersIndex
CHECK_DEADLOCK FALSE
