SPECIFICATION Spec
CONSTANTS
  Source <- Later
  Depth = 2
  Records <- MCRecords
  Enums <- MCEnums
  Program <- MCProgram
INVARIANTS
  SameLevel
CHECK_DEADLOCK FALSE
