SPECIFICATION Spec
CONSTANTS
  Source <- FuncTypes
  Depth = 2
  Records <- MCRecords
  Enums <- MCEnums
  Program <- MCProgram
INVARIANTS
  NoConfusion
CHECK_DEADLOCK FALSE
