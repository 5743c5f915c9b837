SPECIFICATION Spec
CONSTANTS
  Programs <- EnclosingProgram
  Load <- LoadCase
  Meaning <- CaseMeaning
  MemSize = 48
  StackSize = 64
  GcNum = 0
  GcDen = 1
INVARIANT FunctionsAboveCanBeUsed
CHECK_DEADLOCK FALSE
