SPECIFICATION Spec
CONSTANTS
  Programs <- TailHandlerProgram
  Load <- LoadCase
  Meaning <- CaseMeaning
  MemSize = 48
  StackSize = 64
  GcNum = 0
  GcDen = 1
INVARIANT PassedDownCallStack
CHECK_DEADLOCK FALSE
