SPECIFICATION FairSpec
CONSTANTS
  Programs <- SoundPrograms
  Load <- LoadSound
  Meaning <- SoundMeaning
  MemSize = 112
  StackSize = 96
  GcNum = 0
  GcDen = 1
INVARIANTS
  TypeOK
  SameResult
  LevelAgrees
  Promised
  FramesOK
  ArraysFit
  NoDangling
PROPERTIES
  HandledHere
  ImplementsCalls
  Terminates
CHECK_DEADLOCK FALSE
