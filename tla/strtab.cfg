SPECIFICATION FairSpec
CONSTANTS
  Strings = {s1, s2, s3, s4}
  Null = Null
  HashValues = {0, 3, 7}
  InitSize = 2
INVARIANTS
  TypeOK
  NeverAborts
  TableOK
PROPERTIES
  ImplementsInterning
  CallsEnd
CHECK_DEADLOCK FALSE
