SPECIFICATION Spec
CONSTANTS
  Budget = 4
  LineMax = 3
  Window = 3
  MaxLines = 3
  MaxTail = 3
  Lengths = {1, 3, 6}
  MaxLength = 4
CHECK_DEADLOCK FALSE
INVARIANTS
  EveryLineOnce
  LossIsAnnounced
PROPERTIES
  ReaderReachesEnd
