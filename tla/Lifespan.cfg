SPECIFICATION LifespanSpec
CONSTANTS
  first = first
  second = second
  read2 = read2
  read1 = read1
  Nobody = Nobody
  Entries <- TwoEntries
  ResourceReads <- TwoReads
CHECK_DEADLOCK FALSE
INVARIANTS
  HolderServes
PROPERTIES
  StartupEnds
