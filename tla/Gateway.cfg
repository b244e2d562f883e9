SPECIFICATION FairSpec
CONSTANTS
  Garbage = {0, 2}
  MaxActs = 3
  MaxInvites = 1
INVARIANTS
  NoDeadThread
  
  StopDrains
PROPERTIES
  Implements
  ReturnsOrOverwritten
CHECK_DEADLOCK FALSE
