SPECIFICATION FairSpec
CONSTANTS
  Garbage = {0}
  MaxActs = 1
  MaxInvites = 0
PROPERTIES
  CleanupReturns
CHECK_DEADLOCK FALSE
