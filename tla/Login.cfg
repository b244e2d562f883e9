SPECIFICATION FairSpec
CONSTANTS
  MaxLogins = 2
  MaxDrops = 1
  MaxTries = 2
  MaxTasks = 3
INVARIANTS
  CancelAsserts
  CancelledIsOut
PROPERTIES
  ExitQuits
  StopIsFinal
  CancelEnds
CHECK_DEADLOCK FALSE
