SPECIFICATION FairSpec
CONSTANTS
  MaxTask = 2
  MaxTime = 2
  MaxDepth = 1
  QueueSize = 3
  MaxInput = 1
INVARIANTS
  TypeOK
  OneMessage
  NoLostWakeup
  NativeLoopServed
PROPERTIES
  Implements
  EveryTaskRuns
CHECK_DEADLOCK FALSE
