SPECIFICATION FairSpec
CONSTANTS
  MaxTask = 2
  MaxTime = 2
  MaxDepth = 2
INVARIANTS
  NoLostWakeup
  NoOversleep
PROPERTIES
  QuitDrains
  Implements
  EveryTaskRuns
CHECK_DEADLOCK FALSE
