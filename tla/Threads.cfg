SPECIFICATION FairSpec
CONSTANTS
  N = 2
  MaxPosts = 4
INVARIANTS
  SoundDownstream
  HandedOnIsDone
PROPERTIES
  Exits
CHECK_DEADLOCK FALSE
