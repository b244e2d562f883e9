SPECIFICATION FairKitSpec
CONSTANTS
  a = a
  b = b
  z = z
  NoClient = NoClient
  Clients <- Two
  Dials <- OneWay
  MaxCalls = 1
  MaxFaults = 0
  JoinFirst = FALSE
  Old = {}
  SafeMode = TRUE
  MultiDevice = FALSE
  Overlap = FALSE
  Hasty = FALSE
INVARIANT CalleeEngineLeaves
PROPERTY SdkThreadReturns
PROPERTY DialingResolves
PROPERTY RingingStops
PROPERTY EndsEverywhere
PROPERTY ComesToRest
CHECK_DEADLOCK FALSE
