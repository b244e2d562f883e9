SPECIFICATION FairKitSpec
CONSTANTS
  a = a
  b = b
  z = z
  NoClient = NoClient
  Clients <- Two
  Dials <- OneWay
  MaxCalls = 1
  MaxFaults = 0
  JoinFirst = FALSE
  Old = {}
  SafeMode = FALSE
  MultiDevice = FALSE
  Overlap = FALSE
  Hasty = FALSE
PROPERTY SdkThreadReturns
CHECK_DEADLOCK FALSE
