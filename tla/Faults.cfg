SPECIFICATION KitSpec
CONSTANTS
  a = a
  b = b
  z = z
  NoClient = NoClient
  Clients <- Two
  Dials <- OneWay
  MaxCalls = 1
  MaxFaults = 1
  JoinFirst = FALSE
  Old = {b}
  SafeMode = TRUE
  MultiDevice = TRUE
  Overlap = FALSE
  Hasty = FALSE
INVARIANT SameRoom
INVARIANT WithdrawnCallBilled
CHECK_DEADLOCK FALSE
