SPECIFICATION KitSpec
CONSTANTS
  a = a
  b = b
  z = z
  NoClient = NoClient
  Clients <- Two
  Dials <- OneWay
  MaxCalls = 1
  MaxFaults = 0
  JoinFirst = TRUE
  Old = {}
  SafeMode = TRUE
  MultiDevice = FALSE
  Overlap = FALSE
  Hasty = TRUE
INVARIANT KitTypeOK
INVARIANT OneBill
INVARIANT OnlyAnsweredRooms
INVARIANT NoDeadWindow
CHECK_DEADLOCK FALSE
