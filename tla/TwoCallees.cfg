SPECIFICATION KitSpec
CONSTANTS
  a = a
  b = b
  z = z
  NoClient = NoClient
  Clients <- Three
  Dials <- AnotherCall
  MaxCalls = 2
  MaxFaults = 0
  JoinFirst = FALSE
  Old = {a}
  SafeMode = TRUE
  MultiDevice = FALSE
  Overlap = TRUE
  Hasty = FALSE
INVARIANTS
  EngineOnlyInOwnCall
  Provenance
  InCallWasAnswered
SYMMETRY Callees
CONSTRAINT Prompt
CHECK_DEADLOCK FALSE
