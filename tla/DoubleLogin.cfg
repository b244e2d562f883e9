SPECIFICATION Spec
CONSTANTS
  MaxLogins = 2
  MaxDrops = 0
  MaxTries = 0
  MaxTasks = 3
PROPERTIES
  LoginAsserts
CHECK_DEADLOCK FALSE
