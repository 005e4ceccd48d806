SPECIFICATION Spec
CONSTANTS
  MaxInits = 2
  UDPSENDMAX = 2
  Failures = {}
PROPERTY FreeArpLocked
CHECK_DEADLOCK FALSE
