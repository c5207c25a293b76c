\* One refused request and one write.
CONSTANTS
  None = None
  Writers = {d, h}
  Denied = {d}
  Sensitive = {}
  MaxActions = 1
  MaxId = 3
  MaxDepth = 1
SPECIFICATION GateSpec
PROPERTIES
  DenialsPersist
CHECK_DEADLOCK FALSE
