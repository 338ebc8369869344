SPECIFICATION Spec
CONSTANTS
  Users <- OneUser
  MaxSaves = 3
  MaxLoads = 1
PROPERTIES
  NoSilentOverwrite
CHECK_DEADLOCK FALSE
