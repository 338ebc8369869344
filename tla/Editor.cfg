SPECIFICATION Spec
CONSTANTS
  Users <- OneUser
  MaxSaves = 2
  MaxLoads = 2
INVARIANTS
  StoreIsSound
  AcknowledgedEditsSurvive
PROPERTIES
  NothingSeenIsDropped
CHECK_DEADLOCK FALSE
