SPECIFICATION Spec
CONSTANTS
  Entries = {db, files}
  FaultKinds <- CleanupFaults
  MaxFaults = 1
  MaxCrashes = 1
INVARIANTS
  OriginalsRecoverable
CHECK_DEADLOCK FALSE
