SPECIFICATION Spec
CONSTANTS
  Entries = {db, files}
  FaultKinds <- RecoverFaults
  MaxFaults = 1
  MaxCrashes = 1
INVARIANTS
  InterruptedJobMarked
CHECK_DEADLOCK FALSE
