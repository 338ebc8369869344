SPECIFICATION Spec
CONSTANTS
  a1 = a1
  a2 = a2
  Actors <- TwoActors
  Backups <- MCBackups
  MaxRequests = 3
  MaxPreviews = 1
  MaxCrashes = 1
SYMMETRY Interchangeable
INVARIANTS
  DownIsRecoverable
  JobsAreSound
CHECK_DEADLOCK FALSE
