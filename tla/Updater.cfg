SPECIFICATION FairSpec
CONSTANTS
  Entries = {db, files}
  FaultKinds <- CallAndRecoverFaults
  MaxFaults = 2
  MaxCrashes = 2
INVARIANTS
  JobIsSound
  OriginalsRecoverable
  FailedMeansUndone
  NeverServesMixedData
PROPERTIES
  FilesTouchedOnlyWhenStopped
  JobEnds
  KeepsPromise
CHECK_DEADLOCK FALSE
