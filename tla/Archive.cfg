SPECIFICATION FairSpec
CONSTANTS
  Keys = {1, 2}
  Fields = {"field", "number"}
  Lines = {"line", "child"}
  Files = {"scan", "other", "paper"}
  Outside = {"child"}
  Refusing = {"number"}
  Header = "header"
  Shas = {"sha"}
  DocOf <- MCDocOf
  ParentOf <- MCParentOf
  ShaOf <- MCShaOf
  Batches = {"manual", "scheduled"}
  Scheduler = "scheduled"
  Restores = {"r"}
  InitialParts = {"number", "line", "scan", "child", "paper", "other"}
  Policies <- MCPolicies
  Limit = 2
  MaxIds = 2
  MaxFaults = 1
  MaxChanges = 1
INVARIANTS
  NothingIsLost
  ArchiveIsSound
PROPERTIES
  ChangesAreCareful
  EligibleIsArchived
CHECK_DEADLOCK FALSE
