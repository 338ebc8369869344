SPECIFICATION Spec
CONSTANTS
  Keys = {1, 2}
  Fields = {"field", "number"}
  Lines = {"line", "child"}
  Files = {"scan", "other", "paper"}
  Outside = {"child"}
  Refusing = {"number"}
  Header = "header"
  Shas = {"sha"}
  DocOf <- MCDocOf
  ParentOf <- MCParentOf
  ShaOf <- MCShaOf
  Batches = {"scheduled"}
  Scheduler = "scheduled"
  Restores = {"r"}
  InitialParts = {"number", "line", "scan", "child", "paper", "other"}
  Policies <- MCPolicies
  Limit = 1
  MaxIds = 2
  MaxFaults = 1
  MaxChanges = 0
PROPERTIES
  DurableBeforeDeletion
CHECK_DEADLOCK FALSE
