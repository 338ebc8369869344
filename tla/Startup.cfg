CONSTANTS
    Stored <- StoredThen
    Legacy <- LegacyThen
    Shipped <- ShippedNow
    Obsolete = {"FW_UserForm"}
    Created <- CreatedNow
    Prefix <- Prefixes
    MaxChanges = 3
    MaxRestarts = 5
SPECIFICATION UpgradeSpec
INVARIANTS
  ServedIsSound
  CrashesLeaveNoTrace
CHECK_DEADLOCK FALSE
