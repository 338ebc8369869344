CONSTANTS
    Usernames = {"admin", "bob"}
    Passwords = {"admin", "one", "two"}
    Apps = {"crm"}
    Roles = {"FW_SystemAdminRole", "FW_FrameworkUser"}
    Tokens = {1, 2}
    Grants <- GrantsV
    Origins <- OriginsV
    SetupMaxFailures = 2
    MaxRequests = 5
    MaxRestarts = 2
SPECIFICATION Spec
INVARIANTS
  AccountsAreSound
  AdminRemains
  NothingResurrects
CHECK_DEADLOCK FALSE
