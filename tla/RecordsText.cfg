SPECIFICATION DataSpec
CONSTANTS
    None = None
    Null = Null
    NaN = NaN
    Word = Word
    Mask = Mask
    One = One
    Nine = Nine
    Digits <- MCDigits
    TableOrder <- MCTableOrder
    Fields <- MCFields
    Apps <- MCApps
    AppOf <- MCAppOf
    DependsOn <- MCDependsOn
    Licensed <- MCLicensed
    Users <- MCUsers
    RolesOf <- MCRolesOf
    Duties <- MCDuties
    Privileges <- MCPrivileges
    Direct <- MCDirect
    Permissions <- MCPermissions
    OpenApps <- MCOpenApps
    Requests <- TextRequests
    Tokens <- MCTokens
    Jobs <- MCJobs
    JobDocuments <- MCJobDocuments
    Licenses <- MCLicenses
    InitialRows <- MCInitialRows
    Packages <- MCPackages
    MaxTime = 2
    MaxThrows = 1
    MaxRequests = 3
    MaxCrashes = 1
INVARIANTS
  MandatoryIsSet
CHECK_DEADLOCK FALSE
