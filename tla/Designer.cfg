SPECIFICATION PackagesSpec
CONSTANTS
  Names <- MCNames
  Apps <- MCApps
  Tables <- MCTables
  Scripts <- MCScripts
  AppOf <- MCAppOf
  Versions <- MCVersions
  VersionsOf <- MCVersionsOf
  Needs <- MCNeeds
  Gives <- MCGives
  Secret <- MCSecret
  Throws <- MCThrows
  WithModel <- MCWithModel
  WithoutModel <- MCWithoutModel
  InitialStore <- MCInitialStore
  ChangeSets <- MCChangeSets
  Previews = {p1}
  Tokens = {t1}
  Proposals = {a1}
  Scopes <- MCScopes
  Reviewers <- MCReviewers
  Models <- MCModels
  ModelOf <- MCModelOf
  ModelsOf <- MCModelsOf
  Manifests <- MCManifests
  WithModels <- MCWithModels
  Packages <- MCPackages
  FaultKinds <- AllButCommit
  MaxFaults = 1
  MaxRequests = 4
  MaxRestarts = 1
INVARIANTS
  RuntimeIsSound
  FreshUnlessTroubled
  DecidedOnce
PROPERTIES
  ConfirmedIsWhole
CHECK_DEADLOCK FALSE
