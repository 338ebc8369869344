CONSTANTS
    NameOrder <- NameOrderV
    BootApps <- BootAppsV
    Artifacts <- ArtifactsV
    InitialStore <- Full
    MaxEdits = 3
SPECIFICATION Spec
INVARIANTS
  RegistryIsSound
  EncryptedStaysHidden
  RejectionIsJustified
  NothingVanishes
CHECK_DEADLOCK FALSE
