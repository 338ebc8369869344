CONSTANTS
    NameOrder <- NameOrderV
    BootApps <- BootAppsV
    Artifacts <- ArtifactsV
    InitialStore <- Small
    MaxEdits = 2
SPECIFICATION Spec
CHECK_DEADLOCK FALSE
INVARIANT
    HigherLayersOverride
