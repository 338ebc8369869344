CONSTANTS
    Base <- BaseItems
    Below <- BelowItems
    NewIds = {"n1", "n2", "n3"}
    Labels = {"x", "y"}
    MaxEdits = 4
SPECIFICATION Spec
INVARIANTS
  RebuildShowsEdits
  ExtensionIsSound
CHECK_DEADLOCK FALSE
