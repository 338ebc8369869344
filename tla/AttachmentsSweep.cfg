SPECIFICATION Spec
CONSTANTS
  image1 = image1
  image2 = image2
  plain = plain
  r1 = r1
  r2 = r2
  Records = {r2}
  Uploads = {plain}
  Images = {}
  Notes = {}
  AttachmentOf <- MCAttachmentOf
  ParentOf <- MCParentOf
  DirOf <- MCDirOf
  MaxFaults = 0
  MaxRestarts = 0
PROPERTIES
  SweepsOnlyInterrupted
CHECK_DEADLOCK FALSE
