SPECIFICATION Spec
CONSTANTS
  image1 = image1
  image2 = image2
  plain = plain
  r1 = r1
  r2 = r2
  Records = {r1}
  Uploads = {image1, image2}
  Images = {image1, image2}
  Notes = {"n"}
  AttachmentOf <- MCAttachmentOf
  ParentOf <- OneParent
  DirOf <- MCDirOf
  MaxFaults = 1
  MaxRestarts = 1
INVARIANTS
  CatalogIsSound
  AcknowledgedIsKept
  LeftoversAreSwept
PROPERTIES
  ScanEnds
CHECK_DEADLOCK FALSE
