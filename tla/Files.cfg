SPECIFICATION Spec
CONSTANTS
  Overhead = 1
  MaxFileSize = 4
  OfdIds = {1, 2, 3}
  I64Max = 3
  FsizeLimit = 3
  Cases <- MCCases
  OverlayCases <- SmallOverlays
  Slacks <- OverlaySlacks
INVARIANTS FilesExact LocksSound LockWaitersMustWait
PROPERTIES ContentsKept
CHECK_DEADLOCK FALSE
