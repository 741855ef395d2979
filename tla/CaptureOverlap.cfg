SPECIFICATION Spec
CONSTANTS
  pcd1 = pcd1
  png1 = png1
  sync1 = sync1
  PcdNodes = {pcd1}
  PngNodes = {png1}
  SyncNodes = {sync1}
  SaveOnShutdown = TRUE
  MaxIndex = 3
  MaxClouds = 2
  Settings <- OverlappingOnly
  NoFile = NoFile
PROPERTY NothingOverwritten
CHECK_DEADLOCK FALSE
