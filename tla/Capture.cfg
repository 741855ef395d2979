SPECIFICATION FairSpec
CONSTANTS
  pcd1 = pcd1
  png1 = png1
  sync1 = sync1
  PcdNodes = {pcd1}
  PngNodes = {png1}
  SyncNodes = {sync1}
  SaveOnShutdown = TRUE
  MaxIndex = 3
  MaxClouds = 2
  Settings <- BothSettings
  NoFile = NoFile
INVARIANTS PairsStayTogether SavedOnce
PROPERTIES NothingOverwrittenAlone CaptureEnds
CHECK_DEADLOCK FALSE
