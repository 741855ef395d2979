SPECIFICATION FairSpec
CONSTANTS
  LidarCount = 2
  QueueSize = 1
  Settings <- OneStreamLoaded
  AfterExit <- OneOfEach
INVARIANTS OneToken NoLostWakeup
PROPERTIES PacketsAreServed DriverStops
CHECK_DEADLOCK FALSE
