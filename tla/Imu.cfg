SPECIFICATION ImuFairSpec
CONSTANTS
    VideoThread <- Cameras
    MaxEvents = 4
    MaxChanges = 4
INVARIANTS OneMessagePerGyro
PROPERTIES CallbacksEnd
CHECK_DEADLOCK FALSE
