SPECIFICATION FairSpec
CONSTANTS
    Ids <- TwoIds
    Settings <- AllSettings
INVARIANTS NoDanglingNode ServesItsDevice OneCamera
PROPERTIES CloseReturns CameraIsServed WaitIsBounded
CHECK_DEADLOCK FALSE
