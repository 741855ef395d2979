SPECIFICATION Spec
CONSTANTS
    Ids <- TwoIds
    Settings <- Reconnected
INVARIANTS InactiveIsSilent
CHECK_DEADLOCK FALSE
