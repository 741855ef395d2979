SPECIFICATION FairSpec
CONSTANTS
    MaxGoals = 2
    Settings <- AllSettings
INVARIANTS BridgeSurvives
PROPERTIES EveryRequestAnswered FramesOneAtATime RequestsComeToAnEnd GoalsFollowProtocol
CHECK_DEADLOCK FALSE
