SPECIFICATION FairSpec
CONSTANTS
    Refuses = {"gain"}
    MaxRemovals = 1
    Settings <- AllSettings
INVARIANTS ProgramValid 
 
CHECK_DEADLOCK FALSE
