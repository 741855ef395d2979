SPECIFICATION FairSpec
CONSTANTS
    Settings <- AllSettings
INVARIANTS ActiveAsAsked StreamsHavePublishers SettledOutputs DefaultsOpen
PROPERTIES ChangesSettle NodeStops
CHECK_DEADLOCK FALSE
