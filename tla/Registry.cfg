SPECIFICATION FairSpec
CONSTANTS
    h1 = h1
    h2 = h2
    h3 = h3
    Handle = {h1, h2, h3}
    NoHandle = NoHandle
    MaxSourceLidar = 2
    Settings <- AllSettings
INVARIANTS PendingIsInFlight ConfiguredBeforeSampling ListedTopics
PROPERTIES ConfigSettles
