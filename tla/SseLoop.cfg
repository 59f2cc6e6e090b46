CONSTANTS
    Settings <- MCSettings
    QueueSize = 2
    MaxWrite = 2
    MaxLag = 1
SPECIFICATION FairSpec
INVARIANTS TimetableKept KeepaliveShadowed
PROPERTIES NothingStarves
CHECK_DEADLOCK FALSE
