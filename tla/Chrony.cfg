CONSTANTS
    Readings <- SlowAndFast
    MaxStrays = 2
SPECIFICATION FairSpec
INVARIANTS OneChild HonestSnapshot
PROPERTIES LossShows
CHECK_DEADLOCK FALSE
