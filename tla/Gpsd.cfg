CONSTANTS
    Devices = {gps, pps}
    BackoffMin = 1
    BackoffMax = 4
    PreferPps = 1
    ClockSteps <- EitherWay
    MaxAge = 2
    MaxSteps = 1
SPECIFICATION FairSpec
INVARIANTS SnapshotHonest OffsetPreferred SessionsSound
PROPERTIES Recovers
CHECK_DEADLOCK FALSE
