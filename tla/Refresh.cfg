CONSTANTS
    Intervals <- OffDefaultLong
    MaxBackoff = 30
    NoTimer = NoTimer
SPECIFICATION RefreshFairSpec
INVARIANTS OneRequest Armed TroubleShows
PROPERTIES PollsKeepComing
