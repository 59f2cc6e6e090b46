CONSTANTS
    BackoffMin = 1
    BackoffMax = 2
    HaRestarts = TRUE
    MaxDrops = 1
    Demo = TRUE
    MaxStreams = 1
    MaxStarts = 2
    Feeds = {"gps"}
    Interval = 1
    ExpireAfter = 2
    MaxOutages = 1
SPECIFICATION FairHaSpec
INVARIANTS SessionsSound AvailabilityHonest ServiceSound ShowsCurrent LossAges
PROPERTIES Recovers GoneShows
