CONSTANTS
    nmea = nmea
    gpsd = gpsd
    Kinds = {nmea, gpsd}
    RefuseErrors = 2
    RefuseWindow = 2
    MaxAnswer = 1
    Prompt = 0
    Feed <- MCFeed
    Nmea = nmea
    Hits = {2, 3}
    MaxEntries = 2
    MaxRows = 2
    SnapshotN = 2
SPECIFICATION LogFairSpec
INVARIANTS ConnectionsSound LogSound
PROPERTIES RefusalStands Resolves
CHECK_DEADLOCK FALSE
