CONSTANTS
    c1 = c1
    c2 = c2
    Clients <- MCClients
    Events = {"nmea", "ntp"}
    Unknown = Unknown
    StreamMaxClients = 2
    StreamQueue = 2
    Responsive <- OneResponsive
    MaxPublished = 3
    MaxSubscriptions = 2
SPECIFICATION FairSpec
INVARIANTS SlotsSound QueuesSound
PROPERTIES ImplementsFeed Served
