CONSTANTS
    Thread = {h1}
    Cleaner = cleaner
    Publisher = {p1}
    Player = {v1}
    NoClient = NoClient
    TaskTTL = 2
    TaskTimeout = 2
    ScanEvery = 1
    OpTime = 0
    SerialClients = TRUE
    MaxTime = 4
    MaxHooks = 2
    MaxFaults = 0
    MaxCrashes = 0
SPECIFICATION FairSpec
PROPERTY DeadPublisherReclaimed
