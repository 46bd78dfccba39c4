CONSTANTS
    Thread = {h1, h2}
    Cleaner = cleaner
    Publisher = {p1, p2}
    Player = {v1}
    NoClient = NoClient
    TaskTTL = 2
    TaskTimeout = 2
    ScanEvery = 1
    OpTime = 0
    SerialClients = TRUE
    MaxTime = 0
    MaxHooks = 2
    MaxFaults = 0
    MaxCrashes = 0
SPECIFICATION Spec
INVARIANT OnePublisher
