\* Hooks one after the other; a hook or a cleanup pass lasts up to a tick, and the TTL
\* is the least that leaves the scan time to find the hash.
CONSTANTS
    Thread = {h1}
    Cleaner = cleaner
    Publisher = {p1, p2}
    Player = {v1}
    NoClient = NoClient
    TaskTTL = 5
    TaskTimeout = 1
    ScanEvery = 1
    OpTime = 1
    SerialClients = TRUE
    MaxTime = 5
    MaxHooks = 3
    MaxFaults = 0
    MaxCrashes = 0
SPECIFICATION FairSpec
INVARIANTS
    TypeOK
    IndexesAgree
    OwnerKeepsStream
    NoOrphanPlayers
PROPERTY DeadPublisherReclaimed
