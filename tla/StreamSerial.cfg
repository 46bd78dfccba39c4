\* Two hook threads, clients that await their answers, one failing Redis call.
CONSTANTS
    Thread = {h1, h2}
    Cleaner = cleaner
    Publisher = {p1}
    Player = {v1, v2}
    NoClient = NoClient
    TaskTTL = 2
    TaskTimeout = 2
    ScanEvery = 1
    OpTime = 0
    SerialClients = TRUE
    MaxTime = 0
    MaxHooks = 6
    MaxFaults = 1
    MaxCrashes = 0
SPECIFICATION Spec
SYMMETRY Symmetry
INVARIANTS
    Reapable
    OwnerKeepsStream
    PublisherBacked
    DeniedLeavesNoTask
    SuccessMeansRegistered
