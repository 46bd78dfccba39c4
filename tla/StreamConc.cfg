\* Two hook threads and the cleanup thread at any speed, ticks of 60 s, one
\* failing Redis call and one crash.
CONSTANTS
    Thread = {h1, h2}
    Cleaner = cleaner
    Publisher = {p1, p2}
    Player = {v1}
    NoClient = NoClient
    TaskTTL = 1
    TaskTimeout = 1
    ScanEvery = 1
    OpTime = 2
    SerialClients = FALSE
    MaxTime = 1
    MaxHooks = 3
    MaxFaults = 1
    MaxCrashes = 1
SPECIFICATION Spec
SYMMETRY Symmetry
INVARIANTS
    NoImmortalTask
