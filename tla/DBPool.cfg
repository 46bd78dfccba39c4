\* Three borrowers over a pool of at most two connections.
CONSTANTS
    Thread = {c1, c2, c3}
    MinSize = 1
    MaxSize = 2
    MaxCalls = 3
SPECIFICATION FairSpec
INVARIANTS
    TypeOK
    OpenBounded
    TotalCovers
    IdleIsAnnounced
PROPERTIES
    ShutdownReleasesWaiters
    AcquireReturns
