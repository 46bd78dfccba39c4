\* Two threads, two hooks and a reclaimed task, counted modulo 16.
CONSTANTS
    Thread = {a, b}
    Modulus = 16
    MaxHooks = 2
    MaxCleaned = 1
SPECIFICATION FairSpec
INVARIANTS
    TypeOK
    FailedInRange
PROPERTIES
    ReportsAdvance
    EventuallyReported
    MonitoringStops
