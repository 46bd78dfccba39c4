\* Two workers, two callers, three tasks over a queue of two, two stoppers.
CONSTANTS
    Worker = {w1, w2}
    Caller = {c1, c2}
    Stopper = {s1, s2}
    Task = {t1, t2, t3}
    NoTask = NoTask
    MaxQueueSize = 2
    Timed = TRUE
SPECIFICATION FairSpec
INVARIANTS
    TypeOK
    NothingStranded
    StopMeansDrained
    StatsBalance
    QueueBounded
PROPERTIES
    ImplementsDrainQueue
    AcceptedRuns
    StopReturns
