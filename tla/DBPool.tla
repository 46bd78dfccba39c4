------------------------------- MODULE DBPool -------------------------------
(***************************************************************************)
(* The MariaDB connection pool, db/DBManager.cpp: borrowers that acquire   *)
(* and release connections through ConnectionGuard, and shutdown().        *)
(*                                                                         *)
(* Connections are interchangeable, so the idle queue is its length.       *)
(* _mutex protects that queue and _shutdown's first write; the counters    *)
(* are atomics that threads also change without the mutex, so each of      *)
(* their operations is a step of its own.  The code between two such       *)
(* operations under the mutex is one step.                                 *)
(***************************************************************************)
EXTENDS Integers, FiniteSets

CONSTANTS
    Thread,     \* threads that borrow connections
    MinSize,    \* _config.minSize
    MaxSize,    \* _config.maxSize
    MaxCalls    \* bound on the number of acquireConnection calls

\* The constructor refuses other sizes (DBManager.cpp:16).
ASSUME PoolAssumption == MinSize \in Nat /\ MaxSize \in Nat /\ MinSize <= MaxSize
ASSUME BorrowerAssumption == IsFiniteSet(Thread) /\ MaxCalls \in Nat

VARIABLES
    pool,       \* number of connections in _pool
    total,      \* _total_conns
    active,     \* _active_conns
    waiting,    \* _wait_threads
    shutdown,   \* _shutdown
    pc,         \* where each thread is
    seen,       \* local variable current of acquireConnection
    spc,        \* where the thread that calls shutdown() is
    calls

counters == <<total, active, waiting>>
vars == <<pool, counters, shutdown, pc, seen, spc, calls>>

\* The constructor opens up to minSize connections and counts each twice,
\* with fetch_add and with markConnectionCreated.
Init ==
    /\ pool \in 0..MinSize
    /\ total = 2 * pool
    /\ active = 0 /\ waiting = 0
    /\ shutdown = FALSE
    /\ pc = [c \in Thread |-> "idle"]
    /\ seen = [c \in Thread |-> 0]
    /\ spc = "idle"
    /\ calls = 0

MutexFree == (\A c \in Thread : pc[c] # "cas") /\ spc \notin {"drain", "mark"}
Goto(c, label) == pc' = [pc EXCEPT ![c] = label]
-----------------------------------------------------------------------------
(* acquireConnection *)

AcquireGate(c) ==
    /\ pc[c] = "idle" /\ calls < MaxCalls /\ calls' = calls + 1
    /\ IF shutdown THEN UNCHANGED pc ELSE Goto(c, "loop")
    /\ UNCHANGED <<pool, counters, shutdown, seen, spc>>

\* With the mutex and an idle connection: take it, unlock, validate it.
Pop(c) == pool > 0 /\ pool' = pool - 1 /\ Goto(c, "validate")

\* Strategy C, entered with an empty pool: count the waiter and block.
Block(c) == waiting' = waiting + 1 /\ Goto(c, "blocked") /\ UNCHANGED <<total, active>>

\* Mutant: expand when the pool is full.
LoopOverfull(c) ==
    /\ pc[c] \in {"loop", "drop"} /\ MutexFree
    /\ \/ shutdown /\ Goto(c, "idle") /\ UNCHANGED <<pool, counters, seen>>
       \/ ~shutdown /\ Pop(c) /\ UNCHANGED <<counters, seen>>
       \/ /\ ~shutdown /\ pool = 0 /\ total <= MaxSize
          /\ seen' = [seen EXCEPT ![c] = total] /\ Goto(c, "cas")
          /\ UNCHANGED <<pool, counters>>
       \/ /\ ~shutdown /\ pool = 0 /\ total > MaxSize
          /\ Block(c) /\ UNCHANGED <<pool, seen>>
    /\ UNCHANGED <<shutdown, spc, calls>>

\* One iteration: the queue, else room to expand, else wait.  A connection of the
\* iteration before, found invalid, is destroyed as this one begins.
Loop(c) ==
    /\ pc[c] \in {"loop", "drop"} /\ MutexFree
    /\ \/ shutdown /\ Goto(c, "idle") /\ UNCHANGED <<pool, counters, seen>>
       \/ ~shutdown /\ Pop(c) /\ UNCHANGED <<counters, seen>>
       \/ /\ ~shutdown /\ pool = 0 /\ total < MaxSize
          /\ seen' = [seen EXCEPT ![c] = total] /\ Goto(c, "cas")
          /\ UNCHANGED <<pool, counters>>
       \/ /\ ~shutdown /\ pool = 0 /\ total >= MaxSize
          /\ Block(c) /\ UNCHANGED <<pool, seen>>
    /\ UNCHANGED <<shutdown, spc, calls>>

\* compare_exchange_weak, which may also fail on an equal value.
Cas(c) ==
    /\ pc[c] = "cas"
    /\ \/ /\ total = seen[c]
          /\ total' = total + 1 /\ Goto(c, "create") /\ UNCHANGED <<active, waiting>>
       \/ Block(c)
    /\ UNCHANGED <<pool, shutdown, seen, spc, calls>>

\* Mutant: an invalid connection is subtracted twice, as in shutdown.
ValidateTwice(c) ==
    /\ pc[c] = "validate"
    /\ \/ active' = active + 1 /\ Goto(c, "holding") /\ UNCHANGED total
       \/ total' = total - 2 /\ Goto(c, "drop") /\ UNCHANGED active
    /\ UNCHANGED <<pool, waiting, shutdown, seen, spc, calls>>

\* SELECT 1 on the connection.  An invalid one is subtracted at once, but exists
\* until the thread has the mutex again and leaves the scope (lines 182 to 184).
Validate(c) ==
    /\ pc[c] = "validate"
    /\ \/ active' = active + 1 /\ Goto(c, "holding") /\ UNCHANGED total
       \/ total' = total - 1 /\ Goto(c, "drop") /\ UNCHANGED active
    /\ UNCHANGED <<pool, waiting, shutdown, seen, spc, calls>>

Create(c) ==
    /\ pc[c] = "create"
    /\ \/ active' = active + 1 /\ Goto(c, "holding") /\ UNCHANGED total
       \/ total' = total - 1 /\ Goto(c, "recheck") /\ UNCHANGED active
    /\ UNCHANGED <<pool, waiting, shutdown, seen, spc, calls>>

\* POOL_RECHECK after a failed creation: the wait's predicate comes first.
Recheck(c) ==
    /\ pc[c] = "recheck" /\ MutexFree
    /\ \/ shutdown /\ Goto(c, "idle") /\ UNCHANGED <<pool, counters>>
       \/ ~shutdown /\ Pop(c) /\ UNCHANGED counters
       \/ ~shutdown /\ pool = 0 /\ Block(c) /\ UNCHANGED pool
    /\ UNCHANGED <<shutdown, seen, spc, calls>>

\* checkoutTimeoutMs has passed while c waits.
Timeout(c) ==
    /\ pc[c] = "blocked"
    /\ Goto(c, "late")
    /\ UNCHANGED <<pool, counters, shutdown, seen, spc, calls>>

\* Mutant: a wait whose deadline has passed starts anew.
WakeRestarts(c) ==
    /\ pc[c] \in {"woken", "late"} /\ MutexFree
    /\ \/ /\ shutdown
          /\ waiting' = waiting - 1 /\ Goto(c, "idle") /\ UNCHANGED <<pool, total, active>>
       \/ /\ ~shutdown /\ Pop(c)
          /\ waiting' = waiting - 1 /\ UNCHANGED <<total, active>>
       \/ /\ ~shutdown /\ pool = 0
          /\ Goto(c, "blocked") /\ UNCHANGED <<pool, counters>>
    /\ UNCHANGED <<shutdown, seen, spc, calls>>

\* The wait ends, or goes on when nothing has come and there is time left.
Wake(c) ==
    /\ pc[c] \in {"woken", "late"} /\ MutexFree
    /\ \/ /\ shutdown \/ (pool = 0 /\ pc[c] = "late")
          /\ waiting' = waiting - 1 /\ Goto(c, "idle") /\ UNCHANGED <<pool, total, active>>
       \/ /\ ~shutdown /\ Pop(c)
          /\ waiting' = waiting - 1 /\ UNCHANGED <<total, active>>
       \/ /\ ~shutdown /\ pool = 0 /\ pc[c] = "woken"
          /\ Goto(c, "blocked") /\ UNCHANGED <<pool, counters>>
    /\ UNCHANGED <<shutdown, seen, spc, calls>>
-----------------------------------------------------------------------------
(* releaseConnection *)

\* Mutant: active is not decremented.
ReleaseUncounted(c) ==
    /\ pc[c] = "holding" /\ Goto(c, "returning")
    /\ UNCHANGED <<pool, counters, shutdown, seen, spc, calls>>

Release(c) ==
    /\ pc[c] = "holding"
    /\ active' = active - 1
    /\ Goto(c, "returning")
    /\ UNCHANGED <<pool, total, waiting, shutdown, seen, spc, calls>>

ReleaseCheck(c) ==
    /\ pc[c] = "returning"
    /\ Goto(c, IF shutdown THEN "destroy" ELSE "push")
    /\ UNCHANGED <<pool, counters, shutdown, seen, spc, calls>>

\* fetch_sub, then markConnectionDestroyed subtracts once more.
Destroy(c) ==
    /\ pc[c] \in {"destroy", "destroyed"}
    /\ total' = total - 1
    /\ Goto(c, IF pc[c] = "destroy" THEN "destroyed" ELSE "idle")
    /\ UNCHANGED <<pool, active, waiting, shutdown, seen, spc, calls>>

Push(c) ==
    /\ pc[c] = "push" /\ MutexFree
    /\ pool' = pool + 1
    /\ Goto(c, "notify")
    /\ UNCHANGED <<counters, shutdown, seen, spc, calls>>

\* Mutant: the connection goes back without a notification.
SilentReturn(c) ==
    /\ pc[c] = "notify" /\ Goto(c, "idle")
    /\ UNCHANGED <<pool, counters, shutdown, seen, spc, calls>>

\* notify_one, outside the mutex.
Notify(c) ==
    /\ pc[c] = "notify"
    /\ \/ (\A d \in Thread : pc[d] # "blocked") /\ Goto(c, "idle")
       \/ \E d \in Thread : /\ pc[d] = "blocked"
                            /\ pc' = [pc EXCEPT ![c] = "idle", ![d] = "woken"]
    /\ UNCHANGED <<pool, counters, shutdown, seen, spc, calls>>
-----------------------------------------------------------------------------
(* shutdown *)

Shutdown ==
    /\ spc = "idle" /\ MutexFree
    /\ shutdown' = TRUE /\ spc' = "drain"
    /\ UNCHANGED <<pool, counters, pc, seen, calls>>

\* Each idle connection is subtracted by fetch_sub ...
Drain ==
    /\ spc = "drain"
    /\ \/ /\ pool > 0 /\ pool' = pool - 1 /\ total' = total - 1 /\ spc' = "mark"
       \/ /\ pool = 0 /\ spc' = "notify" /\ UNCHANGED <<pool, total>>
    /\ UNCHANGED <<active, waiting, shutdown, pc, seen, calls>>

\* ... and by markConnectionDestroyed.
MarkDestroyed ==
    /\ spc = "mark" /\ spc' = "drain"
    /\ total' = total - 1
    /\ UNCHANGED <<pool, active, waiting, shutdown, pc, seen, calls>>

\* Mutant: one waiter is woken.
NotifyOne ==
    /\ spc = "notify" /\ spc' = "done"
    /\ \/ (\A d \in Thread : pc[d] # "blocked") /\ UNCHANGED pc
       \/ \E d \in Thread : pc[d] = "blocked" /\ Goto(d, "woken")
    /\ UNCHANGED <<pool, counters, shutdown, seen, calls>>

NotifyAll ==
    /\ spc = "notify" /\ spc' = "done"
    /\ pc' = [c \in Thread |-> IF pc[c] = "blocked" THEN "woken" ELSE pc[c]]
    /\ UNCHANGED <<pool, counters, shutdown, seen, calls>>
-----------------------------------------------------------------------------
\* The calls are used up and every thread has returned.
Finished ==
    /\ calls = MaxCalls /\ \A c \in Thread : pc[c] = "idle"
    /\ spc = "done"
    /\ UNCHANGED vars

Continue(c) ==
    \/ Loop(c) \/ Cas(c) \/ Validate(c) \/ Create(c) \/ Recheck(c) \/ Wake(c)
    \/ Release(c) \/ ReleaseCheck(c) \/ Destroy(c) \/ Push(c) \/ Notify(c)

Stop == Shutdown \/ Drain \/ MarkDestroyed \/ NotifyAll

Next ==
    \/ \E c \in Thread : AcquireGate(c) \/ Continue(c) \/ Timeout(c)
    \/ Stop
    \/ Finished

Spec == Init /\ [][Next]_vars

(* Threads inside the pool run, borrowers give their connection back        *)
(* (ConnectionGuard's destructor), and a shutdown that has begun goes on.   *)
(* Nobody has to call acquireConnection or shutdown, and no wait has to     *)
(* time out.                                                                *)
FairSpec ==
    /\ Spec
    /\ \A c \in Thread : SF_vars(Continue(c))
    /\ WF_vars(Drain \/ MarkDestroyed \/ NotifyAll)
-----------------------------------------------------------------------------
(* Properties *)

ThreadPc == {"idle", "loop", "drop", "cas", "validate", "create", "recheck", "blocked",
             "woken", "late", "holding", "returning", "destroy", "destroyed", "push",
             "notify"}

\* The variables keep their types: the queue's length is never negative, and
\* the counters of borrowed connections and of waiting threads are exact.
TypeOK ==
    /\ pool \in Nat /\ total \in Int /\ shutdown \in BOOLEAN
    /\ pc \in [Thread -> ThreadPc] /\ seen \in [Thread -> Int]
    /\ spc \in {"idle", "drain", "mark", "notify", "done"}
    /\ active = Cardinality({c \in Thread : pc[c] = "holding"})
    /\ waiting = Cardinality({c \in Thread : pc[c] \in {"blocked", "woken", "late"}})
    /\ calls \in 0..MaxCalls

\* Threads that have a connection of their own in hand or are opening one.
Owners == {c \in Thread : pc[c] \in {"validate", "drop", "create", "holding", "returning",
                                     "push", "destroy", "destroyed"}}

\* Those whose connection failed its validation and waits for its destruction.
Dropping == {c \in Thread : pc[c] = "drop"}

\* Whichever threads expand, discard and give back at the same time, maxSize is
\* exceeded by the connections that acquireConnection has found invalid and not yet
\* destroyed, and by no other.
OpenBounded == pool + Cardinality(Owners \ Dropping) <= MaxSize

\* Until the shutdown _total_conns is at least the number of idle and of borrowed
\* connections (the assertion at DBManager.cpp:165, and the one at DBManager.h:134
\* before the shutdown).
TotalCovers == ~shutdown => total >= pool + active

\* A thread is not left blocked beside an idle connection: somebody has been, or
\* is about to be, told of it.
IdleIsAnnounced ==
    pool > 0 /\ (\E c \in Thread : pc[c] = "blocked") =>
        \/ shutdown
        \/ \E c \in Thread : pc[c] \in {"woken", "late", "notify"}

\* shutdown() releases every thread that waits for a connection, even when no
\* timeout does (DBManager.cpp:83).
ShutdownReleasesWaiters ==
    shutdown ~> \A c \in Thread : pc[c] \notin {"blocked", "woken", "late"}

\* If the deadline of a wait passes (wait_until, DBManager.cpp:223), every call of
\* acquireConnection ends, with a connection or without: discarded connections
\* and failed openings, which free room but wake nobody, delay a waiter no
\* longer than that.
AcquireReturns ==
    (\A c \in Thread : WF_vars(Timeout(c))) =>
        \A c \in Thread : pc[c] \in {"loop", "drop"} ~> pc[c] \in {"idle", "holding"}

\* The assertion of markConnectionDestroyed (DBManager.h:154).
DestroyAssertion ==
    [][(\/ spc = "mark" /\ spc' = "drain"
        \/ \E c \in Thread : pc[c] = "destroyed" /\ pc'[c] = "idle")
       => total' >= active']_vars
=============================================================================
