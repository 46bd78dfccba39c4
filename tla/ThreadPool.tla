----------------------------- MODULE ThreadPool -----------------------------
(***************************************************************************)
(* The worker pool of src/util/ThreadPool.cpp and include/ThreadPool.h.    *)
(*                                                                         *)
(* Callers run submit(), Workers run worker_thread() and Stoppers run      *)
(* stop_and_wait(); a step of the model is an atomic access to shared      *)
(* state.  _queueMutex is not a variable: the only critical section with   *)
(* an access to state it does not protect (the read of _stop in submit,    *)
(* which stop_and_wait writes without the mutex) is the pc value "locked", *)
(* and every other critical section is one step guarded by MutexFree.      *)
(***************************************************************************)
EXTENDS Integers, Sequences, FiniteSets

CONSTANTS
    Worker,         \* _workers
    Caller,         \* threads that call submit()
    Stopper,        \* threads that call stop_and_wait()
    Task,           \* the tasks submitted in a behaviour (bounds it)
    NoTask,         \* "no task" in a thread's local variable
    MaxQueueSize,   \* _maxQueueSize; 0 means no limit
    Timed           \* whether stop_and_wait is called with a timeout > 0

ASSUME WorkerAssumption == IsFiniteSet(Worker) /\ Worker # {}
ASSUME TaskAssumption == NoTask \notin Task
ASSUME SizeAssumption == MaxQueueSize \in Nat
ASSUME TimedAssumption == Timed \in BOOLEAN

VARIABLES
    tasks,      \* _tasks
    stop,       \* _stop
    stopReq,    \* stopReq[w]: w's stop_token is signalled
    wpc,        \* where each worker is
    wtask,      \* the task a worker has popped
    cpc,        \* where each caller of submit is
    ctask,      \* the task a caller is submitting
    spc,        \* where each caller of stop_and_wait is
    target,     \* stop_and_wait's local "target"
    submitted, completed, failed, rejected,  \* the four counters of Stats
    outcome     \* what has become of each task

vars == <<tasks, stop, stopReq, wpc, wtask, cpc, ctask, spc, target,
          submitted, completed, failed, rejected, outcome>>

poolVars == <<tasks, wpc, wtask>>
callerVars == <<cpc, ctask>>
stopVars == <<stop, stopReq, spc, target>>
statVars == <<submitted, completed, failed, rejected>>

Init ==
    /\ tasks = <<>>
    /\ stop = FALSE
    /\ stopReq = [w \in Worker |-> FALSE]
    /\ wpc = [w \in Worker |-> "ready"]
    /\ wtask = [w \in Worker |-> NoTask]
    /\ cpc = [c \in Caller |-> "idle"]
    /\ ctask = [c \in Caller |-> NoTask]
    /\ spc = [s \in Stopper |-> "idle"]
    /\ target = 0
    /\ submitted = 0 /\ completed = 0 /\ failed = 0 /\ rejected = 0
    /\ outcome = [t \in Task |-> "new"]

MutexFree == \A c \in Caller : cpc[c] # "locked"

\* Every thread blocked in _condition.wait wakes and re-evaluates its predicate.
WakeAll == [w \in Worker |-> IF wpc[w] = "blocked" THEN "ready" ELSE wpc[w]]
-----------------------------------------------------------------------------
(* submit() *)

\* The pool is closed: count the rejection and throw, releasing the mutex.
SubmitRejectStopped(c, t) ==
    /\ cpc[c] = "idle" /\ outcome[t] = "new" /\ MutexFree
    /\ stop
    /\ rejected' = rejected + 1
    /\ outcome' = [outcome EXCEPT ![t] = "rejected"]
    /\ UNCHANGED <<poolVars, callerVars, stopVars, submitted, completed, failed>>

\* The mutex is taken and _stop read as false; _stop may be set before the
\* emplace that follows, because stop_and_wait does not take the mutex.
SubmitPassGate(c, t) ==
    /\ cpc[c] = "idle" /\ outcome[t] = "new" /\ MutexFree
    /\ ~stop
    /\ cpc' = [cpc EXCEPT ![c] = "locked"]
    /\ ctask' = [ctask EXCEPT ![c] = t]
    /\ UNCHANGED <<poolVars, stopVars, statVars, outcome>>

\* Mutant: > for >=.
OffByOneFull == MaxQueueSize > 0 /\ Len(tasks) > MaxQueueSize
QueueFull == MaxQueueSize > 0 /\ Len(tasks) >= MaxQueueSize

SubmitRejectFull(c) ==
    /\ cpc[c] = "locked"
    /\ QueueFull
    /\ rejected' = rejected + 1
    /\ outcome' = [outcome EXCEPT ![ctask[c]] = "rejected"]
    /\ cpc' = [cpc EXCEPT ![c] = "idle"]
    /\ ctask' = [ctask EXCEPT ![c] = NoTask]
    /\ UNCHANGED <<poolVars, stopVars, submitted, completed, failed>>

\* emplace, ++_totalSubmitted and the release of the mutex.
SubmitEnqueue(c) ==
    /\ cpc[c] = "locked"
    /\ ~QueueFull
    /\ tasks' = Append(tasks, ctask[c])
    /\ submitted' = submitted + 1
    /\ outcome' = [outcome EXCEPT ![ctask[c]] = "accepted"]
    /\ cpc' = [cpc EXCEPT ![c] = "notify"]
    /\ ctask' = [ctask EXCEPT ![c] = NoTask]
    /\ UNCHANGED <<wpc, wtask, stopVars, completed, failed, rejected>>

\* Mutant: no notify_one after the enqueue.
MissingNotify(c) ==
    /\ cpc[c] = "notify"
    /\ cpc' = [cpc EXCEPT ![c] = "idle"]
    /\ UNCHANGED <<poolVars, ctask, stopVars, statVars, outcome>>

\* notify_one, after the mutex is released: wakes one blocked worker, if any.
SubmitNotify(c) ==
    /\ cpc[c] = "notify"
    /\ cpc' = [cpc EXCEPT ![c] = "idle"]
    /\ LET blocked == {w \in Worker : wpc[w] = "blocked"}
       IN  IF blocked = {} THEN UNCHANGED wpc
           ELSE \E w \in blocked : wpc' = [wpc EXCEPT ![w] = "ready"]
    /\ UNCHANGED <<tasks, wtask, ctask, stopVars, statVars, outcome>>
-----------------------------------------------------------------------------
(* worker_thread() *)

\* Nothing to do and no stop signal: block in _condition.wait.
WorkerWait(w) ==
    /\ wpc[w] = "ready" /\ MutexFree
    /\ tasks = <<>> /\ ~stopReq[w]
    /\ wpc' = [wpc EXCEPT ![w] = "blocked"]
    /\ UNCHANGED <<tasks, wtask, callerVars, stopVars, statVars, outcome>>

\* Mutant: the stop token alone ends the loop.
ExitOnSignal(w) ==
    /\ wpc[w] = "ready" /\ MutexFree
    /\ stopReq[w]
    /\ wpc' = [wpc EXCEPT ![w] = "exited"]
    /\ UNCHANGED <<tasks, wtask, callerVars, stopVars, statVars, outcome>>

\* Mutant: the loop is continued where it should be left.
SpinOnStop(w) ==
    /\ wpc[w] = "ready" /\ MutexFree
    /\ tasks = <<>> /\ stopReq[w]
    /\ UNCHANGED vars

\* wait returned with an empty queue, so the stop token is signalled: return.
WorkerExit(w) ==
    /\ wpc[w] = "ready" /\ MutexFree
    /\ tasks = <<>> /\ stopReq[w]
    /\ wpc' = [wpc EXCEPT ![w] = "exited"]
    /\ UNCHANGED <<tasks, wtask, callerVars, stopVars, statVars, outcome>>

\* Mutant: the newest task is taken.
TakeNewest(w) ==
    /\ wpc[w] = "ready" /\ MutexFree
    /\ tasks # <<>>
    /\ wtask' = [wtask EXCEPT ![w] = tasks[Len(tasks)]]
    /\ tasks' = SubSeq(tasks, 1, Len(tasks) - 1)
    /\ wpc' = [wpc EXCEPT ![w] = "running"]
    /\ UNCHANGED <<callerVars, stopVars, statVars, outcome>>

\* Pop the oldest task, whatever the stop token says, and release the mutex.
WorkerTake(w) ==
    /\ wpc[w] = "ready" /\ MutexFree
    /\ tasks # <<>>
    /\ wtask' = [wtask EXCEPT ![w] = Head(tasks)]
    /\ tasks' = Tail(tasks)
    /\ wpc' = [wpc EXCEPT ![w] = "running"]
    /\ UNCHANGED <<callerVars, stopVars, statVars, outcome>>

\* Whether an exception thrown by the submitted function leaves the queued
\* wrapper: never, std::packaged_task stores it in the caller's future.
Propagates(threw) == FALSE

\* Mutant: a task that threw is not counted.
UncountedFailure(w, threw) ==
    /\ wpc[w] = "running"
    /\ completed' = IF threw THEN completed ELSE completed + 1
    /\ failed' = failed
    /\ outcome' = [outcome EXCEPT ![wtask[w]] = IF threw THEN "threw" ELSE "ok"]
    /\ wtask' = [wtask EXCEPT ![w] = NoTask]
    /\ wpc' = [wpc EXCEPT ![w] = "ready"]
    /\ UNCHANGED <<tasks, callerVars, stopVars, submitted, rejected>>

\* Mutant: the worker's local task is not reset between iterations.
StaleTask(w, threw) ==
    /\ wpc[w] = "running"
    /\ completed' = completed + 1
    /\ outcome' = [outcome EXCEPT ![wtask[w]] = IF threw THEN "threw" ELSE "ok"]
    /\ wpc' = [wpc EXCEPT ![w] = "ready"]
    /\ UNCHANGED <<tasks, wtask, callerVars, stopVars, submitted, failed, rejected>>

\* The task ends, by returning or by throwing, and the worker counts it.
WorkerFinish(w, threw) ==
    /\ wpc[w] = "running"
    /\ completed' = IF Propagates(threw) THEN completed ELSE completed + 1
    /\ failed' = IF Propagates(threw) THEN failed + 1 ELSE failed
    /\ outcome' = [outcome EXCEPT ![wtask[w]] = IF threw THEN "threw" ELSE "ok"]
    /\ wtask' = [wtask EXCEPT ![w] = NoTask]
    /\ wpc' = [wpc EXCEPT ![w] = "ready"]
    /\ UNCHANGED <<tasks, callerVars, stopVars, submitted, rejected>>
-----------------------------------------------------------------------------
(* stop_and_wait() *)

\* _stop.exchange(true) returned true: somebody else is stopping the pool.
StopAgain(s) ==
    /\ spc[s] = "idle" /\ stop
    /\ spc' = [spc EXCEPT ![s] = "returned"]
    /\ UNCHANGED <<poolVars, callerVars, stop, stopReq, target, statVars, outcome>>

StopFirst(s) ==
    /\ spc[s] = "idle" /\ ~stop
    /\ stop' = TRUE
    /\ spc' = [spc EXCEPT ![s] = "request"]
    /\ UNCHANGED <<poolVars, callerVars, stopReq, target, statVars, outcome>>

\* request_stop() on one worker.  A worker inside wait has registered a stop
\* callback, which notifies the shared condition variable.
StopRequest(s, w) ==
    /\ spc[s] = "request" /\ ~stopReq[w]
    /\ stopReq' = [stopReq EXCEPT ![w] = TRUE]
    /\ wpc' = IF wpc[w] = "blocked" THEN WakeAll ELSE wpc
    /\ UNCHANGED <<tasks, wtask, callerVars, stop, spc, target, statVars, outcome>>

StopNotify(s) ==
    /\ spc[s] = "request" /\ \A w \in Worker : stopReq[w]
    /\ wpc' = WakeAll
    /\ spc' = [spc EXCEPT ![s] = "anchor"]
    /\ UNCHANGED <<tasks, wtask, callerVars, stop, stopReq, target, statVars, outcome>>

\* Read the number of submitted tasks, then poll (timeout > 0) or join.
StopAnchor(s) ==
    /\ spc[s] = "anchor"
    /\ target' = submitted
    /\ spc' = [spc EXCEPT ![s] = IF Timed THEN "poll" ELSE "join"]
    /\ UNCHANGED <<poolVars, callerVars, stop, stopReq, statVars, outcome>>

StopDrained(s) ==
    /\ spc[s] = "poll" /\ completed + failed >= target
    /\ spc' = [spc EXCEPT ![s] = "join"]
    /\ UNCHANGED <<poolVars, callerVars, stop, stopReq, target, statVars, outcome>>

StopTimeout(s) ==
    /\ spc[s] = "poll" /\ completed + failed < target
    /\ spc' = [spc EXCEPT ![s] = "join"]
    /\ UNCHANGED <<poolVars, callerVars, stop, stopReq, target, statVars, outcome>>

\* Mutant: the threads are detached instead of joined.
SkipJoin(s) ==
    /\ spc[s] = "join"
    /\ spc' = [spc EXCEPT ![s] = "stopped"]
    /\ UNCHANGED <<poolVars, callerVars, stop, stopReq, target, statVars, outcome>>

\* _workers.clear(): every jthread is joined before stop_and_wait returns.
StopJoin(s) ==
    /\ spc[s] = "join" /\ \A w \in Worker : wpc[w] = "exited"
    /\ spc' = [spc EXCEPT ![s] = "stopped"]
    /\ UNCHANGED <<poolVars, callerVars, stop, stopReq, target, statVars, outcome>>

\* reset_stats(), which main() calls once stop_and_wait has returned.
ResetStats(s) ==
    /\ spc[s] = "stopped"
    /\ spc' = [spc EXCEPT ![s] = "returned"]
    /\ submitted' = 0 /\ completed' = 0 /\ failed' = 0 /\ rejected' = 0
    /\ UNCHANGED <<poolVars, callerVars, stop, stopReq, target, outcome>>
-----------------------------------------------------------------------------
\* Nothing is left to do: the pool is stopped and every task was decided.
Finished ==
    /\ \A s \in Stopper : spc[s] = "returned"
    /\ \A c \in Caller : cpc[c] = "idle"
    /\ \A t \in Task : outcome[t] # "new"
    /\ UNCHANGED vars

Submit(c) ==
    \/ \E t \in Task : SubmitRejectStopped(c, t) \/ SubmitPassGate(c, t)
    \/ SubmitRejectFull(c) \/ SubmitEnqueue(c) \/ SubmitNotify(c)

WorkerThread(w) ==
    \/ WorkerWait(w) \/ WorkerExit(w) \/ WorkerTake(w)
    \/ \E threw \in BOOLEAN : WorkerFinish(w, threw)

StopAndWait(s) ==
    \/ StopAgain(s) \/ StopFirst(s)
    \/ \E w \in Worker : StopRequest(s, w)
    \/ StopNotify(s) \/ StopAnchor(s) \/ StopDrained(s) \/ StopTimeout(s)
    \/ StopJoin(s) \/ ResetStats(s)

Next ==
    \/ \E c \in Caller : Submit(c)
    \/ \E w \in Worker : WorkerThread(w)
    \/ \E s \in Stopper : StopAndWait(s)
    \/ Finished

Spec == Init /\ [][Next]_vars

(* A started submit and a started stop_and_wait keep running, and a worker *)
(* thread is always scheduled.  Nobody is obliged to submit or to stop.    *)
ThreadFairness ==
    /\ \A c \in Caller :
         WF_vars(SubmitRejectFull(c) \/ SubmitEnqueue(c) \/ SubmitNotify(c))
    /\ \A w \in Worker : WF_vars(WorkerWait(w) \/ WorkerExit(w) \/ WorkerTake(w))
    /\ \A s \in Stopper :
         WF_vars(/\ spc[s] \notin {"idle", "stopped"}
                 /\ StopAndWait(s))

\* Submitted functions end.
FairSpec ==
    /\ Spec /\ ThreadFairness
    /\ \A w \in Worker : WF_vars(\E threw \in BOOLEAN : WorkerFinish(w, threw))
-----------------------------------------------------------------------------
(* Properties *)

WorkerPc == {"ready", "blocked", "running", "exited"}
CallerPc == {"idle", "locked", "notify"}
StopperPc == {"idle", "request", "anchor", "poll", "join", "stopped", "returned"}
Outcome == {"new", "rejected", "accepted", "ok", "threw"}

\* Every variable keeps its type; a thread holds a task exactly while it is
\* between taking the task and handing it on.
TypeOK ==
    /\ tasks \in Seq(Task)
    /\ stop \in BOOLEAN
    /\ stopReq \in [Worker -> BOOLEAN]
    /\ wpc \in [Worker -> WorkerPc]
    /\ wtask \in [Worker -> Task \cup {NoTask}]
    /\ cpc \in [Caller -> CallerPc]
    /\ ctask \in [Caller -> Task \cup {NoTask}]
    /\ spc \in [Stopper -> StopperPc]
    /\ target \in Nat
    /\ submitted \in Nat /\ completed \in Nat /\ failed \in Nat /\ rejected \in Nat
    /\ outcome \in [Task -> Outcome]
    /\ \A w \in Worker : wpc[w] = "running" <=> wtask[w] # NoTask
    /\ \A c \in Caller : cpc[c] = "locked" <=> ctask[c] # NoTask

\* Drain semantics (ThreadPool.cpp:37-67): once a worker has returned, nothing
\* is queued and no caller can still enqueue, so no accepted task is stranded.
NothingStranded ==
    (\E w \in Worker : wpc[w] = "exited") => tasks = <<>> /\ MutexFree

\* When stop_and_wait returns to the caller that closed the pool, every task
\* that submit accepted has been executed to its end.
StopMeansDrained ==
    \A s \in Stopper : spc[s] = "stopped" =>
        \A t \in Task : outcome[t] # "accepted"

Running == {w \in Worker : wpc[w] = "running"}

\* The counters get_stats() reads under the mutex always balance: an accepted
\* task is queued, running or counted as ended.
StatsBalance ==
    submitted = Len(tasks) + Cardinality(Running) + completed + failed

\* The queue never grows past max_queue_size (0: unlimited).
QueueBounded == MaxQueueSize > 0 => Len(tasks) <= MaxQueueSize

\* An accepted task is eventually executed, even if the pool is stopped.
AcceptedRuns ==
    \A t \in Task : outcome[t] = "accepted" ~> outcome[t] \in {"ok", "threw"}

\* stop_and_wait returns (tasks that end; with or without a timeout).
StopReturns ==
    \A s \in Stopper : spc[s] = "request" ~> spc[s] = "stopped"

\* The pool implements the drain queue: closing is the return of the first
\* worker thread.
Service == INSTANCE DrainQueue WITH
    Capacity <- MaxQueueSize,
    queue    <- tasks,
    running  <- {wtask[w] : w \in Running},
    done     <- {t \in Task : outcome[t] \in {"ok", "threw"}},
    closed   <- \E w \in Worker : wpc[w] = "exited"

\* Every behaviour of the pool is one of the drain queue: first-in first-out
\* starts, each accepted task executed once, none accepted after the close.
ImplementsDrainQueue == Service!Spec
=============================================================================
