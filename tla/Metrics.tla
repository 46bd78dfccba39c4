------------------------------- MODULE Metrics -------------------------------
(***************************************************************************)
(* The request counters of scheduler/StreamTaskScheduler.cpp and how       *)
(* monitoring reads them: metrics/SchedulerMetricsProvider.cpp,            *)
(* metrics/MetricsCollector.cpp and the snapshot of IMetricsProvider.h,    *)
(* which GET /metrics copies.                                              *)
(*                                                                         *)
(* Hook threads and the cleanup thread change one atomic counter at a      *)
(* time; the collector loads one at a time and publishes what it loaded by *)
(* storing one pointer.  The snapshot is therefore consistent in itself    *)
(* but need not show a moment that ever was.                               *)
(***************************************************************************)
EXTENDS Integers, Sequences

CONSTANTS
    Thread,         \* hooks under way: first on an I/O thread, then on a pool thread
    Modulus,        \* 2^64
    MaxHooks,       \* bound on the hooks counted
    MaxCleaned      \* bound on the tasks reclaimed

ASSUME BoundAssumption ==
    /\ MaxHooks \in Nat /\ MaxCleaned \in Nat
    /\ Modulus \in Nat /\ MaxHooks < Modulus /\ MaxCleaned < Modulus

Kind == {"publish", "play"}
TotalOf == [publish |-> "total_publish_req", play |-> "total_play_req"]
SuccessOf == [publish |-> "success_pub", play |-> "success_play"]

Counter ==
    {"total_publish_req", "total_play_req", "success_pub", "success_play",
     "auth_failures", "tasks_cleaned"}

VARIABLES
    count,      \* the scheduler's atomic counters
    hook,       \* the hook a thread is at, or "none"
    pc,         \* where the collector's thread is
    loaded,     \* how many counters the pass has loaded
    got,        \* what the pass has loaded so far
    snapshot,   \* what _metrics_cache points to; a set of at most one report
    stopReq,    \* stop() has called request_stop
    late        \* kinds of hook counted since the pass loaded their total

vars == <<count, hook, pc, loaded, got, snapshot, stopReq, late>>

Zero == [c \in Counter |-> 0]

Init ==
    /\ count = Zero /\ hook = [t \in Thread |-> "none"]
    /\ pc = "loop" /\ loaded = 0 /\ got = Zero
    /\ snapshot = {} /\ stopReq = FALSE /\ late = {}
-----------------------------------------------------------------------------
(* StreamTaskScheduler *)

Add(c) == count' = [count EXCEPT ![c] = @ + 1]

\* Mutant: onPlay counts its hook as onPublish does.
CountAsPublish(t, k) ==
    /\ hook[t] = "none"
    /\ count["total_publish_req"] + count["total_play_req"] < MaxHooks
    /\ Add("total_publish_req")
    /\ late' = late \cup {k}
    /\ hook' \in {hook, [hook EXCEPT ![t] = k]}
    /\ UNCHANGED <<pc, loaded, got, snapshot, stopReq>>

\* onPublish and onPlay count the hook first.  It ends there when validation
\* fails or the pool rejects the check.
OnHook(t, k) ==
    /\ hook[t] = "none"
    /\ count["total_publish_req"] + count["total_play_req"] < MaxHooks
    /\ Add(TotalOf[k])
    /\ late' = late \cup {k}
    /\ hook' \in {hook, [hook EXCEPT ![t] = k]}
    /\ UNCHANGED <<pc, loaded, got, snapshot, stopReq>>

\* The callback: refused by authentication, by the registry, or admitted.
Callback(t) ==
    /\ hook[t] \in Kind
    /\ \/ Add("auth_failures")
       \/ UNCHANGED count
       \/ Add(SuccessOf[hook[t]])
    /\ hook' = [hook EXCEPT ![t] = "none"]
    /\ UNCHANGED <<pc, loaded, got, snapshot, stopReq, late>>

\* The cleanup thread counts a reclaimed task.
Clean ==
    /\ count["tasks_cleaned"] < MaxCleaned
    /\ Add("tasks_cleaned")
    /\ UNCHANGED <<hook, pc, loaded, got, snapshot, stopReq, late>>
-----------------------------------------------------------------------------
(* MetricsCollector's worker *)

\* The order in which getMetrics loads the counters.
LoadOrder ==
    <<"total_publish_req", "total_play_req", "success_pub", "success_play",
      "auth_failures", "tasks_cleaned">>

\* Mutant: a pass starts from an empty snapshot.
LoopFromEmpty ==
    /\ pc = "loop"
    /\ pc' = IF stopReq THEN "returned" ELSE "load"
    /\ loaded' = 0 /\ late' = {} /\ snapshot' = {}
    /\ UNCHANGED <<count, hook, got, stopReq>>

\* Another pass, unless stop() was called.
Loop ==
    /\ pc = "loop"
    /\ pc' = IF stopReq THEN "returned" ELSE "load"
    /\ loaded' = 0 /\ late' = {}
    /\ UNCHANGED <<count, hook, got, snapshot, stopReq>>

\* Mutant: a pass adds to what the last one loaded.
LoadAndAdd ==
    LET c == LoadOrder[loaded + 1] IN
    /\ pc = "load" /\ loaded < Len(LoadOrder)
    /\ got' = [got EXCEPT ![c] = @ + count[c]]
    /\ loaded' = loaded + 1
    /\ late' = late \ {k \in Kind : TotalOf[k] = c}
    /\ UNCHANGED <<count, hook, pc, snapshot, stopReq>>

\* One load of StreamTaskScheduler::getMetrics.
Load ==
    LET c == LoadOrder[loaded + 1] IN
    /\ pc = "load" /\ loaded < Len(LoadOrder)
    /\ got' = [got EXCEPT ![c] = count[c]]
    /\ loaded' = loaded + 1
    /\ late' = late \ {k \in Kind : TotalOf[k] = c}
    /\ UNCHANGED <<count, hook, pc, snapshot, stopReq>>

\* failed_pub and failed_play, in unsigned arithmetic.
Failed(k) == (got[TotalOf[k]] - got[SuccessOf[k]]) % Modulus

\* Mutant: the first snapshot is kept.
UpdateOnce ==
    /\ pc = "load" /\ loaded = Len(LoadOrder)
    /\ snapshot' = IF snapshot # {} THEN snapshot
                   ELSE {[count |-> got, failed |-> [k \in Kind |-> Failed(k)], late |-> late]}
    /\ pc' = "wait"
    /\ UNCHANGED <<count, hook, loaded, got, stopReq, late>>

\* SchedulerMetricsProvider::refresh and updateSnapshot: one pointer is stored.
UpdateSnapshot ==
    /\ pc = "load" /\ loaded = Len(LoadOrder)
    /\ snapshot' = {[count |-> got, failed |-> [k \in Kind |-> Failed(k)], late |-> late]}
    /\ pc' = "wait"
    /\ UNCHANGED <<count, hook, loaded, got, stopReq, late>>

\* collectAll, the exporter, which does nothing with it, and the sleep, until the
\* interval has passed.
Wake ==
    /\ pc = "wait"
    /\ pc' = "loop"
    /\ UNCHANGED <<count, hook, loaded, got, snapshot, stopReq, late>>

\* Mutant: the sleep does not watch the stop token.
SleepOn == pc = "wait" /\ stopReq /\ UNCHANGED vars

\* The sleep ends early when the stop token is signalled.
Interrupt ==
    /\ pc = "wait" /\ stopReq
    /\ pc' = "loop"
    /\ UNCHANGED <<count, hook, loaded, got, snapshot, stopReq, late>>

\* MetricsCollector::stop; main() calls it once, when the signal has come.
Stop ==
    /\ ~stopReq
    /\ stopReq' = TRUE
    /\ UNCHANGED <<count, hook, pc, loaded, got, snapshot, late>>

\* The collector's thread has been joined; hooks may or may not go on.
Stopped == pc = "returned" /\ UNCHANGED vars
-----------------------------------------------------------------------------
Collector == Loop \/ Load \/ UpdateSnapshot \/ Interrupt

Next ==
    \/ \E t \in Thread : Callback(t) \/ \E k \in Kind : OnHook(t, k)
    \/ Clean
    \/ Collector \/ Wake
    \/ Stop \/ Stopped

Spec == Init /\ [][Next]_vars

(* The collector's thread runs, and what it calls returns; the interval may *)
(* be as long as it likes.  No hook has to come and none has to end.        *)
FairSpec == Spec /\ WF_vars(Collector)
-----------------------------------------------------------------------------
(* Properties *)

Report == [count : [Counter -> Nat], failed : [Kind -> 0..Modulus - 1], late : SUBSET Kind]

\* The variables keep their types, and what a pass of the collector has loaded
\* never exceeds the scheduler's counters.
TypeOK ==
    /\ count \in [Counter -> Nat] /\ got \in [Counter -> Nat]
    /\ hook \in [Thread -> Kind \cup {"none"}]
    /\ pc \in {"loop", "load", "wait", "returned"} /\ loaded \in 0..Len(LoadOrder)
    /\ snapshot \in {{}} \cup {{r} : r \in snapshot} /\ snapshot \subseteq Report
    /\ stopReq \in BOOLEAN /\ late \in SUBSET Kind
    /\ \A c \in Counter : got[c] <= count[c]

\* A report of SchedulerMetricsProvider shows no more failed hooks than hooks,
\* unless a hook of that kind came after the pass had loaded the total and was
\* admitted before it loaded the successes: then failed_pub or failed_play is a
\* number near 2^64.
FailedInRange ==
    \A r \in snapshot, k \in Kind :
        r.failed[k] <= r.count[TotalOf[k]] \/
        (k \in r.late /\ r.count[TotalOf[k]] < r.count[SuccessOf[k]])

\* The next report that GET /metrics shows never has a lower counter.
ReportsAdvance ==
    [][\A r \in snapshot :
         \E s \in snapshot' : \A c \in Counter : r.count[c] <= s.count[c]]_vars

\* Once hooks cease (the bounds see to it), and if the interval passes, the report
\* equals the counters, unless monitoring is stopped: no counted hook stays unreported.
EventuallyReported ==
    WF_vars(Wake) => <>[](stopReq \/ \E r \in snapshot : r.count = count)

\* MetricsCollector::stop, which joins the worker, returns, however long the
\* interval is: the stop token ends the sleep.
MonitoringStops == stopReq ~> pc = "returned"
=============================================================================
