----------------------------- MODULE DrainQueue -----------------------------
(***************************************************************************)
(* What the thread pool promises to the components that submit to it, with *)
(* no threads, locks, wake-ups or stop tokens: tasks are accepted into a   *)
(* bounded first-in first-out queue, each accepted task is started once    *)
(* and finishes once, and the service may close only when nothing is       *)
(* queued, after which nothing is accepted any more.                       *)
(***************************************************************************)
EXTENDS Naturals, Sequences

CONSTANTS
    Task,       \* the tasks that callers may hand over
    Capacity    \* greatest length of the queue; 0 means unbounded

VARIABLES
    queue,      \* accepted tasks nobody has started, oldest first
    running,    \* tasks being executed
    done,       \* tasks whose execution has ended
    closed      \* the service has stopped accepting for good

vars == <<queue, running, done, closed>>

Queued == {queue[i] : i \in DOMAIN queue}

Init ==
    /\ queue = <<>>
    /\ running = {}
    /\ done = {}
    /\ closed = FALSE

Accept(t) ==
    /\ ~closed
    /\ Capacity > 0 => Len(queue) < Capacity
    /\ t \notin Queued \cup running \cup done
    /\ queue' = Append(queue, t)
    /\ UNCHANGED <<running, done, closed>>

Start ==
    /\ queue # <<>>
    /\ running' = running \cup {Head(queue)}
    /\ queue' = Tail(queue)
    /\ UNCHANGED <<done, closed>>

Finish(t) ==
    /\ t \in running
    /\ running' = running \ {t}
    /\ done' = done \cup {t}
    /\ UNCHANGED <<queue, closed>>

Close ==
    /\ queue = <<>>
    /\ closed' = TRUE
    /\ UNCHANGED <<queue, running, done>>

Next ==
    \/ \E t \in Task : Accept(t) \/ Finish(t)
    \/ Start
    \/ Close

Spec == Init /\ [][Next]_vars
=============================================================================
