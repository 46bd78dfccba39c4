-------------------------- MODULE ThreadPoolProofs --------------------------
(***************************************************************************)
(* Proofs about the thread pool, for any number of threads and tasks and   *)
(* any queue bound: no accepted task is stranded by a shutdown, the        *)
(* counters balance, and the pool implements the drain queue.              *)
(***************************************************************************)
EXTENDS ThreadPool, FiniteSetTheorems, TLAPS

\* A worker returns only after its token was signalled, tokens are signalled
\* only by a started stop_and_wait, and that has set _stop before anything else.
GateInv ==
    /\ \A w \in Worker :
         /\ wpc[w] = "exited" => stopReq[w]
         /\ stopReq[w] => stop
    /\ \A s \in Stopper : spc[s] # "idle" => stop

\* _queueMutex: at most one caller is inside submit's critical section.
MutexInv ==
    \A c, d \in Caller : cpc[c] = "locked" /\ cpc[d] = "locked" => c = d

\* A caller in its critical section holds a task nobody else has seen; queued
\* and running tasks are accepted ones, and each is in one place only.
PlaceInv ==
    /\ \A c \in Caller : cpc[c] = "locked" => outcome[ctask[c]] = "new"
    /\ \A i \in 1..Len(tasks) : outcome[tasks[i]] = "accepted"
    /\ \A w \in Worker : wpc[w] = "running" => outcome[wtask[w]] = "accepted"
    /\ \A i, j \in 1..Len(tasks) : tasks[i] = tasks[j] => i = j
    /\ \A v, w \in Worker :
         wpc[v] = "running" /\ wpc[w] = "running" /\ wtask[v] = wtask[w] => v = w
    /\ \A w \in Worker, i \in 1..Len(tasks) :
         wpc[w] = "running" => tasks[i] # wtask[w]

\* An accepted task that has not ended is queued or running.
FoundInv ==
    \A t \in Task : outcome[t] = "accepted" =>
        \/ \E i \in 1..Len(tasks) : tasks[i] = t
        \/ \E w \in Worker : wpc[w] = "running" /\ wtask[w] = t

\* stop_and_wait returns to its first caller after all threads were joined.
JoinInv ==
    \A s \in Stopper : spc[s] = "stopped" => \A w \in Worker : wpc[w] = "exited"

IInv ==
    /\ TypeOK /\ GateInv /\ MutexInv /\ NothingStranded
    /\ PlaceInv /\ FoundInv /\ JoinInv
-----------------------------------------------------------------------------
USE DEF WorkerPc, CallerPc, StopperPc, Outcome

\* Every action of the pool preserves the types of its variables.
LEMMA TypeStep == TypeOK /\ [Next]_vars => TypeOK'
<1> SUFFICES ASSUME TypeOK, [Next]_vars PROVE TypeOK'
  OBVIOUS
<1> USE TaskAssumption, SizeAssumption, TimedAssumption DEF TypeOK
<1>1. ASSUME NEW c \in Caller, NEW t \in Task, SubmitRejectStopped(c, t)
      PROVE  TypeOK'
  BY <1>1 DEF SubmitRejectStopped, poolVars, callerVars, stopVars
<1>2. ASSUME NEW c \in Caller, NEW t \in Task, SubmitPassGate(c, t)
      PROVE  TypeOK'
  BY <1>2 DEF SubmitPassGate, poolVars, stopVars, statVars
<1>3. ASSUME NEW c \in Caller, SubmitRejectFull(c) PROVE TypeOK'
  BY <1>3 DEF SubmitRejectFull, poolVars, stopVars
<1>4. ASSUME NEW c \in Caller, SubmitEnqueue(c) PROVE TypeOK'
  BY <1>4 DEF SubmitEnqueue, stopVars
<1>5. ASSUME NEW c \in Caller, SubmitNotify(c) PROVE TypeOK'
  BY <1>5 DEF SubmitNotify, stopVars, statVars
<1>6. ASSUME NEW w \in Worker, WorkerWait(w) PROVE TypeOK'
  BY <1>6 DEF WorkerWait, callerVars, stopVars, statVars
<1>7. ASSUME NEW w \in Worker, WorkerExit(w) PROVE TypeOK'
  BY <1>7 DEF WorkerExit, callerVars, stopVars, statVars
<1>8. ASSUME NEW w \in Worker, WorkerTake(w) PROVE TypeOK'
  BY <1>8 DEF WorkerTake, callerVars, stopVars, statVars
<1>9. ASSUME NEW w \in Worker, NEW threw \in BOOLEAN, WorkerFinish(w, threw)
      PROVE  TypeOK'
  BY <1>9 DEF WorkerFinish, Propagates, callerVars, stopVars
<1>10. ASSUME NEW s \in Stopper, StopAgain(s) PROVE TypeOK'
  BY <1>10 DEF StopAgain, poolVars, callerVars, statVars
<1>11. ASSUME NEW s \in Stopper, StopFirst(s) PROVE TypeOK'
  BY <1>11 DEF StopFirst, poolVars, callerVars, statVars
<1>12. ASSUME NEW s \in Stopper, NEW w \in Worker, StopRequest(s, w)
       PROVE  TypeOK'
  BY <1>12 DEF StopRequest, WakeAll, callerVars, statVars
<1>13. ASSUME NEW s \in Stopper, StopNotify(s) PROVE TypeOK'
  BY <1>13 DEF StopNotify, WakeAll, callerVars, statVars
<1>14. ASSUME NEW s \in Stopper, StopAnchor(s) PROVE TypeOK'
  BY <1>14 DEF StopAnchor, poolVars, callerVars, statVars
<1>15. ASSUME NEW s \in Stopper, StopDrained(s) \/ StopTimeout(s) \/ StopJoin(s)
       PROVE  TypeOK'
  BY <1>15 DEF StopDrained, StopTimeout, StopJoin, poolVars, callerVars, statVars
<1>16. ASSUME NEW s \in Stopper, ResetStats(s) PROVE TypeOK'
  BY <1>16 DEF ResetStats, poolVars, callerVars
<1>17. CASE UNCHANGED vars
  BY <1>17 DEF vars
<1> QED
  BY <1>1, <1>2, <1>3, <1>4, <1>5, <1>6, <1>7, <1>8, <1>9, <1>10, <1>11,
     <1>12, <1>13, <1>14, <1>15, <1>16, <1>17
  DEF Next, Submit, WorkerThread, StopAndWait, Finished

\* The initial state is well typed.
LEMMA TypeInit == Init => TypeOK
<1> SUFFICES ASSUME Init PROVE TypeOK
  OBVIOUS
<1>1. tasks \in Seq(Task)
  BY DEF Init
<1>2. stopReq \in [Worker -> BOOLEAN]
  BY Zenon DEF Init
<1> QED
  BY <1>1, <1>2, TaskAssumption DEF Init, TypeOK

\* Type correctness: the variables of the pool keep their types, and a thread
\* has a task in hand exactly while it is between taking it and passing it on.
THEOREM TypeCorrect == Spec => []TypeOK
BY TypeInit, TypeStep, PTL DEF Spec
-----------------------------------------------------------------------------
\* The stop token of a worker is signalled after _stop is set, never before.
LEMMA GateStep == TypeOK /\ GateInv /\ [Next]_vars => GateInv'
<1> SUFFICES ASSUME TypeOK, GateInv, [Next]_vars PROVE GateInv'
  OBVIOUS
<1> USE DEF TypeOK, GateInv
<1>1. ASSUME NEW c \in Caller, Submit(c) PROVE GateInv'
  BY <1>1 DEF Submit, SubmitRejectStopped, SubmitPassGate, SubmitRejectFull,
     SubmitEnqueue, SubmitNotify, poolVars, stopVars
<1>2. ASSUME NEW w \in Worker, WorkerThread(w) PROVE GateInv'
  BY <1>2 DEF WorkerThread, WorkerWait, WorkerExit, WorkerTake, WorkerFinish,
     stopVars
<1>3. ASSUME NEW s \in Stopper, StopAndWait(s) PROVE GateInv'
  <2>1. CASE StopAgain(s) \/ StopFirst(s)
    BY <2>1 DEF StopAgain, StopFirst, poolVars
  <2>2. ASSUME NEW w \in Worker, StopRequest(s, w) PROVE GateInv'
    BY <2>2 DEF StopRequest, WakeAll
  <2>3. CASE StopNotify(s)
    BY <2>3 DEF StopNotify, WakeAll
  <2>4. CASE StopAnchor(s) \/ StopDrained(s) \/ StopTimeout(s) \/ StopJoin(s)
    BY <2>4 DEF StopAnchor, StopDrained, StopTimeout, StopJoin, poolVars
  <2>5. CASE ResetStats(s)
    BY <2>5 DEF ResetStats, poolVars
  <2> QED
    BY <1>3, <2>1, <2>2, <2>3, <2>4, <2>5 DEF StopAndWait
<1>4. CASE UNCHANGED vars
  BY <1>4 DEF vars
<1> QED
  BY <1>1, <1>2, <1>3, <1>4 DEF Next, Finished

\* submit's critical section is entered only when nobody is inside it.
LEMMA MutexStep == TypeOK /\ MutexInv /\ [Next]_vars => MutexInv'
<1> SUFFICES ASSUME TypeOK, MutexInv, [Next]_vars PROVE MutexInv'
  OBVIOUS
<1> USE DEF TypeOK, MutexInv
<1>1. ASSUME NEW c \in Caller, Submit(c) PROVE MutexInv'
  BY <1>1 DEF Submit, SubmitRejectStopped, SubmitPassGate, SubmitRejectFull,
     SubmitEnqueue, SubmitNotify, callerVars, MutexFree
<1>2. ASSUME NEW w \in Worker, WorkerThread(w) PROVE MutexInv'
  BY <1>2 DEF WorkerThread, WorkerWait, WorkerExit, WorkerTake, WorkerFinish,
     callerVars
<1>3. ASSUME NEW s \in Stopper, StopAndWait(s) PROVE MutexInv'
  BY <1>3 DEF StopAndWait, StopAgain, StopFirst, StopRequest, StopNotify,
     StopAnchor, StopDrained, StopTimeout, StopJoin, ResetStats, callerVars
<1>4. CASE UNCHANGED vars
  BY <1>4 DEF vars
<1> QED
  BY <1>1, <1>2, <1>3, <1>4 DEF Next, Finished

\* Drain: a worker that returns leaves an empty queue and a free mutex behind,
\* and from then on submit sees _stop, so neither changes any more.
LEMMA StrandedStep ==
  TypeOK /\ GateInv /\ NothingStranded /\ [Next]_vars => NothingStranded'
<1> SUFFICES ASSUME TypeOK, GateInv, NothingStranded, [Next]_vars
             PROVE  NothingStranded'
  OBVIOUS
<1> USE DEF TypeOK, NothingStranded, MutexFree
<1>1. ASSUME NEW c \in Caller, Submit(c) PROVE NothingStranded'
  <2>1. ASSUME NEW t \in Task, SubmitPassGate(c, t) PROVE NothingStranded'
    BY <2>1 DEF SubmitPassGate, GateInv, poolVars
  <2>2. CASE SubmitEnqueue(c)
    BY <2>2 DEF SubmitEnqueue
  <2>3. ASSUME NEW t \in Task, SubmitRejectStopped(c, t) PROVE NothingStranded'
    BY <2>3 DEF SubmitRejectStopped, poolVars, callerVars
  <2>4. CASE SubmitRejectFull(c) \/ SubmitNotify(c)
    BY <2>4 DEF SubmitRejectFull, SubmitNotify, poolVars
  <2> QED
    BY <1>1, <2>1, <2>2, <2>3, <2>4 DEF Submit
<1>2. ASSUME NEW w \in Worker, WorkerThread(w) PROVE NothingStranded'
  BY <1>2 DEF WorkerThread, WorkerWait, WorkerExit, WorkerTake, WorkerFinish,
     callerVars
<1>3. ASSUME NEW s \in Stopper, StopAndWait(s) PROVE NothingStranded'
  BY <1>3 DEF StopAndWait, StopAgain, StopFirst, StopRequest, StopNotify,
     StopAnchor, StopDrained, StopTimeout, StopJoin, ResetStats, WakeAll,
     poolVars, callerVars
<1>4. CASE UNCHANGED vars
  BY <1>4 DEF vars
<1> QED
  BY <1>1, <1>2, <1>3, <1>4 DEF Next, Finished

\* A task moves from a caller to the queue, to one worker, to its end, and is
\* never in two of these places.
LEMMA PlaceStep ==
  TypeOK /\ MutexInv /\ PlaceInv /\ [Next]_vars => PlaceInv'
<1> SUFFICES ASSUME TypeOK, MutexInv, PlaceInv, [Next]_vars PROVE PlaceInv'
  OBVIOUS
<1> USE TaskAssumption DEF TypeOK, PlaceInv
<1>1. ASSUME NEW c \in Caller, NEW t \in Task, SubmitRejectStopped(c, t)
      PROVE  PlaceInv'
  BY <1>1 DEF SubmitRejectStopped, MutexFree, poolVars, callerVars
<1>2. ASSUME NEW c \in Caller, NEW t \in Task, SubmitPassGate(c, t)
      PROVE  PlaceInv'
  <2>1. UNCHANGED <<tasks, wpc, wtask, outcome>>
    BY <1>2 DEF SubmitPassGate, poolVars
  <2>2. \A d \in Caller : cpc'[d] = "locked" => outcome'[ctask'[d]] = "new"
    BY <1>2 DEF SubmitPassGate, poolVars
  <2> QED
    BY <2>1, <2>2
<1>3. ASSUME NEW c \in Caller, SubmitRejectFull(c) PROVE PlaceInv'
  BY <1>3 DEF SubmitRejectFull, MutexInv, poolVars
<1>4. ASSUME NEW c \in Caller, SubmitEnqueue(c) PROVE PlaceInv'
  BY <1>4 DEF SubmitEnqueue, MutexInv
<1>5. ASSUME NEW c \in Caller, SubmitNotify(c) PROVE PlaceInv'
  BY <1>5 DEF SubmitNotify
<1>6. ASSUME NEW w \in Worker, WorkerWait(w) \/ WorkerExit(w) PROVE PlaceInv'
  BY <1>6 DEF WorkerWait, WorkerExit, callerVars
<1>7. ASSUME NEW w \in Worker, WorkerTake(w) PROVE PlaceInv'
  <2>1. /\ Len(tasks') = Len(tasks) - 1
        /\ \A i \in 1..Len(tasks') : tasks'[i] = tasks[i + 1]
        /\ Head(tasks) = tasks[1] /\ Len(tasks) \in Nat \ {0}
    BY <1>7 DEF WorkerTake
  <2> QED
    BY <1>7, <2>1 DEF WorkerTake, callerVars
<1>8. ASSUME NEW w \in Worker, NEW threw \in BOOLEAN, WorkerFinish(w, threw)
      PROVE  PlaceInv'
  BY <1>8 DEF WorkerFinish, callerVars
<1>9. ASSUME NEW s \in Stopper, StopAndWait(s) PROVE PlaceInv'
  BY <1>9 DEF StopAndWait, StopAgain, StopFirst, StopRequest, StopNotify,
     StopAnchor, StopDrained, StopTimeout, StopJoin, ResetStats, WakeAll,
     poolVars, callerVars
<1>10. CASE UNCHANGED vars
  BY <1>10 DEF vars
<1> HIDE DEF TypeOK, PlaceInv
<1>11. ASSUME NEW c \in Caller, Submit(c) PROVE PlaceInv'
  BY <1>1, <1>2, <1>3, <1>4, <1>5, <1>11 DEF Submit
<1>12. ASSUME NEW w \in Worker, WorkerThread(w) PROVE PlaceInv'
  BY <1>6, <1>7, <1>8, <1>12 DEF WorkerThread
<1> QED
  BY <1>9, <1>10, <1>11, <1>12 DEF Next, Finished

\* An accepted task is queued or running until it ends.
LEMMA FoundStep ==
  TypeOK /\ PlaceInv /\ FoundInv /\ [Next]_vars => FoundInv'
<1> SUFFICES ASSUME TypeOK, PlaceInv, FoundInv, [Next]_vars,
                    NEW t \in Task, outcome'[t] = "accepted"
             PROVE  \/ \E i \in 1..Len(tasks') : tasks'[i] = t
                    \/ \E w \in Worker : wpc'[w] = "running" /\ wtask'[w] = t
  BY DEF FoundInv
<1> DEFINE Found == \/ \E i \in 1..Len(tasks) : tasks[i] = t
                    \/ \E w \in Worker : wpc[w] = "running" /\ wtask[w] = t
<1> USE TaskAssumption DEF TypeOK
<1>1. ASSUME NEW c \in Caller, Submit(c) PROVE Found'
  <2>1. CASE SubmitEnqueue(c)
    <3>1. CASE ctask[c] = t
      <4>1. tasks'[Len(tasks) + 1] = t /\ Len(tasks') = Len(tasks) + 1
        BY <2>1, <3>1 DEF SubmitEnqueue
      <4> QED
        BY <4>1
    <3>2. CASE ctask[c] # t
      BY <2>1, <3>2 DEF SubmitEnqueue, FoundInv
    <3> QED
      BY <3>1, <3>2
  <2>2. ASSUME NEW u \in Task, SubmitRejectStopped(c, u) \/ SubmitPassGate(c, u)
        PROVE  Found'
    BY <2>2 DEF SubmitRejectStopped, SubmitPassGate, FoundInv, poolVars
  <2>3. CASE SubmitRejectFull(c) \/ SubmitNotify(c)
    BY <2>3 DEF SubmitRejectFull, SubmitNotify, FoundInv, poolVars
  <2> QED
    BY <1>1, <2>1, <2>2, <2>3 DEF Submit
<1>2. ASSUME NEW w \in Worker, WorkerThread(w) PROVE Found'
  <2>1. CASE WorkerWait(w) \/ WorkerExit(w)
    BY <2>1 DEF WorkerWait, WorkerExit, FoundInv
  <2>2. CASE WorkerTake(w)
    <3>1. Found
      BY <2>2 DEF WorkerTake, FoundInv
    <3>2. /\ Len(tasks') = Len(tasks) - 1
          /\ \A i \in 1..Len(tasks') : tasks'[i] = tasks[i + 1]
          /\ Head(tasks) = tasks[1] /\ Len(tasks) \in Nat \ {0}
      BY <2>2 DEF WorkerTake
    <3>3. ASSUME NEW i \in 1..Len(tasks), tasks[i] = t PROVE Found'
      <4>1. CASE i = 1
        BY <2>2, <3>2, <3>3, <4>1 DEF WorkerTake
      <4>2. CASE i # 1
        <5>1. i - 1 \in 1..Len(tasks') /\ tasks'[i - 1] = t
          <6>1. Len(tasks) \in Nat /\ Len(tasks') = Len(tasks) - 1
            BY <3>2
          <6>2. i - 1 \in 1..Len(tasks') /\ (i - 1) + 1 = i
            BY <3>3, <4>2, <6>1
          <6>3. tasks'[i - 1] = tasks[(i - 1) + 1]
            BY <3>2, <6>2
          <6> QED
            BY <3>3, <6>2, <6>3
        <5> QED
          BY <5>1
      <4> QED
        BY <4>1, <4>2
    <3>4. ASSUME NEW v \in Worker, wpc[v] = "running", wtask[v] = t PROVE Found'
      BY <2>2, <3>4 DEF WorkerTake
    <3> QED
      BY <3>1, <3>3, <3>4
  <2>3. ASSUME NEW threw \in BOOLEAN, WorkerFinish(w, threw) PROVE Found'
    BY <2>3 DEF WorkerFinish, FoundInv, PlaceInv
  <2> QED
    BY <1>2, <2>1, <2>2, <2>3 DEF WorkerThread
<1>3. ASSUME NEW s \in Stopper, StopAndWait(s) PROVE Found'
  BY <1>3 DEF StopAndWait, StopAgain, StopFirst, StopRequest, StopNotify,
     StopAnchor, StopDrained, StopTimeout, StopJoin, ResetStats, WakeAll,
     poolVars, FoundInv
<1>4. CASE UNCHANGED vars
  BY <1>4 DEF vars, FoundInv
<1> QED
  BY <1>1, <1>2, <1>3, <1>4 DEF Next, Finished

\* Threads that have been joined stay so.
LEMMA JoinStep == TypeOK /\ JoinInv /\ [Next]_vars => JoinInv'
<1> SUFFICES ASSUME TypeOK, JoinInv, [Next]_vars PROVE JoinInv'
  OBVIOUS
<1> USE DEF TypeOK, JoinInv
<1>1. ASSUME NEW c \in Caller, Submit(c) PROVE JoinInv'
  BY <1>1 DEF Submit, SubmitRejectStopped, SubmitPassGate, SubmitRejectFull,
     SubmitEnqueue, SubmitNotify, poolVars, stopVars
<1>2. ASSUME NEW w \in Worker, WorkerThread(w) PROVE JoinInv'
  BY <1>2 DEF WorkerThread, WorkerWait, WorkerExit, WorkerTake, WorkerFinish,
     stopVars
<1>3. ASSUME NEW s \in Stopper, StopAndWait(s) PROVE JoinInv'
  BY <1>3 DEF StopAndWait, StopAgain, StopFirst, StopRequest, StopNotify,
     StopAnchor, StopDrained, StopTimeout, StopJoin, ResetStats, WakeAll,
     poolVars
<1>4. CASE UNCHANGED vars
  BY <1>4 DEF vars
<1> QED
  BY <1>1, <1>2, <1>3, <1>4 DEF Next, Finished

\* The conjunction of the invariants above is inductive.
LEMMA Inductive == Spec => []IInv
<1>1. Init => IInv
  <2>1. Init => GateInv /\ MutexInv /\ NothingStranded /\ JoinInv
    BY DEF Init, GateInv, MutexInv, NothingStranded, JoinInv
  <2>2. Init => PlaceInv /\ FoundInv
    BY DEF Init, PlaceInv, FoundInv
  <2>3. TypeOK /\ Init => IInv
    BY <2>1, <2>2 DEF IInv
  <2> QED
    BY <2>3, TypeInit
<1>2. IInv /\ [Next]_vars => IInv'
  BY TypeStep, GateStep, MutexStep, StrandedStep, PlaceStep, FoundStep, JoinStep
  DEF IInv
<1> QED
  BY <1>1, <1>2, PTL DEF Spec

\* No accepted task is ever left behind by a worker that returned.
THEOREM NothingStrandedAlways == Spec => []NothingStranded
<1>1. IInv => NothingStranded
  BY DEF IInv
<1> QED
  BY <1>1, Inductive, PTL

\* stop_and_wait returns to its first caller only when every accepted task has
\* been executed, whatever the number of racing submitters.
THEOREM StopMeansDrainedAlways == Spec => []StopMeansDrained
<1>1. IInv => StopMeansDrained
  <2> SUFFICES ASSUME IInv, NEW s \in Stopper, spc[s] = "stopped",
                      NEW t \in Task, outcome[t] = "accepted"
               PROVE  FALSE
    BY DEF StopMeansDrained
  <2>1. \A w \in Worker : wpc[w] = "exited"
    BY DEF IInv, JoinInv
  <2>2. tasks = <<>>
    BY <2>1, WorkerAssumption DEF IInv, NothingStranded
  <2>3. Len(tasks) = 0
    BY <2>2
  <2> QED
    BY <2>1, <2>3 DEF IInv, FoundInv
<1> QED
  BY <1>1, Inductive, PTL
-----------------------------------------------------------------------------
(* Refinement *)

RunningTasks == {wtask[w] : w \in Running}
EndedTasks == {t \in Task : outcome[t] \in {"ok", "threw"}}
Closed == \E w \in Worker : wpc[w] = "exited"

\* A step that moves no task and ends no worker is invisible in the service.
LEMMA Invisible ==
  ASSUME UNCHANGED <<tasks, wtask, Running>>, EndedTasks' = EndedTasks,
         Closed' = Closed
  PROVE  UNCHANGED Service!vars
BY DEF Service!vars, RunningTasks, EndedTasks, Closed

\* Waking every blocked worker changes neither who runs nor who has returned.
LEMMA WakeAllFacts ==
  ASSUME TypeOK, wpc' = WakeAll
  PROVE  Running' = Running /\ Closed' = Closed
BY DEF TypeOK, WakeAll, Running, Closed

\* Every step of the pool is a step of the drain queue or is invisible in it.
LEMMA ServiceStep == IInv /\ [Next]_vars => [Service!Next]_(Service!vars)
<1> SUFFICES ASSUME IInv, [Next]_vars
             PROVE  Service!Next \/ UNCHANGED Service!vars
  OBVIOUS
<1> USE TaskAssumption DEF IInv, TypeOK
<1>1. ASSUME NEW c \in Caller, NEW t \in Task,
             SubmitRejectStopped(c, t) \/ SubmitPassGate(c, t)
      PROVE  UNCHANGED Service!vars
  <2>1. UNCHANGED <<tasks, wtask, Running>> /\ Closed' = Closed
    BY <1>1 DEF SubmitRejectStopped, SubmitPassGate, poolVars, Running, Closed
  <2>2. EndedTasks' = EndedTasks
    BY <1>1 DEF SubmitRejectStopped, SubmitPassGate, EndedTasks
  <2> QED
    BY <2>1, <2>2, Invisible
<1>2. ASSUME NEW c \in Caller, SubmitRejectFull(c) PROVE UNCHANGED Service!vars
  <2>1. UNCHANGED <<tasks, wtask, Running>> /\ Closed' = Closed
    BY <1>2 DEF SubmitRejectFull, poolVars, Running, Closed
  <2>2. EndedTasks' = EndedTasks
    BY <1>2 DEF SubmitRejectFull, EndedTasks, PlaceInv
  <2> QED
    BY <2>1, <2>2, Invisible
<1>3. ASSUME NEW c \in Caller, SubmitEnqueue(c) PROVE Service!Accept(ctask[c])
  <2>1. ~Closed
    BY <1>3 DEF SubmitEnqueue, NothingStranded, MutexFree, Closed
  <2>2. MaxQueueSize > 0 => Len(tasks) < MaxQueueSize
    BY <1>3, SizeAssumption DEF SubmitEnqueue, QueueFull
  <2>3. ctask[c] \in Task /\ outcome[ctask[c]] = "new"
    BY <1>3 DEF SubmitEnqueue, PlaceInv
  <2>4. ctask[c] \notin {tasks[i] : i \in DOMAIN tasks}
    BY <2>3 DEF PlaceInv
  <2>5. ctask[c] \notin RunningTasks /\ ctask[c] \notin EndedTasks
    BY <2>3 DEF PlaceInv, RunningTasks, Running, EndedTasks
  <2>6. RunningTasks' = RunningTasks /\ Closed' = Closed
    BY <1>3 DEF SubmitEnqueue, RunningTasks, Running, Closed
  <2>7. EndedTasks' = EndedTasks
    BY <1>3, <2>3 DEF SubmitEnqueue, EndedTasks
  <2>8. tasks' = Append(tasks, ctask[c])
    BY <1>3 DEF SubmitEnqueue
  <2> QED
    BY <2>1, <2>2, <2>4, <2>5, <2>6, <2>7, <2>8
    DEF Service!Accept, Service!Queued, RunningTasks, EndedTasks, Closed
<1>4. ASSUME NEW c \in Caller, SubmitNotify(c) PROVE UNCHANGED Service!vars
  <2>1. UNCHANGED <<tasks, wtask, Running>> /\ Closed' = Closed
    BY <1>4 DEF SubmitNotify, Running, Closed
  <2>2. EndedTasks' = EndedTasks
    BY <1>4 DEF SubmitNotify, EndedTasks
  <2> QED
    BY <2>1, <2>2, Invisible
<1>5. ASSUME NEW w \in Worker, WorkerWait(w) PROVE UNCHANGED Service!vars
  <2>1. UNCHANGED <<tasks, wtask, Running>> /\ Closed' = Closed
    BY <1>5 DEF WorkerWait, Running, Closed
  <2>2. EndedTasks' = EndedTasks
    BY <1>5 DEF WorkerWait, EndedTasks
  <2> QED
    BY <2>1, <2>2, Invisible
<1>6. ASSUME NEW w \in Worker, WorkerExit(w) PROVE Service!Close
  <2>1. tasks = <<>> /\ UNCHANGED <<tasks, wtask, outcome, Running>> /\ Closed'
    BY <1>6 DEF WorkerExit, Running, Closed
  <2> QED
    BY <2>1 DEF Service!Close, Closed
<1>7. ASSUME NEW w \in Worker, WorkerTake(w) PROVE Service!Start
  <2>1. tasks # <<>> /\ tasks' = Tail(tasks) /\ UNCHANGED outcome
    BY <1>7 DEF WorkerTake
  <2>2. RunningTasks' = RunningTasks \cup {Head(tasks)}
    <3>1. Running' = Running \cup {w} /\ w \notin Running
      BY <1>7 DEF WorkerTake, Running
    <3>2. /\ wtask'[w] = Head(tasks)
          /\ \A v \in Worker : v # w => wtask'[v] = wtask[v]
      BY <1>7 DEF WorkerTake
    <3> QED
      BY <3>1, <3>2 DEF RunningTasks, Running
  <2>3. Closed' = Closed
    BY <1>7 DEF WorkerTake, Closed
  <2> QED
    BY <2>1, <2>2, <2>3 DEF Service!Start, RunningTasks, Closed
<1>8. ASSUME NEW w \in Worker, NEW threw \in BOOLEAN, WorkerFinish(w, threw),
             NEW t \in Task, t = wtask[w]
      PROVE  Service!Finish(t)
  <2>1. wtask[w] \in RunningTasks /\ wtask[w] \in Task
    BY <1>8 DEF WorkerFinish, RunningTasks, Running
  <2>2. RunningTasks' = RunningTasks \ {wtask[w]}
    <3>1. Running' = Running \ {w} /\ w \in Running
      BY <1>8 DEF WorkerFinish, Running
    <3>2. \A v \in Running' : wtask'[v] = wtask[v] /\ wtask[v] # wtask[w]
      <4> SUFFICES ASSUME NEW v \in Running'
                   PROVE  wtask'[v] = wtask[v] /\ wtask[v] # wtask[w]
        OBVIOUS
      <4>1. v \in Worker /\ v # w /\ wpc[v] = "running" /\ wpc[w] = "running"
        BY <1>8, <3>1 DEF Running
      <4>2. wtask'[v] = wtask[v]
        BY <1>8, <4>1 DEF WorkerFinish
      <4> QED
        BY <1>8, <4>1, <4>2 DEF PlaceInv
    <3>3. ASSUME NEW x \in RunningTasks' PROVE x \in RunningTasks \ {wtask[w]}
      <4>1. PICK v \in Running' : x = wtask'[v]
        BY DEF RunningTasks
      <4> QED
        BY <3>1, <3>2, <4>1 DEF RunningTasks
    <3>4. ASSUME NEW x \in RunningTasks, x # wtask[w] PROVE x \in RunningTasks'
      <4>1. PICK v \in Running : x = wtask[v]
        BY DEF RunningTasks
      <4>2. v \in Running' /\ wtask'[v] = x
        BY <3>1, <3>2, <3>4, <4>1
      <4> QED
        BY <4>2 DEF RunningTasks
    <3> QED
      BY <3>3, <3>4
  <2>3. EndedTasks' = EndedTasks \cup {wtask[w]}
    BY <1>8, <2>1 DEF WorkerFinish, EndedTasks
  <2>4. UNCHANGED tasks /\ Closed' = Closed
    BY <1>8 DEF WorkerFinish, Closed
  <2> QED
    BY <1>8, <2>1, <2>2, <2>3, <2>4
    DEF Service!Finish, RunningTasks, EndedTasks, Closed
<1>9. ASSUME NEW s \in Stopper, StopAndWait(s) PROVE UNCHANGED Service!vars
  <2>1. wpc' = wpc \/ wpc' = WakeAll
    BY <1>9 DEF StopAndWait, StopAgain, StopFirst, StopRequest, StopNotify,
       StopAnchor, StopDrained, StopTimeout, StopJoin, ResetStats, poolVars
  <2>2. UNCHANGED <<tasks, wtask, outcome>>
    BY <1>9 DEF StopAndWait, StopAgain, StopFirst, StopRequest, StopNotify,
       StopAnchor, StopDrained, StopTimeout, StopJoin, ResetStats, poolVars
  <2>3. UNCHANGED Running /\ Closed' = Closed
    BY <2>1, WakeAllFacts DEF Running, Closed
  <2>4. EndedTasks' = EndedTasks
    BY <2>2 DEF EndedTasks
  <2> QED
    BY <2>2, <2>3, <2>4, Invisible
<1>10. CASE UNCHANGED vars
  <2>1. UNCHANGED <<tasks, wtask, Running>> /\ Closed' = Closed
    BY <1>10 DEF vars, Running, Closed
  <2>2. EndedTasks' = EndedTasks
    BY <1>10 DEF vars, EndedTasks
  <2> QED
    BY <2>1, <2>2, Invisible
<1>11. \A c \in Caller : cpc[c] = "locked" => ctask[c] \in Task
  OBVIOUS
<1>12. \A w \in Worker : wpc[w] = "running" => wtask[w] \in Task
  OBVIOUS
<1>13. CASE \E c \in Caller : Submit(c)
  <2>1. ASSUME NEW c \in Caller, SubmitEnqueue(c) PROVE Service!Next
    BY <1>3, <1>11, <2>1 DEF SubmitEnqueue, Service!Next
  <2> QED
    BY <1>1, <1>2, <1>4, <1>13, <2>1 DEF Submit
<1>14. CASE \E w \in Worker : WorkerThread(w)
  <2>1. ASSUME NEW w \in Worker, NEW threw \in BOOLEAN, WorkerFinish(w, threw)
        PROVE  Service!Next
    <3>1. PICK t \in Task : t = wtask[w]
      BY <1>12, <2>1 DEF WorkerFinish
    <3> QED
      BY <1>8, <2>1, <3>1 DEF Service!Next
  <2>2. ASSUME NEW w \in Worker, WorkerExit(w) \/ WorkerTake(w)
        PROVE  Service!Next
    BY <1>6, <1>7, <2>2 DEF Service!Next
  <2> QED
    BY <1>5, <1>14, <2>1, <2>2 DEF WorkerThread
<1> QED
  BY <1>9, <1>10, <1>13, <1>14 DEF Next, Finished

\* The pool implements the drain queue: callers may rely on first-in first-out
\* starts, on one execution per accepted task and on a close that strands none.
THEOREM Refinement == Spec => ImplementsDrainQueue
<1>1. Init => Service!Init
  <2> SUFFICES ASSUME Init PROVE Service!Init
    OBVIOUS
  <2>1. Running = {} /\ ~Closed
    BY DEF Init, Running, Closed
  <2>2. EndedTasks = {}
    BY DEF Init, EndedTasks
  <2> QED
    BY <2>1, <2>2 DEF Init, Service!Init, EndedTasks, Closed
<1> QED
  BY <1>1, Inductive, ServiceStep, PTL
  DEF Spec, Service!Spec, ImplementsDrainQueue
-----------------------------------------------------------------------------
(* Counters and the queue bound *)

\* The set of running workers is finite; taking a task adds one worker to it,
\* ending a task removes one.
LEMMA RunningFinite ==
  IsFiniteSet(Running) /\ Cardinality(Running) \in Nat
<1>1. IsFiniteSet(Running)
  BY WorkerAssumption, FS_Subset DEF Running
<1> QED
  BY <1>1, FS_CardinalityType

\* submitted = queued + running + completed + failed is preserved by every step.
LEMMA BalanceStep ==
  IInv /\ StatsBalance /\ [Next]_vars => StatsBalance'
<1> SUFFICES ASSUME IInv, StatsBalance, [Next]_vars PROVE StatsBalance'
  OBVIOUS
<1> USE RunningFinite DEF IInv, TypeOK, StatsBalance
<1>1. ASSUME UNCHANGED <<tasks, submitted, completed, failed, Running>>
      PROVE  StatsBalance'
  BY <1>1
<1>2. ASSUME NEW c \in Caller, Submit(c) PROVE StatsBalance'
  <2>1. Running' = Running
    BY <1>2 DEF Submit, SubmitRejectStopped, SubmitPassGate, SubmitRejectFull,
       SubmitEnqueue, SubmitNotify, poolVars, Running
  <2>2. CASE SubmitEnqueue(c)
    <3>1. Len(tasks') = Len(tasks) + 1 /\ submitted' = submitted + 1
      BY <2>2 DEF SubmitEnqueue
    <3>2. UNCHANGED <<completed, failed>>
      BY <2>2 DEF SubmitEnqueue
    <3> QED
      BY <2>1, <3>1, <3>2
  <2>3. ~SubmitEnqueue(c) => UNCHANGED <<tasks, submitted, completed, failed>>
    BY <1>2 DEF Submit, SubmitRejectStopped, SubmitPassGate, SubmitRejectFull,
       SubmitNotify, poolVars, statVars
  <2> QED
    BY <1>1, <2>1, <2>2, <2>3
<1>3. ASSUME NEW w \in Worker, WorkerWait(w) \/ WorkerExit(w)
      PROVE  StatsBalance'
  <2>1. UNCHANGED <<tasks, submitted, completed, failed>>
    BY <1>3 DEF WorkerWait, WorkerExit, statVars
  <2>2. Running' = Running
    BY <1>3 DEF WorkerWait, WorkerExit, Running
  <2> QED
    BY <1>1, <2>1, <2>2
<1>4. ASSUME NEW w \in Worker, WorkerTake(w) PROVE StatsBalance'
  <2>1. Len(tasks') = Len(tasks) - 1 /\ Len(tasks) \in Nat
    BY <1>4 DEF WorkerTake
  <2>2. UNCHANGED <<submitted, completed, failed>>
    BY <1>4 DEF WorkerTake, statVars
  <2>3. Running' = Running \cup {w} /\ w \notin Running
    BY <1>4 DEF WorkerTake, Running
  <2>4. Cardinality(Running') = Cardinality(Running) + 1
    BY <2>3, FS_AddElement
  <2> QED
    BY <2>1, <2>2, <2>4
<1>5. ASSUME NEW w \in Worker, NEW threw \in BOOLEAN, WorkerFinish(w, threw)
      PROVE  StatsBalance'
  <2>1. submitted' = submitted /\ Len(tasks') = Len(tasks) /\ Len(tasks) \in Nat
    BY <1>5 DEF WorkerFinish
  <2>2. completed' = completed + 1 /\ failed' = failed
    BY <1>5 DEF WorkerFinish, Propagates
  <2>3. Running' = Running \ {w} /\ w \in Running
    BY <1>5 DEF WorkerFinish, Running
  <2>4. Cardinality(Running') = Cardinality(Running) - 1
    BY <2>3, FS_RemoveElement
  <2> QED
    BY <2>1, <2>2, <2>4
<1>6. ASSUME NEW s \in Stopper, ResetStats(s) PROVE StatsBalance'
  <2>1. \A w \in Worker : wpc[w] = "exited"
    BY <1>6 DEF ResetStats, JoinInv
  <2>2. tasks = <<>> /\ Running = {}
    BY <2>1, WorkerAssumption DEF NothingStranded, Running
  <2>3. tasks' = <<>> /\ Running' = {}
    BY <1>6, <2>2 DEF ResetStats, poolVars, Running
  <2>4. Len(tasks') = 0 /\ Cardinality(Running') = 0
    BY <2>3, FS_EmptySet
  <2>5. submitted' = 0 /\ completed' = 0 /\ failed' = 0
    BY <1>6 DEF ResetStats
  <2> QED
    BY <2>4, <2>5
<1>7. ASSUME NEW s \in Stopper, StopAndWait(s), ~ResetStats(s)
      PROVE  StatsBalance'
  <2>1. UNCHANGED <<tasks, submitted, completed, failed>>
    BY <1>7 DEF StopAndWait, StopAgain, StopFirst, StopRequest, StopNotify,
       StopAnchor, StopDrained, StopTimeout, StopJoin, poolVars, statVars
  <2>2. wpc' = wpc \/ wpc' = WakeAll
    BY <1>7 DEF StopAndWait, StopAgain, StopFirst, StopRequest, StopNotify,
       StopAnchor, StopDrained, StopTimeout, StopJoin, poolVars
  <2>3. Running' = Running
    BY <2>2, WakeAllFacts DEF Running
  <2> QED
    BY <1>1, <2>1, <2>3
<1>8. CASE UNCHANGED vars
  BY <1>1, <1>8 DEF vars, Running
<1> QED
  BY <1>2, <1>3, <1>4, <1>5, <1>6, <1>7, <1>8 DEF Next, Finished, WorkerThread

\* The counters of get_stats() balance in every state, for any workload and any
\* number of workers, including the reset that main() performs after stopping.
THEOREM StatsBalanceAlways == Spec => []StatsBalance
<1>1. Init => StatsBalance
  <2> SUFFICES ASSUME Init PROVE StatsBalance
    OBVIOUS
  <2>1. Running = {}
    BY DEF Init, Running
  <2> QED
    BY <2>1, FS_EmptySet DEF Init, StatsBalance
<1> QED
  BY <1>1, Inductive, BalanceStep, PTL DEF Spec

\* The queue respects max_queue_size however many callers race for the last slot.
THEOREM QueueBoundedAlways == Spec => []QueueBounded
<1>1. Init => QueueBounded
  BY SizeAssumption DEF Init, QueueBounded
<1>2. TypeOK /\ QueueBounded /\ [Next]_vars => QueueBounded'
  <2> SUFFICES ASSUME TypeOK, QueueBounded, [Next]_vars PROVE QueueBounded'
    OBVIOUS
  <2> USE SizeAssumption DEF TypeOK, QueueBounded
  <2>1. ASSUME NEW c \in Caller, SubmitEnqueue(c) PROVE QueueBounded'
    BY <2>1 DEF SubmitEnqueue, QueueFull
  <2>2. ASSUME NEW w \in Worker, WorkerTake(w) PROVE QueueBounded'
    BY <2>2 DEF WorkerTake
  <2>3. CASE UNCHANGED tasks
    BY <2>3
  <2>4. \/ \E c \in Caller : SubmitEnqueue(c)
        \/ \E w \in Worker : WorkerTake(w)
        \/ UNCHANGED tasks
    BY DEF Next, Submit, SubmitRejectStopped, SubmitPassGate, SubmitRejectFull,
       SubmitNotify, WorkerThread, WorkerWait, WorkerExit, WorkerFinish,
       StopAndWait, StopAgain, StopFirst, StopRequest, StopNotify, StopAnchor,
       StopDrained, StopTimeout, StopJoin, ResetStats, Finished, poolVars, vars
  <2> QED
    BY <2>1, <2>2, <2>3, <2>4
<1> QED
  BY <1>1, <1>2, TypeCorrect, PTL DEF Spec
=============================================================================
