---------------------------- MODULE DBPoolProofs ----------------------------
(***************************************************************************)
(* Proofs about the connection pool, for any number of borrowers and calls *)
(* and any sizes the constructor accepts: the limit on its connections,    *)
(* the accounting of _total_conns before the shutdown, and the wake-up     *)
(* behind every idle connection.                                           *)
(***************************************************************************)
EXTENDS DBPool, FiniteSetTheorems, TLAPS

\* The number of threads that f puts at one of the labels.
CountAt(f, labels) == Cardinality({c \in Thread : f[c] \in labels})
In(label, labels) == IF label \in labels THEN 1 ELSE 0

Holding == {"holding"}
Waiting == {"blocked", "woken", "late"}
\* The labels of a thread with a connection that it has not found invalid.
Owning == {"validate", "create", "holding", "returning", "push", "destroy", "destroyed"}
Telling == {"woken", "late", "notify"}

holders == CountAt(pc, Holding)
waiters == CountAt(pc, Waiting)
owners == CountAt(pc, Owning)
tellers == CountAt(pc, Telling)

\* TypeOK with its sets of threads replaced by counts.
Types ==
    /\ pool \in Nat /\ total \in Int /\ shutdown \in BOOLEAN
    /\ pc \in [Thread -> ThreadPc] /\ seen \in [Thread -> Int]
    /\ spc \in {"idle", "drain", "mark", "notify", "done"}
    /\ calls \in 0..MaxCalls
    /\ active = holders
    /\ waiting = waiters

\* A thread between its look at _total_conns and the exchange holds the mutex:
\* the queue is still empty, no shutdown has begun, and there was room.
GateInv ==
    \A c \in Thread : pc[c] = "cas" => ~shutdown /\ pool = 0 /\ seen[c] < MaxSize

\* Connections are destroyed one by one only after the shutdown began.
StopInv ==
    /\ spc = "idle" <=> ~shutdown
    /\ \A c \in Thread : pc[c] \in {"destroy", "destroyed"} => shutdown

\* Before the shutdown _total_conns counts every connection but the invalid ones that
\* their threads are about to destroy.
RoomInv == ~shutdown => pool + owners <= total

\* The limit, in terms of counts.
LimitInv == pool + owners <= MaxSize

\* While a thread is blocked there are as many wake-ups under way as there are
\* idle connections.
TellInv ==
    ~shutdown /\ (\E c \in Thread : pc[c] = "blocked") => pool <= tellers

IInv == Types /\ GateInv /\ StopInv /\ RoomInv /\ LimitInv /\ TellInv
-----------------------------------------------------------------------------
(* Counting threads *)

\* How many threads are at some labels is a natural number.
LEMMA CountNat == ASSUME NEW f, NEW L PROVE CountAt(f, L) \in Nat
<1>1. IsFiniteSet({c \in Thread : f[c] \in L})
  BY BorrowerAssumption, FS_Subset
<1> QED
  BY <1>1, FS_CardinalityType DEF CountAt

\* A thread that goes from one label to another leaves the count of a set of
\* labels as it was, or changes it by one.
LEMMA CountMove ==
  ASSUME NEW f \in [Thread -> ThreadPc], NEW g \in [Thread -> ThreadPc],
         NEW c \in Thread, NEW L, \A d \in Thread : d # c => g[d] = f[d]
  PROVE  CountAt(g, L) = CountAt(f, L) + In(g[c], L) - In(f[c], L)
<1> DEFINE S == {d \in Thread : f[d] \in L}
           T == {d \in Thread : g[d] \in L}
<1>1. IsFiniteSet(S) /\ Cardinality(S) \in Nat
  BY BorrowerAssumption, FS_Subset, FS_CardinalityType
<1>2. CountAt(f, L) = Cardinality(S) /\ CountAt(g, L) = Cardinality(T)
  BY DEF CountAt
<1>3. CASE g[c] \in L /\ f[c] \notin L
  <2>1. T = S \cup {c} /\ c \notin S
    BY <1>3
  <2> HIDE DEF S, T
  <2>2. Cardinality(T) = Cardinality(S) + 1
    BY <1>1, <2>1, FS_AddElement
  <2>3. In(g[c], L) = 1 /\ In(f[c], L) = 0
    BY <1>3 DEF In
  <2> QED
    BY <1>1, <1>2, <2>2, <2>3
<1>4. CASE g[c] \notin L /\ f[c] \in L
  <2>1. T = S \ {c} /\ c \in S
    BY <1>4
  <2> HIDE DEF S, T
  <2>2. Cardinality(T) = Cardinality(S) - 1
    BY <1>1, <2>1, FS_RemoveElement
  <2>3. In(g[c], L) = 0 /\ In(f[c], L) = 1
    BY <1>4 DEF In
  <2> QED
    BY <1>1, <1>2, <2>2, <2>3
<1>5. CASE g[c] \in L <=> f[c] \in L
  <2>1. T = S
    BY <1>5
  <2>2. In(g[c], L) = In(f[c], L) /\ In(g[c], L) \in Nat
    BY <1>5 DEF In
  <2> HIDE DEF S, T
  <2> QED
    BY <1>1, <1>2, <2>1, <2>2
<1> QED
  BY <1>3, <1>4, <1>5

\* A thread at one of the labels makes the count positive.
LEMMA CountPositive ==
  ASSUME NEW f, NEW L, CountAt(f, L) > 0 PROVE \E c \in Thread : f[c] \in L
<1>1. CASE \A c \in Thread : f[c] \notin L
  <2>1. {c \in Thread : f[c] \in L} = {}
    BY <1>1
  <2> QED
    BY <2>1, FS_EmptySet DEF CountAt
<1> QED
  BY <1>1

\* Fewer labels, fewer threads.
LEMMA CountSubset ==
  ASSUME NEW f, NEW L, NEW M, L \subseteq M PROVE CountAt(f, L) <= CountAt(f, M)
<1>1. {c \in Thread : f[c] \in L} \subseteq {c \in Thread : f[c] \in M}
  OBVIOUS
<1>2. IsFiniteSet({c \in Thread : f[c] \in M})
  BY BorrowerAssumption, FS_Subset
<1> QED
  BY <1>1, <1>2, FS_Subset DEF CountAt

\* The counters of the type invariant are these counts.
LEMMA TypesTypeOK == Types <=> TypeOK
<1>1. {c \in Thread : pc[c] = "holding"} = {c \in Thread : pc[c] \in Holding}
  BY DEF Holding
<1>2. {c \in Thread : pc[c] \in {"blocked", "woken", "late"}}
        = {c \in Thread : pc[c] \in Waiting}
  BY DEF Waiting
<1> QED
  BY <1>1, <1>2 DEF Types, TypeOK, CountAt, holders, waiters
-----------------------------------------------------------------------------
(* The steps of a borrower *)

\* Thread c goes to label x.
Moves(c, x) ==
    /\ pc' \in [Thread -> ThreadPc] /\ pc'[c] = x
    /\ \A d \in Thread : d # c => pc'[d] = pc[d]

\* What a move of thread c does to the four counts.
LEMMA Move ==
  ASSUME Types, NEW c \in Thread, NEW x, Moves(c, x)
  PROVE  /\ holders' = holders + In(x, Holding) - In(pc[c], Holding)
         /\ waiters' = waiters + In(x, Waiting) - In(pc[c], Waiting)
         /\ owners' = owners + In(x, Owning) - In(pc[c], Owning)
         /\ tellers' = tellers + In(x, Telling) - In(pc[c], Telling)
         /\ holders \in Nat /\ waiters \in Nat /\ owners \in Nat /\ tellers \in Nat
         /\ holders' \in Nat /\ waiters' \in Nat /\ owners' \in Nat /\ tellers' \in Nat
<1>1. ASSUME NEW L PROVE CountAt(pc', L) = CountAt(pc, L) + In(x, L) - In(pc[c], L)
  BY CountMove DEF Types, Moves
<1>2. ASSUME NEW L PROVE CountAt(pc, L) \in Nat /\ CountAt(pc', L) \in Nat
  BY CountNat
<1> QED
  BY <1>1, <1>2 DEF holders, waiters, owners, tellers

\* Goto is such a move.
LEMMA GotoMoves ==
  ASSUME Types, NEW c \in Thread, NEW x \in ThreadPc, Goto(c, x) PROVE Moves(c, x)
BY DEF Types, Goto, Moves

USE PoolAssumption, BorrowerAssumption, Move, GotoMoves
USE DEF ThreadPc, In, Holding, Waiting, Owning, Telling
USE DEF IInv, Types, GateInv, StopInv, RoomInv, LimitInv, TellInv, counters

\* acquireConnection up to its first look at the queue.
LEMMA GateStep == ASSUME IInv, NEW c \in Thread, AcquireGate(c) PROVE IInv'
<1>1. CASE shutdown
  BY <1>1, CountNat DEF AcquireGate, holders, waiters, owners, tellers
<1>2. CASE ~shutdown
  <2>1. Moves(c, "loop")
    BY <1>2 DEF AcquireGate
  <2> QED
    BY <1>2, <2>1 DEF AcquireGate, Moves
<1> QED
  BY <1>1, <1>2

\* An iteration of acquireConnection: only an idle connection, a look at the
\* counter under the mutex, or a wait beside an empty queue can follow.
LEMMA LoopStep == ASSUME IInv, NEW c \in Thread, Loop(c) PROVE IInv'
<1>0. pc[c] \in {"loop", "drop"} /\ MutexFree /\ UNCHANGED <<shutdown, spc, calls>>
  BY DEF Loop
<1>1. CASE Goto(c, "idle") /\ UNCHANGED <<pool, counters, seen>>
  <2>1. Moves(c, "idle")
    BY <1>1
  <2> QED
    BY <1>0, <1>1, <2>1 DEF Moves
<1>2. CASE ~shutdown /\ Pop(c) /\ UNCHANGED <<counters, seen>>
  <2>1. Moves(c, "validate")
    BY <1>2 DEF Pop
  <2> QED
    BY <1>0, <1>2, <2>1 DEF Pop, MutexFree, Moves
<1>3. CASE /\ ~shutdown /\ pool = 0 /\ total < MaxSize
           /\ seen' = [seen EXCEPT ![c] = total] /\ Goto(c, "cas")
           /\ UNCHANGED <<pool, counters>>
  <2>1. Moves(c, "cas")
    BY <1>3
  <2> QED
    BY <1>0, <1>3, <2>1 DEF MutexFree, Moves
<1>4. CASE ~shutdown /\ pool = 0 /\ Block(c) /\ UNCHANGED <<pool, seen>>
  <2>1. Moves(c, "blocked")
    BY <1>4 DEF Block
  <2> QED
    BY <1>0, <1>4, <2>1 DEF Block, Moves
<1> QED
  BY <1>1, <1>2, <1>3, <1>4 DEF Loop

\* The exchange that makes room: it succeeds only on a value below the limit,
\* which covers every connection in use.
LEMMA CasStep == ASSUME IInv, NEW c \in Thread, Cas(c) PROVE IInv'
<1>0. /\ pc[c] = "cas" /\ ~shutdown /\ pool = 0 /\ seen[c] < MaxSize
      /\ UNCHANGED <<pool, shutdown, seen, spc, calls>>
  BY DEF Cas
<1>1. CASE /\ total = seen[c] /\ total' = total + 1 /\ Goto(c, "create")
           /\ UNCHANGED <<active, waiting>>
  <2>1. Moves(c, "create")
    BY <1>1
  <2> QED
    BY <1>0, <1>1, <2>1 DEF Moves
<1>2. CASE Block(c)
  <2>1. Moves(c, "blocked")
    BY <1>2 DEF Block
  <2> QED
    BY <1>0, <1>2, <2>1 DEF Block, Moves
<1> QED
  BY <1>1, <1>2 DEF Cas

\* A connection is validated or opened: the thread keeps it, or it is subtracted.
LEMMA OpenStep ==
  ASSUME IInv, NEW c \in Thread, Validate(c) \/ Create(c) PROVE IInv'
<1>0. /\ pc[c] \in {"validate", "create"}
      /\ UNCHANGED <<pool, waiting, shutdown, seen, spc, calls>>
  BY DEF Validate, Create
<1>1. CASE active' = active + 1 /\ Goto(c, "holding") /\ UNCHANGED total
  <2>1. Moves(c, "holding")
    BY <1>1
  <2> QED
    BY <1>0, <1>1, <2>1 DEF Moves
<1>2. ASSUME NEW x \in {"drop", "recheck"},
             total' = total - 1, Goto(c, x), UNCHANGED active
      PROVE  IInv'
  <2>1. Moves(c, x)
    BY <1>2
  <2> QED
    BY <1>0, <1>2, <2>1 DEF Moves
<1> QED
  BY <1>1, <1>2 DEF Validate, Create

\* POOL_RECHECK and the end of a wait.
LEMMA WaitStep ==
  ASSUME IInv, NEW c \in Thread, Recheck(c) \/ Wake(c) \/ Timeout(c) PROVE IInv'
<1>1. CASE Timeout(c)
  <2>1. Moves(c, "late")
    BY <1>1 DEF Timeout
  <2> QED
    BY <1>1, <2>1 DEF Timeout, Moves
<1>2. CASE Recheck(c)
  <2>0. pc[c] = "recheck" /\ MutexFree /\ UNCHANGED <<shutdown, seen, spc, calls>>
    BY <1>2 DEF Recheck
  <2>1. CASE Goto(c, "idle") /\ UNCHANGED <<pool, counters>>
    <3>1. Moves(c, "idle")
      BY <2>1
    <3> QED
      BY <2>0, <2>1, <3>1 DEF Moves
  <2>2. CASE ~shutdown /\ Pop(c) /\ UNCHANGED counters
    <3>1. Moves(c, "validate")
      BY <2>2 DEF Pop
    <3> QED
      BY <2>0, <2>2, <3>1 DEF Pop, MutexFree, Moves
  <2>3. CASE ~shutdown /\ pool = 0 /\ Block(c) /\ UNCHANGED pool
    <3>1. Moves(c, "blocked")
      BY <2>3 DEF Block
    <3> QED
      BY <2>0, <2>3, <3>1 DEF Block, Moves
  <2> QED
    BY <1>2, <2>1, <2>2, <2>3 DEF Recheck
<1>3. CASE Wake(c)
  <2>0. pc[c] \in {"woken", "late"} /\ MutexFree /\ UNCHANGED <<shutdown, seen, spc, calls>>
    BY <1>3 DEF Wake
  <2>1. CASE /\ shutdown \/ pool = 0
             /\ waiting' = waiting - 1 /\ Goto(c, "idle") /\ UNCHANGED <<pool, total, active>>
    <3>1. Moves(c, "idle")
      BY <2>1
    <3> QED
      BY <2>0, <2>1, <3>1 DEF Moves
  <2>2. CASE ~shutdown /\ Pop(c) /\ waiting' = waiting - 1 /\ UNCHANGED <<total, active>>
    <3>1. Moves(c, "validate")
      BY <2>2 DEF Pop
    <3> QED
      BY <2>0, <2>2, <3>1 DEF Pop, MutexFree, Moves
  <2>3. CASE ~shutdown /\ pool = 0 /\ Goto(c, "blocked") /\ UNCHANGED <<pool, counters>>
    <3>1. Moves(c, "blocked")
      BY <2>3
    <3> QED
      BY <2>0, <2>3, <3>1 DEF Moves
  <2> QED
    BY <1>3, <2>1, <2>2, <2>3 DEF Wake
<1> QED
  BY <1>1, <1>2, <1>3

\* releaseConnection up to the notification.
LEMMA ReleaseStep ==
  ASSUME IInv, NEW c \in Thread,
         Release(c) \/ ReleaseCheck(c) \/ Destroy(c) \/ Push(c)
  PROVE  IInv'
<1>1. CASE Release(c)
  <2>1. Moves(c, "returning")
    BY <1>1 DEF Release
  <2> QED
    BY <1>1, <2>1 DEF Release, Moves
<1>2. CASE ReleaseCheck(c)
  <2>1. Moves(c, IF shutdown THEN "destroy" ELSE "push")
    BY <1>2 DEF ReleaseCheck
  <2> QED
    BY <1>2, <2>1 DEF ReleaseCheck, Moves
<1>3. CASE Destroy(c)
  <2>1. Moves(c, IF pc[c] = "destroy" THEN "destroyed" ELSE "idle")
    BY <1>3 DEF Destroy
  <2> QED
    BY <1>3, <2>1 DEF Destroy, Moves
<1>4. CASE Push(c)
  <2>1. Moves(c, "notify")
    BY <1>4 DEF Push
  <2> QED
    BY <1>4, <2>1 DEF Push, MutexFree, Moves
<1> QED
  BY <1>1, <1>2, <1>3, <1>4

\* notify_one passes one wake-up on: the thread that gives it away and the one
\* that gets it both count as telling.
LEMMA NotifyStep == ASSUME IInv, NEW c \in Thread, Notify(c) PROVE IInv'
<1>0. pc[c] = "notify" /\ UNCHANGED <<pool, counters, shutdown, seen, spc, calls>>
  BY DEF Notify
<1>1. CASE (\A d \in Thread : pc[d] # "blocked") /\ Goto(c, "idle")
  <2>1. Moves(c, "idle")
    BY <1>1
  <2> QED
    BY <1>0, <1>1, <2>1 DEF Moves
<1>2. ASSUME NEW d \in Thread, pc[d] = "blocked",
             pc' = [pc EXCEPT ![c] = "idle", ![d] = "woken"]
      PROVE  IInv'
  <2> DEFINE f == [pc EXCEPT ![c] = "idle"]
  <2>1. c # d /\ f \in [Thread -> ThreadPc] /\ pc' \in [Thread -> ThreadPc]
    BY <1>0, <1>2
  <2>2. /\ f[c] = "idle" /\ \A e \in Thread : e # c => f[e] = pc[e]
        /\ f[d] = "blocked" /\ pc'[d] = "woken" /\ pc'[c] = "idle"
        /\ \A e \in Thread : e # d => pc'[e] = f[e]
    BY <1>0, <1>2
  <2> HIDE DEF f
  <2>3. ASSUME NEW L
        PROVE  /\ CountAt(pc', L) = CountAt(pc, L) + In("idle", L) - In("notify", L)
                                      + In("woken", L) - In("blocked", L)
               /\ CountAt(pc, L) \in Nat
    <3> HIDE DEF In
    <3>1. CountAt(f, L) = CountAt(pc, L) + In("idle", L) - In("notify", L)
      BY <1>0, <2>1, <2>2, CountMove
    <3>2. CountAt(pc', L) = CountAt(f, L) + In("woken", L) - In("blocked", L)
      BY <2>1, <2>2, CountMove
    <3>3. CountAt(pc, L) \in Nat /\ CountAt(f, L) \in Nat
      BY CountNat
    <3>4. In("idle", L) \in Nat /\ In("notify", L) \in Nat
          /\ In("woken", L) \in Nat /\ In("blocked", L) \in Nat
      BY DEF In
    <3> QED
      BY <3>1, <3>2, <3>3, <3>4
  <2>4. UNCHANGED <<holders, waiters, owners, tellers>>
    BY <2>3 DEF holders, waiters, owners, tellers
  <2> QED
    BY <1>0, <1>2, <2>1, <2>2, <2>4
<1> QED
  BY <1>1, <1>2 DEF Notify
-----------------------------------------------------------------------------
(* shutdown *)

\* The shutdown begins with the mutex and empties the queue; what it does to
\* _total_conns no longer matters to the limit.
LEMMA StopStep == ASSUME IInv, Stop PROVE IInv'
<1>0. holders \in Nat /\ waiters \in Nat /\ owners \in Nat /\ tellers \in Nat
  BY CountNat DEF holders, waiters, owners, tellers
<1>1. CASE Shutdown \/ Drain \/ MarkDestroyed
  <2>1. UNCHANGED <<holders, waiters, owners, tellers>>
    BY <1>1 DEF Shutdown, Drain, MarkDestroyed, holders, waiters, owners, tellers
  <2>2. CASE Shutdown
    BY <1>0, <2>1, <2>2 DEF Shutdown, MutexFree
  <2>3. CASE Drain
    BY <1>0, <2>1, <2>3 DEF Drain
  <2>4. CASE MarkDestroyed
    BY <1>0, <2>1, <2>4 DEF MarkDestroyed
  <2> QED
    BY <1>1, <2>2, <2>3, <2>4
<1>2. CASE NotifyAll
  <2>1. pc' \in [Thread -> ThreadPc]
        /\ \A c \in Thread : pc'[c] = IF pc[c] = "blocked" THEN "woken" ELSE pc[c]
    BY <1>2 DEF NotifyAll
  <2>2. ASSUME NEW L, "blocked" \in L <=> "woken" \in L
        PROVE  CountAt(pc', L) = CountAt(pc, L)
    <3>1. {c \in Thread : pc'[c] \in L} = {c \in Thread : pc[c] \in L}
      BY <2>1, <2>2
    <3> QED
      BY <3>1 DEF CountAt
  <2>3. UNCHANGED <<holders, waiters, owners>>
    BY <2>2 DEF holders, waiters, owners
  <2> QED
    BY <1>0, <1>2, <2>1, <2>3 DEF NotifyAll
<1> QED
  BY <1>1, <1>2 DEF Stop
-----------------------------------------------------------------------------
(* The theorems *)

\* The pool that the constructor leaves satisfies the invariant.
LEMMA InitInv == Init => IInv
<1> SUFFICES ASSUME Init PROVE IInv
  OBVIOUS
<1>1. ASSUME NEW L, "idle" \notin L PROVE CountAt(pc, L) = 0
  <2>1. {c \in Thread : pc[c] \in L} = {}
    BY <1>1 DEF Init
  <2> QED
    BY <2>1, FS_EmptySet DEF CountAt
<1>2. holders = 0 /\ waiters = 0 /\ owners = 0 /\ tellers = 0
  BY <1>1 DEF holders, waiters, owners, tellers
<1>3. Types
  <2>1. pc \in [Thread -> ThreadPc] /\ seen \in [Thread -> Int]
    BY DEF Init
  <2>2. calls \in 0..MaxCalls /\ pool \in Nat /\ total \in Int
    BY DEF Init
  <2> QED
    BY <1>2, <2>1, <2>2 DEF Init
<1>4. GateInv /\ StopInv /\ TellInv
  BY DEF Init
<1>5. pool \in Nat /\ pool <= MinSize /\ total = 2 * pool
  BY DEF Init
<1>6. RoomInv /\ LimitInv
  BY <1>2, <1>5
<1> QED
  BY <1>3, <1>4, <1>6

\* Every step of every thread preserves it.
LEMMA StepInv == IInv /\ [Next]_vars => IInv'
<1> SUFFICES ASSUME IInv, [Next]_vars PROVE IInv'
  OBVIOUS
<1>1. CASE UNCHANGED vars
  BY <1>1 DEF vars, holders, waiters, owners, tellers
<1>2. ASSUME NEW c \in Thread, AcquireGate(c) \/ Continue(c) \/ Timeout(c)
      PROVE  IInv'
  <2> HIDE DEF IInv
  <2> QED
    BY <1>2, GateStep, LoopStep, CasStep, OpenStep, WaitStep, ReleaseStep, NotifyStep
       DEF Continue
<1> QED
  BY <1>1, <1>2, StopStep DEF Next, Finished

LEMMA Inductive == Spec => []IInv
<1> QED
  BY InitInv, StepInv, PTL DEF Spec

\* The counters of borrowed connections and of waiting threads are exact, for any
\* number of borrowers, and the variables keep their types.
THEOREM TypeCorrect == Spec => []TypeOK
<1>1. IInv => TypeOK
  BY TypesTypeOK
<1> QED
  BY <1>1, Inductive, PTL

\* Never more than maxSize connections besides those found invalid and about to be
\* destroyed, whichever threads expand the pool, discard connections and give them
\* back at the same time, also during the shutdown.
THEOREM OpenBoundedAlways == Spec => []OpenBounded
<1>1. IInv => OpenBounded
  <2>1. Owners \ Dropping = {c \in Thread : pc[c] \in Owning}
    BY DEF Owners, Dropping
  <2> QED
    BY <2>1 DEF OpenBounded, owners, CountAt
<1> QED
  BY <1>1, Inductive, PTL

\* Until the shutdown begins _total_conns is at least idle plus borrowed.
THEOREM TotalCoversAlways == Spec => []TotalCovers
<1>1. IInv => TotalCovers
  <2> SUFFICES ASSUME IInv, ~shutdown PROVE total >= pool + active
    BY DEF TotalCovers
  <2>1. holders <= owners /\ holders \in Nat /\ owners \in Nat
    BY CountSubset, CountNat DEF holders, owners
  <2> QED
    BY <2>1
<1> QED
  BY <1>1, Inductive, PTL

\* No thread is left blocked beside an idle connection that nobody has been told
\* of: no wake-up of releaseConnection is lost.
THEOREM IdleIsAnnouncedAlways == Spec => []IdleIsAnnounced
<1>1. IInv => IdleIsAnnounced
  <2> SUFFICES ASSUME IInv, pool > 0, \E c \in Thread : pc[c] = "blocked", ~shutdown
               PROVE  \E c \in Thread : pc[c] \in {"woken", "late", "notify"}
    BY DEF IdleIsAnnounced
  <2>1. tellers > 0
    BY CountNat DEF tellers
  <2> QED
    BY <2>1, CountPositive DEF tellers
<1> QED
  BY <1>1, Inductive, PTL
=============================================================================
