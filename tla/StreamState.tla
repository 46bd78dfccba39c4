----------------------------- MODULE StreamState -----------------------------
(***************************************************************************)
(* The stream registry: repository/RedisStreamStateManager.cpp, driven by  *)
(* the hook handlers and the cleanup thread of                             *)
(* scheduler/StreamTaskScheduler.cpp, over the Redis server they share.    *)
(*                                                                         *)
(* One stream is modelled: every key but the player total and the          *)
(* timestamp zset is per stream, and those two are per task or additive.   *)
(* A step is one Redis command or one pipeline; between two steps of a     *)
(* thread anything else may happen.  A pipeline is no transaction: when    *)
(* the connection breaks, Redis may have executed any first part of it.    *)
(* Commands of other connections that Redis executes between two commands  *)
(* of one pipeline, which it reads at once unless it is cut up on the way, *)
(* are left out.  The hook threads are the pool threads that run the       *)
(* authenticated onPublish and onPlay callbacks and the server threads     *)
(* that run onPublishDone and onPlayDone.  Time is a clock in ticks; a key *)
(* whose TTL has passed is gone at that tick.                              *)
(***************************************************************************)
EXTENDS Integers, FiniteSets

CONSTANTS
    Thread,         \* threads that run hook handlers
    Cleaner,        \* the scheduler's cleanup thread
    Publisher,      \* client ids that publish
    Player,         \* client ids that play
    NoClient,
    TaskTTL,        \* TASK_TTL_SEC, in ticks
    TaskTimeout,    \* _config.task_timeout, in ticks
    ScanEvery,      \* _config.cleanup_interval, in ticks
    OpTime,         \* how long a hook or a pass may last, in ticks
    SerialClients,  \* whether a client sends a hook only after the last was answered
    MaxTime,        \* bound on the clock
    MaxHooks,       \* bound on the number of hooks received
    MaxFaults,      \* bound on the number of Redis calls that fail
    MaxCrashes      \* bound on the number of restarts of the process

Client == Publisher \cup Player
Proc == Thread \cup {Cleaner}

ASSUME ClientAssumption == NoClient \notin Client /\ IsFiniteSet(Client)
ASSUME CleanerAssumption == Cleaner \notin Thread
ASSUME TimeAssumption ==
    /\ TaskTTL \in Nat \ {0} /\ TaskTimeout \in Nat \ {0}
    /\ ScanEvery \in Nat \ {0} /\ OpTime \in Nat
    /\ SerialClients \in BOOLEAN
ASSUME BoundAssumption ==
    /\ MaxTime \in Nat /\ MaxHooks \in Nat
    /\ MaxFaults \in Nat /\ MaxCrashes \in Nat

VARIABLES
    task,       \* task:<stream>:<client> hashes
    pub,        \* client named by the pub:<stream> hash (which has no TTL)
    active,     \* whether active_pubs contains the stream
    members,    \* stream:members:<stream>
    total,      \* global_players.total
    zset,       \* task_timestamps: client -> score
    clock,
    th,         \* the local state of every thread
    busyAt,     \* when the cleanup thread was last at work
    granted,    \* clients told SUCCESS whose end-of-session hook has not come
    denied,     \* clients for which registerTask last returned false
    lost,       \* whether a call that failed was executed all the same
    hooks, faults, crashes

redis == <<task, pub, active, members, total, zset>>
answers == <<granted, denied>>
env == <<clock, busyAt, hooks, faults, lost, crashes>>
vars == <<redis, th, answers, env>>

NoTask == [type |-> "none", last |-> 0, exp |-> 0]
Never == MaxTime + TaskTTL + 1      \* expiry of a key without TTL
NoScore == -1
Exists(c) == task[c] # NoTask

\* c, type, last: the task at hand.  kind, ret: the type deregisterTask found
\* and where it returns to.  ids, batch, seen: the variables of the loops of
\* deregisterAllMembers and of the cleanup pass.
Idle == [pc |-> "idle", c |-> NoClient, type |-> "none", last |-> 0,
         kind |-> "none", ret |-> "idle", ids |-> {}, batch |-> {},
         seen |-> 0]

Init ==
    /\ task = [c \in Client |-> NoTask]
    /\ pub = NoClient /\ active = FALSE /\ members = {} /\ total = 0
    /\ zset = [c \in Client |-> NoScore]
    /\ clock = 0 /\ busyAt = -ScanEvery
    /\ th = [t \in Proc |-> Idle]
    /\ granted = {} /\ denied = {}
    /\ hooks = 0 /\ faults = 0 /\ lost = FALSE /\ crashes = 0
-----------------------------------------------------------------------------
(* Control flow of a thread *)

At(t, label) == th[t].pc = label
Become(t, l) == th' = [th EXCEPT ![t] = l] /\ UNCHANGED answers
Goto(t, label) == Become(t, [th[t] EXCEPT !.pc = label])
Return(t) == Become(t, Idle)

\* registerTask returned false (true): the callback refuses (allows).
Deny(t) ==
    /\ th' = [th EXCEPT ![t] = Idle]
    /\ denied' = denied \cup {th[t].c}
    /\ UNCHANGED granted
Grant(t) ==
    /\ th' = [th EXCEPT ![t] = Idle]
    /\ granted' = granted \cup {th[t].c}
    /\ UNCHANGED denied

CallDeregister(t, ret) ==
    Become(t, [th[t] EXCEPT !.pc = "dereg", !.ret = ret])

\* The loop of scanTimeoutTasks and, after it, the batch of the cleanup pass.
ScanLoop(l) ==
    IF l.ids # {} THEN [l EXCEPT !.pc = "scanRem"]
    ELSE IF l.batch # {} THEN [l EXCEPT !.pc = "cleanBatch"] ELSE Idle

ReturnFromDeregister(t) ==
    \/ th[t].ret = "deny" /\ Deny(t)
    \/ th[t].ret = "hset" /\ Goto(t, "hset")
    \/ th[t].ret = "scan" /\ Become(t, ScanLoop(th[t]))
    \/ th[t].ret = "idle" /\ Return(t)
-----------------------------------------------------------------------------
(* The Redis commands, as CacheManager and the pipelines issue them *)

\* HSET keeps the TTL of a key that exists and creates one without TTL.
SetHash(c, type, last) ==
    /\ task' = [task EXCEPT ![c] =
         [type |-> type, last |-> last,
          exp |-> IF Exists(c) THEN task[c].exp ELSE Never]]
    /\ UNCHANGED <<pub, active, members, total, zset>>

SetExpiry(c) ==
    /\ Exists(c)
    /\ task' = [task EXCEPT ![c].exp = clock + TaskTTL]
    /\ UNCHANGED <<pub, active, members, total, zset>>

DelHash(c) ==
    /\ task' = [task EXCEPT ![c] = NoTask]
    /\ UNCHANGED <<pub, active, members, total, zset>>

\* The pipeline of registerPublisherIndices.
WriteIndices(c) ==
    /\ pub' = c /\ active' = TRUE /\ members' = members \cup {c}
    /\ UNCHANGED <<task, total, zset>>

\* Its first one or two commands: HSET pub:<stream> and SADD of the member.
WriteIndicesPart(c) ==
    /\ pub' = c /\ members' \in {members, members \cup {c}}
    /\ UNCHANGED <<task, active, total, zset>>

AddMember(c) ==
    /\ members' = members \cup {c}
    /\ UNCHANGED <<task, pub, active, total, zset>>

DelMembers ==
    /\ members' = {}
    /\ UNCHANGED <<task, pub, active, total, zset>>

IncrBy(n) ==
    /\ total' = total + n
    /\ UNCHANGED <<task, pub, active, members, zset>>

\* ZADD of a score, and ZREM with NoScore.
SetScore(c, score) ==
    /\ zset' = [zset EXCEPT ![c] = score]
    /\ UNCHANGED <<task, pub, active, members, total>>

\* Mutant: the player total is not decremented.
BatchKeepsTotal(b) ==
    LET gone == {x[1] : x \in b}
        ends == \E x \in b : x[2] = "publisher"
    IN  /\ task' = [c \in Client |-> IF c \in gone THEN NoTask ELSE task[c]]
        /\ members' = members \ gone
        /\ pub' = IF ends THEN NoClient ELSE pub
        /\ active' = (active /\ ~ends)
        /\ UNCHANGED <<total, zset>>

\* Mutant: the publisher key is left behind.
BatchKeepsPub(b) ==
    LET gone == {x[1] : x \in b}
        ends == \E x \in b : x[2] = "publisher"
    IN  /\ task' = [c \in Client |-> IF c \in gone THEN NoTask ELSE task[c]]
        /\ members' = members \ gone
        /\ total' = total - Cardinality({x \in b : x[2] = "player"})
        /\ active' = (active /\ ~ends)
        /\ UNCHANGED <<pub, zset>>

\* Mutant: the publisher key goes whatever the type of the task.
BatchEndsStream(b) ==
    LET gone == {x[1] : x \in b}
    IN  /\ task' = [c \in Client |-> IF c \in gone THEN NoTask ELSE task[c]]
        /\ members' = members \ gone
        /\ total' = total - Cardinality({x \in b : x[2] = "player"})
        /\ pub' = IF b = {} THEN pub ELSE NoClient
        /\ active' = (active /\ b = {})
        /\ UNCHANGED zset

\* The pipeline of deregisterTasksBatch on <<client, type>> pairs.
Batch(b) ==
    LET gone == {x[1] : x \in b}
        ends == \E x \in b : x[2] = "publisher"
    IN  /\ task' = [c \in Client |-> IF c \in gone THEN NoTask ELSE task[c]]
        /\ members' = members \ gone
        /\ total' = total - Cardinality({x \in b : x[2] = "player"})
        /\ pub' = IF ends THEN NoClient ELSE pub
        /\ active' = (active /\ ~ends)
        /\ UNCHANGED zset

\* Its first commands: all those of the tasks in done and n of those of task x, which
\* are DEL task, SREM member and, for a publisher, DEL pub:<stream>, each before the
\* last one.
BatchPart(b) ==
    \E done \in SUBSET b : \E x \in b \ done, n \in 0..3 :
        LET gone == {y[1] : y \in done}
            ends == \E y \in done : y[2] = "publisher"
        IN  /\ n = 3 => x[2] = "publisher"
            /\ task' = [c \in Client |->
                   IF c \in gone \/ (n >= 1 /\ c = x[1]) THEN NoTask ELSE task[c]]
            /\ members' = members \ (gone \cup IF n >= 2 THEN {x[1]} ELSE {})
            /\ total' = total - Cardinality({y \in done : y[2] = "player"})
            /\ pub' = IF ends \/ n = 3 THEN NoClient ELSE pub
            /\ active' = (active /\ ~ends)
            /\ UNCHANGED zset
-----------------------------------------------------------------------------
(* Hooks, up to the call of the state manager *)

HookArrives(t, c) ==
    /\ th[t] = Idle /\ hooks < MaxHooks
    /\ SerialClients => \A u \in Thread : th[u].c # c
    /\ hooks' = hooks + 1
    /\ UNCHANGED <<redis, clock, busyAt, faults, lost, crashes>>

Begin(t, c, label, type) ==
    /\ th' = [th EXCEPT ![t] = [Idle EXCEPT !.pc = label, !.c = c,
                                            !.type = type, !.last = clock]]

\* onPublish, authenticated: createTask and the call of registerTask.
OnPublish(t, c) ==
    /\ HookArrives(t, c)
    /\ Begin(t, c, "pubCheck", "publisher")
    /\ denied' = denied \ {c} /\ UNCHANGED granted

OnPlay(t, c) ==
    /\ HookArrives(t, c)
    /\ Begin(t, c, "playLookup", "player")
    /\ denied' = denied \ {c} /\ UNCHANGED granted

\* NO_PUBLISHER unless pub:<stream> exists; then createTask, registerTask.
PlayLookup(t) ==
    /\ At(t, "playLookup")
    /\ \/ pub = NoClient /\ Return(t)
       \/ /\ pub # NoClient
          /\ Become(t, [th[t] EXCEPT !.pc = "playCheck", !.last = clock])
    /\ UNCHANGED <<redis, env>>

OnPublishDone(t, c) ==
    /\ HookArrives(t, c)
    /\ Begin(t, c, "doneGet", "none")
    /\ granted' = granted \ {c} /\ UNCHANGED denied

\* Mutant: the done hook removes the publisher and not its players.
DoneLeavesPlayers(t) ==
    /\ At(t, "doneGet")
    /\ IF task[th[t].c].type = "publisher" THEN Goto(t, "dereg") ELSE Return(t)
    /\ UNCHANGED <<redis, env>>

\* Ignored unless the client's own task is a publisher's.
DoneGet(t) ==
    /\ At(t, "doneGet")
    /\ IF task[th[t].c].type = "publisher" THEN Goto(t, "all") ELSE Return(t)
    /\ UNCHANGED <<redis, env>>

OnPlayDone(t, c) ==
    /\ HookArrives(t, c)
    /\ Begin(t, c, "dereg", "none")
    /\ granted' = granted \ {c} /\ UNCHANGED denied
-----------------------------------------------------------------------------
(* registerTask *)

\* Mutant: a stream that already has another publisher is not refused.
AdmitAnyone(t) ==
    /\ At(t, "pubCheck")
    /\ IF pub = th[t].c THEN CallDeregister(t, "hset") ELSE Goto(t, "hset")
    /\ UNCHANGED <<redis, env>>

PubCheck(t) ==
    /\ At(t, "pubCheck")
    /\ \/ pub \notin {NoClient, th[t].c} /\ Deny(t)
       \/ pub = th[t].c /\ CallDeregister(t, "hset")
       \/ pub = NoClient /\ Goto(t, "hset")
    /\ UNCHANGED <<redis, env>>

PlayCheck(t) ==
    /\ At(t, "playCheck")
    /\ IF Exists(th[t].c) THEN CallDeregister(t, "hset") ELSE Goto(t, "hset")
    /\ UNCHANGED <<redis, env>>

\* Mutant: the hash gets the type that deregisterTask found.
StaleType(t) ==
    /\ At(t, "hset")
    /\ SetHash(th[t].c, th[t].kind, th[t].last)
    /\ Goto(t, "expire")
    /\ UNCHANGED env

HashSet(t) ==
    /\ At(t, "hset")
    /\ SetHash(th[t].c, th[t].type, th[t].last)
    /\ Goto(t, "expire")
    /\ UNCHANGED env

\* Mutant: no EXPIRE after the HSET.
NoExpire(t) ==
    /\ At(t, "expire")
    /\ Goto(t, IF th[t].type = "publisher" THEN "index" ELSE "sadd")
    /\ UNCHANGED <<redis, env>>

\* EXPIRE reports false when somebody has deleted the key.
KeyExpire(t) ==
    /\ At(t, "expire")
    /\ \/ /\ SetExpiry(th[t].c)
          /\ Goto(t, IF th[t].type = "publisher" THEN "index" ELSE "sadd")
       \/ /\ ~Exists(th[t].c) /\ UNCHANGED redis
          /\ Goto(t, "keyDel")
    /\ UNCHANGED env

\* Mutant: a failed EXPIRE is not rolled back.
NoRollback(t) ==
    /\ At(t, "keyDel") /\ Deny(t)
    /\ UNCHANGED <<redis, env>>

\* The rollback of a failed EXPIRE.
KeyDel(t) ==
    /\ At(t, "keyDel")
    /\ DelHash(th[t].c)
    /\ Deny(t)
    /\ UNCHANGED env

\* registerPublisherIndices: first read pub:<stream>, then write the indices.
IndexCheck(t) ==
    /\ At(t, "index")
    /\ IF pub \in {NoClient, th[t].c} THEN Goto(t, "indexWrite")
                                      ELSE CallDeregister(t, "deny")
    /\ UNCHANGED <<redis, env>>

IndexWrite(t) ==
    /\ At(t, "indexWrite")
    /\ WriteIndices(th[t].c)
    /\ Goto(t, "zadd")
    /\ UNCHANGED env

\* registerPlayerIndices: setAdd reports success for a present member too.
SetAdd(t) ==
    /\ At(t, "sadd")
    /\ AddMember(th[t].c)
    /\ Goto(t, "incr")
    /\ UNCHANGED env

IncrTotal(t) ==
    /\ At(t, "incr")
    /\ IncrBy(1)
    /\ Goto(t, "zadd")
    /\ UNCHANGED env

\* Mutant: the task is not entered into the timestamp zset.
NoScoreAdded(t) ==
    /\ At(t, "zadd") /\ Grant(t)
    /\ UNCHANGED <<redis, env>>

ZsetAdd(t) ==
    /\ At(t, "zadd")
    /\ SetScore(th[t].c, clock)
    /\ Grant(t)
    /\ UNCHANGED env
-----------------------------------------------------------------------------
(* deregisterTask, deregisterTasksBatch, deregisterAllMembers *)

DeregGet(t) ==
    /\ At(t, "dereg")
    /\ LET c == th[t].c
       IN  Become(t, [th[t] EXCEPT
             !.pc = IF Exists(c) THEN "deregBatch" ELSE "deregZrem",
             !.kind = task[c].type])
    /\ UNCHANGED <<redis, env>>

DeregZrem(t) ==
    /\ At(t, "deregZrem")
    /\ SetScore(th[t].c, NoScore)
    /\ ReturnFromDeregister(t)
    /\ UNCHANGED env

DeregBatch(t) ==
    /\ At(t, "deregBatch")
    /\ Batch({<<th[t].c, th[t].kind>>})
    /\ ReturnFromDeregister(t)
    /\ UNCHANGED env

\* SMEMBERS, then one HGETALL per member, then the batch, then DEL.
AllMembers(t) ==
    /\ At(t, "all")
    /\ Become(t, [th[t] EXCEPT
         !.pc = IF members = {} THEN "allDel" ELSE "allGet",
         !.ids = members, !.batch = {}])
    /\ UNCHANGED <<redis, env>>

\* The rest of the loop once member c has been looked up.
AllNext(l, c, found) ==
    [l EXCEPT !.pc = IF l.ids = {c} THEN "allBatch" ELSE "allGet",
              !.ids = @ \ {c}, !.batch = @ \cup found]

AllGet(t, c) ==
    /\ At(t, "allGet") /\ c \in th[t].ids
    /\ LET found == IF Exists(c) THEN {<<c, task[c].type>>} ELSE {}
       IN  Become(t, AllNext(th[t], c, found))
    /\ UNCHANGED <<redis, env>>

AllBatch(t) ==
    /\ At(t, "allBatch")
    /\ Batch(th[t].batch)
    /\ Goto(t, "allDel")
    /\ UNCHANGED env

AllDel(t) ==
    /\ At(t, "allDel")
    /\ DelMembers
    /\ Return(t)
    /\ UNCHANGED env
-----------------------------------------------------------------------------
(* timeoutCleanupThread and scanTimeoutTasks *)

\* ZRANGEBYSCORE 0 cutoff; the pass goes through its answer in some order.
Scan ==
    /\ At(Cleaner, "idle") /\ clock - busyAt >= ScanEvery
    /\ LET old == {c \in Client : zset[c] \in 0..(clock - TaskTimeout)}
       IN  Become(Cleaner, ScanLoop([Idle EXCEPT !.ids = old, !.last = clock]))
    /\ busyAt' = clock
    /\ UNCHANGED <<redis, clock, hooks, faults, lost, crashes>>

\* ZREM claims the entry; an entry that is gone is somebody else's.
ScanRem(c) ==
    /\ At(Cleaner, "scanRem") /\ c \in th[Cleaner].ids
    /\ LET l == [th[Cleaner] EXCEPT !.ids = @ \ {c}]
       IN  Become(Cleaner, IF zset[c] # NoScore
                           THEN [l EXCEPT !.pc = "scanGet", !.c = c]
                           ELSE ScanLoop(l))
    /\ SetScore(c, NoScore)
    /\ UNCHANGED env

\* The double check of the hash's last_active_time.
ScanGet ==
    /\ At(Cleaner, "scanGet")
    /\ LET l == th[Cleaner]  c == l.c  fresh == l.last - task[c].last < TaskTimeout
       IN  \/ /\ ~Exists(c)
              /\ Become(Cleaner, ScanLoop(l))
           \/ /\ Exists(c) /\ fresh
              /\ Become(Cleaner, [l EXCEPT !.pc = "scanBack", !.seen = task[c].last])
           \/ /\ Exists(c) /\ ~fresh
              /\ Become(Cleaner, [l EXCEPT !.pc = "dereg", !.ret = "scan",
                                          !.batch = @ \cup {<<c, task[c].type>>}])
    /\ UNCHANGED <<redis, env>>

ScanBack ==
    /\ At(Cleaner, "scanBack")
    /\ SetScore(th[Cleaner].c, th[Cleaner].seen)
    /\ Become(Cleaner, ScanLoop(th[Cleaner]))
    /\ UNCHANGED env

\* After the batch, a dead publisher takes all members of its stream with it.
AfterCleanBatch(l) ==
    IF \E x \in l.batch : x[2] = "publisher"
    THEN [l EXCEPT !.pc = "all", !.batch = {}] ELSE Idle

\* The scheduler deregisters the expired tasks once more, in one batch.
CleanBatch ==
    /\ At(Cleaner, "cleanBatch")
    /\ Batch(th[Cleaner].batch)
    /\ Become(Cleaner, AfterCleanBatch(th[Cleaner]))
    /\ UNCHANGED env
-----------------------------------------------------------------------------
(* The environment *)

\* The effect of the command that thread t is about to send.
Executed(t) ==
    LET l == th[t]
    IN  \/ At(t, "hset") /\ SetHash(l.c, l.type, l.last)
        \/ At(t, "expire") /\ SetExpiry(l.c)
        \/ At(t, "keyDel") /\ DelHash(l.c)
        \/ At(t, "indexWrite") /\ WriteIndices(l.c)
        \/ At(t, "sadd") /\ AddMember(l.c)
        \/ At(t, "incr") /\ IncrBy(1)
        \/ At(t, "zadd") /\ SetScore(l.c, clock)
        \/ At(t, "scanBack") /\ SetScore(l.c, l.seen)
        \/ At(t, "deregZrem") /\ SetScore(l.c, NoScore)
        \/ At(t, "deregBatch") /\ Batch({<<l.c, l.kind>>})
        \/ th[t].pc \in {"allBatch", "cleanBatch"} /\ Batch(l.batch)
        \/ At(t, "allDel") /\ DelMembers

\* The effect of a first part of the pipeline that thread t is about to send.
PartlyExecuted(t) ==
    LET l == th[t]
    IN  \/ At(t, "indexWrite") /\ WriteIndicesPart(l.c)
        \/ At(t, "deregBatch") /\ BatchPart({<<l.c, l.kind>>})
        \/ th[t].pc \in {"allBatch", "cleanBatch"} /\ BatchPart(l.batch)

\* Mutant: registerTask goes on when registerPublisherIndices fails.
IndexFailureIgnored(t) ==
    \/ At(t, "indexWrite") /\ Goto(t, "zadd")
    \/ th[t].pc \in {"sadd", "zadd"} /\ CallDeregister(t, "deny")

\* registerTask rolls back when the indices or the timestamp could not be written.
IndexFails(t) ==
    th[t].pc \in {"indexWrite", "sadd", "zadd"} /\ CallDeregister(t, "deny")

\* CacheManager turns the exception into false, 0 or an empty answer.
AfterError(t) ==
    \/ th[t].pc \in {"pubCheck", "playCheck"} /\ Goto(t, "hset")
    \/ th[t].pc \in {"hset", "keyDel"} /\ Deny(t)
    \/ At(t, "expire") /\ Goto(t, "keyDel")
    \/ At(t, "index") /\ Goto(t, "indexWrite")
    \/ IndexFails(t)
    \/ At(t, "incr") /\ Goto(t, "zadd")
    \/ At(t, "dereg") /\ Goto(t, "deregZrem")
    \/ th[t].pc \in {"deregZrem", "deregBatch"} /\ ReturnFromDeregister(t)
    \/ th[t].pc \in {"all", "allBatch"} /\ Goto(t, "allDel")
    \/ At(t, "allGet") /\ \E c \in th[t].ids : Become(t, AllNext(th[t], c, {}))
    \/ th[t].pc \in {"playLookup", "doneGet", "allDel"} /\ Return(t)
    \/ th[t].pc \in {"scanGet", "scanBack"} /\ Become(t, ScanLoop(th[t]))
    \/ At(t, "cleanBatch") /\ Become(t, AfterCleanBatch(th[t]))

\* A Redis call of thread t fails: the command did not arrive, or it was
\* executed, a pipeline perhaps in part, and the reply was lost.
RedisError(t) ==
    /\ faults < MaxFaults /\ faults' = faults + 1
    /\ \/ UNCHANGED <<redis, lost>>
       \/ (Executed(t) \/ PartlyExecuted(t)) /\ lost' = TRUE
    /\ AfterError(t)
    /\ UNCHANGED <<clock, busyAt, hooks, crashes>>

\* The same for the two calls of the scan whose answer is a loop's input.
ScanError ==
    /\ faults < MaxFaults /\ faults' = faults + 1
    /\ \/ /\ At(Cleaner, "idle") /\ clock - busyAt >= ScanEvery
          /\ busyAt' = clock
          /\ UNCHANGED <<redis, th, answers, lost>>
       \/ /\ At(Cleaner, "scanRem")
          /\ \E c \in th[Cleaner].ids :
               /\ \/ UNCHANGED <<redis, lost>>
                  \/ SetScore(c, NoScore) /\ lost' = TRUE
               /\ Become(Cleaner,
                         ScanLoop([th[Cleaner] EXCEPT !.ids = @ \ {c}]))
          /\ UNCHANGED busyAt
    /\ UNCHANGED <<clock, hooks, crashes>>

\* The process dies and restarts: Redis keeps its keys, nothing is reconciled,
\* and the new cleanup thread starts with a pass.  A pipeline that is cut short by
\* it leaves Redis as a RedisError just before does.
Crash ==
    /\ crashes < MaxCrashes /\ crashes' = crashes + 1
    /\ th' = [t \in Proc |-> Idle]
    /\ busyAt' = clock - ScanEvery
    /\ UNCHANGED <<redis, answers, clock, hooks, faults, lost>>

Quiet == \A t \in Proc : At(t, "idle")

\* The cleanup thread waits cleanup_interval after each pass, no longer; a pass and a
\* hook last up to OpTime.
Tick ==
    /\ clock < MaxTime
    /\ \A t \in Proc : At(t, "idle") \/ clock - th[t].last < OpTime
    /\ At(Cleaner, "idle") => clock - busyAt < ScanEvery
    /\ clock' = clock + 1
    /\ task' = [c \in Client |-> IF task[c].exp <= clock' THEN NoTask ELSE task[c]]
    /\ busyAt' = IF At(Cleaner, "idle") THEN busyAt ELSE clock'
    /\ UNCHANGED <<pub, active, members, total, zset, th, answers,
                   hooks, faults, lost, crashes>>

\* The bounds are exhausted.
Finished ==
    /\ Quiet /\ hooks = MaxHooks /\ clock = MaxTime
    /\ clock - busyAt < ScanEvery
    /\ UNCHANGED vars

Hook(t) ==
    \/ \E c \in Publisher : OnPublish(t, c) \/ OnPublishDone(t, c)
    \/ \E c \in Player : OnPlay(t, c) \/ OnPlayDone(t, c)

Continue(t) ==
    \/ PlayLookup(t) \/ DoneGet(t)
    \/ PubCheck(t) \/ PlayCheck(t) \/ HashSet(t) \/ KeyExpire(t) \/ KeyDel(t)
    \/ IndexCheck(t) \/ IndexWrite(t) \/ SetAdd(t) \/ IncrTotal(t) \/ ZsetAdd(t)
    \/ DeregGet(t) \/ DeregZrem(t) \/ DeregBatch(t)
    \/ AllMembers(t) \/ AllBatch(t) \/ AllDel(t)
    \/ \E c \in Client : AllGet(t, c)

CleanupThread ==
    \/ Scan \/ ScanGet \/ ScanBack \/ CleanBatch
    \/ \E c \in Client : ScanRem(c)

Next ==
    \/ \E t \in Thread : Hook(t)
    \/ \E t \in Proc : Continue(t) \/ RedisError(t)
    \/ CleanupThread
    \/ ScanError
    \/ Crash
    \/ Tick
    \/ Finished

Spec == Init /\ [][Next]_vars

(* Threads that have started an operation go on with it, the cleanup thread *)
(* wakes after its interval and time passes.  No hook is obliged to come.   *)
FairSpec ==
    /\ Spec
    /\ \A t \in Proc : WF_vars(Continue(t))
    /\ WF_vars(CleanupThread)
    /\ WF_vars(Tick)
-----------------------------------------------------------------------------
(* Properties *)

Pc == {"idle", "playLookup", "doneGet", "pubCheck", "playCheck", "hset",
       "expire", "keyDel", "index", "indexWrite", "sadd", "incr", "zadd",
       "dereg", "deregZrem", "deregBatch", "all", "allGet", "allBatch",
       "allDel", "scanRem", "scanGet", "scanBack", "cleanBatch"}
Type == {"none", "publisher", "player"}

\* The variables keep their types; only registered tasks have a type.
TypeOK ==
    /\ task \in [Client -> [type : Type, last : Nat, exp : Nat]]
    /\ \A c \in Client : Exists(c) => task[c].type # "none"
    /\ pub \in Client \cup {NoClient} /\ active \in BOOLEAN
    /\ members \in SUBSET Client /\ total \in Int
    /\ zset \in [Client -> Int]
    /\ clock \in 0..MaxTime /\ busyAt \in Int /\ busyAt <= clock
    /\ th \in [Proc -> [pc : Pc, c : Client \cup {NoClient}, type : Type,
                        last : Nat, kind : Type,
                        ret : {"idle", "deny", "hset", "scan"},
                        ids : SUBSET Client, batch : SUBSET (Client \X Type),
                        seen : Nat]]
    /\ granted \in SUBSET Client /\ denied \in SUBSET Client
    /\ hooks \in 0..MaxHooks /\ faults \in 0..MaxFaults
    /\ lost \in BOOLEAN /\ crashes \in 0..MaxCrashes

Players == {c \in Client : task[c].type = "player"}

\* No Redis call has failed, no restart, and nothing is old enough to time out.
Undisturbed == faults = 0 /\ crashes = 0 /\ clock < TaskTimeout

\* Between hooks the five index structures describe the same registrations:
\* members, player total, publisher key, active_pubs and the task hashes.
IndexesAgree ==
    Quiet /\ Undisturbed =>
        /\ members = {c \in Client : Exists(c)}
        /\ total = Cardinality(Players)
        /\ \A c \in Client : task[c].type = "publisher" <=> pub = c
        /\ active <=> pub # NoClient

\* A publisher that was told SUCCESS owns the stream until its done hook.
OwnerKeepsStream ==
    Quiet /\ Undisturbed => \A c \in granted \cap Publisher : pub = c

\* The end of a stream takes all its members with it: no player stays
\* registered on a stream without publisher (RedisStreamStateManager.cpp:526
\* calls deregisterAllMembers the atomic entry of the linked cleanup).
NoOrphanPlayers == Quiet /\ Undisturbed /\ pub = NoClient => members = {}

\* A client whose registration was refused, and which holds no earlier grant,
\* has no task hash (RedisStreamStateManager.h:47), whichever single call failed,
\* provided the call was not executed.
DeniedLeavesNoTask ==
    Quiet /\ faults < 2 /\ ~lost => \A c \in denied \ granted : ~Exists(c)

\* pub:<stream> has no TTL, so it must name a client whose task exists: only
\* that client's done hook or timeout ever removes it.
PublisherBacked ==
    Undisturbed /\ pub # NoClient => task[pub].type = "publisher"

\* A task hash without TTL would never go away: it exists only while a thread is
\* about to give it one or to delete it, as long as the process lives, at most
\* one Redis call fails and a call that fails was not executed.
NoImmortalTask ==
    ~lost /\ faults < 2 /\ crashes = 0 =>
        \A c \in Client : Exists(c) /\ task[c].exp = Never =>
            \E t \in Proc : th[t].c = c /\ th[t].pc \in {"expire", "keyDel"}

\* All that registerTask writes for a publisher.
Registered(c) ==
    /\ pub = c /\ active /\ c \in members
    /\ task[c].type = "publisher" /\ task[c].exp # Never
    /\ zset[c] # NoScore

\* A publisher whose last registerTask returned true has all its keys, the TTL
\* and the timestamp included, until its next hook or its timeout: whichever
\* calls failed before, executed or not or in part, registerTask has noticed it
\* (RedisStreamStateManager.cpp:231 to 271), and no hook of a player undoes it.
SuccessMeansRegistered ==
    crashes = 0 /\ clock < TaskTimeout /\ clock < TaskTTL =>
        \A c \in (granted \ denied) \cap Publisher :
            (\A t \in Proc : th[t].c # c) => Registered(c)

\* Every registered task stays visible to the timeout scan: it has a timestamp
\* entry, or a thread is about to write one or to remove the task.
Reapable ==
    \A c \in Client : Undisturbed /\ Exists(c) /\ zset[c] = NoScore =>
        \E t \in Proc : th[t].c = c /\ ~At(t, "idle")

\* Once hooks stop coming, and unless a Redis call fails, a registered publisher
\* that never sends its done hook loses the stream to the cleanup thread, and
\* the stream's members go with it (RedisStreamStateManager.h:83: the scan reclaims
\* a timed-out task "and all its indices"; StreamTaskScheduler.cpp:240).
DeadPublisherReclaimed ==
    (/\ hooks = MaxHooks /\ Quiet /\ faults = 0
     /\ pub # NoClient /\ Exists(pub) /\ zset[pub] # NoScore
     /\ clock + TaskTimeout + ScanEvery + 2 * OpTime <= MaxTime)
    ~> (pub = NoClient /\ members = {}) \/ faults > 0

\* The uniqueness check of registerPublisherIndices
\* (RedisStreamStateManager.cpp:481) lets one client publish a stream.
OnePublisher == Cardinality(granted \cap Publisher) <= 1
=============================================================================
