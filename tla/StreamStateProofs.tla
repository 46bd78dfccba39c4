------------------------- MODULE StreamStateProofs -------------------------
(***************************************************************************)
(* Proofs about the stream registry, for any number of threads and clients *)
(* and any timing parameters: the types, that active_pubs and pub:<stream> *)
(* agree whatever fails, and that no task hash is left without a TTL.      *)
(***************************************************************************)
EXTENDS StreamState, FiniteSetTheorems, TLAPS

\* The labels at which a thread works on no particular client.
Unbound == {"idle", "all", "allGet", "allBatch", "allDel", "scanRem",
            "cleanBatch"}
\* The labels from which the thread goes on to write a task hash.
Registering == {"playLookup", "pubCheck", "playCheck", "hset"}

\* The local states a thread can be in: elsewhere the thread has a client, and
\* a thread that will write a hash knows its type.
Local ==
    {l \in [pc : Pc, c : Client \cup {NoClient}, type : Type, last : Nat,
            kind : Type, ret : {"idle", "deny", "hset", "scan"},
            ids : SUBSET Client, batch : SUBSET (Client \X Type), seen : Nat] :
        /\ l.pc \notin Unbound => l.c \in Client
        /\ l.pc \in Registering \/ l.ret = "hset" => l.type # "none"}

RedisInv ==
    /\ task \in [Client -> [type : Type, last : Nat, exp : Nat]]
    /\ \A c \in Client : task[c] # NoTask => task[c].type # "none"
    /\ pub \in Client \cup {NoClient} /\ active \in BOOLEAN
    /\ members \in SUBSET Client /\ total \in Int
    /\ zset \in [Client -> Int]

AnswerInv == granted \in SUBSET Client /\ denied \in SUBSET Client

EnvInv ==
    /\ clock \in 0..MaxTime /\ busyAt \in Int /\ busyAt <= clock
    /\ hooks \in 0..MaxHooks /\ faults \in 0..MaxFaults
    /\ lost \in BOOLEAN /\ crashes \in 0..MaxCrashes

ThreadInv == th \in [Proc -> Local]

TInv == RedisInv /\ ThreadInv /\ AnswerInv /\ EnvInv
-----------------------------------------------------------------------------
(* The control operators keep every thread in a legal local state. *)

\* An idle thread is a legal one.
LEMMA IdleLocal == Idle \in Local
BY DEF Idle, Local, Pc, Type, Unbound, Registering

\* Replacing the local state of one thread by a legal one keeps all legal.
LEMMA BecomeLocal ==
    ASSUME ThreadInv, AnswerInv, NEW t \in Proc, NEW l \in Local, Become(t, l)
    PROVE  ThreadInv' /\ AnswerInv'
BY DEF ThreadInv, AnswerInv, Become, answers

\* A legal local state moved to a label that asks for no more.
LEMMA MoveLocal ==
    ASSUME NEW l \in Local, NEW label \in Pc, label \in Unbound \/ l.c \in Client,
           label \in Registering => l.type # "none"
    PROVE  [l EXCEPT !.pc = label] \in Local
BY DEF Local

\* The move of a thread to such a label.
LEMMA GotoLocal ==
    ASSUME ThreadInv, AnswerInv, NEW t \in Proc, NEW label \in Pc,
           label \in Unbound \/ th[t].c \in Client,
           label \in Registering => th[t].type # "none", Goto(t, label)
    PROVE  ThreadInv' /\ AnswerInv'
<1>1. th[t] \in Local
  BY DEF ThreadInv
<1>2. [th[t] EXCEPT !.pc = label] \in Local
  BY <1>1, MoveLocal
<1> QED
  BY <1>2, BecomeLocal DEF Goto

\* Returning from the handler, with or without an answer to the client.
LEMMA ReturnLocal ==
    ASSUME ThreadInv, AnswerInv, NEW t \in Proc,
           \/ Return(t)
           \/ th[t].c \in Client /\ (Deny(t) \/ Grant(t))
    PROVE  ThreadInv' /\ AnswerInv'
BY IdleLocal DEF Return, Become, Deny, Grant, ThreadInv, AnswerInv, answers

\* Calling deregisterTask.
LEMMA CallLocal ==
    ASSUME ThreadInv, AnswerInv, NEW t \in Proc,
           NEW ret \in {"idle", "deny", "hset", "scan"},
           th[t].c \in Client, ret = "hset" => th[t].type # "none",
           CallDeregister(t, ret)
    PROVE  ThreadInv' /\ AnswerInv'
<1> DEFINE l == th[t]
<1>1. l \in Local /\ l.c \in Client /\ (ret = "hset" => l.type # "none")
  BY DEF ThreadInv
<1>2. Become(t, [l EXCEPT !.pc = "dereg", !.ret = ret])
  BY DEF CallDeregister
<1> HIDE DEF l
<1>3. [l EXCEPT !.pc = "dereg", !.ret = ret] \in Local
  BY <1>1, ZenonT(60) DEF Local, Pc, Unbound, Registering
<1> QED
  BY <1>2, <1>3, BecomeLocal

\* The next iteration of the cleanup pass.
LEMMA LoopLocal ==
    ASSUME NEW l \in Local
    PROVE  ScanLoop(l) \in Local /\ AfterCleanBatch(l) \in Local
<1>1. [l EXCEPT !.pc = "scanRem"] \in Local
  BY DEF Local, Pc, Unbound, Registering
<1>2. [l EXCEPT !.pc = "cleanBatch"] \in Local
  BY DEF Local, Pc, Unbound, Registering
<1>3. [l EXCEPT !.pc = "all", !.batch = {}] \in Local
  BY ZenonT(60) DEF Local, Pc, Unbound, Registering
<1> QED
  BY <1>1, <1>2, <1>3, IdleLocal DEF ScanLoop, AfterCleanBatch

\* The next iteration of deregisterAllMembers.
LEMMA NextLocal ==
    ASSUME NEW l \in Local, NEW c \in Client, NEW found \in SUBSET (Client \X Type)
    PROVE  AllNext(l, c, found) \in Local
<1> DEFINE label == IF l.ids = {c} THEN "allBatch" ELSE "allGet"
           rest == l.ids \ {c}
           more == l.batch \cup found
<1>1. label \in Pc \cap Unbound /\ label \notin Registering
  BY DEF Pc, Unbound, Registering
<1>2. rest \in SUBSET Client /\ more \in SUBSET (Client \X Type)
  BY DEF Local
<1>3. AllNext(l, c, found) = [l EXCEPT !.pc = label, !.ids = rest, !.batch = more]
  BY DEF AllNext, Local
<1> HIDE DEF label, rest, more
<1> QED
  BY <1>1, <1>2, <1>3 DEF Local

\* Returning from deregisterTask to its caller.
LEMMA DeregisterLocal ==
    ASSUME ThreadInv, AnswerInv, NEW t \in Proc,
           th[t].c \in Client, ReturnFromDeregister(t)
    PROVE  ThreadInv' /\ AnswerInv'
<1>1. th[t] \in Local
  BY DEF ThreadInv
<1>2. CASE th[t].ret = "deny" /\ Deny(t)
  BY <1>2, ReturnLocal
<1>3. CASE th[t].ret = "hset" /\ Goto(t, "hset")
  <2>1. th[t].type # "none" /\ "hset" \in Pc
    BY <1>1, <1>3 DEF Local, Pc
  <2> QED
    BY <1>3, <2>1, GotoLocal
<1>4. CASE Become(t, ScanLoop(th[t]))
  BY <1>1, <1>4, LoopLocal, BecomeLocal
<1>5. CASE Return(t)
  BY <1>5, ReturnLocal
<1> QED
  BY <1>2, <1>3, <1>4, <1>5 DEF ReturnFromDeregister
-----------------------------------------------------------------------------
(* The Redis commands keep the types of the keys. *)

\* Commands on the task hashes.
LEMMA HashCommands ==
    ASSUME RedisInv, EnvInv, NEW c \in Client,
           \/ \E type \in Type \ {"none"}, last \in Nat : SetHash(c, type, last)
           \/ SetExpiry(c) \/ DelHash(c)
    PROVE  RedisInv'
<1> USE TimeAssumption, BoundAssumption
<1>1. ASSUME NEW type \in Type \ {"none"}, NEW last \in Nat,
             SetHash(c, type, last)
      PROVE  RedisInv'
  <2>1. Never \in Nat
    BY DEF Never
  <2>2. (IF Exists(c) THEN task[c].exp ELSE Never) \in Nat
    BY <2>1 DEF RedisInv
  <2> QED
    BY <1>1, <2>2 DEF SetHash, RedisInv
<1>2. CASE SetExpiry(c)
  <2>1. clock + TaskTTL \in Nat
    BY DEF EnvInv
  <2> QED
    BY <1>2, <2>1 DEF SetExpiry, RedisInv, Exists
<1>3. CASE DelHash(c)
  BY <1>3 DEF DelHash, RedisInv, NoTask, Type
<1> QED
  BY <1>1, <1>2, <1>3

\* Commands on the other keys.
LEMMA IndexCommands ==
    ASSUME RedisInv, NEW c \in Client,
           \/ WriteIndices(c) \/ WriteIndicesPart(c)
           \/ AddMember(c) \/ DelMembers \/ IncrBy(1)
           \/ \E score \in Int : SetScore(c, score)
    PROVE  RedisInv'
<1>1. CASE WriteIndices(c) \/ WriteIndicesPart(c)
  BY <1>1 DEF RedisInv, WriteIndices, WriteIndicesPart
<1>2. CASE AddMember(c)
  BY <1>2 DEF RedisInv, AddMember
<1>3. CASE DelMembers
  BY <1>3 DEF RedisInv, DelMembers
<1>4. CASE IncrBy(1)
  BY <1>4 DEF RedisInv, IncrBy
<1>5. ASSUME NEW score \in Int, SetScore(c, score) PROVE RedisInv'
  BY <1>5 DEF RedisInv, SetScore
<1> QED
  BY <1>1, <1>2, <1>3, <1>4, <1>5

\* A set of tasks holds a natural number of players.
LEMMA PlayersCounted ==
    ASSUME NEW b \in SUBSET (Client \X Type)
    PROVE  Cardinality({x \in b : x[2] = "player"}) \in Nat
<1> DEFINE players == {x \in b : x[2] = "player"}
<1>1. IsFiniteSet(Type)
  <2>1. IsFiniteSet({"none"}) /\ IsFiniteSet({"publisher"}) /\ IsFiniteSet({"player"})
    BY FS_Singleton
  <2>2. Type = ({"none"} \cup {"publisher"}) \cup {"player"}
    BY DEF Type
  <2> QED
    BY <2>1, <2>2, FS_Union
<1>2. IsFiniteSet(Client \X Type)
  BY <1>1, ClientAssumption, FS_Product
<1>3. players \in SUBSET (Client \X Type)
  OBVIOUS
<1> QED
  BY <1>2, <1>3, FS_Subset, FS_CardinalityType

\* The pipeline of deregisterTasksBatch.
LEMMA BatchCommand ==
    ASSUME RedisInv, NEW b \in SUBSET (Client \X Type), Batch(b)
    PROVE  RedisInv'
<1>1. total' \in Int
  <2> DEFINE n == Cardinality({x \in b : x[2] = "player"})
  <2>1. total' = total - n
    BY DEF Batch
  <2>2. n \in Nat
    BY PlayersCounted
  <2> QED
    BY <2>1, <2>2 DEF RedisInv
<1>2. task' \in [Client -> [type : Type, last : Nat, exp : Nat]]
  BY DEF Batch, RedisInv, NoTask, Type
<1>3. \A c \in Client : task'[c] # NoTask => task'[c].type # "none"
  BY DEF Batch, RedisInv
<1> QED
  BY <1>1, <1>2, <1>3 DEF Batch, RedisInv

\* A first part of that pipeline: it deletes nothing that the whole does not.
LEMMA PartCommand ==
    ASSUME RedisInv, NEW b \in SUBSET (Client \X Type), BatchPart(b)
    PROVE  /\ RedisInv' /\ UNCHANGED zset /\ members' \subseteq members
           /\ \A c \in Client :
                \/ task'[c] = task[c] /\ (c \in members => c \in members')
                \/ /\ task'[c] = task[c] \/ task'[c] = NoTask
                   /\ \E x \in b : x[1] = c
           /\ pub' # pub => pub' = NoClient /\ \E x \in b : x[2] = "publisher"
           /\ active /\ ~active' => \E x \in b : x[2] = "publisher"
<1>1. PICK done \in SUBSET b, x \in b, n \in 0..3 :
        LET gone == {y[1] : y \in done}
            ends == \E y \in done : y[2] = "publisher"
        IN  /\ n = 3 => x[2] = "publisher"
            /\ task' = [c \in Client |->
                   IF c \in gone \/ (n >= 1 /\ c = x[1]) THEN NoTask ELSE task[c]]
            /\ members' = members \ (gone \cup IF n >= 2 THEN {x[1]} ELSE {})
            /\ total' = total - Cardinality({y \in done : y[2] = "player"})
            /\ pub' = IF ends \/ n = 3 THEN NoClient ELSE pub
            /\ active' = (active /\ ~ends)
            /\ UNCHANGED zset
  BY DEF BatchPart
<1> DEFINE gone == {y[1] : y \in done}
           ends == \E y \in done : y[2] = "publisher"
<1>2. /\ task' = [c \in Client |->
           IF c \in gone \/ (n >= 1 /\ c = x[1]) THEN NoTask ELSE task[c]]
      /\ members' = members \ (gone \cup IF n >= 2 THEN {x[1]} ELSE {})
      /\ UNCHANGED zset
  BY <1>1
<1>3. /\ pub' = IF ends \/ n = 3 THEN NoClient ELSE pub
      /\ n = 3 => x[2] = "publisher"
  BY <1>1
<1>4. active' = (active /\ ~ends)
  BY <1>1
<1>5. total' \in Int
  <2> DEFINE k == Cardinality({y \in done : y[2] = "player"})
  <2>1. total' = total - k
    BY <1>1
  <2>2. done \in SUBSET (Client \X Type)
    OBVIOUS
  <2>3. k \in Nat
    BY <2>2, PlayersCounted
  <2> QED
    BY <2>1, <2>3 DEF RedisInv
<1>6. \A c \in gone \cup {x[1]} : \E y \in b : y[1] = c
  OBVIOUS
<1>7. ends => \E y \in b : y[2] = "publisher"
  OBVIOUS
<1> HIDE DEF gone, ends
<1>8. task' \in [Client -> [type : Type, last : Nat, exp : Nat]]
  BY <1>2 DEF RedisInv, NoTask, Type
<1>9. \A c \in Client : task'[c] # NoTask => task'[c].type # "none"
  BY <1>2 DEF RedisInv
<1>10. active' \in BOOLEAN
  BY <1>4, Zenon
<1>11. members' \subseteq members /\ members' \in SUBSET Client
  BY <1>2 DEF RedisInv
<1>12. RedisInv'
  BY <1>2, <1>3, <1>5, <1>8, <1>9, <1>10, <1>11 DEF RedisInv
<1>13. \A c \in Client :
         \/ task'[c] = task[c] /\ (c \in members => c \in members')
         \/ /\ task'[c] = task[c] \/ task'[c] = NoTask
            /\ c \in gone \cup {x[1]}
  BY <1>2
<1>14. pub' # pub => pub' = NoClient /\ \E y \in b : y[2] = "publisher"
  BY <1>3, <1>7
<1>15. active /\ ~active' => \E y \in b : y[2] = "publisher"
  BY <1>4, <1>7, Zenon
<1> QED
  BY <1>2, <1>6, <1>11, <1>12, <1>13, <1>14, <1>15
-----------------------------------------------------------------------------
(* Type correctness, action by action. *)

\* Untouched variables keep their types.
LEMMA Keep ==
    /\ RedisInv /\ UNCHANGED redis => RedisInv'
    /\ EnvInv /\ UNCHANGED env => EnvInv'
    /\ AnswerInv /\ UNCHANGED answers => AnswerInv'
BY DEF RedisInv, EnvInv, AnswerInv, redis, env, answers

\* What a legal local state offers to the action at its label.
LEMMA LocalFacts ==
    ASSUME ThreadInv, NEW t \in Proc
    PROVE  /\ th[t] \in Local
           /\ th[t].pc \notin Unbound => th[t].c \in Client
           /\ th[t].pc \in Registering => th[t].type \in Type \ {"none"}
           /\ th[t].last \in Nat /\ th[t].seen \in Nat
           /\ th[t].kind \in Type
           /\ th[t].batch \in SUBSET (Client \X Type)
           /\ th[t].ids \in SUBSET Client
BY DEF ThreadInv, Local

\* A hook is received.
LEMMA HookStep ==
    ASSUME TInv, NEW t \in Proc, NEW c \in Client,
           OnPublish(t, c) \/ OnPlay(t, c) \/ OnPublishDone(t, c) \/ OnPlayDone(t, c)
    PROVE  TInv'
<1> DEFINE Entry(label, type) == [Idle EXCEPT !.pc = label, !.c = c,
                                              !.type = type, !.last = clock]
<1>1. clock \in Nat
  BY BoundAssumption DEF TInv, EnvInv
<1>2. /\ Entry("pubCheck", "publisher") \in Local
      /\ Entry("playLookup", "player") \in Local
  BY <1>1, ZenonT(60) DEF Idle, Local, Pc, Type, Unbound, Registering
<1>3. /\ Entry("doneGet", "none") \in Local
      /\ Entry("dereg", "none") \in Local
  BY <1>1, ZenonT(60) DEF Idle, Local, Pc, Type, Unbound, Registering
<1>4. \E l \in Local : th' = [th EXCEPT ![t] = l]
  BY <1>2, <1>3 DEF OnPublish, OnPlay, OnPublishDone, OnPlayDone, Begin
<1>5. ThreadInv'
  BY <1>4 DEF TInv, ThreadInv
<1>6. AnswerInv'
  BY DEF TInv, AnswerInv, OnPublish, OnPlay, OnPublishDone, OnPlayDone
<1>7. HookArrives(t, c)
  BY DEF OnPublish, OnPlay, OnPublishDone, OnPlayDone
<1>8. RedisInv'
  BY <1>7, Keep DEF TInv, HookArrives
<1>9. EnvInv'
  BY <1>7, BoundAssumption DEF TInv, EnvInv, HookArrives
<1> QED
  BY <1>5, <1>6, <1>8, <1>9 DEF TInv

\* The reads that decide how a hook goes on.
LEMMA ReadStep ==
    ASSUME TInv, NEW t \in Proc,
           \/ PlayLookup(t) \/ DoneGet(t) \/ PubCheck(t) \/ PlayCheck(t)
           \/ IndexCheck(t) \/ DeregGet(t) \/ AllMembers(t)
           \/ \E c \in Client : AllGet(t, c)
    PROVE  TInv'
<1> USE DEF Pc, Unbound, Registering
<1> DEFINE l == th[t]
<1>1. /\ l \in Local
      /\ l.pc \notin Unbound => l.c \in Client
      /\ l.pc \in Registering => l.type # "none"
      /\ l.ids \in SUBSET Client /\ l.batch \in SUBSET (Client \X Type)
  BY LocalFacts DEF TInv
<1>2. RedisInv' /\ EnvInv'
  BY Keep DEF TInv, PlayLookup, DoneGet, PubCheck, PlayCheck, IndexCheck,
              DeregGet, AllMembers, AllGet
<1>3. RedisInv /\ ThreadInv /\ AnswerInv /\ clock \in Nat
  BY BoundAssumption DEF TInv, EnvInv
<1>4. CASE PlayLookup(t)
  <2>1. CASE Return(t)
    BY <1>2, <1>3, <2>1, ReturnLocal DEF TInv
  <2>2. CASE Become(t, [l EXCEPT !.pc = "playCheck", !.last = clock])
    <3>1. l.c \in Client /\ l.type # "none"
      BY <1>1, <1>4 DEF PlayLookup, At
    <3> HIDE DEF l
    <3>2. [l EXCEPT !.pc = "playCheck", !.last = clock] \in Local
      BY <1>1, <1>3, <3>1 DEF Local
    <3> QED
      BY <1>2, <1>3, <2>2, <3>2, BecomeLocal DEF TInv
  <2> QED
    BY <1>4, <2>1, <2>2 DEF PlayLookup
<1>5. CASE DoneGet(t)
  BY <1>2, <1>3, <1>5, ReturnLocal, GotoLocal DEF DoneGet, TInv
<1>6. CASE PubCheck(t)
  <2>1. l.c \in Client /\ l.type # "none"
    BY <1>1, <1>6 DEF PubCheck, At
  <2> QED
    BY <1>2, <1>3, <1>6, <2>1, ReturnLocal, CallLocal, GotoLocal DEF PubCheck, TInv
<1>7. CASE PlayCheck(t)
  <2>1. l.c \in Client /\ l.type # "none"
    BY <1>1, <1>7 DEF PlayCheck, At
  <2> QED
    BY <1>2, <1>3, <1>7, <2>1, CallLocal, GotoLocal DEF PlayCheck, TInv
<1>8. CASE IndexCheck(t)
  <2>1. l.c \in Client
    BY <1>1, <1>8 DEF IndexCheck, At
  <2> QED
    BY <1>2, <1>3, <1>8, <2>1, CallLocal, GotoLocal DEF IndexCheck, TInv
<1>9. CASE DeregGet(t)
  <2> DEFINE label == IF Exists(l.c) THEN "deregBatch" ELSE "deregZrem"
             kind == task[l.c].type
  <2>1. l.c \in Client /\ kind \in Type /\ label \in {"deregBatch", "deregZrem"}
    BY <1>1, <1>3, <1>9 DEF DeregGet, At, RedisInv
  <2>2. Become(t, [l EXCEPT !.pc = label, !.kind = kind])
    BY <1>9 DEF DeregGet
  <2> HIDE DEF l, label, kind
  <2>3. [l EXCEPT !.pc = label, !.kind = kind] \in Local
    BY <1>1, <2>1, ZenonT(60) DEF Local
  <2> QED
    BY <1>2, <1>3, <2>2, <2>3, BecomeLocal DEF TInv
<1>10. CASE AllMembers(t)
  <2> DEFINE label == IF members = {} THEN "allDel" ELSE "allGet"
  <2>1. label \in {"allDel", "allGet"} /\ members \in SUBSET Client
    BY <1>3 DEF RedisInv
  <2>2. Become(t, [l EXCEPT !.pc = label, !.ids = members, !.batch = {}])
    BY <1>10 DEF AllMembers
  <2> HIDE DEF l, label
  <2>3. [l EXCEPT !.pc = label, !.ids = members, !.batch = {}] \in Local
    BY <1>1, <2>1, ZenonT(60) DEF Local
  <2> QED
    BY <1>2, <1>3, <2>2, <2>3, BecomeLocal DEF TInv
<1>11. ASSUME NEW c \in Client, AllGet(t, c) PROVE TInv'
  <2> DEFINE found == IF Exists(c) THEN {<<c, task[c].type>>} ELSE {}
  <2>1. found \in SUBSET (Client \X Type)
    BY <1>3 DEF RedisInv
  <2>2. Become(t, AllNext(l, c, found))
    BY <1>11 DEF AllGet
  <2>3. AllNext(l, c, found) \in Local
    BY <1>1, <2>1, NextLocal
  <2> QED
    BY <1>2, <1>3, <2>2, <2>3, BecomeLocal DEF TInv
<1> QED
  BY <1>4, <1>5, <1>6, <1>7, <1>8, <1>9, <1>10, <1>11

\* The writes of registerTask, deregisterTask and deregisterAllMembers.
LEMMA WriteStep ==
    ASSUME TInv, NEW t \in Proc,
           \/ HashSet(t) \/ KeyExpire(t) \/ KeyDel(t) \/ IndexWrite(t)
           \/ SetAdd(t) \/ IncrTotal(t) \/ ZsetAdd(t) \/ DeregZrem(t)
           \/ DeregBatch(t) \/ AllBatch(t) \/ AllDel(t)
    PROVE  TInv'
<1> USE DEF Pc, Unbound, Registering, At
<1> DEFINE l == th[t]
<1>1. /\ l.pc \notin Unbound => l.c \in Client
      /\ l.pc \in Registering => l.type \in Type \ {"none"}
      /\ l.last \in Nat /\ l.kind \in Type
      /\ l.batch \in SUBSET (Client \X Type)
  BY LocalFacts DEF TInv
<1>2. RedisInv /\ EnvInv /\ ThreadInv /\ AnswerInv /\ clock \in Nat
  BY BoundAssumption DEF TInv, EnvInv
<1>3. EnvInv'
  BY <1>2, Keep DEF HashSet, KeyExpire, KeyDel, IndexWrite, SetAdd, IncrTotal,
                    ZsetAdd, DeregZrem, DeregBatch, AllBatch, AllDel
<1>4. CASE HashSet(t)
  <2>1. l.c \in Client /\ l.type \in Type \ {"none"}
    BY <1>1, <1>4 DEF HashSet
  <2>2. RedisInv'
    BY <1>1, <1>2, <1>4, <2>1, HashCommands DEF HashSet
  <2> QED
    BY <1>2, <1>3, <1>4, <2>1, <2>2, GotoLocal DEF HashSet, TInv
<1>5. CASE KeyExpire(t)
  <2>1. l.c \in Client
    BY <1>1, <1>5 DEF KeyExpire
  <2>2. RedisInv'
    BY <1>2, <1>5, <2>1, HashCommands, Keep DEF KeyExpire
  <2>3. \E label \in {"index", "sadd", "keyDel"} : Goto(t, label)
    BY <1>5 DEF KeyExpire
  <2> QED
    BY <1>2, <1>3, <2>1, <2>2, <2>3, GotoLocal DEF TInv
<1>6. CASE KeyDel(t)
  <2>1. l.c \in Client
    BY <1>1, <1>6 DEF KeyDel
  <2>2. RedisInv'
    BY <1>2, <1>6, <2>1, HashCommands DEF KeyDel
  <2> QED
    BY <1>2, <1>3, <1>6, <2>1, <2>2, ReturnLocal DEF KeyDel, TInv
<1>7. CASE IndexWrite(t) \/ SetAdd(t) \/ IncrTotal(t)
  <2>1. l.c \in Client
    BY <1>1, <1>7 DEF IndexWrite, SetAdd, IncrTotal
  <2>2. RedisInv'
    BY <1>2, <1>7, <2>1, IndexCommands DEF IndexWrite, SetAdd, IncrTotal
  <2> QED
    BY <1>2, <1>3, <1>7, <2>1, <2>2, GotoLocal DEF IndexWrite, SetAdd, IncrTotal, TInv
<1>8. CASE ZsetAdd(t)
  <2>1. l.c \in Client
    BY <1>1, <1>8 DEF ZsetAdd
  <2>2. RedisInv'
    BY <1>2, <1>8, <2>1, IndexCommands DEF ZsetAdd
  <2> QED
    BY <1>2, <1>3, <1>8, <2>1, <2>2, ReturnLocal DEF ZsetAdd, TInv
<1>9. CASE DeregZrem(t)
  <2>1. l.c \in Client /\ NoScore \in Int
    BY <1>1, <1>9 DEF DeregZrem, NoScore
  <2>2. RedisInv'
    BY <1>2, <1>9, <2>1, IndexCommands DEF DeregZrem
  <2> QED
    BY <1>2, <1>3, <1>9, <2>1, <2>2, DeregisterLocal DEF DeregZrem, TInv
<1>10. CASE DeregBatch(t)
  <2>1. l.c \in Client /\ {<<l.c, l.kind>>} \in SUBSET (Client \X Type)
    BY <1>1, <1>10 DEF DeregBatch
  <2>2. RedisInv'
    BY <1>2, <1>10, <2>1, BatchCommand DEF DeregBatch
  <2> QED
    BY <1>2, <1>3, <1>10, <2>1, <2>2, DeregisterLocal DEF DeregBatch, TInv
<1>11. CASE AllBatch(t)
  <2>1. RedisInv'
    BY <1>1, <1>2, <1>11, BatchCommand DEF AllBatch
  <2> QED
    BY <1>2, <1>3, <1>11, <2>1, GotoLocal DEF AllBatch, TInv
<1>12. CASE AllDel(t)
  <2>1. RedisInv'
    BY <1>2, <1>12 DEF AllDel, DelMembers, RedisInv
  <2> QED
    BY <1>2, <1>3, <1>12, <2>1, ReturnLocal DEF AllDel, TInv
<1> QED
  BY <1>4, <1>5, <1>6, <1>7, <1>8, <1>9, <1>10, <1>11, <1>12

\* The cleanup thread.
LEMMA CleanupStep == TInv /\ CleanupThread => TInv'
<1> SUFFICES ASSUME TInv, CleanupThread PROVE TInv'
  OBVIOUS
<1> USE DEF Pc, Unbound, Registering, At
<1> DEFINE l == th[Cleaner]
<1>1. /\ Cleaner \in Proc /\ l \in Local
      /\ l.pc \notin Unbound => l.c \in Client
      /\ l.last \in Nat /\ l.seen \in Nat
      /\ l.batch \in SUBSET (Client \X Type) /\ l.ids \in SUBSET Client
  BY LocalFacts DEF TInv, Proc
<1>2. RedisInv /\ EnvInv /\ ThreadInv /\ AnswerInv /\ clock \in Nat
  BY BoundAssumption DEF TInv, EnvInv
<1>3. CASE Scan
  <2> DEFINE old == {c \in Client : zset[c] \in 0..(clock - TaskTimeout)}
  <2>1. Become(Cleaner, ScanLoop([Idle EXCEPT !.ids = old, !.last = clock]))
    BY <1>3 DEF Scan
  <2>2. old \in SUBSET Client
    OBVIOUS
  <2> HIDE DEF old
  <2>3. [Idle EXCEPT !.ids = old, !.last = clock] \in Local
    BY <1>2, <2>2 DEF Idle, Local, Type
  <2>4. ThreadInv' /\ AnswerInv'
    BY <1>1, <1>2, <2>1, <2>3, LoopLocal, BecomeLocal
  <2>5. RedisInv' /\ EnvInv'
    BY <1>2, <1>3, Keep DEF Scan, EnvInv
  <2> QED
    BY <2>4, <2>5 DEF TInv
<1>4. ASSUME NEW c \in Client, ScanRem(c) PROVE TInv'
  <2> DEFINE k == [l EXCEPT !.ids = @ \ {c}]
             m == [k EXCEPT !.pc = "scanGet", !.c = c]
  <2>1. Become(Cleaner, IF zset[c] # NoScore THEN m ELSE ScanLoop(k))
    BY <1>4 DEF ScanRem
  <2>2. k \in Local
    <3> HIDE DEF l
    <3> QED
      BY <1>1 DEF Local
  <2> HIDE DEF k
  <2>3. m \in Local
    BY <2>2, ZenonT(60) DEF Local
  <2> HIDE DEF m
  <2>4. ThreadInv' /\ AnswerInv'
    BY <1>1, <1>2, <2>1, <2>2, <2>3, LoopLocal, BecomeLocal
  <2>5. RedisInv' /\ EnvInv'
    <3>1. SetScore(c, NoScore) /\ NoScore \in Int /\ UNCHANGED env
      BY <1>4 DEF ScanRem, NoScore
    <3> QED
      BY <1>2, <3>1, Keep, IndexCommands
  <2> QED
    BY <2>4, <2>5 DEF TInv
<1>5. CASE ScanGet
  <2> DEFINE last == task[l.c].last
             entry == {<<l.c, task[l.c].type>>}
             back == [l EXCEPT !.pc = "scanBack", !.seen = last]
             dead == [l EXCEPT !.pc = "dereg", !.ret = "scan",
                               !.batch = @ \cup entry]
  <2>1. l.c \in Client
    BY <1>1, <1>5 DEF ScanGet
  <2>2. last \in Nat /\ entry \in SUBSET (Client \X Type)
    BY <1>2, <2>1 DEF RedisInv
  <2>3. \/ Become(Cleaner, ScanLoop(l)) \/ Become(Cleaner, back)
        \/ Become(Cleaner, dead)
    BY <1>5 DEF ScanGet
  <2> HIDE DEF l, last, entry
  <2>4. back \in Local
    BY <1>1, <2>1, <2>2, ZenonT(60) DEF Local
  <2>5. dead \in Local
    <3> DEFINE more == l.batch \cup entry
    <3>1. more \in SUBSET (Client \X Type)
      BY <1>1, <2>2
    <3>2. dead = [l EXCEPT !.pc = "dereg", !.ret = "scan", !.batch = more]
      BY <1>1 DEF Local
    <3> HIDE DEF more
    <3> QED
      BY <1>1, <2>1, <3>1, <3>2, ZenonT(60) DEF Local
  <2> HIDE DEF back, dead
  <2>6. ThreadInv' /\ AnswerInv'
    BY <1>1, <1>2, <2>3, <2>4, <2>5, LoopLocal, BecomeLocal
  <2>7. RedisInv' /\ EnvInv'
    BY <1>2, <1>5, Keep DEF ScanGet
  <2> QED
    BY <2>6, <2>7 DEF TInv
<1>6. CASE ScanBack
  <2>1. l.c \in Client /\ l.seen \in Int
    BY <1>1, <1>6 DEF ScanBack
  <2>2. RedisInv' /\ EnvInv'
    BY <1>2, <1>6, <2>1, Keep, IndexCommands DEF ScanBack
  <2>3. ThreadInv' /\ AnswerInv'
    BY <1>1, <1>2, <1>6, LoopLocal, BecomeLocal DEF ScanBack
  <2> QED
    BY <2>2, <2>3 DEF TInv
<1>7. CASE CleanBatch
  <2>1. RedisInv' /\ EnvInv'
    BY <1>1, <1>2, <1>7, Keep, BatchCommand DEF CleanBatch
  <2>2. ThreadInv' /\ AnswerInv'
    BY <1>1, <1>2, <1>7, LoopLocal, BecomeLocal DEF CleanBatch
  <2> QED
    BY <2>1, <2>2 DEF TInv
<1> QED
  BY <1>3, <1>4, <1>5, <1>6, <1>7 DEF CleanupThread

\* A Redis call that fails, executed or not.
LEMMA ErrorStep == ASSUME TInv, NEW t \in Proc, RedisError(t) PROVE TInv'
<1> USE DEF Pc, Unbound, Registering, At
<1> DEFINE l == th[t]
<1>1. /\ l \in Local
      /\ l.pc \notin Unbound => l.c \in Client
      /\ l.pc \in Registering => l.type \in Type \ {"none"}
      /\ l.last \in Nat /\ l.seen \in Nat /\ l.kind \in Type
      /\ l.batch \in SUBSET (Client \X Type) /\ l.ids \in SUBSET Client
  BY LocalFacts DEF TInv
<1>2. RedisInv /\ EnvInv /\ ThreadInv /\ AnswerInv /\ clock \in Nat
  BY BoundAssumption DEF TInv, EnvInv
<1>3. EnvInv'
  <2>1. lost' \in BOOLEAN
    BY <1>2, Zenon DEF RedisError, EnvInv
  <2>2. /\ clock' = clock /\ busyAt' = busyAt /\ hooks' = hooks
        /\ crashes' = crashes /\ faults' \in 0..MaxFaults
    BY <1>2, BoundAssumption DEF RedisError, EnvInv
  <2> QED
    BY <1>2, <2>1, <2>2 DEF EnvInv
<1>4. ASSUME Executed(t) PROVE RedisInv'
  <2>1. CASE At(t, "hset") /\ SetHash(l.c, l.type, l.last)
    <3>1. l.c \in Client /\ l.type \in Type \ {"none"}
      BY <1>1, <2>1
    <3> QED
      BY <1>1, <1>2, <2>1, <3>1, HashCommands
  <2>2. CASE At(t, "expire") /\ SetExpiry(l.c)
    BY <1>1, <1>2, <2>2, HashCommands
  <2>3. CASE At(t, "keyDel") /\ DelHash(l.c)
    BY <1>1, <1>2, <2>3, HashCommands
  <2>4. CASE \/ At(t, "indexWrite") /\ WriteIndices(l.c)
             \/ At(t, "sadd") /\ AddMember(l.c)
             \/ At(t, "incr") /\ IncrBy(1)
    BY <1>1, <1>2, <2>4, IndexCommands
  <2>5. CASE \/ At(t, "zadd") /\ SetScore(l.c, clock)
             \/ At(t, "scanBack") /\ SetScore(l.c, l.seen)
             \/ At(t, "deregZrem") /\ SetScore(l.c, NoScore)
    <3>1. l.c \in Client
      BY <1>1, <2>5
    <3>2. \E score \in Int : SetScore(l.c, score)
      BY <1>1, <1>2, <2>5 DEF NoScore
    <3> QED
      BY <1>2, <3>1, <3>2, IndexCommands
  <2>6. CASE At(t, "deregBatch") /\ Batch({<<l.c, l.kind>>})
    <3>1. {<<l.c, l.kind>>} \in SUBSET (Client \X Type)
      BY <1>1, <2>6
    <3> QED
      BY <1>2, <2>6, <3>1, BatchCommand
  <2>7. CASE Batch(l.batch)
    BY <1>1, <1>2, <2>7, BatchCommand
  <2>8. CASE DelMembers
    BY <1>2, <2>8 DEF DelMembers, RedisInv
  <2> QED
    BY <1>4, <2>1, <2>2, <2>3, <2>4, <2>5, <2>6, <2>7, <2>8 DEF Executed
<1>5. ASSUME PartlyExecuted(t) PROVE RedisInv'
  <2>1. CASE At(t, "indexWrite") /\ WriteIndicesPart(l.c)
    BY <1>1, <1>2, <2>1, IndexCommands
  <2>2. CASE At(t, "deregBatch") /\ BatchPart({<<l.c, l.kind>>})
    <3>1. {<<l.c, l.kind>>} \in SUBSET (Client \X Type)
      BY <1>1, <2>2
    <3> QED
      BY <1>2, <2>2, <3>1, PartCommand
  <2>3. CASE BatchPart(l.batch)
    BY <1>1, <1>2, <2>3, PartCommand
  <2> QED
    BY <1>5, <2>1, <2>2, <2>3 DEF PartlyExecuted
<1>6. RedisInv'
  BY <1>2, <1>4, <1>5, Keep DEF RedisError
<1>7. ThreadInv' /\ AnswerInv'
  <2>1. CASE l.pc \in {"pubCheck", "playCheck"} /\ Goto(t, "hset")
    BY <1>1, <1>2, <2>1, GotoLocal
  <2>2. CASE l.pc \in {"hset", "keyDel"} /\ Deny(t)
    BY <1>1, <1>2, <2>2, ReturnLocal
  <2>3. CASE At(t, "expire") /\ Goto(t, "keyDel")
    BY <1>1, <1>2, <2>3, GotoLocal
  <2>4. CASE At(t, "index") /\ Goto(t, "indexWrite")
    BY <1>1, <1>2, <2>4, GotoLocal
  <2>5. CASE l.pc \in {"indexWrite", "sadd", "zadd"} /\ CallDeregister(t, "deny")
    BY <1>1, <1>2, <2>5, CallLocal
  <2>6. CASE At(t, "incr") /\ Goto(t, "zadd")
    BY <1>1, <1>2, <2>6, GotoLocal
  <2>7. CASE At(t, "dereg") /\ Goto(t, "deregZrem")
    BY <1>1, <1>2, <2>7, GotoLocal
  <2>8. CASE l.pc \in {"deregZrem", "deregBatch"} /\ ReturnFromDeregister(t)
    BY <1>1, <1>2, <2>8, DeregisterLocal
  <2>9. CASE l.pc \in {"all", "allBatch"} /\ Goto(t, "allDel")
    BY <1>1, <1>2, <2>9, GotoLocal
  <2>10. CASE At(t, "allGet") /\ \E c \in l.ids : Become(t, AllNext(l, c, {}))
    <3>1. PICK c \in Client : Become(t, AllNext(l, c, {}))
      BY <1>1, <2>10
    <3>2. AllNext(l, c, {}) \in Local
      BY <1>1, NextLocal
    <3> QED
      BY <1>2, <3>1, <3>2, BecomeLocal
  <2>11. CASE Return(t)
    BY <1>2, <2>11, ReturnLocal
  <2>12. CASE Become(t, ScanLoop(l)) \/ Become(t, AfterCleanBatch(l))
    BY <1>1, <1>2, <2>12, LoopLocal, BecomeLocal
  <2> QED
    BY <2>1, <2>2, <2>3, <2>4, <2>5, <2>6, <2>7, <2>8, <2>9, <2>10, <2>11, <2>12
       DEF RedisError, AfterError, IndexFails
<1> QED
  BY <1>3, <1>6, <1>7 DEF TInv

\* A call of the scan that fails.
LEMMA ScanErrorStep == TInv /\ ScanError => TInv'
<1> SUFFICES ASSUME TInv, ScanError PROVE TInv'
  OBVIOUS
<1>1. RedisInv /\ EnvInv /\ ThreadInv /\ AnswerInv /\ Cleaner \in Proc
  BY DEF TInv, Proc
<1>2. EnvInv'
  <2>1. lost' \in BOOLEAN
    BY <1>1, Zenon DEF ScanError, EnvInv
  <2>2. /\ clock' = clock /\ busyAt' \in {busyAt, clock} /\ hooks' = hooks
        /\ crashes' = crashes /\ faults' \in 0..MaxFaults
    BY <1>1, BoundAssumption DEF ScanError, EnvInv
  <2> QED
    BY <1>1, <2>1, <2>2 DEF EnvInv
<1>3. CASE UNCHANGED <<redis, th, answers>>
  <2>1. RedisInv' /\ AnswerInv'
    BY <1>1, <1>3, Keep
  <2> QED
    BY <1>1, <1>2, <1>3, <2>1 DEF TInv, ThreadInv
<1>4. ASSUME NEW c \in th[Cleaner].ids,
             UNCHANGED redis \/ SetScore(c, NoScore),
             Become(Cleaner, ScanLoop([th[Cleaner] EXCEPT !.ids = @ \ {c}]))
      PROVE  TInv'
  <2> DEFINE l == th[Cleaner]
             k == [l EXCEPT !.ids = @ \ {c}]
  <2>1. l \in Local /\ c \in Client
    BY <1>1, LocalFacts
  <2>2. RedisInv'
    <3>1. NoScore \in Int
      BY DEF NoScore
    <3> QED
      BY <1>1, <1>4, <2>1, <3>1, Keep, IndexCommands
  <2>3. Become(Cleaner, ScanLoop(k))
    BY <1>4
  <2>4. k \in Local
    <3> HIDE DEF l
    <3> QED
      BY <2>1 DEF Local
  <2> HIDE DEF k
  <2> QED
    BY <1>1, <1>2, <2>2, <2>3, <2>4, LoopLocal, BecomeLocal DEF TInv
<1> QED
  BY <1>3, <1>4 DEF ScanError

\* A restart of the process, and the passing of time.
LEMMA EnvironmentStep == TInv /\ (Crash \/ Tick \/ UNCHANGED vars) => TInv'
<1> SUFFICES ASSUME TInv, Crash \/ Tick \/ UNCHANGED vars PROVE TInv'
  OBVIOUS
<1> USE BoundAssumption, TimeAssumption
<1>1. CASE Crash
  <2>1. ThreadInv'
    BY <1>1, IdleLocal DEF Crash, ThreadInv
  <2>2. RedisInv' /\ AnswerInv'
    BY <1>1, Keep DEF Crash, TInv
  <2>3. EnvInv'
    BY <1>1 DEF Crash, TInv, EnvInv
  <2> QED
    BY <2>1, <2>2, <2>3 DEF TInv
<1>2. CASE Tick
  <2>1. task' \in [Client -> [type : Type, last : Nat, exp : Nat]]
    BY <1>2 DEF Tick, TInv, RedisInv, NoTask, Type
  <2>2. \A c \in Client : task'[c] # NoTask => task'[c].type # "none"
    BY <1>2 DEF Tick, TInv, RedisInv
  <2>3. RedisInv'
    BY <1>2, <2>1, <2>2 DEF Tick, TInv, RedisInv
  <2>4. EnvInv'
    BY <1>2 DEF Tick, TInv, EnvInv
  <2> QED
    BY <1>2, <2>3, <2>4, Keep DEF Tick, TInv, ThreadInv
<1>3. CASE UNCHANGED vars
  BY <1>3, Keep DEF vars, TInv, ThreadInv
<1> QED
  BY <1>1, <1>2, <1>3

\* The registry starts well typed.
LEMMA TypeInit == Init => TInv
<1> SUFFICES ASSUME Init PROVE TInv
  OBVIOUS
<1>1. RedisInv
  <2>1. zset \in [Client -> Int]
    BY DEF Init, NoScore
  <2>2. task \in [Client -> [type : Type, last : Nat, exp : Nat]]
    BY DEF Init, NoTask, Type
  <2>3. \A c \in Client : task[c] = NoTask
    BY DEF Init
  <2>4. total \in Int /\ members \in SUBSET Client
    BY DEF Init
  <2>5. active \in BOOLEAN /\ pub \in Client \cup {NoClient}
    BY Zenon DEF Init
  <2> QED
    BY <2>1, <2>2, <2>3, <2>4, <2>5, Zenon DEF RedisInv
<1>2. ThreadInv
  BY IdleLocal DEF Init, ThreadInv
<1>3. lost \in BOOLEAN
  BY Zenon DEF Init
<1> QED
  BY <1>1, <1>2, <1>3, TimeAssumption, BoundAssumption
     DEF Init, TInv, AnswerInv, EnvInv

\* Every step keeps it so.
LEMMA TypeStep == TInv /\ [Next]_vars => TInv'
<1> SUFFICES ASSUME TInv, [Next]_vars PROVE TInv'
  OBVIOUS
<1>1. ASSUME NEW t \in Thread, Hook(t) PROVE TInv'
  BY <1>1, HookStep DEF Hook, Proc, Client
<1>2. ASSUME NEW t \in Proc, Continue(t) PROVE TInv'
  BY <1>2, ReadStep, WriteStep DEF Continue
<1>3. ASSUME NEW t \in Proc, RedisError(t) PROVE TInv'
  BY <1>3, ErrorStep
<1>4. CASE CleanupThread \/ ScanError
  BY <1>4, CleanupStep, ScanErrorStep
<1>5. CASE Crash \/ Tick \/ Finished \/ UNCHANGED vars
  BY <1>5, EnvironmentStep DEF Finished
<1> QED
  BY <1>1, <1>2, <1>3, <1>4, <1>5 DEF Next

\* TInv strengthens the type invariant.
LEMMA TypeImplied == TInv => TypeOK
BY DEF TInv, TypeOK, RedisInv, ThreadInv, AnswerInv, EnvInv, Local, Exists

\* The strengthened type invariant holds throughout.
LEMMA TypesHold == Spec => []TInv
BY TypeInit, TypeStep, PTL DEF Spec

\* The registry, its threads and the answers given keep their types, and every
\* stored task hash has a type, whatever interleaves and fails.
THEOREM TypeCorrect == Spec => []TypeOK
BY TypesHold, TypeImplied, PTL
-----------------------------------------------------------------------------
(* active_pubs and pub:<stream>, as long as no call fails. *)

\* Failed calls are never forgotten.
LEMMA FaultsGrow == TInv /\ [Next]_vars /\ faults' = 0 => faults = 0
<1> SUFFICES ASSUME TInv, [Next]_vars, faults' = 0 PROVE faults = 0
  OBVIOUS
<1>1. faults \in Nat
  BY BoundAssumption DEF TInv, EnvInv
<1>2. ASSUME NEW t \in Thread, Hook(t) PROVE faults' = faults
  BY <1>2 DEF Hook, OnPublish, OnPlay, OnPublishDone, OnPlayDone, HookArrives
<1>3. ASSUME NEW t \in Proc, Continue(t) PROVE faults' = faults
  BY <1>3 DEF Continue, PlayLookup, DoneGet, PubCheck, PlayCheck, HashSet, KeyExpire,
              KeyDel, IndexCheck, IndexWrite, SetAdd, IncrTotal, ZsetAdd, DeregGet,
              DeregZrem, DeregBatch, AllMembers, AllGet, AllBatch, AllDel, env
<1>4. ASSUME NEW t \in Proc, RedisError(t) PROVE faults' # 0
  BY <1>1, <1>4 DEF RedisError
<1>5. CASE ScanError
  BY <1>1, <1>5 DEF ScanError
<1>6. CASE CleanupThread \/ Crash \/ Tick \/ Finished \/ UNCHANGED vars
  BY <1>6 DEF CleanupThread, Scan, ScanRem, ScanGet, ScanBack, CleanBatch, Crash, Tick,
              Finished, vars, env
<1> QED
  BY <1>2, <1>3, <1>4, <1>5, <1>6 DEF Next

\* Only the two pipelines touch the publisher key or active_pubs.
LEMMA IndexEffect ==
    ASSUME TInv, [Next]_vars
    PROVE  \/ faults' > 0
           \/ UNCHANGED <<pub, active>>
           \/ \E c \in Client : WriteIndices(c)
           \/ \E b \in SUBSET (Client \X Type) : Batch(b)
<1> DEFINE Goal == \/ faults' > 0
                   \/ UNCHANGED <<pub, active>>
                   \/ \E c \in Client : WriteIndices(c)
                   \/ \E b \in SUBSET (Client \X Type) : Batch(b)
<1> USE DEF redis, At
<1>1. \A t \in Proc : /\ th[t].pc \notin Unbound => th[t].c \in Client
                      /\ th[t].kind \in Type
                      /\ th[t].batch \in SUBSET (Client \X Type)
  BY LocalFacts DEF TInv
<1>2. ASSUME NEW t \in Thread, Hook(t) PROVE Goal
  BY <1>2 DEF Hook, OnPublish, OnPlay, OnPublishDone, OnPlayDone, HookArrives
<1>3. ASSUME NEW t \in Proc, Continue(t) PROVE Goal
  <2>1. CASE \/ PlayLookup(t) \/ DoneGet(t) \/ PubCheck(t) \/ PlayCheck(t)
             \/ IndexCheck(t) \/ DeregGet(t) \/ AllMembers(t)
             \/ \E c \in Client : AllGet(t, c)
    BY <2>1 DEF PlayLookup, DoneGet, PubCheck, PlayCheck, IndexCheck, DeregGet,
                AllMembers, AllGet
  <2>2. CASE \/ HashSet(t) \/ KeyExpire(t) \/ KeyDel(t) \/ SetAdd(t)
             \/ IncrTotal(t) \/ ZsetAdd(t) \/ DeregZrem(t) \/ AllDel(t)
    BY <2>2 DEF HashSet, KeyExpire, KeyDel, SetAdd, IncrTotal, ZsetAdd, DeregZrem,
                AllDel, SetHash, SetExpiry, DelHash, AddMember, IncrBy, SetScore,
                DelMembers
  <2>3. CASE IndexWrite(t)
    BY <1>1, <2>3 DEF IndexWrite, Unbound
  <2>4. CASE DeregBatch(t)
    <3>1. {<<th[t].c, th[t].kind>>} \in SUBSET (Client \X Type)
      BY <1>1, <2>4 DEF DeregBatch, Unbound
    <3> QED
      BY <2>4, <3>1 DEF DeregBatch
  <2>5. CASE AllBatch(t)
    BY <1>1, <2>5 DEF AllBatch
  <2> QED
    BY <1>3, <2>1, <2>2, <2>3, <2>4, <2>5 DEF Continue
<1>4. ASSUME NEW t \in Proc, RedisError(t) PROVE Goal
  BY <1>4, BoundAssumption DEF RedisError, TInv, EnvInv
<1>5. CASE CleanupThread
  BY <1>1, <1>5 DEF CleanupThread, Scan, ScanRem, ScanGet, ScanBack, CleanBatch,
                    SetScore, Proc
<1>6. CASE ScanError \/ Crash \/ Tick \/ Finished \/ UNCHANGED vars
  BY <1>6 DEF ScanError, Crash, Tick, Finished, vars, SetScore
<1> QED
  BY <1>2, <1>3, <1>4, <1>5, <1>6 DEF Next

ActiveInv == faults = 0 => (active <=> pub # NoClient)

\* Both pipelines, executed to the end, change the two keys alike.
LEMMA ActiveStep == TInv /\ ActiveInv /\ [Next]_vars => ActiveInv'
<1> SUFFICES ASSUME TInv, active <=> pub # NoClient, [Next]_vars, faults' = 0
             PROVE  (active <=> pub # NoClient)'
  <2>1. faults' = 0 /\ [Next]_vars /\ TInv => faults = 0
    BY FaultsGrow
  <2> QED
    BY <2>1 DEF ActiveInv
<1>1. CASE UNCHANGED <<pub, active>>
  BY <1>1
<1>2. ASSUME NEW c \in Client, WriteIndices(c) PROVE (active <=> pub # NoClient)'
  BY <1>2, ClientAssumption DEF WriteIndices
<1>3. ASSUME NEW b \in SUBSET (Client \X Type), Batch(b)
      PROVE  (active <=> pub # NoClient)'
  <2> DEFINE ends == \E x \in b : x[2] = "publisher"
  <2>1. pub' = IF ends THEN NoClient ELSE pub
    BY <1>3 DEF Batch
  <2>2. active' = (active /\ ~ends)
    BY <1>3 DEF Batch
  <2> HIDE DEF ends
  <2> QED
    BY <2>1, <2>2, Zenon
<1> QED
  BY <1>1, <1>2, <1>3, IndexEffect

\* Until a call fails the publisher gauge and the publisher key agree.
LEMMA ActiveHolds == Spec => []ActiveInv
<1>1. Init => ActiveInv
  BY DEF Init, ActiveInv
<1> QED
  BY <1>1, TypesHold, ActiveStep, PTL DEF Spec
-----------------------------------------------------------------------------
(* Task hashes without a TTL. *)

Immortal(c) == Exists(c) /\ task[c].exp = Never

Covered(c, labels) == \E t \in Proc : th[t].c = c /\ th[t].pc \in labels

\* While no call has failed, the thread that wrote the hash is still about to
\* send EXPIRE; the rollback's DEL can only be the answer to the one failure.
CoverInv ==
    ~lost /\ crashes = 0 =>
        \A c \in Client : Immortal(c) =>
            /\ faults = 0 => Covered(c, {"expire"})
            /\ faults = 1 => Covered(c, {"expire", "keyDel"})

\* No hash loses its TTL.
Shrinks == \A c \in Client : Immortal(c)' => Immortal(c)

OthersStay(t) == \A u \in Proc : u # t => th'[u] = th[u]

\* CoverInv survives a step of a thread that covers nothing.
LEMMA CoverKept ==
    ASSUME TInv, CoverInv, NEW t \in Proc, Shrinks, OthersStay(t),
           th[t].pc \notin {"expire", "keyDel"},
           faults' = faults \/ faults' = faults + 1, crashes' = crashes,
           lost => lost'
    PROVE  CoverInv'
<1> SUFFICES ASSUME ~lost, ~lost', crashes = 0, NEW c \in Client, Immortal(c)'
             PROVE  /\ (faults' = 0) => Covered(c, {"expire"})'
                    /\ (faults' = 1) => Covered(c, {"expire", "keyDel"})'
  BY DEF CoverInv
<1>1. faults \in Nat
  BY BoundAssumption DEF TInv, EnvInv
<1>2. /\ faults = 0 => Covered(c, {"expire"})
      /\ faults = 1 => Covered(c, {"expire", "keyDel"})
  BY DEF Shrinks, CoverInv
<1>3. Covered(c, {"expire"}) => Covered(c, {"expire"})'
  BY DEF Covered, OthersStay
<1>4. Covered(c, {"expire", "keyDel"}) => Covered(c, {"expire", "keyDel"})'
  BY DEF Covered, OthersStay
<1>5. Covered(c, {"expire"})' => Covered(c, {"expire", "keyDel"})'
  BY DEF Covered
<1>6. (faults' = 0 => faults = 0) /\ (faults' = 1 => faults = 0 \/ faults = 1)
  BY <1>1
<1> QED
  BY <1>2, <1>3, <1>4, <1>5, <1>6

\* The control operators move one thread.
LEMMA OneThread ==
    ASSUME ThreadInv, NEW t \in Proc,
           \/ \E l : Become(t, l)
           \/ Deny(t) \/ Grant(t) \/ ReturnFromDeregister(t)
    PROVE  OthersStay(t)
BY DEF ThreadInv, Become, Deny, Grant, ReturnFromDeregister, Goto, Return, OthersStay

\* Every command but HSET leaves the hashes alone, deletes some or expires some.
LEMMA TaskEffect ==
    ASSUME TInv,
           \/ UNCHANGED task
           \/ \E b \in SUBSET (Client \X Type) : Batch(b)
           \/ Tick
    PROVE  Shrinks
<1>1. CASE UNCHANGED task
  BY <1>1 DEF Shrinks, Immortal, Exists
<1>2. CASE \/ \E b \in SUBSET (Client \X Type) : Batch(b)
           \/ Tick
  <2>1. \A c \in Client : task'[c] = NoTask \/ task'[c] = task[c]
    BY <1>2 DEF Batch, Tick
  <2> QED
    BY <2>1 DEF Shrinks, Immortal, Exists
<1> QED
  BY <1>1, <1>2

\* The steps of a thread that is not in the middle of HSET, EXPIRE, DEL.
LEMMA CoverContinue ==
    ASSUME TInv, CoverInv, NEW t \in Proc, Continue(t),
           ~HashSet(t), ~KeyExpire(t), ~KeyDel(t)
    PROVE  CoverInv'
<1> USE DEF At, redis, env
<1>1. ThreadInv
  BY DEF TInv
<1>2. /\ th[t].pc \notin Unbound => th[t].c \in Client
      /\ th[t].kind \in Type /\ th[t].batch \in SUBSET (Client \X Type)
  BY <1>1, LocalFacts
<1>3. /\ OthersStay(t) /\ th[t].pc \notin {"expire", "keyDel"}
      /\ UNCHANGED <<faults, lost, crashes>>
      /\ UNCHANGED task \/ \E b \in SUBSET (Client \X Type) : Batch(b)
  <2>1. CASE PlayLookup(t) \/ DoneGet(t) \/ PubCheck(t) \/ PlayCheck(t)
    BY <1>1, <2>1, OneThread DEF PlayLookup, DoneGet, PubCheck, PlayCheck, Goto,
                                 Return, CallDeregister
  <2>2. CASE IndexCheck(t) \/ DeregGet(t) \/ AllMembers(t)
             \/ \E c \in Client : AllGet(t, c)
    BY <1>1, <2>2, OneThread DEF IndexCheck, DeregGet, AllMembers, AllGet, Goto,
                                 CallDeregister
  <2>3. CASE IndexWrite(t) \/ SetAdd(t) \/ IncrTotal(t) \/ ZsetAdd(t) \/ DeregZrem(t)
             \/ AllDel(t)
    BY <1>1, <2>3, OneThread DEF IndexWrite, SetAdd, IncrTotal, ZsetAdd, DeregZrem,
                                 AllDel, Goto, Return, WriteIndices, AddMember,
                                 IncrBy, SetScore, DelMembers
  <2>4. CASE DeregBatch(t)
    <3>1. {<<th[t].c, th[t].kind>>} \in SUBSET (Client \X Type)
      BY <1>2, <2>4 DEF DeregBatch, Unbound
    <3> QED
      BY <1>1, <2>4, <3>1, OneThread DEF DeregBatch
  <2>5. CASE AllBatch(t)
    BY <1>1, <1>2, <2>5, OneThread DEF AllBatch, Goto
  <2> QED
    BY <2>1, <2>2, <2>3, <2>4, <2>5 DEF Continue
<1>4. Shrinks
  BY <1>3, TaskEffect
<1> QED
  BY <1>3, <1>4, CoverKept

\* The HSET creates a hash without TTL and leaves its thread at the EXPIRE.
LEMMA CoverHashSet ==
    ASSUME TInv, CoverInv, NEW t \in Proc, HashSet(t) PROVE CoverInv'
<1> DEFINE d == th[t].c
<1> SUFFICES ASSUME ~lost, ~lost', crashes = 0, NEW c \in Client, Immortal(c)'
             PROVE  /\ (faults' = 0) => Covered(c, {"expire"})'
                    /\ (faults' = 1) => Covered(c, {"expire", "keyDel"})'
  BY DEF CoverInv, HashSet, env
<1>1. th'[t].pc = "expire" /\ th'[t].c = d /\ OthersStay(t)
  <2>1. th[t] \in Local /\ th \in [Proc -> Local]
    BY LocalFacts DEF TInv, ThreadInv
  <2> QED
    BY <2>1 DEF HashSet, Goto, Become, OthersStay, Local
<1>2. CASE c = d
  BY <1>1, <1>2 DEF Covered
<1>3. CASE c # d
  <2>1. task'[c] = task[c]
    BY <1>3 DEF HashSet, SetHash, TInv, RedisInv
  <2>2. Immortal(c)
    BY <2>1 DEF Immortal, Exists
  <2>3. faults' = faults
    BY DEF HashSet, env
  <2>4. Covered(c, {"expire"}) => Covered(c, {"expire"})'
    BY <1>1 DEF Covered, OthersStay
  <2>5. Covered(c, {"expire", "keyDel"}) => Covered(c, {"expire", "keyDel"})'
    BY <1>1 DEF Covered, OthersStay
  <2> QED
    BY <2>2, <2>3, <2>4, <2>5 DEF CoverInv
<1> QED
  BY <1>2, <1>3

\* EXPIRE and the rollback's DEL end what their thread covers.
LEMMA CoverEnds ==
    ASSUME TInv, CoverInv, NEW t \in Proc, KeyExpire(t) \/ KeyDel(t)
    PROVE  CoverInv'
<1> SUFFICES ASSUME ~lost, ~lost', crashes = 0, NEW c \in Client, Immortal(c)'
             PROVE  /\ (faults' = 0) => Covered(c, {"expire"})'
                    /\ (faults' = 1) => Covered(c, {"expire", "keyDel"})'
  BY DEF CoverInv, KeyExpire, KeyDel, env
<1>1. OthersStay(t) /\ UNCHANGED faults
  BY OneThread DEF TInv, KeyExpire, KeyDel, Goto, env
<1>2. PICK d \in Client : d = th[t].c
  BY LocalFacts DEF TInv, KeyExpire, KeyDel, At, Unbound
<1>3. task \in [Client -> [type : Type, last : Nat, exp : Nat]]
  BY DEF TInv, RedisInv
<1>4. clock + TaskTTL # Never
  BY TimeAssumption, BoundAssumption DEF TInv, EnvInv, Never
<1>5. ~Immortal(d)'
  <2>1. CASE SetExpiry(d)
    <3>1. task'[d].exp = clock + TaskTTL
      BY <1>2, <1>3, <2>1 DEF SetExpiry
    <3> QED
      BY <1>4, <3>1 DEF Immortal, Never
  <2>2. CASE ~Exists(d) /\ UNCHANGED redis
    BY <2>2 DEF Immortal, Exists, redis
  <2>3. CASE DelHash(d)
    BY <1>2, <1>3, <2>3 DEF DelHash, Immortal, Exists
  <2> QED
    BY <1>2, <2>1, <2>2, <2>3 DEF KeyExpire, KeyDel
<1>6. c # d
  BY <1>5
<1>7. task'[c] = task[c]
  BY <1>2, <1>3, <1>6 DEF KeyExpire, KeyDel, SetExpiry, DelHash, redis
<1>8. Immortal(c)
  BY <1>7 DEF Immortal, Exists
<1>9. Covered(c, {"expire"}) => Covered(c, {"expire"})'
  BY <1>1, <1>2, <1>6 DEF Covered, OthersStay
<1>10. Covered(c, {"expire", "keyDel"}) => Covered(c, {"expire", "keyDel"})'
  BY <1>1, <1>2, <1>6 DEF Covered, OthersStay
<1> QED
  BY <1>1, <1>8, <1>9, <1>10 DEF CoverInv

\* A failed call: a failed EXPIRE turns into the DEL of the rollback, and the
\* DEL that fails as the first of all calls had nothing to delete.
LEMMA CoverError ==
    ASSUME TInv, CoverInv, NEW t \in Proc, RedisError(t) PROVE CoverInv'
<1> SUFFICES ASSUME ~lost, ~lost', crashes = 0, NEW c \in Client, Immortal(c)'
             PROVE  /\ (faults' = 0) => Covered(c, {"expire"})'
                    /\ (faults' = 1) => Covered(c, {"expire", "keyDel"})'
  BY DEF CoverInv, RedisError
<1>1. faults \in Nat /\ faults' = faults + 1 /\ UNCHANGED task
  BY BoundAssumption DEF TInv, EnvInv, RedisError, redis
<1>2. Immortal(c)
  BY <1>1 DEF Immortal, Exists
<1>3. SUFFICES ASSUME faults = 0 PROVE Covered(c, {"expire", "keyDel"})'
  BY <1>1
<1>4. PICK u \in Proc : th[u].c = c /\ th[u].pc = "expire"
  BY <1>2, <1>3 DEF CoverInv, Covered
<1>5. OthersStay(t)
  <2>1. th \in [Proc -> Local]
    BY DEF TInv, ThreadInv
  <2> QED
    BY <2>1, OneThread DEF TInv, RedisError, AfterError, IndexFails, Goto, CallDeregister,
                                Return
<1>6. CASE u # t
  BY <1>4, <1>5, <1>6 DEF Covered, OthersStay
<1>7. CASE u = t
  <2>1. Goto(t, "keyDel")
    BY <1>4, <1>7 DEF RedisError, AfterError, IndexFails, At
  <2>2. th \in [Proc -> Local] /\ th[t] \in Local
    BY DEF TInv, ThreadInv
  <2>3. th'[t].c = c /\ th'[t].pc = "keyDel"
    BY <1>4, <1>7, <2>1, <2>2 DEF Goto, Become, Local
  <2> QED
    BY <2>3 DEF Covered
<1> QED
  BY <1>6, <1>7

\* Every step keeps the threads' cover of the hashes without TTL.
LEMMA CoverStep == TInv /\ CoverInv /\ [Next]_vars => CoverInv'
<1> SUFFICES ASSUME TInv, CoverInv, [Next]_vars PROVE CoverInv'
  OBVIOUS
<1> USE DEF At, redis, env
<1>1. ThreadInv
  BY DEF TInv
<1>2. ASSUME NEW t \in Thread, Hook(t) PROVE CoverInv'
  <2>1. t \in Proc
    BY DEF Proc
  <2>2. PICK c \in Client : \/ OnPublish(t, c) \/ OnPublishDone(t, c)
                            \/ OnPlay(t, c) \/ OnPlayDone(t, c)
    BY <1>2 DEF Hook, Client
  <2>3. HookArrives(t, c) /\ \E label, type : Begin(t, c, label, type)
    BY <2>2 DEF OnPublish, OnPublishDone, OnPlay, OnPlayDone
  <2>4. th[t].pc = "idle" /\ UNCHANGED <<task, faults, lost, crashes>>
    BY <2>3 DEF HookArrives, Idle
  <2>5. OthersStay(t)
    BY <1>1, <2>1, <2>3 DEF Begin, OthersStay, ThreadInv
  <2> QED
    BY <2>1, <2>4, <2>5, TaskEffect, CoverKept
<1>3. ASSUME NEW t \in Proc, Continue(t) PROVE CoverInv'
  BY <1>3, CoverContinue, CoverHashSet, CoverEnds
<1>4. ASSUME NEW t \in Proc, RedisError(t) PROVE CoverInv'
  BY <1>4, CoverError
<1>5. CASE CleanupThread
  <2>1. Cleaner \in Proc /\ th[Cleaner].batch \in SUBSET (Client \X Type)
    BY <1>1, LocalFacts DEF Proc
  <2>2. OthersStay(Cleaner)
    BY <1>1, <1>5, <2>1, OneThread
       DEF CleanupThread, Scan, ScanRem, ScanGet, ScanBack, CleanBatch
  <2>3. /\ th[Cleaner].pc \notin {"expire", "keyDel"}
        /\ UNCHANGED <<faults, lost, crashes>>
        /\ UNCHANGED task \/ \E b \in SUBSET (Client \X Type) : Batch(b)
    BY <1>5, <2>1
       DEF CleanupThread, Scan, ScanRem, ScanGet, ScanBack, CleanBatch, SetScore
  <2> QED
    BY <2>1, <2>2, <2>3, TaskEffect, CoverKept
<1>6. CASE ScanError
  <2>1. Cleaner \in Proc
    BY DEF Proc
  <2>2. OthersStay(Cleaner)
    <3>1. CASE UNCHANGED <<redis, th, answers>>
      BY <3>1 DEF OthersStay
    <3> QED
      BY <1>1, <1>6, <2>1, <3>1, OneThread DEF ScanError
  <2>3. /\ th[Cleaner].pc \notin {"expire", "keyDel"} /\ faults' = faults + 1
        /\ UNCHANGED <<task, crashes>>
    BY <1>6 DEF ScanError, SetScore
  <2>4. lost => lost'
    BY <1>6, Zenon DEF ScanError
  <2> QED
    BY <2>1, <2>2, <2>3, <2>4, TaskEffect, CoverKept
<1>7. CASE Crash
  <2>1. crashes' # 0
    BY <1>7, BoundAssumption DEF Crash, TInv, EnvInv
  <2> QED
    BY <2>1 DEF CoverInv
<1>8. CASE Tick \/ Finished \/ UNCHANGED vars
  <2>1. UNCHANGED <<th, faults, lost, crashes>> /\ Shrinks
    BY <1>8, TaskEffect DEF Tick, Finished, vars
  <2>2. \A c \in Client : /\ Covered(c, {"expire"})' <=> Covered(c, {"expire"})
                          /\ Covered(c, {"expire", "keyDel"})' <=>
                             Covered(c, {"expire", "keyDel"})
    BY <2>1 DEF Covered
  <2> QED
    BY <2>1, <2>2 DEF CoverInv, Shrinks
<1> QED
  BY <1>2, <1>3, <1>4, <1>5, <1>6, <1>7, <1>8 DEF Next

\* However many handlers interleave on the same client, a task hash without a
\* TTL is always in the hands of a thread that will set one or delete it, as
\* long as at most one call fails unexecuted and the process does not die.
THEOREM NoImmortalTaskAlways == Spec => []NoImmortalTask
<1>1. Init => CoverInv
  BY DEF Init, CoverInv, Immortal, Exists
<1>2. TInv /\ CoverInv => NoImmortalTask
  <2> SUFFICES ASSUME TInv, CoverInv, ~lost, faults < 2, crashes = 0,
                      NEW c \in Client, Exists(c), task[c].exp = Never
               PROVE  \E t \in Proc : th[t].c = c /\ th[t].pc \in {"expire", "keyDel"}
    BY DEF NoImmortalTask
  <2>1. faults = 0 \/ faults = 1
    BY BoundAssumption DEF TInv, EnvInv
  <2> QED
    BY <2>1 DEF CoverInv, Immortal, Covered
<1> QED
  BY <1>1, <1>2, TypesHold, CoverStep, PTL DEF Spec
=============================================================================
