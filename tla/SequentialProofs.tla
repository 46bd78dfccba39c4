-------------------------- MODULE SequentialProofs -------------------------
(***************************************************************************)
(* Proofs about the registry when hooks are handled one after the other,   *)
(* for any number of publishers, players and hooks: between two hooks the  *)
(* index structures describe the same registrations, a stream that ends    *)
(* leaves no player behind, and a publisher keeps the stream it was given. *)
(***************************************************************************)
EXTENDS RegistryProofs

\* One thread runs the hooks, and a client id publishes or plays.
Sequential == Roles /\ TaskTimeout <= TaskTTL /\ \E h \in Thread : Thread = {h}

Tasks == {c \in Client : Exists(c)}

\* No task can expire before something can time out.
LongLived == \A c \in Client : Exists(c) => TaskTTL <= task[c].exp

\* The publisher key names the one publisher that has a task.
OwnersAgree == \A c \in Publisher : Exists(c) <=> pub = c

\* The registry between two hooks.
Settled ==
    /\ members = Tasks /\ total = Cardinality(Players) /\ OwnersAgree
    /\ pub = NoClient => members = {}

\* Where a thread has written the hash of its client and not yet its indexes.
Unindexed == {"expire", "index", "indexWrite", "sadd"}

\* The owner of the stream while a thread registers its client.
OwnerMeanwhile(l) ==
    IF l.type = "publisher"
    THEN pub = NoClient /\ \A q \in Publisher : Exists(q) => q = l.c
    ELSE OwnersAgree /\ pub # NoClient

\* The registry at each label of the thread that handles the hook.
AtRest(l) ==
    l.pc \in {"idle", "playLookup", "doneGet", "pubCheck", "playCheck", "zadd", "dereg",
              "deregZrem", "deregBatch", "all", "allGet", "allBatch"} => Settled
AtCheck(l) ==
    /\ l.pc = "playCheck" => pub # NoClient
    /\ l.pc = "zadd" /\ l.type = "publisher" => pub = l.c
AtDereg(l) ==
    l.pc \in DeregLabels =>
        /\ l.ret = "hset" => IF l.type = "publisher" THEN pub = l.c
                             ELSE Exists(l.c) /\ pub # NoClient
        /\ l.ret = "idle" => l.c \in Player
        /\ l.ret # "deny"
        /\ l.pc = "deregZrem" => ~Exists(l.c)
        /\ l.pc = "deregBatch" => Exists(l.c)
AtHash(l) ==
    l.pc = "hset" =>
        /\ ~Exists(l.c) /\ members = Tasks /\ total = Cardinality(Players)
        /\ OwnerMeanwhile(l)
AtIndex(l) ==
    l.pc \in Unindexed \cup {"incr"} =>
        /\ Exists(l.c) /\ total = Cardinality(Players \ {l.c}) /\ OwnerMeanwhile(l)
        /\ members = IF l.pc = "incr" THEN Tasks ELSE Tasks \ {l.c}
AtAll(l) ==
    /\ l.pc \in {"all", "allGet", "allBatch"} => pub = l.c
    /\ l.pc \in {"allGet", "allBatch"} =>
         /\ l.ids \subseteq members
         /\ l.batch = {<<d, TypeOf(d)>> : d \in members \ l.ids}
    /\ l.pc = "allBatch" => l.ids = {}
    /\ l.pc = "allDel" => Tasks = {} /\ members = {} /\ total = 0 /\ pub = NoClient
Grants(l) ==
    /\ \A q \in granted \cap Publisher : pub # q =>
         l.c = q /\ l.pc \in {"hset", "expire", "index", "indexWrite"}
    /\ l.pc \in AllLabels \cup {"doneGet"} => l.c \notin granted

Steady(l) ==
    /\ l.pc # "keyDel" /\ AtRest(l) /\ AtCheck(l) /\ AtDereg(l) /\ AtHash(l)
    /\ AtIndex(l) /\ AtAll(l) /\ Grants(l)
SeqInv ==
    Sequential /\ Undisturbed => LongLived /\ \A t \in Thread : Steady(th[t])
-----------------------------------------------------------------------------
(* The parts of the registry. *)

\* The loop of deregisterAllMembers, with the ids it has left.
LEMMA AllFields ==
    ASSUME ThreadInv, NEW t \in Proc
    PROVE  /\ AllMembers(t) =>
                /\ th'[t].ids = members
                /\ th'[t].pc = IF members = {} THEN "allDel" ELSE "allGet"
           /\ \A c \in Client : AllGet(t, c) =>
                /\ c \in th[t].ids /\ th'[t].ids = th[t].ids \ {c}
                /\ th'[t].pc = IF th[t].ids = {c} THEN "allBatch" ELSE "allGet"
<1> DEFINE l == th[t]
<1>1. l \in Local /\ th \in [Proc -> Local]
  BY DEF ThreadInv
<1>2. ASSUME NEW k, Become(t, k) PROVE th'[t] = k
  BY <1>1, <1>2 DEF Become
<1>3. ASSUME AllMembers(t)
      PROVE  /\ th'[t].ids = members
             /\ th'[t].pc = IF members = {} THEN "allDel" ELSE "allGet"
  <2> DEFINE label == IF members = {} THEN "allDel" ELSE "allGet"
  <2>1. th'[t] = [l EXCEPT !.pc = label, !.ids = members, !.batch = {}]
    BY <1>2, <1>3 DEF AllMembers
  <2>2. th'[t].ids = members /\ th'[t].pc = label
    <3> HIDE DEF label
    <3> QED
      BY <1>1, <2>1 DEF Local
  <2> QED
    BY <2>2
<1>4. ASSUME NEW c \in Client, AllGet(t, c)
      PROVE  /\ c \in l.ids /\ th'[t].ids = l.ids \ {c}
             /\ th'[t].pc = IF l.ids = {c} THEN "allBatch" ELSE "allGet"
  <2>1. PICK found : Become(t, AllNext(l, c, found))
    BY <1>4 DEF AllGet
  <2>2. th'[t] = AllNext(l, c, found)
    BY <1>2, <2>1
  <2> QED
    BY <1>1, <1>4, <2>2 DEF AllNext, Local, AllGet
<1> QED
  BY <1>3, <1>4

\* Players and publishers among the registered tasks.
LEMMA PlayersAre ==
    ASSUME RedisInv, KeysInRole, Roles
    PROVE  /\ Players = {c \in Tasks : c \notin Publisher}
           /\ IsFiniteSet(Players) /\ Cardinality(Players) \in Nat
<1>1. \A c \in Client : task[c].type = "player" <=> Exists(c) /\ c \notin Publisher
  BY DEF KeysInRole, TypeOf, Exists, NoTask
<1>2. Players = {c \in Tasks : c \notin Publisher}
  BY <1>1 DEF Players, Tasks
<1>3. Players \in SUBSET Client
  BY DEF Players
<1> QED
  BY <1>2, <1>3, ClientAssumption, FS_Subset, FS_CardinalityType

\* A step that leaves the keys alone leaves all their parts alone.
LEMMA SameRegistry ==
    ASSUME UNCHANGED redis
    PROVE  /\ Tasks' = Tasks /\ Players' = Players
           /\ (LongLived)' <=> LongLived
           /\ (OwnersAgree)' <=> OwnersAgree
           /\ (Settled)' <=> Settled
           /\ \A c \in Client : Exists(c)' <=> Exists(c)
<1>1. UNCHANGED <<task, pub, members, total>>
  BY DEF redis
<1>2. Tasks' = Tasks /\ Players' = Players /\ \A c \in Client : Exists(c)' <=> Exists(c)
  BY <1>1 DEF Tasks, Players, Exists
<1>3. ((OwnersAgree)' <=> OwnersAgree) /\ ((LongLived)' <=> LongLived)
  BY <1>1 DEF OwnersAgree, LongLived, Exists
<1>4. (Settled)' <=> Settled
  BY <1>1, <1>2, <1>3 DEF Settled
<1> QED
  BY <1>2, <1>3, <1>4

\* The thread's state is steady if the registry is settled and the thread idle.
LEMMA IdleSteady ==
    ASSUME NEW t \in Thread, th'[t] = Idle, Settled',
           \A q \in granted' \cap Publisher : pub' = q
    PROVE  Steady(th[t])'
BY DEF Idle, Steady, AtRest, AtCheck, AtDereg, AtHash, AtIndex, AtAll, Grants, DeregLabels,
       AllLabels, Unindexed

\* Nothing happens to the registry and the threads.
LEMMA SteadyKept ==
    ASSUME NEW t, LongLived, Steady(th[t]), UNCHANGED <<redis, th, granted>>
    PROVE  LongLived' /\ Steady(th[t])'
<1>1. UNCHANGED <<task, pub, members, total>>
  BY DEF redis
<1>2. Tasks' = Tasks /\ Players' = Players /\ LongLived' /\ (Settled' <=> Settled)
      /\ (OwnersAgree' <=> OwnersAgree)
  BY SameRegistry
<1>3. (Exists(th[t].c)' <=> Exists(th[t].c)) /\ (OwnerMeanwhile(th[t])' <=> OwnerMeanwhile(th[t]))
  BY <1>1, <1>2 DEF Exists, OwnerMeanwhile
<1>4. AtRest(th[t])' /\ AtCheck(th[t])' /\ AtDereg(th[t])' /\ AtHash(th[t])'
  BY <1>1, <1>2, <1>3 DEF Steady, AtRest, AtCheck, AtDereg, AtHash
<1>5. AtIndex(th[t])' /\ AtAll(th[t])' /\ Grants(th[t])'
  BY <1>1, <1>2, <1>3 DEF Steady, AtIndex, AtAll, Grants
<1> QED
  BY <1>2, <1>4, <1>5 DEF Steady
-----------------------------------------------------------------------------
(* The steps. *)

\* What the proofs about a step of the hook thread start from.
Scene(t) ==
    /\ TInv /\ KeysInRole /\ ThreadsInRole /\ Roles /\ HandlerOk(t)
    /\ t \in Thread /\ LongLived /\ Steady(th[t])

\* A hook begins.
LEMMA SeqHook ==
    ASSUME NEW t, Scene(t), Hook(t)
    PROVE  LongLived' /\ Steady(th[t])'
<1> USE DEF Scene
<1>1. t \in Proc /\ ThreadInv /\ NoClient \notin Client
  BY ClientAssumption DEF Proc, TInv
<1>2. PICK c \in Client, label \in {"pubCheck", "doneGet", "playLookup", "dereg"},
           type \in Type :
             /\ Starts(t, c, label, type)
             /\ granted' \subseteq granted
             /\ label = "doneGet" => c \notin granted'
             /\ label = "dereg" => c \in Player
  BY <1>1, HookStarts DEF Client, Type
<1>3. /\ th'[t].pc = label /\ th'[t].c = c /\ th'[t].ret = "idle"
      /\ th[t] = Idle /\ UNCHANGED redis
  BY <1>1, <1>2 DEF Starts, Idle
<1>4. Settled /\ \A q \in granted \cap Publisher : pub = q
  BY <1>3 DEF Steady, AtRest, Grants, Idle
<1>5. Settled' /\ LongLived' /\ pub' = pub
  BY <1>3, <1>4, SameRegistry DEF redis
<1>6. AtRest(th[t])' /\ AtHash(th[t])' /\ AtIndex(th[t])' /\ AtAll(th[t])' /\ AtCheck(th[t])'
  BY <1>3, <1>5 DEF AtRest, AtHash, AtIndex, AtAll, AtCheck, Unindexed
<1>7. AtDereg(th[t])'
  BY <1>2, <1>3 DEF AtDereg, DeregLabels
<1>8. Grants(th[t])'
  BY <1>2, <1>3, <1>4, <1>5 DEF Grants, AllLabels
<1> QED
  BY <1>3, <1>5, <1>6, <1>7, <1>8 DEF Steady

\* The reads that decide how a hook goes on.
LEMMA SeqRead ==
    ASSUME NEW t, Scene(t),
           PlayLookup(t) \/ DoneGet(t) \/ PubCheck(t) \/ PlayCheck(t) \/ IndexCheck(t)
    PROVE  LongLived' /\ Steady(th[t])'
<1> DEFINE l == th[t]
<1> USE DEF Scene, At
<1>1. /\ t \in Proc /\ ThreadInv /\ KindOk(l) /\ l.c \in Client /\ NoClient \notin Client
      /\ l.ret # "deny" /\ RedisInv
  BY ClientAssumption DEF Proc, TInv, ThreadsInRole, HandlerOk, PlayLookup, DoneGet,
         PubCheck, PlayCheck, IndexCheck, DeregLabels
<1>2. UNCHANGED redis /\ UNCHANGED <<task, pub, members, total>>
  BY DEF PlayLookup, DoneGet, PubCheck, PlayCheck, IndexCheck, redis
<1>3. /\ LongLived' /\ Tasks' = Tasks /\ Players' = Players /\ (Settled => Settled')
      /\ ((OwnersAgree)' <=> OwnersAgree)
  BY <1>2, SameRegistry
<1>4. ASSUME Settled, \A q \in granted \cap Publisher : pub = q, Ends(t), granted' = granted
      PROVE  Steady(th[t])'
  BY <1>2, <1>3, <1>4, IdleSteady DEF Ends
<1>5. CASE PlayLookup(t)
  <2>1. Settled /\ \A q \in granted \cap Publisher : pub = q
    BY <1>5 DEF PlayLookup, Steady, AtRest, Grants
  <2>2. CASE Return(t)
    BY <1>1, <1>3, <1>4, <2>1, <2>2, Flat DEF answers
  <2>3. CASE pub # NoClient /\ Goes(t, "playCheck")
    <3>1. Grants(th[t])' /\ AtRest(th[t])' /\ AtCheck(th[t])'
      BY <1>2, <1>3, <2>1, <2>3 DEF Grants, AtRest, AtCheck, Goes, answers, AllLabels
    <3>2. AtDereg(th[t])' /\ AtHash(th[t])' /\ AtIndex(th[t])' /\ AtAll(th[t])'
      BY <2>3 DEF AtDereg, AtHash, AtIndex, AtAll, Goes, DeregLabels, Unindexed
    <3> QED
      BY <1>3, <2>3, <3>1, <3>2 DEF Steady, Goes
  <2> QED
    BY <1>1, <1>5, <2>2, <2>3, ReadFields
<1>6. CASE DoneGet(t)
  <2>1. Settled /\ (\A q \in granted \cap Publisher : pub = q) /\ l.c \notin granted
    BY <1>6 DEF DoneGet, Steady, AtRest, Grants
  <2>2. CASE Return(t)
    BY <1>1, <1>3, <1>4, <2>1, <2>2, Flat DEF answers
  <2>3. CASE task[l.c].type = "publisher" /\ Goto(t, "all")
    <3>1. l.c \in Publisher /\ Exists(l.c)
      BY <1>1, <1>6, <2>3 DEF DoneGet, ThreadsInRole, Exists, NoTask
    <3>2. pub = l.c
      BY <2>1, <3>1 DEF Settled, OwnersAgree
    <3>3. Goes(t, "all")
      BY <1>1, <2>3, Flat
    <3>4. Grants(th[t])' /\ AtRest(th[t])' /\ AtAll(th[t])'
      BY <1>2, <1>3, <2>1, <3>2, <3>3 DEF Grants, AtRest, AtAll, Goes, SameWork, answers
    <3>5. AtDereg(th[t])' /\ AtHash(th[t])' /\ AtIndex(th[t])' /\ AtCheck(th[t])'
      BY <3>3 DEF AtDereg, AtHash, AtIndex, AtCheck, Goes, DeregLabels, Unindexed
    <3> QED
      BY <1>3, <3>3, <3>4, <3>5 DEF Steady, Goes
  <2> QED
    BY <1>6, <2>2, <2>3 DEF DoneGet
<1>7. CASE PubCheck(t)
  <2>1. /\ Settled /\ (\A q \in granted \cap Publisher : pub = q)
        /\ l.c \in Publisher /\ l.type = "publisher"
    BY <1>1, <1>7 DEF PubCheck, Steady, AtRest, Grants, KindOk, TypeOf
  <2>2. CASE Deny(t)
    BY <1>1, <1>3, <1>4, <2>1, <2>2, Flat
  <2>3. CASE pub = l.c /\ CallDeregister(t, "hset")
    <3>1. Calls(t, "hset")
      BY <1>1, <2>3, Flat
    <3>2. Grants(th[t])' /\ AtRest(th[t])' /\ AtDereg(th[t])'
      BY <1>2, <1>3, <2>1, <2>3, <3>1
         DEF Grants, AtRest, AtDereg, Calls, SameWork, answers, AllLabels
    <3>3. AtCheck(th[t])' /\ AtHash(th[t])' /\ AtIndex(th[t])' /\ AtAll(th[t])'
      BY <3>1 DEF AtCheck, AtHash, AtIndex, AtAll, Calls, Unindexed
    <3> QED
      BY <1>3, <3>1, <3>2, <3>3 DEF Steady, Calls
  <2>4. CASE pub = NoClient /\ Goto(t, "hset")
    <3>1. Goes(t, "hset")
      BY <1>1, <2>4, Flat
    <3>2. \A q \in Publisher : ~Exists(q)
      BY <1>1, <2>1, <2>4 DEF Settled, OwnersAgree, Client
    <3>3. AtHash(th[t])'
      <4>1. ~Exists(th[t].c)' /\ OwnerMeanwhile(th[t])'
        BY <1>2, <2>1, <2>4, <3>1, <3>2 DEF Goes, SameWork, OwnerMeanwhile, Exists
      <4> QED
        BY <1>2, <1>3, <2>1, <4>1 DEF AtHash, Settled
    <3>4. Grants(th[t])'
      BY <1>1, <1>2, <2>1, <2>4, <3>1 DEF Grants, Goes, answers, AllLabels, Client
    <3>5. /\ AtRest(th[t])' /\ AtCheck(th[t])' /\ AtDereg(th[t])' /\ AtIndex(th[t])'
          /\ AtAll(th[t])'
      BY <3>1 DEF AtRest, AtCheck, AtDereg, AtIndex, AtAll, Goes, DeregLabels, Unindexed
    <3> QED
      BY <1>3, <3>1, <3>3, <3>4, <3>5 DEF Steady, Goes
  <2> QED
    BY <1>7, <2>2, <2>3, <2>4 DEF PubCheck
<1>8. CASE PlayCheck(t)
  <2>1. /\ Settled /\ (\A q \in granted \cap Publisher : pub = q) /\ pub # NoClient
        /\ l.type = "player"
    BY <1>1, <1>8 DEF PlayCheck, Steady, AtRest, AtCheck, Grants, KindOk
  <2>2. CASE Exists(l.c) /\ CallDeregister(t, "hset")
    <3>1. Calls(t, "hset")
      BY <1>1, <2>2, Flat
    <3>2. Grants(th[t])' /\ AtRest(th[t])' /\ AtDereg(th[t])'
      BY <1>2, <1>3, <2>1, <2>2, <3>1
         DEF Grants, AtRest, AtDereg, Calls, SameWork, answers, AllLabels, Exists
    <3>3. AtCheck(th[t])' /\ AtHash(th[t])' /\ AtIndex(th[t])' /\ AtAll(th[t])'
      BY <3>1 DEF AtCheck, AtHash, AtIndex, AtAll, Calls, Unindexed
    <3> QED
      BY <1>3, <3>1, <3>2, <3>3 DEF Steady, Calls
  <2>3. CASE ~Exists(l.c) /\ Goto(t, "hset")
    <3>1. Goes(t, "hset")
      BY <1>1, <2>3, Flat
    <3>2. AtHash(th[t])'
      <4>1. ~Exists(th[t].c)' /\ OwnerMeanwhile(th[t])'
        BY <1>2, <1>3, <2>1, <2>3, <3>1 DEF Goes, SameWork, OwnerMeanwhile, Exists, Settled
      <4> QED
        BY <1>2, <1>3, <2>1, <4>1 DEF AtHash, Settled
    <3>3. Grants(th[t])'
      BY <1>2, <2>1, <3>1 DEF Grants, Goes, answers, AllLabels
    <3>4. /\ AtRest(th[t])' /\ AtCheck(th[t])' /\ AtDereg(th[t])' /\ AtIndex(th[t])'
          /\ AtAll(th[t])'
      BY <3>1 DEF AtRest, AtCheck, AtDereg, AtIndex, AtAll, Goes, DeregLabels, Unindexed
    <3> QED
      BY <1>3, <3>1, <3>2, <3>3, <3>4 DEF Steady, Goes
  <2> QED
    BY <1>8, <2>2, <2>3 DEF PlayCheck
<1>9. CASE IndexCheck(t)
  <2>1. /\ l.type = "publisher" /\ l.pc = "index" /\ AtIndex(l) /\ Grants(l)
    BY <1>1, <1>9 DEF IndexCheck, Steady, KindOk
  <2>2. pub = NoClient
    BY <2>1 DEF AtIndex, OwnerMeanwhile, Unindexed
  <2>3. Goes(t, "indexWrite")
    BY <1>1, <1>9, <2>2, Flat DEF IndexCheck
  <2>4. AtIndex(th[t])'
    BY <1>2, <1>3, <2>1, <2>3
       DEF AtIndex, OwnerMeanwhile, Goes, SameWork, Unindexed, Exists
  <2>5. Grants(th[t])'
    BY <1>2, <2>1, <2>3 DEF Grants, Goes, SameWork, answers, AllLabels
  <2>6. /\ AtRest(th[t])' /\ AtCheck(th[t])' /\ AtDereg(th[t])' /\ AtHash(th[t])'
        /\ AtAll(th[t])'
    BY <2>3 DEF AtRest, AtCheck, AtDereg, AtHash, AtAll, Goes, DeregLabels
  <2> QED
    BY <1>3, <2>3, <2>4, <2>5, <2>6 DEF Steady, Goes
<1> QED
  BY <1>5, <1>6, <1>7, <1>8, <1>9

\* The writes of registerTask.
LEMMA SeqRegister ==
    ASSUME NEW t, Scene(t),
           \/ HashSet(t) \/ KeyExpire(t) \/ IndexWrite(t) \/ SetAdd(t) \/ IncrTotal(t)
           \/ ZsetAdd(t)
    PROVE  LongLived' /\ Steady(th[t])'
<1> DEFINE l == th[t]
<1> USE DEF Scene, At
<1>1. /\ t \in Proc /\ ThreadInv /\ KindOk(l) /\ l.c \in Client /\ NoClient \notin Client
      /\ l.ret # "deny" /\ RedisInv /\ Publisher \subseteq Client
      /\ task \in [Client -> [type : Type, last : Nat, exp : Nat]]
      /\ clock \in Nat
  BY ClientAssumption, BoundAssumption
     DEF Proc, TInv, RedisInv, EnvInv, ThreadsInRole, HandlerOk, HashSet, KeyExpire,
         IndexWrite, SetAdd, IncrTotal, ZsetAdd, DeregLabels, Client
<1>2. l.type # "none" /\ l.type = TypeOf(l.c)
  BY <1>1 DEF KindOk, HashSet, KeyExpire, IndexWrite, SetAdd, IncrTotal, ZsetAdd
<1>3. l.type = "publisher" <=> l.c \in Publisher
  BY <1>2 DEF TypeOf
<1>4. Players = {c \in Tasks : c \notin Publisher}
  BY <1>1, PlayersAre
<1>5. KeysInRole' /\ RedisInv'
  <2>1. Executed(t) \/ UNCHANGED redis
    BY <1>1, Commands DEF Continue
  <2>2. RedisInv'
    BY <1>1, WriteStep DEF TInv
  <2> QED
    BY <1>1, <2>1, <2>2, RoleCommand DEF KeysInRole, redis, Exists
<1>6. Players' = {c \in Tasks' : c \notin Publisher}
  <2>1. \A c \in Client : task'[c].type = "player" <=> task'[c] # NoTask /\ c \notin Publisher
    BY <1>5 DEF KeysInRole, TypeOf, Exists, NoTask
  <2> QED
    BY <2>1 DEF Players, Tasks, Exists
<1>7. CASE HashSet(t)
  <2>1. /\ l.pc = "hset" /\ ~Exists(l.c) /\ members = Tasks /\ total = Cardinality(Players)
        /\ OwnerMeanwhile(l) /\ Grants(l)
    BY <1>7 DEF HashSet, Steady, AtHash
  <2>2. Goes(t, "expire") /\ UNCHANGED <<pub, members, total>>
    BY <1>1, <1>7, Flat DEF HashSet, SetHash
  <2>3. /\ task'[l.c] # NoTask /\ task'[l.c].exp = Never
        /\ \A c \in Client : c # l.c => task'[c] = task[c]
    BY <1>1, <1>2, <1>7, <2>1 DEF HashSet, SetHash, NoTask
  <2>4. Tasks' = Tasks \cup {l.c} /\ l.c \notin Tasks
    BY <1>1, <2>1, <2>3 DEF Tasks, Exists
  <2>5. LongLived'
    <3>1. TaskTTL <= Never
      BY TimeAssumption, BoundAssumption DEF Never
    <3> QED
      BY <1>1, <2>3, <3>1 DEF LongLived, Exists
  <2>6. Players' \ {l.c} = Players /\ Tasks' \ {l.c} = Tasks
    BY <1>4, <1>6, <2>4
  <2>7. OwnerMeanwhile(th[t])'
    <3>1. CASE l.type = "publisher"
      BY <1>1, <2>1, <2>2, <2>3, <3>1 DEF OwnerMeanwhile, Goes, SameWork, Exists
    <3>2. CASE l.type # "publisher"
      BY <1>1, <1>3, <2>1, <2>2, <2>3, <3>2
         DEF OwnerMeanwhile, OwnersAgree, Goes, SameWork, Exists
    <3> QED
      BY <3>1, <3>2
  <2>8. AtIndex(th[t])'
    BY <2>1, <2>2, <2>3, <2>6, <2>7 DEF AtIndex, Goes, SameWork, Exists
  <2>9. Grants(th[t])'
    BY <2>1, <2>2 DEF Grants, Goes, SameWork, answers, AllLabels
  <2>10. /\ AtRest(th[t])' /\ AtCheck(th[t])' /\ AtDereg(th[t])' /\ AtHash(th[t])'
         /\ AtAll(th[t])'
    BY <2>2 DEF AtRest, AtCheck, AtDereg, AtHash, AtAll, Goes, DeregLabels
  <2> QED
    BY <2>2, <2>5, <2>8, <2>9, <2>10 DEF Steady, Goes
<1>8. CASE KeyExpire(t)
  <2>1. /\ l.pc = "expire" /\ Exists(l.c) /\ AtIndex(l) /\ Grants(l)
    BY <1>8 DEF KeyExpire, Steady, AtIndex, Unindexed
  <2>2. /\ SetExpiry(l.c)
        /\ Goes(t, IF l.type = "publisher" THEN "index" ELSE "sadd")
    BY <1>1, <1>8, <2>1, Flat DEF KeyExpire
  <2>3. /\ UNCHANGED <<pub, members, total>> /\ task'[l.c].exp = clock + TaskTTL
        /\ task'[l.c].type = task[l.c].type
        /\ \A c \in Client : c # l.c => task'[c] = task[c]
    BY <1>1, <2>2 DEF SetExpiry
  <2>4. task'[l.c] # NoTask
    <3>1. task[l.c].type # "none"
      BY <1>1, <2>1 DEF KeysInRole, TypeOf
    <3> QED
      BY <2>3, <3>1 DEF NoTask
  <2>5. /\ \A c \in Client : (task'[c] # NoTask) <=> Exists(c)
        /\ LongLived'
    BY <1>1, <2>1, <2>3, <2>4, TimeAssumption DEF LongLived, Exists
  <2>6. Tasks' = Tasks /\ Players' = Players
    BY <1>4, <1>6, <2>5 DEF Tasks, Exists
  <2>7. OwnerMeanwhile(l) => OwnerMeanwhile(th[t])'
    BY <1>1, <2>2, <2>3, <2>5 DEF OwnerMeanwhile, OwnersAgree, Goes, SameWork, Exists
  <2>8. AtIndex(th[t])'
    BY <2>1, <2>2, <2>3, <2>4, <2>6, <2>7 DEF AtIndex, Goes, SameWork, Exists, Unindexed
  <2>9. Grants(th[t])'
    <3>1. \A q \in granted \cap Publisher : pub # q => l.c = q /\ l.type = "publisher"
      BY <1>3, <2>1 DEF Grants
    <3> QED
      BY <2>2, <2>3, <3>1 DEF Grants, Goes, SameWork, answers, AllLabels
  <2>10. /\ AtRest(th[t])' /\ AtCheck(th[t])' /\ AtDereg(th[t])' /\ AtHash(th[t])'
         /\ AtAll(th[t])' /\ th'[t].pc # "keyDel"
    BY <2>2 DEF AtRest, AtCheck, AtDereg, AtHash, AtAll, Goes, DeregLabels
  <2> QED
    BY <2>5, <2>8, <2>9, <2>10 DEF Steady
<1>9. CASE IndexWrite(t)
  <2>1. /\ l.pc = "indexWrite" /\ Exists(l.c) /\ Grants(l) /\ l.type = "publisher"
        /\ members = Tasks \ {l.c} /\ total = Cardinality(Players \ {l.c})
        /\ pub = NoClient /\ \A q \in Publisher : Exists(q) => q = l.c
    BY <1>1, <1>9 DEF IndexWrite, Steady, AtIndex, OwnerMeanwhile, KindOk, Unindexed
  <2>2. /\ Goes(t, "zadd") /\ pub' = l.c /\ members' = members \cup {l.c}
        /\ UNCHANGED <<task, total>>
    BY <1>1, <1>9, Flat DEF IndexWrite, WriteIndices
  <2>3. Tasks' = Tasks /\ Players' = Players /\ l.c \in Tasks /\ LongLived'
    BY <1>1, <2>1, <2>2 DEF Tasks, Players, Exists, LongLived
  <2>4. Settled'
    <3>1. members' = Tasks' /\ Players \ {l.c} = Players
      BY <1>3, <1>4, <2>1, <2>2, <2>3
    <3>2. OwnersAgree'
      BY <1>1, <1>3, <2>1, <2>2 DEF OwnersAgree, Exists
    <3> QED
      BY <1>1, <2>1, <2>2, <2>3, <3>1, <3>2 DEF Settled
  <2>5. Grants(th[t])' /\ AtRest(th[t])' /\ AtCheck(th[t])'
    BY <1>1, <2>1, <2>2, <2>4 DEF Grants, AtRest, AtCheck, Goes, SameWork, answers, AllLabels
  <2>6. AtDereg(th[t])' /\ AtHash(th[t])' /\ AtIndex(th[t])' /\ AtAll(th[t])'
    BY <2>2 DEF AtDereg, AtHash, AtIndex, AtAll, Goes, DeregLabels, Unindexed
  <2> QED
    BY <2>2, <2>3, <2>5, <2>6 DEF Steady, Goes
<1>10. CASE SetAdd(t)
  <2>1. /\ l.pc = "sadd" /\ Exists(l.c) /\ Grants(l) /\ l.type = "player"
        /\ members = Tasks \ {l.c} /\ total = Cardinality(Players \ {l.c})
        /\ OwnersAgree /\ pub # NoClient
    BY <1>1, <1>10 DEF SetAdd, Steady, AtIndex, OwnerMeanwhile, KindOk, Unindexed
  <2>2. /\ Goes(t, "incr") /\ members' = members \cup {l.c} /\ UNCHANGED <<task, total, pub>>
    BY <1>1, <1>10, Flat DEF SetAdd, AddMember
  <2>3. Tasks' = Tasks /\ Players' = Players /\ l.c \in Tasks /\ LongLived'
    BY <1>1, <2>1, <2>2 DEF Tasks, Players, Exists, LongLived
  <2>4. OwnerMeanwhile(th[t])'
    BY <2>1, <2>2 DEF OwnerMeanwhile, OwnersAgree, Goes, SameWork, Exists
  <2>5. AtIndex(th[t])'
    BY <2>1, <2>2, <2>3, <2>4 DEF AtIndex, Goes, SameWork, Exists
  <2>6. Grants(th[t])'
    BY <2>1, <2>2 DEF Grants, Goes, SameWork, answers, AllLabels
  <2>7. /\ AtRest(th[t])' /\ AtCheck(th[t])' /\ AtDereg(th[t])' /\ AtHash(th[t])'
        /\ AtAll(th[t])'
    BY <2>2 DEF AtRest, AtCheck, AtDereg, AtHash, AtAll, Goes, DeregLabels
  <2> QED
    BY <2>2, <2>3, <2>5, <2>6, <2>7 DEF Steady, Goes
<1>11. CASE IncrTotal(t)
  <2>1. /\ l.pc = "incr" /\ Exists(l.c) /\ Grants(l) /\ l.type = "player"
        /\ members = Tasks /\ total = Cardinality(Players \ {l.c})
        /\ OwnersAgree /\ pub # NoClient
    BY <1>1, <1>11 DEF IncrTotal, Steady, AtIndex, OwnerMeanwhile, KindOk
  <2>2. /\ Goes(t, "zadd") /\ total' = total + 1 /\ UNCHANGED <<task, members, pub>>
    BY <1>1, <1>11, Flat DEF IncrTotal, IncrBy
  <2>3. Tasks' = Tasks /\ Players' = Players /\ LongLived'
    BY <1>1, <2>1, <2>2 DEF Tasks, Players, Exists, LongLived
  <2>4. total' = Cardinality(Players)
    <3>1. l.c \in Players /\ IsFiniteSet(Players) /\ Cardinality(Players) \in Nat
      BY <1>1, <1>3, <1>4, <2>1, PlayersAre DEF Tasks
    <3>2. Cardinality(Players \ {l.c}) = Cardinality(Players) - 1
      BY <3>1, FS_RemoveElement
    <3> QED
      BY <2>1, <2>2, <3>1, <3>2
  <2>5. Settled'
    BY <2>1, <2>2, <2>3, <2>4 DEF Settled, OwnersAgree, Exists
  <2>6. Grants(th[t])' /\ AtRest(th[t])' /\ AtCheck(th[t])'
    BY <2>1, <2>2, <2>5 DEF Grants, AtRest, AtCheck, Goes, SameWork, answers, AllLabels
  <2>7. AtDereg(th[t])' /\ AtHash(th[t])' /\ AtIndex(th[t])' /\ AtAll(th[t])'
    BY <2>2 DEF AtDereg, AtHash, AtIndex, AtAll, Goes, DeregLabels, Unindexed
  <2> QED
    BY <2>2, <2>3, <2>6, <2>7 DEF Steady, Goes
<1>12. CASE ZsetAdd(t)
  <2>1. /\ l.pc = "zadd" /\ Settled /\ Grants(l) /\ (l.c \in Publisher => pub = l.c)
    BY <1>3, <1>12 DEF ZsetAdd, Steady, AtRest, AtCheck
  <2>2. /\ Ends(t) /\ granted' = granted \cup {l.c} /\ UNCHANGED <<task, pub, members, total>>
    BY <1>1, <1>12, Flat DEF ZsetAdd, SetScore
  <2>3. Settled' /\ LongLived'
    BY <2>1, <2>2 DEF Settled, OwnersAgree, Tasks, Players, Exists, LongLived
  <2>4. \A q \in granted' \cap Publisher : pub' = q
    BY <2>1, <2>2 DEF Grants
  <2> QED
    BY <2>2, <2>3, <2>4, IdleSteady DEF Ends
<1> QED
  BY <1>7, <1>8, <1>9, <1>10, <1>11, <1>12

\* A removal of one registered client settles what is left of the registry.
LEMMA OneRemoved ==
    ASSUME RedisInv, KeysInRole, Roles, NEW c \in Client, Exists(c), Settled,
           Batch({<<c, TypeOf(c)>>})
    PROVE  /\ task'[c] = NoTask /\ \A d \in Client : d # c => task'[d] = task[d]
           /\ members' = Tasks' /\ total' = Cardinality(Players')
           /\ pub' = IF c \in Publisher THEN NoClient ELSE pub
<1> DEFINE b == {<<c, TypeOf(c)>>}
           gone == {x[1] : x \in b}
           plays == {x \in b : x[2] = "player"}
<1>1. gone = {c}
  OBVIOUS
<1>2. task' = [d \in Client |-> IF d \in gone THEN NoTask ELSE task[d]]
  BY DEF Batch
<1>3. /\ task'[c] = NoTask /\ \A d \in Client : d # c => task'[d] = task[d]
  BY <1>1, <1>2
<1>4. Tasks' = Tasks \ {c} /\ Players' = Players \ {c}
  BY <1>3 DEF Tasks, Players, Exists, NoTask
<1>5. members' = Tasks'
  BY <1>1, <1>4 DEF Batch, Settled
<1>6. total' = total - Cardinality(plays)
  BY DEF Batch
<1>7. /\ Players = {d \in Tasks : d \notin Publisher}
      /\ IsFiniteSet(Players) /\ Cardinality(Players) \in Nat
  BY PlayersAre
<1>8. total' = Cardinality(Players')
  <2>1. CASE c \in Publisher
    <3>1. plays = {} /\ c \notin Players
      BY <1>7, <2>1 DEF TypeOf
    <3>2. Cardinality(plays) = 0 /\ Players' = Players
      BY <1>4, <3>1, FS_EmptySet
    <3> QED
      BY <1>6, <1>7, <3>2 DEF Settled
  <2>2. CASE c \notin Publisher
    <3>1. plays = {<<c, TypeOf(c)>>} /\ c \in Players
      BY <1>7, <2>2 DEF TypeOf, Tasks
    <3>2. Cardinality(plays) = 1
      BY <3>1, FS_Singleton
    <3>3. Cardinality(Players \ {c}) = Cardinality(Players) - 1
      BY <1>7, <3>1, FS_RemoveElement
    <3> QED
      BY <1>4, <1>6, <3>2, <3>3 DEF Settled
  <2> QED
    BY <2>1, <2>2
<1>9. pub' = IF c \in Publisher THEN NoClient ELSE pub
  BY DEF Batch, TypeOf
<1> QED
  BY <1>3, <1>5, <1>8, <1>9

\* deregisterTask.
LEMMA SeqDeregister ==
    ASSUME NEW t, Scene(t), DeregGet(t) \/ DeregZrem(t) \/ DeregBatch(t)
    PROVE  LongLived' /\ Steady(th[t])'
<1> DEFINE l == th[t]
<1> USE DEF Scene, At
<1>1. /\ t \in Proc /\ ThreadInv /\ KindOk(l) /\ l.c \in Client /\ NoClient \notin Client
      /\ RedisInv /\ Publisher \subseteq Client /\ l.pc \in DeregLabels
      /\ task \in [Client -> [type : Type, last : Nat, exp : Nat]]
      /\ l.ret \in {"idle", "hset", "deny", "scan"} /\ l.ret # "scan"
  BY ClientAssumption
     DEF Proc, TInv, RedisInv, ThreadInv, Local, ThreadsInRole, HandlerOk, DeregGet,
         DeregZrem, DeregBatch, DeregLabels, Client
<1>2. /\ Settled /\ AtDereg(l) /\ \A q \in granted \cap Publisher : pub = q
  BY DEF DeregGet, DeregZrem, DeregBatch, Steady, AtRest, Grants
<1>3. /\ l.ret \in {"idle", "hset"}
      /\ l.ret = "hset" => IF l.type = "publisher" THEN pub = l.c
                           ELSE Exists(l.c) /\ pub # NoClient
      /\ l.ret = "idle" => l.c \notin Publisher
      /\ l.pc = "deregZrem" => ~Exists(l.c)
      /\ l.pc = "deregBatch" => Exists(l.c)
  BY <1>1, <1>2 DEF AtDereg, Roles
<1>4. l.ret = "hset" => Exists(l.c) /\ (l.type = "publisher" <=> l.c \in Publisher)
  BY <1>1, <1>2, <1>3 DEF KindOk, TypeOf, Settled, OwnersAgree, KeysInRole
<1>5. CASE DeregGet(t)
  <2>1. /\ SameJob(t) /\ UNCHANGED redis /\ UNCHANGED <<task, pub>>
        /\ th'[t].pc = IF Exists(l.c) THEN "deregBatch" ELSE "deregZrem"
    BY <1>1, <1>5, ReadFields DEF SameJob, redis
  <2>2. Settled' /\ LongLived'
    BY <1>2, <2>1, SameRegistry
  <2>3. AtDereg(th[t])'
    BY <1>2, <1>3, <1>5, <2>1 DEF DeregGet, AtDereg, SameJob, Exists, DeregLabels
  <2>4. Grants(th[t])'
    BY <1>2, <2>1 DEF Grants, SameJob, answers, AllLabels
  <2>5. /\ AtRest(th[t])' /\ AtCheck(th[t])' /\ AtHash(th[t])' /\ AtIndex(th[t])'
        /\ AtAll(th[t])' /\ th'[t].pc # "keyDel"
    BY <2>1, <2>2 DEF AtRest, AtCheck, AtHash, AtIndex, AtAll, Unindexed
  <2> QED
    BY <2>2, <2>3, <2>4, <2>5 DEF Steady
<1>6. CASE DeregZrem(t)
  <2>1. Return(t) /\ UNCHANGED <<task, pub, members, total>>
    BY <1>3, <1>4, <1>6 DEF DeregZrem, SetScore, ReturnFromDeregister
  <2>2. Settled' /\ LongLived'
    BY <1>2, <2>1 DEF Settled, OwnersAgree, Tasks, Players, Exists, LongLived
  <2>3. Ends(t) /\ granted' = granted
    BY <1>1, <2>1, Flat DEF answers
  <2> QED
    BY <1>2, <2>1, <2>2, <2>3, IdleSteady DEF Ends
<1>7. CASE DeregBatch(t)
  <2>1. Exists(l.c) /\ l.kind = TypeOf(l.c) /\ Batch({<<l.c, l.kind>>})
    BY <1>1, <1>3, <1>7 DEF DeregBatch, KindOk
  <2>2. /\ task'[l.c] = NoTask /\ \A d \in Client : d # l.c => task'[d] = task[d]
        /\ members' = Tasks' /\ total' = Cardinality(Players')
        /\ pub' = IF l.c \in Publisher THEN NoClient ELSE pub
    BY <1>1, <1>2, <2>1, OneRemoved
  <2>3. LongLived'
    BY <2>2 DEF LongLived, Exists
  <2>4. CASE l.ret = "idle"
    <3>1. Ends(t) /\ granted' = granted
      BY <1>1, <1>7, <2>4, Flat DEF DeregBatch, ReturnFromDeregister, answers
    <3>2. pub' = pub /\ OwnersAgree'
      BY <1>1, <1>2, <1>3, <2>2, <2>4 DEF Settled, OwnersAgree, Exists
    <3>3. pub = NoClient => members' = {}
      BY <1>2, <2>1 DEF Settled, Batch
    <3>4. Settled'
      BY <2>2, <3>2, <3>3 DEF Settled
    <3> QED
      BY <1>2, <2>3, <3>1, <3>2, <3>4, IdleSteady DEF Ends
  <2>5. CASE l.ret = "hset"
    <3>1. Goes(t, "hset")
      BY <1>1, <1>7, <2>5, Flat DEF DeregBatch, ReturnFromDeregister
    <3>2. OwnerMeanwhile(th[t])'
      <4>1. CASE l.c \in Publisher
        <5>1. \A q \in Publisher : task'[q] # NoTask => q = l.c
          BY <1>1, <1>2, <1>3, <1>4, <2>2, <2>5, <4>1 DEF Settled, OwnersAgree, Exists
        <5> QED
          BY <1>4, <2>2, <2>5, <3>1, <4>1, <5>1 DEF OwnerMeanwhile, Goes, SameWork, Exists
      <4>2. CASE l.c \notin Publisher
        <5>1. OwnersAgree' /\ pub' # NoClient
          BY <1>1, <1>2, <1>3, <1>4, <2>2, <2>5, <4>2 DEF Settled, OwnersAgree, Exists
        <5> QED
          BY <1>4, <2>5, <3>1, <4>2, <5>1 DEF OwnerMeanwhile, Goes, SameWork
      <4> QED
        BY <4>1, <4>2
    <3>3. AtHash(th[t])'
      BY <2>2, <3>1, <3>2 DEF AtHash, Goes, SameWork, Exists
    <3>4. Grants(th[t])'
      <4>1. \A q \in granted \cap Publisher : pub' # q => q = l.c
        BY <1>2, <1>3, <1>4, <2>2, <2>5
      <4> QED
        BY <3>1, <4>1 DEF Grants, Goes, SameWork, answers, AllLabels
    <3>5. /\ AtRest(th[t])' /\ AtCheck(th[t])' /\ AtDereg(th[t])' /\ AtIndex(th[t])'
          /\ AtAll(th[t])'
      BY <3>1 DEF AtRest, AtCheck, AtDereg, AtIndex, AtAll, Goes, DeregLabels, Unindexed
    <3> QED
      BY <2>3, <3>1, <3>3, <3>4, <3>5 DEF Steady, Goes
  <2> QED
    BY <1>3, <2>4, <2>5
<1> QED
  BY <1>5, <1>6, <1>7

\* The batch of all members has one pair for every registered player.
LEMMA BatchPlayers ==
    ASSUME NEW S, IsFiniteSet(S)
    PROVE  LET b == {<<d, TypeOf(d)>> : d \in S}
           IN  Cardinality({x \in b : x[2] = "player"})
                 = Cardinality({d \in S : d \notin Publisher})
<1> DEFINE b == {<<d, TypeOf(d)>> : d \in S}
           plays == {x \in b : x[2] = "player"}
           D == {d \in S : d \notin Publisher}
           f == [d \in D |-> <<d, "player">>]
<1>1. IsFiniteSet(D)
  BY FS_Subset
<1>2. plays = {<<d, "player">> : d \in D}
  BY DEF TypeOf
<1>3. f \in Bijection(D, plays)
  <2>1. f \in Injection(D, plays)
    BY <1>2 DEF Injection, IsInjective
  <2>2. f \in Surjection(D, plays)
    BY <1>2 DEF Surjection
  <2> QED
    BY <2>1, <2>2 DEF Bijection
<1>4. ExistsBijection(D, plays)
  BY <1>3 DEF ExistsBijection
<1> HIDE DEF plays, D
<1>5. Cardinality(D) = Cardinality(plays)
  BY <1>1, <1>4, FS_Bijection
<1> QED
  BY <1>5 DEF plays, D

\* deregisterAllMembers.
LEMMA SeqAll ==
    ASSUME NEW t, Scene(t),
           AllMembers(t) \/ AllBatch(t) \/ AllDel(t) \/ \E c \in Client : AllGet(t, c)
    PROVE  LongLived' /\ Steady(th[t])'
<1> DEFINE l == th[t]
<1> USE DEF Scene, At
<1>1. /\ t \in Proc /\ ThreadInv /\ KindOk(l) /\ NoClient \notin Client
      /\ RedisInv /\ Publisher \subseteq Client /\ l.pc \in AllLabels
      /\ task \in [Client -> [type : Type, last : Nat, exp : Nat]]
      /\ l.c \in Publisher
  BY ClientAssumption
     DEF Proc, TInv, RedisInv, ThreadsInRole, AllMembers, AllBatch, AllDel, AllGet,
         AllLabels, Client
<1>2. /\ AtRest(l) /\ AtAll(l) /\ l.c \notin granted
      /\ \A q \in granted \cap Publisher : pub = q
  BY <1>1 DEF Steady, Grants, AllLabels
<1>3. CASE AllMembers(t) \/ \E c \in Client : AllGet(t, c)
  <2>1. SameJob(t) /\ UNCHANGED redis /\ UNCHANGED <<task, pub, members>>
    BY <1>1, <1>3, ReadFields DEF SameJob, redis
  <2>2. Settled /\ pub = l.c /\ l.c \in members
    BY <1>1, <1>2, <1>3
       DEF AllMembers, AllGet, AtRest, AtAll, Settled, OwnersAgree, Tasks
  <2>3. Settled' /\ LongLived'
    BY <2>1, <2>2, SameRegistry
  <2>4. th'[t].pc \in {"allGet", "allBatch"} /\ AtAll(th[t])'
    <3>1. CASE AllMembers(t)
      <4>1. th'[t].pc = "allGet" /\ th'[t].ids = members /\ th'[t].batch = {}
        BY <1>1, <2>2, <3>1, AllFields, ReadFields
      <4> QED
        BY <2>1, <2>2, <4>1 DEF AtAll, SameJob
    <3>2. ASSUME NEW c \in Client, AllGet(t, c)
          PROVE  th'[t].pc \in {"allGet", "allBatch"} /\ AtAll(th[t])'
      <4>1. /\ l.ids \subseteq members /\ l.pc = "allGet"
            /\ l.batch = {<<d, TypeOf(d)>> : d \in members \ l.ids}
        BY <1>2, <3>2 DEF AtAll, AllGet
      <4>2. /\ c \in l.ids /\ th'[t].ids = l.ids \ {c}
            /\ th'[t].pc = IF l.ids = {c} THEN "allBatch" ELSE "allGet"
        BY <1>1, <3>2, AllFields
      <4>3. Exists(c) /\ task[c].type = TypeOf(c)
        BY <2>2, <4>1, <4>2 DEF Settled, Tasks, KeysInRole
      <4>4. th'[t].batch = l.batch \cup {<<c, TypeOf(c)>>}
        BY <1>1, <3>2, <4>3, ReadFields
      <4>5. members \ th'[t].ids = (members \ l.ids) \cup {c}
        BY <4>1, <4>2
      <4>6. th'[t].batch = {<<d, TypeOf(d)>> : d \in members \ th'[t].ids}
        BY <4>1, <4>4, <4>5
      <4>7. th'[t].pc = "allBatch" => th'[t].ids = {}
        BY <4>2
      <4> QED
        BY <2>1, <2>2, <4>1, <4>2, <4>6, <4>7 DEF AtAll, SameJob
    <3> QED
      BY <1>3, <3>1, <3>2
  <2>5. Grants(th[t])'
    BY <1>2, <2>1 DEF Grants, SameJob, answers
  <2>6. /\ AtRest(th[t])' /\ AtCheck(th[t])' /\ AtDereg(th[t])' /\ AtHash(th[t])'
        /\ AtIndex(th[t])' /\ th'[t].pc # "keyDel"
    BY <2>3, <2>4 DEF AtRest, AtCheck, AtDereg, AtHash, AtIndex, DeregLabels, Unindexed
  <2> QED
    BY <2>3, <2>4, <2>5, <2>6 DEF Steady
<1>4. CASE AllBatch(t)
  <2>1. /\ l.pc = "allBatch" /\ Batch(l.batch) /\ Goes(t, "allDel")
    BY <1>1, <1>4, Flat DEF AllBatch
  <2>2. /\ Settled /\ pub = l.c /\ l.batch = {<<d, TypeOf(d)>> : d \in Tasks}
    <3>1. Settled /\ pub = l.c /\ l.ids = {}
          /\ l.batch = {<<d, TypeOf(d)>> : d \in members \ l.ids}
      BY <1>2, <2>1 DEF AtRest, AtAll
    <3>2. members \ l.ids = Tasks
      BY <3>1 DEF Settled
    <3> QED
      BY <3>1, <3>2
  <2>3. {x[1] : x \in l.batch} = Tasks
    <3>1. \A d \in Tasks : <<d, TypeOf(d)>> \in l.batch /\ <<d, TypeOf(d)>>[1] = d
      BY <2>2
    <3>2. \A x \in l.batch : x[1] \in Tasks
      BY <2>2
    <3> QED
      BY <3>1, <3>2
  <2>4. task' = [c \in Client |-> IF c \in {x[1] : x \in l.batch} THEN NoTask ELSE task[c]]
    BY <2>1 DEF Batch
  <2>5. \A c \in Client : task'[c] = NoTask
    BY <2>3, <2>4 DEF Tasks, Exists
  <2>6. Tasks' = {} /\ LongLived'
    BY <2>5 DEF Tasks, Exists, LongLived
  <2>7. members' = {}
    BY <2>1, <2>2, <2>3 DEF Batch, Settled
  <2>8. pub' = NoClient
    <3>1. l.c \in Tasks
      BY <1>1, <2>2 DEF Settled, OwnersAgree, Tasks
    <3>2. <<l.c, "publisher">> \in l.batch
      BY <1>1, <2>2, <3>1 DEF TypeOf
    <3> QED
      BY <2>1, <3>2 DEF Batch
  <2>9. total' = 0
    <3>1. /\ Players = {d \in Tasks : d \notin Publisher} /\ Cardinality(Players) \in Nat
          /\ IsFiniteSet(Tasks)
      BY <1>1, PlayersAre, ClientAssumption, FS_Subset DEF Tasks
    <3>2. Cardinality({x \in l.batch : x[2] = "player"}) = Cardinality(Players)
      BY <2>2, <3>1, BatchPlayers
    <3>3. total' = total - Cardinality({x \in l.batch : x[2] = "player"})
      BY <2>1 DEF Batch
    <3>4. total = Cardinality(Players)
      BY <2>2 DEF Settled
    <3> DEFINE n == Cardinality(Players)
               m == Cardinality({x \in l.batch : x[2] = "player"})
    <3>5. n \in Nat /\ m = n /\ total = n /\ total' = total - m
      BY <3>1, <3>2, <3>3, <3>4
    <3> HIDE DEF n, m
    <3> QED
      BY <3>5
  <2>10. AtAll(th[t])'
    BY <2>1, <2>6, <2>7, <2>8, <2>9 DEF AtAll, Goes
  <2>11. Grants(th[t])'
    <3>1. granted \cap Publisher = {}
      BY <1>2, <2>2
    <3> QED
      BY <1>2, <2>1, <3>1 DEF Grants, Goes, SameWork, answers
  <2>12. /\ AtRest(th[t])' /\ AtCheck(th[t])' /\ AtDereg(th[t])' /\ AtHash(th[t])'
         /\ AtIndex(th[t])'
    BY <2>1 DEF AtRest, AtCheck, AtDereg, AtHash, AtIndex, Goes, DeregLabels, Unindexed
  <2> QED
    BY <2>1, <2>6, <2>10, <2>11, <2>12 DEF Steady, Goes
<1>5. CASE AllDel(t)
  <2>1. /\ l.pc = "allDel" /\ Tasks = {} /\ total = 0 /\ pub = NoClient
    BY <1>2, <1>5 DEF AllDel, AtAll
  <2>2. /\ Ends(t) /\ granted' = granted /\ members' = {} /\ UNCHANGED <<task, total, pub>>
    BY <1>1, <1>5, Flat DEF AllDel, DelMembers, answers
  <2>3. Tasks' = {} /\ LongLived'
    BY <2>1, <2>2 DEF Tasks, Exists, LongLived
  <2>4. Cardinality(Players') = 0
    <3>1. Players' = {}
      BY <2>1, <2>2 DEF Tasks, Players, Exists, NoTask
    <3> QED
      BY <3>1, FS_EmptySet
  <2>5. OwnersAgree'
    BY <1>1, <2>1, <2>2 DEF OwnersAgree, Tasks, Exists
  <2>6. Settled'
    BY <2>1, <2>2, <2>3, <2>4, <2>5 DEF Settled
  <2>7. \A q \in granted' \cap Publisher : pub' = q
    BY <1>2, <2>2
  <2> QED
    BY <2>2, <2>3, <2>6, <2>7, IdleSteady DEF Ends
<1> QED
  BY <1>3, <1>4, <1>5

\* Every step keeps the registry steady.
LEMMA SeqStep ==
    TInv /\ Apart /\ CalmInv /\ RoleInv /\ SeqInv /\ [Next]_vars => SeqInv'
<1> SUFFICES ASSUME TInv, Apart, CalmInv, RoleInv, SeqInv, [Next]_vars,
                    Sequential, Undisturbed', NEW h \in Thread, Thread = {h}
             PROVE  LongLived' /\ Steady(th[h])'
  BY DEF SeqInv, Sequential
<1>1. Undisturbed
  BY CalmStep
<1>2. Scene(h) /\ TaskTimeout <= TaskTTL
  BY <1>1 DEF Scene, SeqInv, Sequential, RoleInv, Apart, HandlersInv
<1>3. CASE Hook(h)
  BY <1>2, <1>3, SeqHook
<1>4. CASE Continue(h)
  <2>1. ~KeyDel(h)
    BY <1>2 DEF KeyDel, At, Scene, Steady
  <2> QED
    BY <1>2, <1>4, <2>1, SeqRead, SeqRegister, SeqDeregister, SeqAll DEF Continue
<1>5. CASE Tick
  <2>1. \A c \in Client : task'[c] = task[c]
    <3> SUFFICES ASSUME NEW c \in Client PROVE task'[c] = task[c]
      OBVIOUS
    <3>1. Exists(c) => ~(task[c].exp <= clock')
      BY <1>2, TimeAssumption, BoundAssumption, TypeStep
         DEF Scene, LongLived, Undisturbed, TInv, EnvInv, RedisInv
    <3> QED
      BY <1>5, <3>1 DEF Tick, Exists
  <2>2. UNCHANGED <<th, pub, active, members, total, zset, granted>>
    BY <1>5 DEF Tick, answers
  <2>3. task' = task
    BY <1>2, <1>5, <2>1 DEF Scene, TInv, RedisInv, Tick
  <2>4. UNCHANGED redis
    BY <2>2, <2>3 DEF redis
  <2> QED
    BY <1>2, <2>2, <2>4, SteadyKept DEF Scene
<1>6. CASE UNCHANGED <<redis, th, answers>>
  <2>1. UNCHANGED <<redis, th, granted>>
    BY <1>6 DEF answers
  <2> QED
    BY <1>2, <2>1, SteadyKept DEF Scene
<1> QED
  BY <1>3, <1>4, <1>5, <1>6, CalmStep

\* The invariant of the sequential registry.
LEMMA SeqHolds == Spec => []SeqInv
<1>1. Init => SeqInv
  <2> SUFFICES ASSUME Init, Sequential, NEW t \in Thread PROVE LongLived /\ Steady(th[t])
    BY DEF SeqInv, Sequential
  <2>1. th[t] = Idle /\ granted = {} /\ \A c \in Client : ~Exists(c)
    BY DEF Init, Proc, Exists
  <2>2. Players = {} /\ Tasks = {}
    BY DEF Init, Players, NoTask, Tasks, Exists
  <2>3. OwnersAgree /\ LongLived
    BY <2>1, ClientAssumption DEF Init, OwnersAgree, LongLived, Client
  <2>4. Settled
    BY <2>2, <2>3, FS_EmptySet DEF Init, Settled
  <2> QED
    BY <2>1, <2>3, <2>4
       DEF Idle, Steady, AtRest, AtCheck, AtDereg, AtHash, AtIndex, AtAll, Grants,
           DeregLabels, AllLabels, Unindexed
<1> QED
  BY <1>1, ApartHolds, RolesHold, SeqStep, PTL DEF Spec

\* When the hooks come one after the other, the member set, the player total, the
\* publisher key, active_pubs and the task hashes describe the same registrations
\* between any two of them, for any number of publishers, players and hooks.
THEOREM IndexesAgreeSequential == Sequential => (Spec => []IndexesAgree)
<1> SUFFICES ASSUME Sequential PROVE Spec => []IndexesAgree
  OBVIOUS
<1>1. TInv /\ RoleInv /\ SeqInv /\ ActiveInv => IndexesAgree
  <2> SUFFICES ASSUME TInv, RoleInv, SeqInv, ActiveInv, Quiet, Undisturbed
               PROVE  /\ members = {c \in Client : Exists(c)}
                      /\ total = Cardinality(Players)
                      /\ \A c \in Client : task[c].type = "publisher" <=> pub = c
                      /\ active <=> pub # NoClient
    BY DEF IndexesAgree
  <2>1. PICK h \in Thread : Thread = {h}
    BY DEF Sequential
  <2>2. Settled /\ KeysInRole
    BY <2>1 DEF Quiet, At, Proc, SeqInv, Steady, AtRest, RoleInv, Sequential
  <2>3. \A c \in Client : task[c].type = "publisher" <=> Exists(c) /\ c \in Publisher
    BY <2>2 DEF KeysInRole, TypeOf, Exists, NoTask
  <2>4. \A c \in Client : task[c].type = "publisher" <=> pub = c
    BY <2>2, <2>3, ClientAssumption DEF Settled, OwnersAgree, KeysInRole
  <2> QED
    BY <2>2, <2>4 DEF Settled, Tasks, ActiveInv, Undisturbed
<1> QED
  BY <1>1, TypesHold, RolesHold, SeqHolds, ActiveHolds, PTL

\* Under the same conditions the end of a stream leaves none of its players behind:
\* a publisher that registers anew while it has players never lets go of the stream.
THEOREM NoOrphanPlayersSequential == Sequential => (Spec => []NoOrphanPlayers)
<1> SUFFICES ASSUME Sequential PROVE Spec => []NoOrphanPlayers
  OBVIOUS
<1>1. SeqInv => NoOrphanPlayers
  <2>1. PICK h \in Thread : Thread = {h}
    BY DEF Sequential
  <2> QED
    BY <2>1 DEF NoOrphanPlayers, Quiet, At, Proc, SeqInv, Steady, AtRest, Settled
<1> QED
  BY <1>1, SeqHolds, PTL

\* And with any number of clients that publish, the one that was told SUCCESS owns
\* the stream until its done hook.
THEOREM OwnerKeepsStreamSequential == Sequential => (Spec => []OwnerKeepsStream)
<1> SUFFICES ASSUME Sequential PROVE Spec => []OwnerKeepsStream
  OBVIOUS
<1>1. SeqInv => OwnerKeepsStream
  <2>1. PICK h \in Thread : Thread = {h}
    BY DEF Sequential
  <2> QED
    BY <2>1 DEF OwnerKeepsStream, Quiet, At, Proc, SeqInv, Steady, Grants
<1> QED
  BY <1>1, SeqHolds, PTL
=============================================================================
