-------------------------- MODULE RegistryProofs ---------------------------
(***************************************************************************)
(* Proofs about the registry under concurrent hooks, for any number of     *)
(* threads, players and hooks, when a client sends a hook only after its   *)
(* last one was answered: what stays visible to the timeout scan, who      *)
(* keeps a stream with one publisher, that a registration which succeeded  *)
(* is complete, and what a refused client leaves.                          *)
(***************************************************************************)
EXTENDS StreamStateProofs

\* A client id publishes or plays.
Roles == Publisher \cap Player = {}
\* One client id publishes the stream, and no hooks of a client overlap.
OneOwner == SerialClients /\ Roles /\ \E p \in Publisher : Publisher = {p}

TypeOf(c) == IF c \in Publisher THEN "publisher" ELSE "player"

ScanLabels == {"scanRem", "scanGet", "scanBack", "cleanBatch"}
AllLabels == {"all", "allGet", "allBatch", "allDel"}
DeregLabels == {"dereg", "deregZrem", "deregBatch"}

\* A hook thread is idle or at work on the client of its hook, and never at the
\* labels of the cleanup pass.
HandlerOk(t) ==
    /\ th[t].pc \notin ScanLabels /\ th[t].ret # "scan"
    /\ th[t].pc = "idle" => th[t] = Idle
    /\ th[t].pc # "idle" => th[t].c \in Client
    /\ th[t].ret = "deny" => th[t].pc \in DeregLabels
HandlersInv == \A t \in Thread : HandlerOk(t)

\* No two hook threads work on the same client.
SerialInv ==
    SerialClients =>
        \A t, u \in Thread : t # u /\ th[t].c = th[u].c => th[t].c = NoClient

\* Until something can time out, the cleanup thread finds nothing to do.
CalmInv == Undisturbed => th[Cleaner] = Idle

\* Where a thread is that has written the hash of its client and has yet to write
\* its timestamp, or to take the hash back.
Writing(t) ==
    \/ th[t].pc \in {"expire", "keyDel", "index", "indexWrite", "sadd", "incr", "zadd"}
    \/ th[t].pc \in {"dereg", "deregBatch"} /\ th[t].ret = "deny"

ReapInv ==
    SerialClients /\ Undisturbed =>
        /\ \A t \in Thread : th[t].pc = "deregZrem" => ~Exists(th[t].c)
        /\ \A c \in Client : Exists(c) /\ zset[c] = NoScore =>
             \E t \in Thread : th[t].c = c /\ Writing(t)

\* The cleanup thread has no hook and keeps to the labels of its pass.
CleanerOk ==
    /\ th[Cleaner].pc \in ScanLabels \cup AllLabels \cup DeregLabels \cup {"idle"}
    /\ th[Cleaner].type = "none" /\ th[Cleaner].ret \in {"idle", "scan"}
    /\ th[Cleaner].pc \in DeregLabels => th[Cleaner].ret = "scan"
    /\ th[Cleaner].pc = "idle" => th[Cleaner] = Idle

\* Where a client has one role, every hash, every thread and every batch knows it.
KindOk(l) ==
    /\ l.type \in {"none", TypeOf(l.c)}
    /\ l.pc = "deregBatch" => l.kind = TypeOf(l.c)
    /\ \A x \in l.batch : x[2] = TypeOf(x[1])
    /\ l.pc \in {"pubCheck", "index", "indexWrite"} => l.type = "publisher"
    /\ l.pc \in {"playLookup", "playCheck", "sadd", "incr"} => l.type = "player"
    /\ l.pc \in {"hset", "expire", "keyDel", "zadd"} \/ l.ret \in {"hset", "deny"}
         => l.type # "none"
KeysInRole ==
    /\ \A c \in Client : Exists(c) => task[c].type = TypeOf(c)
    /\ pub \in Publisher \cup {NoClient}
ThreadsInRole ==
    /\ \A t \in Proc : KindOk(th[t])
    /\ \A t \in Thread : th[t].pc \in AllLabels \cup {"doneGet"} => th[t].c \in Publisher
RoleInv == Roles => KeysInRole /\ ThreadsInRole

\* The single publisher p: its task and its key come and go together, except while
\* its own thread registers it anew.
Owns(p) ==
    /\ Exists(p) => TaskTTL <= task[p].exp
    /\ pub = p => Exists(p)
    /\ \A t \in Thread : th[t].c = p =>
         /\ th[t].pc # "keyDel" /\ th[t].ret # "deny"
         /\ th[t].pc \in {"expire", "index", "indexWrite", "zadd"} => Exists(p)
         /\ th[t].pc = "zadd" => pub = p
         /\ th[t].pc \in AllLabels \cup {"doneGet"} => p \notin granted
         /\ th[t].pc \in DeregLabels => th[t].ret = "hset"
    /\ p \in granted /\ pub # p =>
         \E t \in Thread : th[t].c = p /\ th[t].pc \in {"hset", "expire", "index", "indexWrite"}
OwnerInv ==
    OneOwner /\ TaskTimeout <= TaskTTL /\ Undisturbed => \A p \in Publisher : Owns(p)

\* A refused client has no hash: the one fault was spent before or on the refusal.
Clean(c) ==
    /\ c \in denied => ~Exists(c)
    /\ faults = 0 /\ c \in Publisher /\ Exists(c) /\ pub # c =>
         \E t \in Thread : th[t].c = c /\ th[t].pc \in {"expire", "index", "indexWrite"}
    /\ \A t \in Thread : th[t].c = c =>
         /\ th[t].type # "none" => c \notin denied
         /\ faults = 0 /\ th[t].pc \in {"hset", "deregZrem", "keyDel"} => ~Exists(c)
         /\ th[t].ret = "deny" => faults # 0 /\ (th[t].pc = "deregZrem" => ~Exists(c))
OneFault == crashes = 0 /\ ~lost /\ faults < 2
DenyInv == OneOwner /\ OneFault => \A c \in Client : Clean(c)
-----------------------------------------------------------------------------
(* What a step does to the thread that takes it, field by field. *)

\* Everything a thread remembers across a move to another label.
SameWork(t) ==
    /\ th'[t].c = th[t].c /\ th'[t].type = th[t].type /\ th'[t].kind = th[t].kind
    /\ th'[t].batch = th[t].batch
Goes(t, label) ==
    /\ OthersStay(t) /\ SameWork(t)
    /\ th'[t].pc = label /\ th'[t].ret = th[t].ret /\ UNCHANGED answers
Calls(t, ret) ==
    /\ OthersStay(t) /\ SameWork(t)
    /\ th'[t].pc = "dereg" /\ th'[t].ret = ret /\ UNCHANGED answers
Ends(t) == OthersStay(t) /\ th'[t] = Idle

\* The control operators, read field by field.
LEMMA Flat ==
    ASSUME ThreadInv, NEW t \in Proc
    PROVE  /\ \A label : Goto(t, label) => Goes(t, label)
           /\ \A ret : CallDeregister(t, ret) => Calls(t, ret)
           /\ Return(t) => Ends(t) /\ UNCHANGED answers
           /\ Deny(t) => Ends(t) /\ denied' = denied \cup {th[t].c} /\ granted' = granted
           /\ Grant(t) => Ends(t) /\ granted' = granted \cup {th[t].c} /\ denied' = denied
<1> DEFINE l == th[t]
<1>1. l \in Local /\ th \in [Proc -> Local]
  BY DEF ThreadInv
<1>2. ASSUME NEW k, Become(t, k) PROVE th'[t] = k /\ OthersStay(t) /\ UNCHANGED answers
  BY <1>1, <1>2 DEF Become, OthersStay
<1>3. ASSUME NEW label, Goto(t, label) PROVE Goes(t, label)
  <2>1. th'[t] = [l EXCEPT !.pc = label] /\ OthersStay(t) /\ UNCHANGED answers
    BY <1>2, <1>3 DEF Goto
  <2> QED
    BY <1>1, <2>1 DEF Goes, SameWork, Local
<1>4. ASSUME NEW ret, CallDeregister(t, ret) PROVE Calls(t, ret)
  <2>1. th'[t] = [l EXCEPT !.pc = "dereg", !.ret = ret] /\ OthersStay(t) /\ UNCHANGED answers
    BY <1>2, <1>4 DEF CallDeregister
  <2> QED
    BY <1>1, <2>1 DEF Calls, SameWork, Local
<1>5. Return(t) => Ends(t) /\ UNCHANGED answers
  BY <1>2 DEF Return, Ends
<1>6. Deny(t) \/ Grant(t) => Ends(t)
  BY <1>1 DEF Deny, Grant, Ends, OthersStay
<1> QED
  BY <1>3, <1>4, <1>5, <1>6 DEF Deny, Grant

\* What a step of a hook thread leaves of it: it ends, or it goes on with its client.
GoesOn(t) ==
    /\ OthersStay(t)
    /\ \/ th'[t] = Idle
       \/ /\ th'[t].pc \notin ScanLabels \cup {"idle"}
          /\ th'[t].c = th[t].c /\ th'[t].type = th[t].type
          /\ th'[t].ret \in {"idle", "hset", "deny"}
          /\ th'[t].ret = "deny" => th'[t].pc \in DeregLabels

\* The next iteration of deregisterAllMembers, field by field.
LEMMA NextFields ==
    ASSUME NEW l \in Local, NEW c, NEW found
    PROVE  LET k == AllNext(l, c, found)
           IN  /\ k.pc \in {"allGet", "allBatch"} /\ k.c = l.c /\ k.type = l.type
               /\ k.ret = l.ret /\ k.kind = l.kind /\ k.batch = l.batch \cup found
BY DEF AllNext, Local

\* A failed call ends the hook or leaves it at a label of its own.
LEMMA ErrorGoesOn ==
    ASSUME ThreadInv, NEW t \in Thread, HandlerOk(t), AfterError(t)
    PROVE  GoesOn(t)
<1> USE DEF ScanLabels, DeregLabels, HandlerOk, At
<1>1. t \in Proc /\ th[t] \in Local /\ th \in [Proc -> Local]
  BY DEF Proc, ThreadInv
<1>2. th[t].ret \in {"idle", "hset", "deny"}
  BY <1>1 DEF Local
<1>3. CASE ReturnFromDeregister(t) /\ th[t].pc \in {"deregZrem", "deregBatch"}
  BY <1>1, <1>2, <1>3, Flat DEF ReturnFromDeregister, GoesOn, Goes, Ends, SameWork
<1>4. ASSUME NEW c \in th[t].ids, Become(t, AllNext(th[t], c, {})), th[t].pc = "allGet"
      PROVE  GoesOn(t)
  <2>1. th'[t] = AllNext(th[t], c, {}) /\ OthersStay(t)
    BY <1>1, <1>4 DEF Become, OthersStay
  <2> QED
    BY <1>1, <1>2, <1>4, <2>1, NextFields DEF GoesOn
<1>5. CASE Deny(t) \/ Return(t)
  BY <1>1, <1>5, Flat DEF GoesOn, Ends
<1>6. CASE \/ th[t].pc \in {"pubCheck", "playCheck"} /\ Goto(t, "hset")
           \/ At(t, "expire") /\ Goto(t, "keyDel")
           \/ At(t, "index") /\ Goto(t, "indexWrite")
           \/ At(t, "incr") /\ Goto(t, "zadd")
           \/ At(t, "dereg") /\ Goto(t, "deregZrem")
           \/ th[t].pc \in {"all", "allBatch"} /\ Goto(t, "allDel")
           \/ th[t].pc \in {"indexWrite", "sadd", "zadd"} /\ CallDeregister(t, "deny")
  BY <1>1, <1>2, <1>6, Flat DEF GoesOn, Goes, Calls, SameWork
<1> QED
  BY <1>3, <1>4, <1>5, <1>6 DEF AfterError, IndexFails

\* The reads that store what they find, field by field.
SameJob(t) ==
    /\ OthersStay(t) /\ UNCHANGED <<redis, env, answers>>
    /\ th'[t].c = th[t].c /\ th'[t].type = th[t].type /\ th'[t].ret = th[t].ret

LEMMA ReadFields ==
    ASSUME ThreadInv, NEW t \in Proc
    PROVE  /\ PlayLookup(t) => \/ Return(t)
                               \/ pub # NoClient /\ Goes(t, "playCheck")
           /\ DeregGet(t) =>
                /\ SameJob(t) /\ th'[t].kind = task[th[t].c].type
                /\ th'[t].batch = th[t].batch
                /\ th'[t].pc = IF Exists(th[t].c) THEN "deregBatch" ELSE "deregZrem"
           /\ AllMembers(t) =>
                /\ SameJob(t) /\ th'[t].kind = th[t].kind /\ th'[t].batch = {}
                /\ th'[t].pc \in {"allDel", "allGet"}
           /\ \A c \in Client : AllGet(t, c) =>
                /\ SameJob(t) /\ th'[t].kind = th[t].kind
                /\ th'[t].pc \in {"allGet", "allBatch"}
                /\ th'[t].batch = th[t].batch
                     \cup (IF Exists(c) THEN {<<c, task[c].type>>} ELSE {})
<1> DEFINE l == th[t]
<1>1. l \in Local /\ th \in [Proc -> Local]
  BY DEF ThreadInv
<1>2. ASSUME NEW k, Become(t, k) PROVE th'[t] = k /\ OthersStay(t) /\ UNCHANGED answers
  BY <1>1, <1>2 DEF Become, OthersStay
<1>3. ASSUME PlayLookup(t), ~Return(t) PROVE pub # NoClient /\ Goes(t, "playCheck")
  <2>1. pub # NoClient /\ Become(t, [l EXCEPT !.pc = "playCheck", !.last = clock])
    BY <1>3 DEF PlayLookup
  <2>2. /\ th'[t] = [l EXCEPT !.pc = "playCheck", !.last = clock]
        /\ OthersStay(t) /\ UNCHANGED answers
    BY <1>2, <2>1
  <2> QED
    BY <1>1, <2>1, <2>2 DEF Goes, SameWork, Local
<1>4. ASSUME DeregGet(t)
      PROVE  /\ SameJob(t) /\ th'[t].kind = task[l.c].type /\ th'[t].batch = l.batch
             /\ th'[t].pc = IF Exists(l.c) THEN "deregBatch" ELSE "deregZrem"
  <2> DEFINE label == IF Exists(l.c) THEN "deregBatch" ELSE "deregZrem"
             kind == task[l.c].type
  <2>1. Become(t, [l EXCEPT !.pc = label, !.kind = kind]) /\ UNCHANGED <<redis, env>>
    BY <1>4 DEF DeregGet
  <2>2. /\ th'[t] = [l EXCEPT !.pc = label, !.kind = kind]
        /\ OthersStay(t) /\ UNCHANGED answers
    BY <1>2, <2>1
  <2>3. /\ th'[t].pc = label /\ th'[t].kind = kind /\ th'[t].c = l.c
        /\ th'[t].type = l.type /\ th'[t].ret = l.ret /\ th'[t].batch = l.batch
    <3> HIDE DEF label, kind
    <3> QED
      BY <1>1, <2>2 DEF Local
  <2> QED
    BY <2>1, <2>2, <2>3 DEF SameJob
<1>5. ASSUME AllMembers(t)
      PROVE  /\ SameJob(t) /\ th'[t].kind = l.kind /\ th'[t].batch = {}
             /\ th'[t].pc \in {"allDel", "allGet"}
  <2> DEFINE label == IF members = {} THEN "allDel" ELSE "allGet"
  <2>1. /\ Become(t, [l EXCEPT !.pc = label, !.ids = members, !.batch = {}])
        /\ UNCHANGED <<redis, env>>
    BY <1>5 DEF AllMembers
  <2>2. /\ th'[t] = [l EXCEPT !.pc = label, !.ids = members, !.batch = {}]
        /\ OthersStay(t) /\ UNCHANGED answers
    BY <1>2, <2>1
  <2>3. /\ th'[t].pc = label /\ th'[t].kind = l.kind /\ th'[t].c = l.c
        /\ th'[t].type = l.type /\ th'[t].ret = l.ret /\ th'[t].batch = {}
    <3> HIDE DEF label
    <3> QED
      BY <1>1, <2>2 DEF Local
  <2> QED
    BY <2>1, <2>2, <2>3 DEF SameJob
<1>6. ASSUME NEW c \in Client, AllGet(t, c)
      PROVE  /\ SameJob(t) /\ th'[t].kind = l.kind
             /\ th'[t].pc \in {"allGet", "allBatch"}
             /\ th'[t].batch = l.batch
                  \cup (IF Exists(c) THEN {<<c, task[c].type>>} ELSE {})
  <2> DEFINE found == IF Exists(c) THEN {<<c, task[c].type>>} ELSE {}
  <2>1. Become(t, AllNext(l, c, found)) /\ UNCHANGED <<redis, env>>
    BY <1>6 DEF AllGet
  <2>2. th'[t] = AllNext(l, c, found) /\ OthersStay(t) /\ UNCHANGED answers
    BY <1>2, <2>1
  <2> HIDE DEF found
  <2>3. /\ th'[t].pc \in {"allGet", "allBatch"} /\ th'[t].c = l.c /\ th'[t].type = l.type
        /\ th'[t].ret = l.ret /\ th'[t].kind = l.kind /\ th'[t].batch = l.batch \cup found
    BY <1>1, <2>2, NextFields
  <2> QED
    BY <2>1, <2>2, <2>3 DEF SameJob, found
<1> QED
  BY <1>3, <1>4, <1>5, <1>6

\* A call that succeeds, too, ends the hook or leaves it at a label of its own.
LEMMA ContinueGoesOn ==
    ASSUME ThreadInv, NEW t \in Thread, HandlerOk(t), Continue(t)
    PROVE  GoesOn(t)
<1> USE DEF ScanLabels, DeregLabels, HandlerOk, At
<1>1. t \in Proc
  BY DEF Proc
<1>2. th[t].ret \in {"idle", "hset", "deny"}
  BY <1>1 DEF ThreadInv, Local
<1>3. CASE DeregZrem(t) \/ DeregBatch(t)
  BY <1>1, <1>2, <1>3, Flat
     DEF DeregZrem, DeregBatch, ReturnFromDeregister, GoesOn, Goes, Ends, SameWork
<1>4. CASE PlayLookup(t)
  <2>1. th[t].ret # "deny"
    BY <1>4 DEF PlayLookup
  <2> QED
    BY <1>1, <1>2, <1>4, <2>1, Flat, ReadFields DEF GoesOn, Ends, Goes, SameWork
<1>5. CASE DeregGet(t)
  BY <1>1, <1>2, <1>5, ReadFields DEF GoesOn, SameJob
<1>6. CASE AllMembers(t) \/ \E c \in Client : AllGet(t, c)
  <2>1. th[t].ret # "deny"
    BY <1>6 DEF AllMembers, AllGet
  <2> QED
    BY <1>1, <1>2, <1>6, <2>1, ReadFields DEF GoesOn, SameJob
<1>7. CASE DoneGet(t) \/ PubCheck(t) \/ PlayCheck(t) \/ IndexCheck(t)
  BY <1>1, <1>2, <1>7, Flat
     DEF DoneGet, PubCheck, PlayCheck, IndexCheck, GoesOn, Goes, Calls, Ends, SameWork
<1>8. CASE HashSet(t) \/ KeyExpire(t) \/ KeyDel(t) \/ IndexWrite(t)
  BY <1>1, <1>2, <1>8, Flat
     DEF HashSet, KeyExpire, KeyDel, IndexWrite, GoesOn, Goes, Ends, SameWork
<1>9. CASE SetAdd(t) \/ IncrTotal(t) \/ ZsetAdd(t) \/ AllBatch(t) \/ AllDel(t)
  BY <1>1, <1>2, <1>9, Flat
     DEF SetAdd, IncrTotal, ZsetAdd, AllBatch, AllDel, GoesOn, Goes, Ends, SameWork
<1> QED
  BY <1>3, <1>4, <1>5, <1>6, <1>7, <1>8, <1>9 DEF Continue

\* A hook thread comes to deregisterAllMembers from the done hook only, and back to
\* the done hook's check never.
LEMMA AllEntry ==
    ASSUME ThreadInv, NEW t \in Thread, HandlerOk(t), Continue(t) \/ RedisError(t),
           th'[t].pc \in AllLabels \cup {"doneGet"}
    PROVE  th[t].pc \in AllLabels \cup {"doneGet"}
<1> USE DEF AllLabels, At
<1>1. t \in Proc
  BY DEF Proc
<1>2. th[t].ret # "scan" /\ th[t].pc \notin ScanLabels
  BY DEF HandlerOk
<1>3. CASE RedisError(t)
  BY <1>1, <1>2, <1>3, Flat
     DEF RedisError, AfterError, IndexFails, ReturnFromDeregister, Goes, Calls, Ends, Idle, ScanLabels
<1>4. CASE PlayLookup(t) \/ DeregGet(t)
  BY <1>1, <1>4, Flat, ReadFields DEF Goes, Ends, Idle
<1>5. CASE DeregZrem(t) \/ DeregBatch(t)
  BY <1>1, <1>2, <1>5, Flat DEF DeregZrem, DeregBatch, ReturnFromDeregister, Goes, Ends, Idle
<1>6. CASE PubCheck(t) \/ PlayCheck(t) \/ IndexCheck(t) \/ HashSet(t) \/ KeyExpire(t)
  BY <1>1, <1>6, Flat DEF PubCheck, PlayCheck, IndexCheck, HashSet, KeyExpire,
                          Goes, Calls, Ends, Idle
<1>7. CASE KeyDel(t) \/ IndexWrite(t) \/ SetAdd(t) \/ IncrTotal(t) \/ ZsetAdd(t)
  BY <1>1, <1>7, Flat DEF KeyDel, IndexWrite, SetAdd, IncrTotal, ZsetAdd, Goes, Ends, Idle
<1> QED
  BY <1>3, <1>4, <1>5, <1>6, <1>7
     DEF Continue, DoneGet, AllMembers, AllGet, AllBatch, AllDel

\* A step of a thread answers its own client at most.
LEMMA AnswerEffect ==
    ASSUME ThreadInv, NEW t \in Proc, Continue(t) \/ AfterError(t)
    PROVE  \/ UNCHANGED answers
           \/ denied' = denied \cup {th[t].c} /\ granted' = granted
           \/ granted' = granted \cup {th[t].c} /\ denied' = denied
<1>1. CASE \/ PlayLookup(t) \/ DeregGet(t) \/ AllMembers(t)
           \/ \E c \in Client : AllGet(t, c)
  BY <1>1, Flat, ReadFields DEF Goes, SameJob
<1>2. CASE Continue(t) /\ ~(\/ PlayLookup(t) \/ DeregGet(t) \/ AllMembers(t)
                            \/ \E c \in Client : AllGet(t, c))
  BY <1>2, Flat
     DEF Continue, DoneGet, PubCheck, PlayCheck, IndexCheck, HashSet, KeyExpire, KeyDel,
         IndexWrite, SetAdd, IncrTotal, ZsetAdd, DeregZrem, DeregBatch, AllBatch,
         AllDel, ReturnFromDeregister, Become, Goes, Calls
<1>3. CASE AfterError(t)
  BY <1>3, Flat DEF AfterError, IndexFails, ReturnFromDeregister, Become, Goes, Calls
<1> QED
  BY <1>1, <1>2, <1>3

\* The start of a hook.
Starts(t, c, label, type) ==
    /\ OthersStay(t) /\ UNCHANGED <<redis, clock, busyAt, faults, lost, crashes>>
    /\ th[t] = Idle /\ (SerialClients => \A u \in Thread : th[u].c # c)
    /\ th'[t] = [Idle EXCEPT !.pc = label, !.c = c, !.type = type, !.last = clock]

LEMMA HookStarts ==
    ASSUME ThreadInv, NEW t \in Thread, Hook(t)
    PROVE  \/ \E c \in Publisher : /\ Starts(t, c, "pubCheck", "publisher")
                                   /\ granted' = granted /\ denied' = denied \ {c}
           \/ \E c \in Publisher : /\ Starts(t, c, "doneGet", "none")
                                   /\ granted' = granted \ {c} /\ denied' = denied
           \/ \E c \in Player : /\ Starts(t, c, "playLookup", "player")
                                /\ granted' = granted /\ denied' = denied \ {c}
           \/ \E c \in Player : /\ Starts(t, c, "dereg", "none")
                                /\ granted' = granted \ {c} /\ denied' = denied
<1>1. t \in Proc /\ th \in [Proc -> Local]
  BY DEF Proc, ThreadInv
<1>2. ASSUME NEW c, NEW label, NEW type, HookArrives(t, c), Begin(t, c, label, type)
      PROVE  Starts(t, c, label, type)
  BY <1>1, <1>2 DEF HookArrives, Begin, Starts, OthersStay
<1> QED
  BY <1>2 DEF Hook, OnPublish, OnPublishDone, OnPlay, OnPlayDone
-----------------------------------------------------------------------------
(* Hook threads keep to their own labels and, when clients are serial, to their
   own clients, whatever fails. *)

\* A step of a thread moves no other.
LEMMA StepStays ==
    ASSUME ThreadInv, NEW t \in Proc, Continue(t) \/ AfterError(t)
    PROVE  OthersStay(t)
<1>1. CASE \/ PlayLookup(t) \/ DeregGet(t) \/ AllMembers(t)
           \/ \E c \in Client : AllGet(t, c)
  BY <1>1, OneThread DEF PlayLookup, DeregGet, AllMembers, AllGet, Return
<1>2. CASE Continue(t) /\ ~(\/ PlayLookup(t) \/ DeregGet(t) \/ AllMembers(t)
                            \/ \E c \in Client : AllGet(t, c))
  BY <1>2, OneThread
     DEF Continue, DoneGet, PubCheck, PlayCheck, IndexCheck, HashSet, KeyExpire, KeyDel,
         IndexWrite, SetAdd, IncrTotal, ZsetAdd, DeregZrem, DeregBatch, AllBatch,
         AllDel, Goto, Return, CallDeregister
<1>3. CASE AfterError(t)
  BY <1>3, OneThread DEF AfterError, IndexFails, Goto, Return, CallDeregister
<1> QED
  BY <1>1, <1>2, <1>3

\* A step of the cleanup thread, or of none, leaves the hook threads alone.
LEMMA CleanerStep ==
    ASSUME TInv, [Next]_vars,
           ~(\E t \in Thread : Hook(t) \/ Continue(t) \/ RedisError(t)), ~Crash
    PROVE  \A u \in Thread : th'[u] = th[u]
<1>1. ThreadInv /\ Cleaner \in Proc /\ th \in [Proc -> Local]
  BY DEF TInv, ThreadInv, Proc
<1>2. \A u \in Thread : u \in Proc /\ u # Cleaner
  BY CleanerAssumption DEF Proc
<1>3. SUFFICES OthersStay(Cleaner) \/ UNCHANGED th
  BY <1>2 DEF OthersStay
<1>4. CASE Continue(Cleaner)
  BY <1>1, <1>4, StepStays
<1>5. CASE RedisError(Cleaner)
  BY <1>1, <1>5, StepStays DEF RedisError
<1>6. CASE CleanupThread
  BY <1>1, <1>6, OneThread DEF CleanupThread, Scan, ScanRem, ScanGet, ScanBack, CleanBatch
<1>7. CASE ScanError
  BY <1>1, <1>7, OneThread DEF ScanError
<1>8. CASE Tick \/ Finished \/ UNCHANGED vars
  BY <1>8 DEF Tick, Finished, vars
<1> QED
  BY <1>4, <1>5, <1>6, <1>7, <1>8 DEF Next, Proc

Apart == HandlersInv /\ SerialInv

\* The hook threads stay apart.
LEMMA ApartStep == TInv /\ Apart /\ [Next]_vars => Apart'
<1> SUFFICES ASSUME TInv, Apart, [Next]_vars PROVE Apart'
  OBVIOUS
<1>1. ThreadInv /\ ThreadInv' /\ \A t \in Thread : t \in Proc
  BY TypeStep DEF TInv, Proc
<1> USE DEF HandlersInv, SerialInv, Apart
<1>2. ASSUME NEW t \in Thread, Hook(t) PROVE Apart'
  <2>1. PICK c \in Client, label \in {"pubCheck", "doneGet", "playLookup", "dereg"}, type \in Type :
               Starts(t, c, label, type)
    BY <1>1, <1>2, HookStarts DEF Client, Type
  <2>2. /\ th'[t].c = c /\ th'[t].pc = label /\ th'[t].ret = "idle"
        /\ \A u \in Thread : u # t => th'[u] = th[u]
        /\ SerialClients => \A u \in Thread : th[u].c # c
    BY <1>1, <2>1 DEF Starts, Idle, OthersStay
  <2>3. HandlersInv'
    BY <2>2 DEF HandlerOk, ScanLabels, DeregLabels
  <2>4. SerialInv'
    BY <2>2
  <2> QED
    BY <2>3, <2>4
<1>3. ASSUME NEW t \in Thread, Continue(t) \/ RedisError(t) PROVE Apart'
  <2>1. GoesOn(t)
    BY <1>1, <1>3, ContinueGoesOn, ErrorGoesOn DEF RedisError
  <2>2. \A u \in Thread : u # t => th'[u] = th[u]
    BY <1>1, <2>1 DEF GoesOn, OthersStay
  <2>3. th'[t].c = th[t].c \/ th'[t].c = NoClient
    BY <2>1 DEF GoesOn, Idle
  <2>4. HandlerOk(t)'
    <3>1. CASE th'[t] = Idle
      BY <3>1 DEF HandlerOk, Idle, ScanLabels
    <3>2. CASE th'[t] # Idle
      <4>1. th[t].pc # "idle"
        BY <1>3 DEF Continue, RedisError, AfterError, IndexFails, PlayLookup, DoneGet, PubCheck,
                    PlayCheck, IndexCheck, DeregGet, AllMembers, AllGet, HashSet,
                    KeyExpire, KeyDel, IndexWrite, SetAdd, IncrTotal, ZsetAdd,
                    DeregZrem, DeregBatch, AllBatch, AllDel, At
      <4> QED
        BY <2>1, <3>2, <4>1 DEF GoesOn, HandlerOk
    <3> QED
      BY <3>1, <3>2
  <2>5. HandlersInv'
    BY <2>2, <2>4 DEF HandlerOk
  <2>6. SerialInv'
    BY <2>2, <2>3
  <2> QED
    BY <2>5, <2>6
<1>4. CASE Crash
  <2>1. \A t \in Thread : th'[t] = Idle
    BY <1>1, <1>4 DEF Crash
  <2> QED
    BY <2>1 DEF HandlerOk, Idle, ScanLabels
<1>5. CASE \A u \in Thread : th'[u] = th[u]
  BY <1>5 DEF HandlerOk
<1> QED
  BY <1>2, <1>3, <1>4, <1>5, CleanerStep
-----------------------------------------------------------------------------
(* Until something can fail or time out, only hooks change the registry. *)

\* The steps of a calm registry: a hook thread moves, time passes, or nothing
\* happens to Redis and to the threads.
LEMMA CalmStep ==
    ASSUME TInv, CalmInv, [Next]_vars, Undisturbed'
    PROVE  /\ Undisturbed /\ th[Cleaner] = Idle /\ th'[Cleaner] = Idle
           /\ \/ \E t \in Thread : Hook(t) \/ Continue(t)
              \/ Tick
              \/ UNCHANGED <<redis, th, answers>>
<1> USE BoundAssumption, TimeAssumption
<1>1. /\ ThreadInv /\ Cleaner \in Proc /\ Cleaner \notin Thread
      /\ \A t \in Thread : t \in Proc /\ t # Cleaner
      /\ clock \in Nat /\ faults \in Nat /\ crashes \in Nat
  BY CleanerAssumption DEF TInv, EnvInv, Proc
<1>2. ASSUME NEW t \in Proc, RedisError(t) PROVE FALSE
  BY <1>1, <1>2 DEF RedisError, Undisturbed
<1>3. ~ScanError /\ ~Crash
  BY <1>1 DEF ScanError, Crash, Undisturbed
<1>4. Undisturbed
  <2>1. faults' >= faults /\ crashes' >= crashes /\ clock' >= clock
    <3>1. ASSUME NEW t \in Thread, Hook(t) PROVE UNCHANGED <<faults, crashes, clock>>
      BY <1>1, <3>1, HookStarts DEF Starts
    <3>2. ASSUME NEW t \in Proc, Continue(t) PROVE UNCHANGED <<faults, crashes, clock>>
      BY <3>2 DEF Continue, PlayLookup, DoneGet, PubCheck, PlayCheck, IndexCheck,
                  DeregGet, AllMembers, AllGet, HashSet, KeyExpire, KeyDel, IndexWrite,
                  SetAdd, IncrTotal, ZsetAdd, DeregZrem, DeregBatch, AllBatch, AllDel, env
    <3>3. CASE CleanupThread
      <4>1. UNCHANGED <<faults, crashes, clock>>
        BY <3>3 DEF CleanupThread, Scan, ScanRem, ScanGet, ScanBack, CleanBatch, env
      <4> QED
        BY <1>1, <4>1
    <3>4. CASE Tick \/ Finished \/ UNCHANGED vars
      BY <1>1, <3>4 DEF Tick, Finished, vars, env
    <3> QED
      BY <1>1, <1>2, <1>3, <3>1, <3>2, <3>3, <3>4 DEF Next
  <2> QED
    BY <1>1, <2>1, TypeStep DEF Undisturbed, TInv, EnvInv
<1>5. th[Cleaner] = Idle
  BY <1>4 DEF CalmInv
<1>6. th[Cleaner].pc = "idle"
  BY <1>5 DEF Idle
<1>7. ~Continue(Cleaner)
  BY <1>6 DEF Continue, PlayLookup, DoneGet, PubCheck, PlayCheck, IndexCheck,
              DeregGet, AllMembers, AllGet, HashSet, KeyExpire, KeyDel, IndexWrite,
              SetAdd, IncrTotal, ZsetAdd, DeregZrem, DeregBatch, AllBatch, AllDel, At
<1>8. CASE CleanupThread
  <2>1. Scan
    BY <1>6, <1>8 DEF CleanupThread, ScanRem, ScanGet, ScanBack, CleanBatch, At
  <2> DEFINE old == {c \in Client : zset[c] \in 0..(clock - TaskTimeout)}
             l == [Idle EXCEPT !.ids = old, !.last = clock]
  <2>2. old = {}
    BY <1>1, <1>4 DEF Undisturbed, TInv, RedisInv
  <2>3. l.ids = {} /\ l.batch = {}
    BY <2>2 DEF Idle
  <2>4. Become(Cleaner, ScanLoop(l)) /\ UNCHANGED redis
    BY <2>1 DEF Scan
  <2>5. ScanLoop(l) = Idle
    <3> HIDE DEF l
    <3> QED
      BY <2>3 DEF ScanLoop
  <2>6. th' = [th EXCEPT ![Cleaner] = Idle] /\ UNCHANGED answers
    BY <2>4, <2>5 DEF Become
  <2>7. th' = th
    BY <1>1, <1>5, <2>6 DEF ThreadInv
  <2> QED
    BY <1>4, <1>5, <2>4, <2>6, <2>7
<1>9. ASSUME NEW t \in Thread, Hook(t) \/ Continue(t) PROVE th'[Cleaner] = th[Cleaner]
  <2>1. CASE Hook(t)
    BY <1>1, <2>1, HookStarts DEF Starts, OthersStay
  <2>2. CASE Continue(t)
    <3>1. OthersStay(t)
      BY <1>1, <2>2, StepStays
    <3> QED
      BY <1>1, <3>1 DEF OthersStay
  <2> QED
    BY <1>9, <2>1, <2>2
<1>10. CASE Tick
  BY <1>4, <1>5, <1>10 DEF Tick
<1>11. CASE Finished \/ UNCHANGED vars
  BY <1>4, <1>5, <1>11 DEF Finished, vars
<1> QED
  BY <1>1, <1>2, <1>3, <1>4, <1>5, <1>7, <1>8, <1>9, <1>10, <1>11 DEF Next, Proc

\* What the threads keep of themselves, as one invariant.
LEMMA ApartHolds == Spec => [](TInv /\ Apart /\ CalmInv)
<1>1. Init => Apart /\ CalmInv
  <2> SUFFICES ASSUME Init PROVE Apart /\ CalmInv
    OBVIOUS
  <2>1. \A t \in Proc : th[t] = Idle
    BY DEF Init
  <2> QED
    BY <2>1 DEF Apart, HandlersInv, SerialInv, CalmInv, HandlerOk, Idle, ScanLabels, Proc
<1>2. TInv /\ CalmInv /\ [Next]_vars => CalmInv'
  BY CalmStep DEF CalmInv
<1> QED
  BY <1>1, <1>2, ApartStep, TypesHold, PTL DEF Spec
-----------------------------------------------------------------------------
(* Every task stays visible to the timeout scan. *)

\* A step of a hook thread touches the hash and the timestamp of its own client,
\* and may remove other hashes (never their timestamps).
Touches(t) ==
    \A c \in Client : c # th[t].c => (Exists(c)' => Exists(c)) /\ zset'[c] = zset[c]

\* How a thread moves its own client: what ReapInv says of it is local.
ReapOwn(t) ==
    /\ th[t].pc = "deregZrem" => ~Exists(th[t].c)
    /\ Exists(th[t].c) /\ zset[th[t].c] = NoScore => Writing(t)

\* Reads and index writes leave every hash and timestamp as it is.
LEMMA ReapRead ==
    ASSUME TInv, NEW t \in Thread, HandlerOk(t), ReapOwn(t),
           \/ PlayLookup(t) \/ DoneGet(t) \/ PubCheck(t) \/ PlayCheck(t)
           \/ IndexCheck(t) \/ DeregGet(t) \/ AllMembers(t)
           \/ (\E c \in Client : AllGet(t, c))
           \/ IndexWrite(t) \/ SetAdd(t) \/ IncrTotal(t) \/ AllDel(t)
    PROVE  /\ Touches(t) /\ (th'[t].pc = "deregZrem" => task'[th[t].c] = NoTask)
           /\ task'[th[t].c] # NoTask /\ zset'[th[t].c] = NoScore
                => th'[t].c = th[t].c /\ Writing(t)'
<1> USE DEF At
<1>1. ThreadInv /\ t \in Proc /\ UNCHANGED <<task, zset>>
  BY DEF TInv, Proc, PlayLookup, DoneGet, PubCheck, PlayCheck, IndexCheck, DeregGet,
         AllMembers, AllGet, IndexWrite, SetAdd, IncrTotal, AllDel, WriteIndices,
         AddMember, IncrBy, DelMembers, redis
<1>2. Touches(t)
  BY <1>1 DEF Touches, Exists
<1>3. CASE PlayLookup(t) \/ DoneGet(t) \/ PubCheck(t) \/ PlayCheck(t) \/ AllDel(t)
  <2>1. ~Writing(t)
    BY <1>3 DEF PlayLookup, DoneGet, PubCheck, PlayCheck, AllDel, Writing
  <2>2. PlayLookup(t) => th'[t].pc # "deregZrem"
    BY <1>1, Flat, ReadFields DEF Goes, Ends, Idle
  <2>3. DoneGet(t) \/ PubCheck(t) \/ PlayCheck(t) \/ AllDel(t) => th'[t].pc # "deregZrem"
    BY <1>1, Flat DEF DoneGet, PubCheck, PlayCheck, AllDel, Goes, Calls, Ends, Idle
  <2>4. th'[t].pc # "deregZrem"
    BY <1>3, <2>2, <2>3
  <2> QED
    BY <1>1, <1>2, <2>1, <2>4 DEF ReapOwn, Exists
<1>4. CASE IndexCheck(t) \/ IndexWrite(t) \/ SetAdd(t) \/ IncrTotal(t)
  <2>1. Writing(t)' /\ th'[t].c = th[t].c /\ th'[t].pc # "deregZrem"
    BY <1>1, <1>4, Flat DEF IndexCheck, IndexWrite, SetAdd, IncrTotal, Writing, Goes,
                            Calls, SameWork
  <2> QED
    BY <1>1, <1>2, <2>1
<1>5. CASE DeregGet(t)
  BY <1>1, <1>2, <1>5, ReadFields DEF DeregGet, SameJob, ReapOwn, Writing, Exists
<1>6. CASE AllMembers(t) \/ (\E c \in Client : AllGet(t, c))
  <2>1. ~Writing(t) /\ th'[t].pc # "deregZrem"
    BY <1>1, <1>6, ReadFields DEF AllMembers, AllGet, Writing
  <2> QED
    BY <1>1, <1>2, <2>1 DEF ReapOwn, Exists
<1> QED
  BY <1>3, <1>4, <1>5, <1>6

\* Writes of hashes and timestamps.
LEMMA ReapWrite ==
    ASSUME TInv, NEW t \in Thread, HandlerOk(t), ReapOwn(t),
           \/ HashSet(t) \/ KeyExpire(t) \/ KeyDel(t) \/ ZsetAdd(t)
           \/ DeregZrem(t) \/ DeregBatch(t) \/ AllBatch(t)
    PROVE  /\ Touches(t) /\ (th'[t].pc = "deregZrem" => task'[th[t].c] = NoTask)
           /\ task'[th[t].c] # NoTask /\ zset'[th[t].c] = NoScore
                => th'[t].c = th[t].c /\ Writing(t)'
<1> USE DEF At, Touches
<1>1. /\ ThreadInv /\ t \in Proc /\ th[t].c \in Client
      /\ task \in [Client -> [type : Type, last : Nat, exp : Nat]]
      /\ zset \in [Client -> Int] /\ clock \in Nat
  <2>1. th[t].pc # "idle"
    BY DEF HashSet, KeyExpire, KeyDel, ZsetAdd, DeregZrem, DeregBatch, AllBatch
  <2> QED
    BY <2>1, BoundAssumption DEF TInv, RedisInv, EnvInv, Proc, HandlerOk
<1>2. CASE HashSet(t)
  BY <1>1, <1>2, Flat DEF HashSet, SetHash, Goes, SameWork, Writing, Exists
<1>3. CASE KeyExpire(t)
  BY <1>1, <1>3, Flat DEF KeyExpire, SetExpiry, Goes, SameWork, Writing, Exists, redis
<1>4. CASE KeyDel(t)
  BY <1>1, <1>4, Flat DEF KeyDel, DelHash, Ends, Idle, Exists
<1>5. CASE ZsetAdd(t)
  BY <1>1, <1>5, Flat DEF ZsetAdd, SetScore, Ends, Idle, Exists, NoScore
<1>6. CASE DeregZrem(t)
  <2>1. task'[th[t].c] = NoTask /\ Touches(t)
    BY <1>1, <1>6 DEF DeregZrem, SetScore, ReapOwn, Exists
  <2> QED
    BY <2>1
<1>7. CASE DeregBatch(t)
  <2>1. task'[th[t].c] = NoTask /\ Touches(t)
    BY <1>1, <1>7 DEF DeregBatch, Batch, Exists
  <2> QED
    BY <2>1
<1>8. CASE AllBatch(t)
  <2>1. ~Writing(t) /\ th'[t].pc = "allDel"
    BY <1>1, <1>8, Flat DEF AllBatch, Writing, Goes
  <2>2. \A c \in Client : (Exists(c)' => Exists(c)) /\ zset'[c] = zset[c]
    BY <1>1, <1>8 DEF AllBatch, Batch, Exists
  <2> QED
    BY <1>1, <2>1, <2>2 DEF ReapOwn, Exists
<1> QED
  BY <1>2, <1>3, <1>4, <1>5, <1>6, <1>7, <1>8

\* Every step keeps the tasks visible.
LEMMA ReapStep == TInv /\ Apart /\ CalmInv /\ ReapInv /\ [Next]_vars => ReapInv'
<1> SUFFICES ASSUME TInv, Apart, CalmInv, ReapInv, [Next]_vars,
                    SerialClients, Undisturbed'
             PROVE  /\ \A t \in Thread : th'[t].pc = "deregZrem" => task'[th'[t].c] = NoTask
                    /\ \A c \in Client : Exists(c)' /\ zset'[c] = NoScore =>
                         \E t \in Thread : th'[t].c = c /\ Writing(t)'
  BY DEF ReapInv, Exists
<1>1. /\ Undisturbed /\ ThreadInv /\ \A t \in Thread : t \in Proc
      /\ \A t \in Thread : HandlerOk(t)
  BY CalmStep DEF TInv, Proc, Apart, HandlersInv
<1>2. /\ \A t \in Thread : th[t].pc = "deregZrem" => ~Exists(th[t].c)
      /\ \A c \in Client : Exists(c) /\ zset[c] = NoScore =>
           \E t \in Thread : th[t].c = c /\ Writing(t)
  BY <1>1 DEF ReapInv
<1>3. ASSUME NEW t \in Thread, Hook(t)
      PROVE  /\ \A u \in Thread : th'[u].pc = "deregZrem" => task'[th'[u].c] = NoTask
             /\ \A c \in Client : Exists(c)' /\ zset'[c] = NoScore =>
                  \E u \in Thread : th'[u].c = c /\ Writing(u)'
  <2>1. PICK c \in Client, label \in {"pubCheck", "doneGet", "playLookup", "dereg"}, type \in Type :
               Starts(t, c, label, type)
    BY <1>1, <1>3, HookStarts DEF Client, Type
  <2>2. /\ th'[t].pc = label /\ \A u \in Thread : u # t => th'[u] = th[u]
        /\ ~Writing(t) /\ UNCHANGED <<task, zset>>
    BY <1>1, <2>1 DEF Starts, Idle, OthersStay, Writing, redis
  <2> QED
    BY <1>2, <2>2 DEF Exists, Writing
<1>4. ASSUME NEW t \in Thread, Continue(t)
      PROVE  /\ \A u \in Thread : th'[u].pc = "deregZrem" => task'[th'[u].c] = NoTask
             /\ \A c \in Client : Exists(c)' /\ zset'[c] = NoScore =>
                  \E u \in Thread : th'[u].c = c /\ Writing(u)'
  <2>1. th[t].pc # "idle"
    BY <1>4 DEF Continue, PlayLookup, DoneGet, PubCheck, PlayCheck, IndexCheck,
                DeregGet, AllMembers, AllGet, HashSet, KeyExpire, KeyDel, IndexWrite,
                SetAdd, IncrTotal, ZsetAdd, DeregZrem, DeregBatch, AllBatch, AllDel, At
  <2>2. th[t].c \in Client /\ NoClient \notin Client
    BY <1>1, <2>1, ClientAssumption DEF HandlerOk
  <2>3. \A u \in Thread : u # t => th[u].c # th[t].c
    BY <2>2 DEF Apart, SerialInv
  <2>4. ReapOwn(t)
    BY <1>2, <2>2, <2>3 DEF ReapOwn
  <2>5. /\ Touches(t) /\ (th'[t].pc = "deregZrem" => task'[th[t].c] = NoTask)
        /\ task'[th[t].c] # NoTask /\ zset'[th[t].c] = NoScore
             => th'[t].c = th[t].c /\ Writing(t)'
    BY <1>1, <1>4, <2>4, ReapRead, ReapWrite DEF Continue
  <2>6. GoesOn(t)
    BY <1>1, <1>4, ContinueGoesOn
  <2>7. \A u \in Thread : u # t => th'[u] = th[u]
    BY <1>1, <2>6 DEF GoesOn, OthersStay
  <2>8. ASSUME NEW u \in Thread, th'[u].pc = "deregZrem" PROVE task'[th'[u].c] = NoTask
    <3>1. CASE u = t
      <4>1. th'[t].c = th[t].c
        BY <2>6, <2>8, <3>1 DEF GoesOn, Idle
      <4> QED
        BY <2>5, <2>8, <3>1, <4>1
    <3>2. CASE u # t
      <4>1. th'[u] = th[u] /\ th[u].c \in Client /\ th[u].c # th[t].c /\ ~Exists(th[u].c)
        BY <1>1, <1>2, <2>3, <2>7, <2>8, <3>2 DEF HandlerOk
      <4> QED
        BY <2>5, <4>1 DEF Touches, Exists
    <3> QED
      BY <3>1, <3>2
  <2>9. ASSUME NEW c \in Client, Exists(c)', zset'[c] = NoScore
        PROVE  \E u \in Thread : th'[u].c = c /\ Writing(u)'
    <3>1. CASE c = th[t].c
      BY <2>5, <2>9, <3>1 DEF Exists
    <3>2. CASE c # th[t].c
      <4>1. Exists(c) /\ zset[c] = NoScore
        BY <2>5, <2>9, <3>2 DEF Touches
      <4>2. PICK u \in Thread : th[u].c = c /\ Writing(u)
        BY <1>2, <4>1
      <4>3. th'[u] = th[u]
        BY <2>7, <3>2, <4>2
      <4> QED
        BY <4>2, <4>3 DEF Writing
    <3> QED
      BY <3>1, <3>2
  <2> QED
    BY <2>8, <2>9
<1>5. CASE Tick \/ UNCHANGED <<redis, th, answers>>
  <2>1. UNCHANGED <<th, zset>> /\ \A c \in Client : Exists(c)' => Exists(c)
    BY <1>5 DEF Tick, Exists, redis
  <2> QED
    BY <1>1, <1>2, <2>1 DEF Writing, HandlerOk, Exists
<1> QED
  BY <1>3, <1>4, <1>5, CalmStep

\* However the hooks of any number of clients interleave, a registered task has its
\* entry in task_timestamps, or the one thread that works for its client is about
\* to write it or to take the task back, provided a client waits for the answer to
\* its last hook (two overlapping hooks of one client can lose the entry).
THEOREM ReapableSerial == SerialClients => (Spec => []Reapable)
<1> SUFFICES ASSUME SerialClients PROVE Spec => []Reapable
  OBVIOUS
<1>1. Init => ReapInv
  BY DEF Init, ReapInv, Exists, Idle, Proc
<1>2. ReapInv => Reapable
  <2> SUFFICES ASSUME ReapInv, NEW c \in Client, Undisturbed, Exists(c),
                      zset[c] = NoScore
               PROVE  \E t \in Proc : th[t].c = c /\ ~At(t, "idle")
    BY DEF Reapable
  <2>1. PICK t \in Thread : th[t].c = c /\ Writing(t)
    BY DEF ReapInv
  <2> QED
    BY <2>1 DEF Writing, At, Proc
<1> QED
  BY <1>1, <1>2, ApartHolds, ReapStep, PTL DEF Spec
-----------------------------------------------------------------------------
(* Roles: with publishers and players apart, no hash, batch or key mixes them up,
   whatever fails. *)

\* What a step does to the Redis keys is what the command of some thread does.
LEMMA Commands ==
    ASSUME NEW t \in Proc, Continue(t)
    PROVE  UNCHANGED redis \/ Executed(t)
<1> USE DEF Executed, At
<1>1. CASE \/ PlayLookup(t) \/ DoneGet(t) \/ PubCheck(t) \/ PlayCheck(t)
           \/ IndexCheck(t) \/ DeregGet(t) \/ AllMembers(t)
           \/ \E c \in Client : AllGet(t, c)
  BY <1>1 DEF PlayLookup, DoneGet, PubCheck, PlayCheck, IndexCheck, DeregGet,
              AllMembers, AllGet
<1>2. CASE \/ HashSet(t) \/ KeyExpire(t) \/ KeyDel(t) \/ IndexWrite(t) \/ SetAdd(t)
  BY <1>2 DEF HashSet, KeyExpire, KeyDel, IndexWrite, SetAdd
<1>3. CASE \/ IncrTotal(t) \/ ZsetAdd(t) \/ DeregZrem(t) \/ DeregBatch(t)
           \/ AllBatch(t) \/ AllDel(t)
  BY <1>3 DEF IncrTotal, ZsetAdd, DeregZrem, DeregBatch, AllBatch, AllDel
<1> QED
  BY <1>1, <1>2, <1>3 DEF Continue

\* A command of a thread in its role keeps the keys in theirs.
LEMMA RoleCommand ==
    ASSUME TInv, KeysInRole, NEW t \in Proc, KindOk(th[t]), Executed(t)
    PROVE  KeysInRole'
<1> DEFINE l == th[t]
<1> USE DEF At, KeysInRole, Exists
<1>1. /\ task \in [Client -> [type : Type, last : Nat, exp : Nat]]
      /\ l.pc \notin Unbound => l.c \in Client
      /\ l.batch \in SUBSET (Client \X Type)
  BY LocalFacts DEF TInv, RedisInv
<1>2. CASE At(t, "hset") /\ SetHash(l.c, l.type, l.last)
  BY <1>1, <1>2 DEF SetHash, KindOk, Unbound
<1>3. CASE At(t, "expire") /\ SetExpiry(l.c)
  BY <1>1, <1>3 DEF SetExpiry, Unbound
<1>4. CASE DelHash(l.c)
  BY <1>1, <1>4 DEF DelHash
<1>5. CASE At(t, "indexWrite") /\ WriteIndices(l.c)
  BY <1>1, <1>5 DEF WriteIndices, KindOk, TypeOf, Unbound
<1>6. ASSUME NEW b, Batch(b) PROVE KeysInRole'
  BY <1>1, <1>6 DEF Batch
<1>7. CASE UNCHANGED <<task, pub>>
  BY <1>7
<1> QED
  BY <1>2, <1>3, <1>4, <1>5, <1>6, <1>7
     DEF Executed, AddMember, IncrBy, SetScore, DelMembers

\* So does a first part of a pipeline.
LEMMA RolePart ==
    ASSUME TInv, KeysInRole, NEW t \in Proc, KindOk(th[t]), PartlyExecuted(t)
    PROVE  KeysInRole'
<1> DEFINE l == th[t]
<1> USE DEF At, KeysInRole, Exists
<1>1. /\ RedisInv
      /\ l.pc \notin Unbound => l.c \in Client
      /\ l.kind \in Type /\ l.batch \in SUBSET (Client \X Type)
  BY LocalFacts DEF TInv
<1>2. CASE At(t, "indexWrite") /\ WriteIndicesPart(l.c)
  BY <1>1, <1>2 DEF WriteIndicesPart, KindOk, TypeOf, Unbound
<1>3. ASSUME NEW b \in SUBSET (Client \X Type), BatchPart(b) PROVE KeysInRole'
  BY <1>1, <1>3, PartCommand
<1>4. CASE At(t, "deregBatch") /\ BatchPart({<<l.c, l.kind>>})
  <2>1. {<<l.c, l.kind>>} \in SUBSET (Client \X Type)
    BY <1>1, <1>4 DEF Unbound
  <2> QED
    BY <1>3, <1>4, <2>1
<1>5. CASE BatchPart(l.batch)
  BY <1>1, <1>3, <1>5
<1> QED
  BY <1>2, <1>4, <1>5 DEF PartlyExecuted

\* The loops of the cleanup pass, field by field.
LEMMA LoopFields ==
    ASSUME NEW l \in Local, NEW k, k \in {ScanLoop(l), AfterCleanBatch(l)}
    PROVE  \/ k = Idle
           \/ /\ k.pc \in {"scanRem", "cleanBatch", "all"} /\ k.c = l.c
              /\ k.type = l.type /\ k.ret = l.ret /\ k.batch \subseteq l.batch
<1>1. CASE k = ScanLoop(l)
  BY <1>1 DEF ScanLoop, Local
<1>2. CASE k = AfterCleanBatch(l)
  <2>1. CASE k = Idle
    BY <2>1
  <2>2. CASE k = [l EXCEPT !.pc = "all", !.batch = {}]
    BY <2>2 DEF Local
  <2> QED
    BY <1>2, <2>1, <2>2 DEF AfterCleanBatch
<1> QED
  BY <1>1, <1>2

\* A thread in its role stays in it when it goes on with less.
LEMMA KindLess ==
    ASSUME NEW l, KindOk(l), NEW k,
           \/ k = Idle
           \/ /\ k.c = l.c /\ k.type = l.type /\ k.ret = l.ret /\ k.batch \subseteq l.batch
              /\ k.pc \in {"scanRem", "scanBack", "cleanBatch", "all", "allGet", "allBatch",
                           "allDel", "dereg", "deregZrem"}
    PROVE  KindOk(k)
<1>1. KindOk(Idle)
  BY DEF KindOk, Idle
<1> QED
  BY <1>1 DEF KindOk

\* The moves of a thread between labels keep it in its role.
LEMMA RoleFlow ==
    ASSUME TInv, KeysInRole, NEW t \in Proc, KindOk(th[t]), Continue(t) \/ AfterError(t)
    PROVE  KindOk(th'[t])
<1> DEFINE l == th[t]
<1> USE DEF At
<1>1. ThreadInv /\ l \in Local /\ th \in [Proc -> Local]
  BY DEF TInv, ThreadInv
<1>2. /\ l.pc \notin Unbound => l.c \in Client
  BY <1>1 DEF Local
<1>3. KindOk(Idle)
  BY DEF KindOk, Idle
<1>4. ASSUME Ends(t) PROVE KindOk(th'[t])
  BY <1>3, <1>4 DEF Ends
<1>5. ASSUME NEW k, Become(t, k) PROVE th'[t] = k
  BY <1>1, <1>5 DEF Become
<1>6. ASSUME ReturnFromDeregister(t) PROVE KindOk(th'[t])
  <2>1. CASE l.ret = "hset" /\ Goto(t, "hset")
    BY <1>1, <2>1, Flat DEF Goes, SameWork, KindOk
  <2>2. CASE Become(t, ScanLoop(l))
    BY <1>1, <1>5, <2>2, LoopFields, KindLess
  <2> QED
    BY <1>1, <1>4, <1>6, <2>1, <2>2, Flat DEF ReturnFromDeregister
<1>7. ASSUME AfterError(t) PROVE KindOk(th'[t])
  <2>1. CASE \/ l.pc \in {"pubCheck", "playCheck"} /\ Goto(t, "hset")
             \/ At(t, "expire") /\ Goto(t, "keyDel")
             \/ At(t, "index") /\ Goto(t, "indexWrite")
             \/ At(t, "incr") /\ Goto(t, "zadd")
    BY <1>1, <2>1, Flat DEF Goes, SameWork, KindOk
  <2>2. CASE l.pc \in {"indexWrite", "sadd", "zadd"} /\ CallDeregister(t, "deny")
    BY <1>1, <2>2, Flat DEF Calls, SameWork, KindOk
  <2>3. CASE \/ At(t, "dereg") /\ Goto(t, "deregZrem")
             \/ l.pc \in {"all", "allBatch"} /\ Goto(t, "allDel")
    BY <1>1, <2>3, Flat, KindLess DEF Goes, SameWork
  <2>4. CASE At(t, "allGet") /\ \E c \in l.ids : Become(t, AllNext(l, c, {}))
    BY <1>1, <1>5, <2>4, NextFields, KindLess
  <2>5. CASE Become(t, ScanLoop(l)) \/ Become(t, AfterCleanBatch(l))
    BY <1>1, <1>5, <2>5, LoopFields, KindLess
  <2>6. CASE Deny(t) \/ Return(t)
    BY <1>1, <1>4, <2>6, Flat
  <2> QED
    BY <1>6, <1>7, <2>1, <2>2, <2>3, <2>4, <2>5, <2>6 DEF AfterError, IndexFails
<1>8. ASSUME \/ PlayLookup(t) \/ DoneGet(t) \/ PubCheck(t) \/ PlayCheck(t) \/ IndexCheck(t)
      PROVE  KindOk(th'[t])
  <2>1. CASE PlayLookup(t)
    BY <1>1, <1>4, <2>1, Flat, ReadFields DEF PlayLookup, Goes, SameWork, KindOk
  <2>2. CASE DoneGet(t)
    BY <1>1, <1>4, <2>2, Flat, KindLess DEF DoneGet, Goes, SameWork
  <2>3. CASE PubCheck(t) \/ PlayCheck(t)
    BY <1>1, <1>4, <2>3, Flat DEF PubCheck, PlayCheck, Goes, Calls, SameWork, KindOk
  <2>4. CASE IndexCheck(t)
    BY <1>1, <2>4, Flat DEF IndexCheck, Goes, Calls, SameWork, KindOk
  <2> QED
    BY <1>8, <2>1, <2>2, <2>3, <2>4
<1>9. ASSUME DeregGet(t) PROVE KindOk(th'[t])
  <2>1. Exists(l.c) => task[l.c].type = TypeOf(l.c)
    BY <1>2, <1>9 DEF KeysInRole, DeregGet, Unbound
  <2> QED
    BY <1>1, <1>9, <2>1, ReadFields DEF KindOk, SameJob
<1>10. ASSUME AllMembers(t) \/ \E c \in Client : AllGet(t, c) PROVE KindOk(th'[t])
  <2>1. CASE AllMembers(t)
    BY <1>1, <2>1, ReadFields DEF KindOk, SameJob
  <2>2. ASSUME NEW c \in Client, AllGet(t, c) PROVE KindOk(th'[t])
    <3>1. \A x \in th'[t].batch : x[2] = TypeOf(x[1])
      BY <1>1, <2>2, ReadFields DEF KeysInRole, KindOk
    <3> QED
      BY <1>1, <2>2, <3>1, ReadFields DEF KindOk, SameJob
  <2> QED
    BY <1>10, <2>1, <2>2
<1>11. ASSUME \/ HashSet(t) \/ KeyExpire(t) \/ KeyDel(t) \/ IndexWrite(t) \/ SetAdd(t)
              \/ IncrTotal(t) \/ ZsetAdd(t)
       PROVE  KindOk(th'[t])
  <2>1. CASE HashSet(t) \/ IndexWrite(t) \/ SetAdd(t) \/ IncrTotal(t)
    BY <1>1, <2>1, Flat DEF HashSet, IndexWrite, SetAdd, IncrTotal, Goes, SameWork, KindOk
  <2>2. CASE KeyExpire(t)
    <3>1. l.type \in {"publisher", "player"}
      BY <2>2 DEF KindOk, KeyExpire, TypeOf
    <3> QED
      BY <1>1, <2>2, <3>1, Flat DEF KeyExpire, Goes, SameWork, KindOk
  <2>3. CASE KeyDel(t) \/ ZsetAdd(t)
    BY <1>1, <1>4, <2>3, Flat DEF KeyDel, ZsetAdd
  <2> QED
    BY <1>11, <2>1, <2>2, <2>3
<1>12. ASSUME DeregZrem(t) \/ DeregBatch(t) \/ AllBatch(t) \/ AllDel(t)
       PROVE  KindOk(th'[t])
  <2>1. CASE AllBatch(t)
    BY <1>1, <2>1, Flat, KindLess DEF AllBatch, Goes, SameWork
  <2> QED
    BY <1>1, <1>4, <1>6, <1>12, <2>1, Flat DEF DeregZrem, DeregBatch, AllDel
<1> QED
  BY <1>7, <1>8, <1>9, <1>10, <1>11, <1>12 DEF Continue

\* The moves of the cleanup thread within its pass, field by field: it goes on with
\* what it has, claims a client, or finds the client's task timed out.
PassMove ==
    LET l == th[Cleaner]  k == th'[Cleaner]
    IN  \/ k = Idle
        \/ /\ k.pc \in {"scanRem", "cleanBatch", "all", "scanBack"} /\ k.c = l.c
           /\ k.type = l.type /\ k.ret = l.ret /\ k.batch \subseteq l.batch
        \/ /\ k.pc = "scanGet" /\ k.c \in Client /\ k.type = l.type /\ k.ret = l.ret
           /\ k.batch = l.batch
        \/ /\ k.pc = "dereg" /\ k.c = l.c /\ k.type = l.type /\ k.ret = "scan"
           /\ l.c \in Client /\ Exists(l.c)
           /\ k.batch = l.batch \cup {<<l.c, task[l.c].type>>}

LEMMA PassMoves ==
    ASSUME TInv, CleanerOk, CleanupThread
    PROVE  PassMove /\ OthersStay(Cleaner) /\ UNCHANGED answers
<1> DEFINE l == th[Cleaner]
<1> USE DEF At
<1>1. Cleaner \in Proc /\ ThreadInv /\ l \in Local /\ th \in [Proc -> Local]
  BY DEF Proc, TInv, ThreadInv
<1>2. ASSUME NEW k, Become(Cleaner, k)
      PROVE  th'[Cleaner] = k /\ OthersStay(Cleaner) /\ UNCHANGED answers
  BY <1>1, <1>2 DEF Become, OthersStay
<1>3. ASSUME Become(Cleaner, ScanLoop(l)) \/ Become(Cleaner, AfterCleanBatch(l))
      PROVE  PassMove /\ OthersStay(Cleaner) /\ UNCHANGED answers
  BY <1>1, <1>2, <1>3, LoopFields DEF PassMove
<1>4. CASE Scan
  <2> DEFINE old == {c \in Client : zset[c] \in 0..(clock - TaskTimeout)}
             m == [Idle EXCEPT !.ids = old, !.last = clock]
  <2>1. Become(Cleaner, ScanLoop(m)) /\ l.pc = "idle"
    BY <1>4 DEF Scan
  <2>2. old \in SUBSET Client /\ clock \in Nat
    BY BoundAssumption DEF TInv, EnvInv
  <2>3. m \in Local /\ m.batch = {}
    <3> HIDE DEF old
    <3> QED
      BY <2>2 DEF Idle, Local, Pc, Type, Unbound, Registering
  <2>4. /\ m.c = l.c /\ m.type = l.type /\ m.ret = l.ret
    BY <2>1 DEF CleanerOk, Idle
  <2>5. \/ ScanLoop(m) = Idle
        \/ /\ ScanLoop(m).pc = "scanRem" /\ ScanLoop(m).c = l.c
           /\ ScanLoop(m).type = l.type /\ ScanLoop(m).ret = l.ret
           /\ ScanLoop(m).batch = {}
    <3> HIDE DEF m
    <3> QED
      BY <2>3, <2>4 DEF ScanLoop, Local
  <2> QED
    BY <1>2, <2>1, <2>4, <2>5 DEF PassMove
<1>5. ASSUME NEW c \in Client, ScanRem(c)
      PROVE  PassMove /\ OthersStay(Cleaner) /\ UNCHANGED answers
  <2> DEFINE rest == l.ids \ {c}
             m == [l EXCEPT !.ids = rest]
  <2>1. \/ Become(Cleaner, [m EXCEPT !.pc = "scanGet", !.c = c])
        \/ Become(Cleaner, ScanLoop(m))
    BY <1>1, <1>5 DEF ScanRem, Local
  <2>2. rest \in SUBSET Client
    BY <1>1 DEF Local
  <2> HIDE DEF rest, l
  <2>3. /\ m \in Local /\ m.c = l.c /\ m.type = l.type /\ m.ret = l.ret
        /\ m.batch = l.batch
    BY <1>1, <2>2 DEF Local
  <2> HIDE DEF m
  <2> USE DEF l
  <2>4. CASE Become(Cleaner, [m EXCEPT !.pc = "scanGet", !.c = c])
    <3>1. th'[Cleaner] = [m EXCEPT !.pc = "scanGet", !.c = c]
      BY <1>2, <2>4
    <3>2. /\ th'[Cleaner].pc = "scanGet" /\ th'[Cleaner].c = c
          /\ th'[Cleaner].type = m.type /\ th'[Cleaner].ret = m.ret
          /\ th'[Cleaner].batch = m.batch
      BY <2>3, <3>1 DEF Local
    <3> QED
      BY <1>2, <2>3, <2>4, <3>2 DEF PassMove
  <2>5. CASE Become(Cleaner, ScanLoop(m))
    BY <1>2, <2>3, <2>5, LoopFields DEF PassMove
  <2> QED
    BY <2>1, <2>4, <2>5
<1>6. CASE ScanGet
  <2>1. l.c \in Client
    BY <1>1, <1>6 DEF ScanGet, Local, Unbound
  <2>2. CASE Become(Cleaner, [l EXCEPT !.pc = "scanBack", !.seen = task[l.c].last])
    <3> DEFINE seen == task[l.c].last
    <3>1. th'[Cleaner] = [l EXCEPT !.pc = "scanBack", !.seen = seen]
      BY <1>2, <2>2
    <3> HIDE DEF seen
    <3>2. /\ th'[Cleaner].pc = "scanBack" /\ th'[Cleaner].c = l.c
          /\ th'[Cleaner].type = l.type /\ th'[Cleaner].ret = l.ret
          /\ th'[Cleaner].batch = l.batch
      BY <1>1, <3>1 DEF Local
    <3> QED
      BY <1>2, <2>2, <3>2 DEF PassMove
  <2>3. CASE /\ Exists(l.c)
             /\ Become(Cleaner, [l EXCEPT !.pc = "dereg", !.ret = "scan",
                                          !.batch = @ \cup {<<l.c, task[l.c].type>>}])
    <3> DEFINE more == l.batch \cup {<<l.c, task[l.c].type>>}
    <3>1. th'[Cleaner] = [l EXCEPT !.pc = "dereg", !.ret = "scan", !.batch = more]
      BY <1>1, <1>2, <2>3 DEF Local
    <3> HIDE DEF more
    <3>2. /\ th'[Cleaner].pc = "dereg" /\ th'[Cleaner].c = l.c
          /\ th'[Cleaner].type = l.type /\ th'[Cleaner].ret = "scan"
          /\ th'[Cleaner].batch = more
      BY <1>1, <3>1 DEF Local
    <3> QED
      BY <1>2, <2>1, <2>3, <3>2 DEF PassMove, more
  <2> QED
    BY <1>3, <1>6, <2>2, <2>3 DEF ScanGet
<1> QED
  BY <1>3, <1>4, <1>5, <1>6 DEF CleanupThread, ScanBack, CleanBatch

\* The claim of the scan that failed leaves the pass at its next client.
LEMMA PassFails ==
    ASSUME TInv, CleanerOk, ScanError
    PROVE  /\ PassMove \/ UNCHANGED th
           /\ OthersStay(Cleaner) /\ UNCHANGED answers
<1> DEFINE l == th[Cleaner]
<1>1. Cleaner \in Proc /\ l \in Local /\ th \in [Proc -> Local]
  BY DEF Proc, TInv, ThreadInv
<1>2. CASE UNCHANGED <<redis, th, answers>>
  BY <1>2 DEF OthersStay
<1>3. ASSUME NEW c \in l.ids, Become(Cleaner, ScanLoop([l EXCEPT !.ids = @ \ {c}]))
      PROVE  PassMove /\ OthersStay(Cleaner) /\ UNCHANGED answers
  <2> DEFINE rest == l.ids \ {c}
             m == [l EXCEPT !.ids = rest]
  <2>1. Become(Cleaner, ScanLoop(m))
    BY <1>1, <1>3 DEF Local
  <2>2. rest \in SUBSET Client
    BY <1>1 DEF Local
  <2>3. th'[Cleaner] = ScanLoop(m) /\ OthersStay(Cleaner) /\ UNCHANGED answers
    BY <1>1, <2>1 DEF Become, OthersStay
  <2> HIDE DEF rest, l
  <2>4. /\ m \in Local /\ m.c = l.c /\ m.type = l.type /\ m.ret = l.ret
        /\ m.batch = l.batch
    BY <1>1, <2>2 DEF Local
  <2> HIDE DEF m
  <2> USE DEF l
  <2> QED
    BY <2>3, <2>4, LoopFields DEF PassMove
<1> QED
  BY <1>2, <1>3 DEF ScanError

\* The cleanup thread keeps to its labels.
LEMMA CleanerOkStep == TInv /\ CleanerOk /\ [Next]_vars => CleanerOk'
<1> SUFFICES ASSUME TInv, CleanerOk, [Next]_vars PROVE CleanerOk'
  OBVIOUS
<1> DEFINE l == th[Cleaner]
<1> USE DEF ScanLabels, AllLabels, DeregLabels, At
<1>1. Cleaner \in Proc /\ ThreadInv /\ l \in Local /\ th \in [Proc -> Local]
  BY DEF Proc, TInv, ThreadInv
<1>2. (th'[Cleaner] = Idle \/ UNCHANGED th) => CleanerOk'
  BY DEF CleanerOk, Idle
<1>3. PassMove => CleanerOk'
  BY <1>2 DEF PassMove, CleanerOk
<1>4. ASSUME ReturnFromDeregister(Cleaner), l.pc \in DeregLabels PROVE CleanerOk'
  <2>1. th'[Cleaner] = ScanLoop(l)
    BY <1>1, <1>4 DEF ReturnFromDeregister, CleanerOk, Become
  <2> QED
    BY <1>1, <1>2, <2>1, LoopFields DEF CleanerOk
<1>5. CASE Continue(Cleaner)
  <2>1. CASE DeregGet(Cleaner) \/ AllMembers(Cleaner) \/ \E c \in Client : AllGet(Cleaner, c)
    BY <1>1, <2>1, ReadFields DEF CleanerOk, SameJob, DeregGet
  <2>2. CASE AllBatch(Cleaner)
    BY <1>1, <2>2, Flat DEF AllBatch, CleanerOk, Goes, SameWork
  <2>3. CASE AllDel(Cleaner)
    BY <1>1, <1>2, <2>3, Flat DEF AllDel, Ends
  <2>4. CASE DeregZrem(Cleaner) \/ DeregBatch(Cleaner)
    BY <1>4, <2>4 DEF DeregZrem, DeregBatch
  <2> QED
    BY <1>5, <2>1, <2>2, <2>3, <2>4
       DEF Continue, PlayLookup, DoneGet, PubCheck, PlayCheck, IndexCheck, HashSet,
           KeyExpire, KeyDel, IndexWrite, SetAdd, IncrTotal, ZsetAdd, CleanerOk
<1>6. CASE RedisError(Cleaner)
  <2>1. CASE Become(Cleaner, ScanLoop(l)) \/ Become(Cleaner, AfterCleanBatch(l))
    <3>1. th'[Cleaner] \in {ScanLoop(l), AfterCleanBatch(l)}
      BY <1>1, <2>1 DEF Become
    <3> QED
      BY <1>1, <1>2, <3>1, LoopFields DEF CleanerOk
  <2>2. CASE \/ At(Cleaner, "dereg") /\ Goto(Cleaner, "deregZrem")
             \/ l.pc \in {"all", "allBatch"} /\ Goto(Cleaner, "allDel")
    BY <1>1, <2>2, Flat DEF CleanerOk, Goes, SameWork
  <2>3. CASE At(Cleaner, "allGet") /\ \E c \in l.ids : Become(Cleaner, AllNext(l, c, {}))
    <3>1. \E c : th'[Cleaner] = AllNext(l, c, {})
      BY <1>1, <2>3 DEF Become
    <3> QED
      BY <1>1, <3>1, NextFields DEF CleanerOk
  <2>4. CASE Return(Cleaner)
    BY <1>1, <1>2, <2>4, Flat DEF Ends
  <2> QED
    BY <1>4, <1>6, <2>1, <2>2, <2>3, <2>4 DEF RedisError, AfterError, IndexFails, CleanerOk
<1>7. CASE CleanupThread \/ ScanError
  BY <1>2, <1>3, <1>7, PassMoves, PassFails
<1>8. CASE Crash \/ Tick \/ Finished \/ UNCHANGED vars
  BY <1>1, <1>2, <1>8 DEF Crash, Tick, Finished, vars
<1>9. ASSUME NEW t \in Thread, Hook(t) \/ Continue(t) \/ RedisError(t) PROVE CleanerOk'
  <2>1. t \in Proc /\ t # Cleaner
    BY CleanerAssumption DEF Proc
  <2>2. CASE Hook(t)
    BY <1>1, <2>1, <2>2, HookStarts DEF Starts, OthersStay, CleanerOk
  <2>3. CASE Continue(t) \/ RedisError(t)
    <3>1. OthersStay(t)
      BY <1>1, <2>1, <2>3, StepStays DEF RedisError
    <3> QED
      BY <1>1, <2>1, <3>1 DEF OthersStay, CleanerOk
  <2> QED
    BY <1>9, <2>2, <2>3
<1> QED
  BY <1>5, <1>6, <1>7, <1>8, <1>9 DEF Next, Proc

\* Every step keeps keys and threads in their roles.
LEMMA RoleStep == TInv /\ Apart /\ CleanerOk /\ RoleInv /\ [Next]_vars => RoleInv'
<1> SUFFICES ASSUME TInv, Apart, CleanerOk, KeysInRole, ThreadsInRole, [Next]_vars, Roles
             PROVE  KeysInRole' /\ ThreadsInRole'
  BY DEF RoleInv
<1>1. /\ ThreadInv /\ Cleaner \in Proc /\ \A t \in Thread : t \in Proc /\ t # Cleaner
      /\ th \in [Proc -> Local] /\ \A t \in Proc : KindOk(th[t])
  BY CleanerAssumption DEF TInv, ThreadInv, Proc, ThreadsInRole
<1>2. ASSUME UNCHANGED <<task, pub>> PROVE KeysInRole'
  BY <1>2 DEF KeysInRole, Exists
<1>3. ASSUME NEW t \in Proc, OthersStay(t), KindOk(th'[t]),
             t \in Thread /\ th'[t].pc \in AllLabels \cup {"doneGet"} => th'[t].c \in Publisher
      PROVE  ThreadsInRole'
  BY <1>1, <1>3 DEF ThreadsInRole, OthersStay
<1>4. ASSUME NEW t \in Thread, Hook(t) PROVE KeysInRole' /\ ThreadsInRole'
  <2>1. PICK c \in Client, label \in {"pubCheck", "doneGet", "playLookup", "dereg"}, type \in Type :
               /\ Starts(t, c, label, type)
               /\ \/ label = "pubCheck" /\ type = "publisher" /\ c \in Publisher
                  \/ label = "doneGet" /\ type = "none" /\ c \in Publisher
                  \/ label = "playLookup" /\ type = "player" /\ c \in Player
                  \/ label = "dereg" /\ type = "none" /\ c \in Player
    BY <1>1, <1>4, HookStarts DEF Client, Type
  <2>2. /\ th'[t].pc = label /\ th'[t].c = c /\ th'[t].type = type /\ th'[t].batch = {}
        /\ th'[t].ret = "idle" /\ OthersStay(t) /\ UNCHANGED <<task, pub>>
    BY <1>1, <2>1 DEF Starts, Idle, redis
  <2>3. KindOk(th'[t])
    BY <2>1, <2>2 DEF KindOk, TypeOf, Roles
  <2>4. th'[t].pc \in AllLabels \cup {"doneGet"} => th'[t].c \in Publisher
    BY <2>1, <2>2 DEF AllLabels
  <2> QED
    BY <1>1, <1>2, <1>3, <2>2, <2>3, <2>4
<1>5. ASSUME NEW t \in Proc, Continue(t) \/ RedisError(t) PROVE KeysInRole' /\ ThreadsInRole'
  <2>1. OthersStay(t) /\ KindOk(th'[t])
    BY <1>1, <1>5, StepStays, RoleFlow DEF RedisError
  <2>2. UNCHANGED redis \/ Executed(t) \/ PartlyExecuted(t)
    BY <1>5, Commands DEF RedisError
  <2>3. KeysInRole'
    BY <1>1, <1>2, <2>2, RoleCommand, RolePart DEF redis
  <2>4. ASSUME t \in Thread, th'[t].pc \in AllLabels \cup {"doneGet"}
        PROVE  th'[t].c \in Publisher
    <3>1. HandlerOk(t) /\ GoesOn(t)
      BY <1>1, <1>5, <2>4, ContinueGoesOn, ErrorGoesOn DEF Apart, HandlersInv, RedisError
    <3>2. th'[t].c = th[t].c
      BY <2>4, <3>1 DEF GoesOn, Idle, AllLabels
    <3>3. th[t].pc \in AllLabels \cup {"doneGet"}
      BY <1>1, <1>5, <2>4, <3>1, AllEntry
    <3> QED
      BY <2>4, <3>2, <3>3 DEF ThreadsInRole
  <2> QED
    BY <1>3, <2>1, <2>3, <2>4
<1>6. CASE CleanupThread \/ ScanError
  <2>1. OthersStay(Cleaner) /\ (PassMove \/ UNCHANGED th)
    BY <1>6, PassMoves, PassFails
  <2>2. KindOk(th'[Cleaner])
    <3> DEFINE l == th[Cleaner]
    <3>1. KindOk(l) /\ l.type = "none" /\ l.ret \in {"idle", "scan"}
      BY <1>1 DEF CleanerOk
    <3>2. CASE th'[Cleaner].pc = "scanGet" /\ PassMove
      BY <3>1, <3>2 DEF PassMove, KindOk, Idle
    <3>3. CASE th'[Cleaner].pc = "dereg" /\ PassMove
      <4>1. /\ th'[Cleaner].batch = l.batch \cup {<<l.c, task[l.c].type>>}
            /\ th'[Cleaner].c = l.c /\ th'[Cleaner].type = l.type
            /\ th'[Cleaner].ret = "scan" /\ task[l.c].type = TypeOf(l.c)
        BY <3>3 DEF PassMove, KeysInRole, Idle
      <4>2. \A x \in th'[Cleaner].batch : x[2] = TypeOf(x[1])
        BY <3>1, <4>1 DEF KindOk
      <4> QED
        BY <3>1, <3>3, <4>1, <4>2 DEF KindOk
    <3>4. CASE th'[Cleaner].pc \notin {"scanGet", "dereg"} /\ PassMove
      BY <3>1, <3>4, KindLess DEF PassMove
    <3> QED
      BY <2>1, <3>1, <3>2, <3>3, <3>4
  <2>3. KeysInRole'
    <3>1. UNCHANGED <<task, pub>> \/ Executed(Cleaner)
      BY <1>6 DEF CleanupThread, Scan, ScanRem, ScanGet, ScanBack, CleanBatch, ScanError,
                  SetScore, Executed, redis, At
    <3> QED
      BY <1>1, <1>2, <3>1, RoleCommand
  <2> QED
    BY <1>1, <1>3, <2>1, <2>2, <2>3
<1>7. CASE Crash
  <2>1. \A t \in Proc : th'[t] = Idle
    BY <1>7 DEF Crash
  <2>2. KindOk(Idle)
    BY DEF KindOk, Idle
  <2>3. ThreadsInRole'
    BY <1>1, <2>1, <2>2 DEF ThreadsInRole, Idle, AllLabels
  <2> QED
    BY <1>2, <1>7, <2>3 DEF Crash, redis
<1>8. CASE Tick \/ Finished \/ UNCHANGED vars
  <2>1. /\ UNCHANGED <<th, pub>>
        /\ \A c \in Client : task'[c] = task[c] \/ task'[c] = NoTask
    BY <1>8 DEF Tick, Finished, vars, redis
  <2> QED
    BY <2>1 DEF KeysInRole, ThreadsInRole, Exists
<1> QED
  BY <1>4, <1>5, <1>6, <1>7, <1>8 DEF Next

\* Roles hold throughout.
LEMMA RolesHold == Spec => [](CleanerOk /\ RoleInv)
<1>1. Init => CleanerOk /\ RoleInv
  <2> SUFFICES ASSUME Init PROVE CleanerOk /\ RoleInv
    OBVIOUS
  <2>1. \A t \in Proc : th[t] = Idle
    BY DEF Init
  <2>2. KindOk(Idle)
    BY DEF KindOk, Idle
  <2>3. CleanerOk
    BY <2>1 DEF CleanerOk, Idle, Proc, ScanLabels, AllLabels, DeregLabels
  <2>4. KeysInRole
    BY DEF Init, KeysInRole, Exists
  <2>5. ThreadsInRole
    BY <2>1, <2>2 DEF ThreadsInRole, Idle, AllLabels, Proc
  <2> QED
    BY <2>3, <2>4, <2>5 DEF RoleInv
<1> QED
  BY <1>1, ApartHolds, CleanerOkStep, RoleStep, PTL DEF Spec
-----------------------------------------------------------------------------
(* The single publisher keeps what it was granted. *)

\* A hook of a player leaves the publishers alone.
LEMMA ForeignStep ==
    ASSUME TInv, KeysInRole, ThreadsInRole, NEW t \in Thread, HandlerOk(t), Continue(t),
           NEW p \in Publisher, th[t].c \notin Publisher
    PROVE  /\ task'[p] = task[p] /\ pub' = pub
           /\ p \in granted' <=> p \in granted
           /\ p \in denied' <=> p \in denied
<1> DEFINE l == th[t]
<1> USE DEF At
<1>1. /\ t \in Proc /\ ThreadInv /\ KindOk(l) /\ p \in Client /\ l.c # p
      /\ task \in [Client -> [type : Type, last : Nat, exp : Nat]]
      /\ l.pc \notin AllLabels \cup ScanLabels
  BY DEF TInv, RedisInv, ThreadsInRole, Proc, Client, HandlerOk
<1>2. l.type # "publisher"
  BY <1>1 DEF KindOk, TypeOf
<1>3. task'[p] = task[p] /\ pub' = pub
  <2>1. CASE UNCHANGED redis
    BY <2>1 DEF redis
  <2>2. CASE At(t, "hset") /\ SetHash(l.c, l.type, l.last)
    BY <1>1, <2>2 DEF SetHash
  <2>3. CASE At(t, "expire") /\ SetExpiry(l.c)
    BY <1>1, <2>3 DEF SetExpiry
  <2>4. CASE DelHash(l.c)
    BY <1>1, <2>4 DEF DelHash
  <2>5. CASE At(t, "deregBatch") /\ Batch({<<l.c, l.kind>>})
    <3>1. l.kind # "publisher"
      BY <1>1, <2>5 DEF KindOk, TypeOf
    <3> QED
      BY <1>1, <2>5, <3>1 DEF Batch
  <2>6. CASE UNCHANGED <<task, pub>>
    BY <2>6
  <2>7. l.pc \notin {"indexWrite", "allBatch", "cleanBatch"}
    BY <1>1, <1>2 DEF KindOk, AllLabels, ScanLabels
  <2>8. UNCHANGED redis \/ Executed(t)
    BY <1>1, Commands
  <2> QED
    BY <2>1, <2>2, <2>3, <2>4, <2>5, <2>6, <2>7, <2>8
       DEF Executed, AddMember, IncrBy, SetScore, DelMembers
<1>4. \/ UNCHANGED answers
      \/ denied' = denied \cup {l.c} /\ granted' = granted
      \/ granted' = granted \cup {l.c} /\ denied' = denied
  BY <1>1, AnswerEffect
<1>5. /\ p \in granted' <=> p \in granted
      /\ p \in denied' <=> p \in denied
  BY <1>1, <1>4 DEF answers
<1> QED
  BY <1>3, <1>5

\* The steps of the publisher's own registration and of its done hook.
LEMMA OwnStep ==
    ASSUME TInv, KeysInRole, ThreadsInRole, NEW t \in Thread, HandlerOk(t), Continue(t),
           NEW p, Publisher = {p}, th[t].c = p, Owns(p),
           \A u \in Thread : u # t => th[u].c # p
    PROVE  Owns(p)'
<1> DEFINE l == th[t]
           k == th'[t]
<1> USE DEF At
<1>1. /\ t \in Proc /\ ThreadInv /\ KindOk(l) /\ p \in Client /\ p # NoClient
      /\ task \in [Client -> [type : Type, last : Nat, exp : Nat]]
      /\ l.ret # "scan" /\ l.ret # "deny"
      /\ clock \in Nat /\ pub \in {p, NoClient}
  BY ClientAssumption, BoundAssumption
     DEF TInv, RedisInv, EnvInv, ThreadsInRole, KeysInRole, Proc, Client, HandlerOk, Owns
<1>2. \A u \in Thread : u # t => th'[u].c # p
  <2>1. OthersStay(t)
    BY <1>1, StepStays
  <2> QED
    BY <2>1 DEF OthersStay, Proc
<1>3. /\ Exists(p) => TaskTTL <= task[p].exp
      /\ pub = p => Exists(p)
      /\ l.pc # "keyDel"
      /\ l.pc \in {"expire", "index", "indexWrite", "zadd"} => Exists(p)
      /\ l.pc = "zadd" => pub = p
      /\ l.pc \in AllLabels \cup {"doneGet"} => p \notin granted
      /\ l.pc \in DeregLabels => l.ret = "hset"
      /\ p \in granted /\ pub # p => l.pc \in {"hset", "expire", "index", "indexWrite"}
  BY DEF Owns
<1>4. SUFFICES /\ task'[p] # NoTask => TaskTTL <= task'[p].exp
               /\ pub' = p => task'[p] # NoTask
               /\ k.c = p =>
                    /\ k.pc # "keyDel" /\ k.ret # "deny"
                    /\ k.pc \in {"expire", "index", "indexWrite", "zadd"} => task'[p] # NoTask
                    /\ k.pc = "zadd" => pub' = p
                    /\ k.pc \in AllLabels \cup {"doneGet"} => p \notin granted'
                    /\ k.pc \in DeregLabels => k.ret = "hset"
               /\ p \in granted' /\ pub' # p =>
                    k.c = p /\ k.pc \in {"hset", "expire", "index", "indexWrite"}
  <2>1. (Exists(p))' <=> task'[p] # NoTask
    BY DEF Exists
  <2> QED
    BY <1>2, <2>1 DEF Owns
<1> USE DEF AllLabels, DeregLabels
<1>5. CASE PubCheck(t)
  BY <1>1, <1>3, <1>5, Flat
     DEF PubCheck, Goes, Calls, SameWork, redis, answers, Exists
<1>6. CASE DoneGet(t)
  BY <1>1, <1>3, <1>6, Flat DEF DoneGet, Goes, Ends, Idle, SameWork, redis, answers, Exists
<1>7. CASE HashSet(t)
  <2>1. task'[p] # NoTask /\ TaskTTL <= task'[p].exp /\ UNCHANGED pub
    <3>1. TaskTTL <= Never
      BY TimeAssumption, BoundAssumption DEF Never
    <3>2. task'[p] = [type |-> l.type, last |-> l.last,
                      exp |-> IF Exists(p) THEN task[p].exp ELSE Never] /\ UNCHANGED pub
      BY <1>1, <1>7 DEF HashSet, SetHash
    <3>3. l.type # "none"
      BY <1>1, <1>7 DEF KindOk, HashSet
    <3> QED
      BY <1>3, <3>1, <3>2, <3>3 DEF NoTask
  <2> QED
    BY <1>1, <1>3, <1>7, <2>1, Flat DEF HashSet, Goes, SameWork, answers
<1>8. CASE KeyExpire(t)
  <2>1. SetExpiry(p) /\ Goto(t, "index")
    BY <1>1, <1>3, <1>8 DEF KeyExpire, KindOk, TypeOf
  <2>2. task'[p] # NoTask /\ TaskTTL <= task'[p].exp /\ UNCHANGED pub
    <3>1. task'[p].exp = clock + TaskTTL /\ task'[p].type = task[p].type /\ UNCHANGED pub
      BY <1>1, <2>1 DEF SetExpiry
    <3>2. task[p].type # "none"
      BY <1>1, <2>1 DEF SetExpiry, KeysInRole, TypeOf
    <3> QED
      BY <1>1, <3>1, <3>2, TimeAssumption DEF NoTask
  <2> QED
    BY <1>1, <1>3, <2>1, <2>2, Flat DEF Goes, SameWork, answers
<1>9. CASE IndexCheck(t)
  BY <1>1, <1>3, <1>9, Flat DEF IndexCheck, Goes, SameWork, redis, answers, Exists
<1>10. CASE IndexWrite(t)
  BY <1>1, <1>3, <1>10, Flat DEF IndexWrite, WriteIndices, Goes, SameWork, answers, Exists
<1>11. CASE ZsetAdd(t)
  BY <1>1, <1>3, <1>11, Flat DEF ZsetAdd, SetScore, Ends, Idle, Exists
<1>12. CASE DeregGet(t)
  BY <1>1, <1>3, <1>12, ReadFields DEF DeregGet, SameJob, redis, answers, Exists
<1>13. CASE DeregZrem(t)
  <2>1. Goto(t, "hset") /\ UNCHANGED <<task, pub>> /\ l.ret = "hset"
    BY <1>3, <1>13 DEF DeregZrem, SetScore, ReturnFromDeregister
  <2> QED
    BY <1>1, <1>3, <2>1, Flat DEF Goes, SameWork, answers, Exists
<1>14. CASE DeregBatch(t)
  <2>1. Goto(t, "hset") /\ l.ret = "hset" /\ Batch({<<p, "publisher">>})
    BY <1>1, <1>3, <1>14 DEF DeregBatch, ReturnFromDeregister, KindOk, TypeOf
  <2>2. task'[p] = NoTask /\ pub' = NoClient
    BY <1>1, <2>1 DEF Batch
  <2> QED
    BY <1>1, <2>1, <2>2, Flat DEF Goes, SameWork
<1>15. CASE AllMembers(t) \/ \E c \in Client : AllGet(t, c)
  <2>1. SameJob(t) /\ k.pc \in {"allDel", "allGet", "allBatch"} /\ l.pc \in AllLabels
    BY <1>1, <1>15, ReadFields DEF AllMembers, AllGet
  <2> QED
    BY <1>1, <1>3, <2>1 DEF SameJob, redis, answers, Exists
<1>16. CASE AllBatch(t)
  <2>1. Goto(t, "allDel") /\ Batch(l.batch) /\ l.pc = "allBatch"
    BY <1>16 DEF AllBatch
  <2>2. (task'[p] = task[p] \/ task'[p] = NoTask) /\ pub' \in {pub, NoClient}
    BY <1>1, <2>1 DEF Batch
  <2>3. pub' = p => task'[p] # NoTask
    <3> SUFFICES ASSUME pub' = p PROVE task'[p] # NoTask
      OBVIOUS
    <3>1. pub = p /\ ~(\E x \in l.batch : x[2] = "publisher")
      BY <1>1, <2>1 DEF Batch
    <3>2. \A x \in l.batch : x[1] # p
      BY <1>1, <3>1 DEF KindOk, TypeOf
    <3>3. task'[p] = task[p]
      BY <1>1, <2>1, <3>2 DEF Batch
    <3> QED
      BY <1>3, <3>1, <3>3 DEF Exists
  <2> QED
    BY <1>1, <1>3, <2>1, <2>2, <2>3, Flat DEF Goes, SameWork, answers, Exists
<1>17. CASE AllDel(t)
  BY <1>1, <1>3, <1>17, Flat DEF AllDel, DelMembers, Ends, Idle, answers, Exists
<1>18. ~(PlayLookup(t) \/ PlayCheck(t) \/ KeyDel(t) \/ SetAdd(t) \/ IncrTotal(t))
  BY <1>1, <1>3 DEF PlayLookup, PlayCheck, KeyDel, SetAdd, IncrTotal, KindOk, TypeOf
<1> QED
  BY <1>5, <1>6, <1>7, <1>8, <1>9, <1>10, <1>11, <1>12, <1>13, <1>14, <1>15, <1>16,
     <1>17, <1>18 DEF Continue

\* Every step keeps the publisher's ownership.
LEMMA OwnerStep ==
    /\ TInv /\ Apart /\ CalmInv /\ CleanerOk /\ RoleInv /\ OwnerInv /\ [Next]_vars
    => OwnerInv'
<1> SUFFICES ASSUME TInv, Apart, CalmInv, CleanerOk, RoleInv, OwnerInv, [Next]_vars,
                    OneOwner, TaskTimeout <= TaskTTL, Undisturbed', NEW p \in Publisher
             PROVE  Owns(p)'
  BY DEF OwnerInv
<1>1. Undisturbed
  BY CalmStep
<1>2. /\ SerialClients /\ Publisher = {p} /\ Owns(p) /\ KeysInRole /\ ThreadsInRole
      /\ p \in Client /\ p # NoClient
  BY <1>1, ClientAssumption DEF OneOwner, OwnerInv, RoleInv, Client
<1>3. ThreadInv /\ \A t \in Thread : t \in Proc /\ HandlerOk(t)
  BY DEF TInv, Proc, Apart, HandlersInv
<1>4. ASSUME NEW t \in Thread, Continue(t) PROVE Owns(p)'
  <2>1. CASE th[t].c = p
    <3>1. \A u \in Thread : u # t => th[u].c # p
      BY <1>2, <2>1 DEF Apart, SerialInv
    <3> QED
      BY <1>2, <1>3, <1>4, <2>1, <3>1, OwnStep
  <2>2. CASE th[t].c # p
    <3>1. task'[p] = task[p] /\ pub' = pub /\ (p \in granted' <=> p \in granted)
      BY <1>2, <1>3, <1>4, <2>2, ForeignStep
    <3>2. GoesOn(t)
      BY <1>3, <1>4, ContinueGoesOn
    <3>3. th'[t].c # p /\ \A u \in Thread : u # t => th'[u] = th[u]
      BY <1>2, <1>3, <2>2, <3>2 DEF GoesOn, OthersStay, Idle
    <3> QED
      BY <1>2, <2>2, <3>1, <3>3 DEF Owns, Exists
  <2> QED
    BY <2>1, <2>2
<1>5. ASSUME NEW t \in Thread, Hook(t) PROVE Owns(p)'
  <2>1. PICK c \in Client, label \in {"pubCheck", "doneGet", "playLookup", "dereg"}, type \in Type :
               /\ Starts(t, c, label, type)
               /\ c = p => label \in {"pubCheck", "doneGet"}
               /\ p \in granted' => p \in granted
               /\ c # p => (p \in granted' <=> p \in granted)
               /\ c = p /\ label = "doneGet" => p \notin granted'
    BY <1>2, <1>3, <1>5, HookStarts DEF Client, OneOwner, Roles, Type
  <2>2. /\ th'[t].pc = label /\ th'[t].c = c /\ th'[t].ret = "idle"
        /\ th[t].c = NoClient /\ UNCHANGED <<task, pub>>
        /\ \A u \in Thread : u # t => th'[u] = th[u]
        /\ \A u \in Thread : th[u].c # c
    BY <1>2, <1>3, <2>1 DEF Starts, Idle, redis, OthersStay
  <2>3. CASE c = p
    BY <1>2, <2>1, <2>2, <2>3 DEF Owns, Exists, AllLabels, DeregLabels
  <2>4. CASE c # p
    BY <1>2, <2>1, <2>2, <2>4 DEF Owns, Exists
  <2> QED
    BY <2>3, <2>4
<1>6. CASE Tick
  <2>1. Exists(p) => ~(task[p].exp <= clock')
    BY <1>2, TimeAssumption, BoundAssumption, TypeStep
       DEF Owns, Undisturbed, TInv, EnvInv, RedisInv
  <2>2. task'[p] = task[p]
    BY <1>2, <1>6, <2>1 DEF Tick, Exists
  <2> QED
    BY <1>2, <1>6, <2>2 DEF Tick, Owns, Exists, answers
<1>7. CASE UNCHANGED <<redis, th, answers>>
  BY <1>2, <1>7 DEF Owns, Exists, redis, answers
<1> QED
  BY <1>4, <1>5, <1>6, <1>7, CalmStep

\* The invariants of the single publisher hold throughout.
LEMMA OwnerHolds == Spec => [](RoleInv /\ OwnerInv)
<1>1. Init => OwnerInv
  BY ClientAssumption
     DEF Init, OwnerInv, Owns, Exists, Idle, Proc, Client, AllLabels, DeregLabels
<1> QED
  BY <1>1, ApartHolds, RolesHold, OwnerStep, PTL DEF Spec

\* A stream's single publisher, told SUCCESS, owns the stream until its done hook,
\* however the hooks of any number of players interleave with its own, as long as
\* no call fails and nothing is old enough to time out.
THEOREM OwnerKeepsStreamAlways ==
    OneOwner /\ TaskTimeout <= TaskTTL => (Spec => []OwnerKeepsStream)
<1> SUFFICES ASSUME OneOwner, TaskTimeout <= TaskTTL PROVE Spec => []OwnerKeepsStream
  OBVIOUS
<1>1. OwnerInv => OwnerKeepsStream
  BY DEF OwnerInv, OwnerKeepsStream, Owns, Quiet, At, Proc
<1> QED
  BY <1>1, OwnerHolds, PTL

\* Under the same conditions the publisher key, which has no TTL, always names a
\* client whose task hash exists: registration writes the hash first, and every
\* pipeline that deletes the hash deletes the key.
THEOREM PublisherBackedAlways ==
    OneOwner /\ TaskTimeout <= TaskTTL => (Spec => []PublisherBacked)
<1> SUFFICES ASSUME OneOwner, TaskTimeout <= TaskTTL PROVE Spec => []PublisherBacked
  OBVIOUS
<1>1. RoleInv /\ OwnerInv => PublisherBacked
  BY DEF RoleInv, KeysInRole, OneOwner, OwnerInv, PublisherBacked, Owns, TypeOf, Client
<1> QED
  BY <1>1, OwnerHolds, PTL
-----------------------------------------------------------------------------
(* A refused registration leaves no task behind. *)

\* What a step may do to a client that is not its own: remove the hash, and the
\* publisher key only together with it.
Spares(c) ==
    /\ task'[c] = task[c] \/ task'[c] = NoTask
    /\ c \in Publisher /\ pub = c /\ pub' # c => task'[c] = NoTask

\* A step that spares the client and moves none of its threads keeps it clean.
LEMMA Bystander ==
    ASSUME NEW c \in Client, Clean(c), Spares(c), c \in denied' <=> c \in denied,
           \A t \in Thread : th[t].c = c \/ th'[t].c = c => th'[t] = th[t],
           faults' = faults \/ faults' # 0
    PROVE  Clean(c)'
<1>1. CASE faults' = faults
  BY <1>1 DEF Clean, Spares, Exists
<1>2. CASE faults' # 0
  BY <1>2 DEF Clean, Spares, Exists
<1> QED
  BY <1>1, <1>2

\* The commands of the other threads spare a client.
LEMMA SparesOthers ==
    ASSUME TInv, OneOwner, KeysInRole, NEW t \in Proc, KindOk(th[t]), Executed(t),
           NEW c \in Client, c # th[t].c \/ (t = Cleaner /\ CleanerOk)
    PROVE  Spares(c)
<1> DEFINE l == th[t]
<1> USE DEF At
<1>1. /\ task \in [Client -> [type : Type, last : Nat, exp : Nat]]
      /\ l.pc \notin Unbound => l.c \in Client
      /\ NoClient \notin Client
  BY LocalFacts, ClientAssumption DEF TInv, RedisInv
<1>2. CASE UNCHANGED <<task, pub>>
  BY <1>2 DEF Spares
<1>3. ASSUME NEW b, Batch(b), \A x \in b : x[2] = TypeOf(x[1]) PROVE Spares(c)
  <2>1. task'[c] = task[c] \/ task'[c] = NoTask
    BY <1>1, <1>3 DEF Batch
  <2>2. ASSUME c \in Publisher, pub = c, pub' # c PROVE task'[c] = NoTask
    <3>1. PICK x \in b : x[2] = "publisher"
      BY <1>3, <2>2 DEF Batch
    <3>2. x[1] = c
      BY <1>3, <2>2, <3>1 DEF TypeOf, OneOwner
    <3> QED
      BY <1>1, <1>3, <3>1, <3>2 DEF Batch
  <2> QED
    BY <2>1, <2>2 DEF Spares
<1>4. CASE At(t, "deregBatch") /\ Batch({<<l.c, l.kind>>})
  <2>1. l.kind = TypeOf(l.c)
    BY <1>4 DEF KindOk
  <2> QED
    BY <1>3, <1>4, <2>1
<1>5. CASE Batch(l.batch)
  BY <1>3, <1>5 DEF KindOk
<1>6. CASE \/ At(t, "hset") /\ SetHash(l.c, l.type, l.last)
           \/ At(t, "expire") /\ SetExpiry(l.c)
           \/ At(t, "keyDel") /\ DelHash(l.c)
           \/ At(t, "indexWrite") /\ WriteIndices(l.c)
  <2>1. c # l.c
    BY <1>6 DEF CleanerOk, ScanLabels, AllLabels, DeregLabels
  <2>2. task'[c] = task[c]
    BY <1>1, <1>6, <2>1 DEF SetHash, SetExpiry, DelHash, WriteIndices
  <2>3. c \in Publisher => pub' = pub
    BY <1>6, <2>1 DEF SetHash, SetExpiry, DelHash, WriteIndices, KindOk, TypeOf, OneOwner
  <2> QED
    BY <2>2, <2>3 DEF Spares
<1> QED
  BY <1>2, <1>4, <1>5, <1>6 DEF Executed, AddMember, IncrBy, SetScore, DelMembers

\* The steps of a client's own thread that meet no failure.
LEMMA CleanOwn ==
    ASSUME TInv, OneOwner, KeysInRole, ThreadsInRole, NEW t \in Thread, HandlerOk(t),
           Continue(t), NEW c \in Client, th[t].c = c, Clean(c),
           \A u \in Thread : u # t => th[u].c # c
    PROVE  Clean(c)'
<1> DEFINE l == th[t]
           k == th'[t]
<1> USE DEF At
<1>1. /\ t \in Proc /\ ThreadInv /\ KindOk(l) /\ c # NoClient
      /\ task \in [Client -> [type : Type, last : Nat, exp : Nat]]
      /\ \A d \in Client : Exists(d) => task[d].type # "none"
      /\ l.ret # "scan" /\ (l.ret = "deny" => l.pc \in DeregLabels)
      /\ (c \in Publisher => pub \in {c, NoClient})
  BY ClientAssumption
     DEF TInv, RedisInv, ThreadsInRole, KeysInRole, OneOwner, Proc, HandlerOk, Exists
<1>2. \A u \in Thread : u # t => th'[u].c # c
  <2>1. OthersStay(t)
    BY <1>1, StepStays
  <2> QED
    BY <2>1 DEF OthersStay, Proc
<1>3. UNCHANGED faults
  BY DEF Continue, PlayLookup, DoneGet, PubCheck, PlayCheck, IndexCheck, DeregGet,
         AllMembers, AllGet, HashSet, KeyExpire, KeyDel, IndexWrite, SetAdd, IncrTotal,
         ZsetAdd, DeregZrem, DeregBatch, AllBatch, AllDel, env
<1>4. /\ c \in denied => task[c] = NoTask
      /\ faults = 0 /\ c \in Publisher /\ task[c] # NoTask /\ pub # c =>
           l.pc \in {"expire", "index", "indexWrite"}
      /\ l.type # "none" => c \notin denied
      /\ faults = 0 /\ l.pc \in {"hset", "deregZrem", "keyDel"} => task[c] = NoTask
      /\ l.ret = "deny" => faults # 0 /\ (l.pc = "deregZrem" => task[c] = NoTask)
  BY DEF Clean, Exists
<1>5. SUFFICES /\ c \in denied' => task'[c] = NoTask
               /\ faults = 0 /\ c \in Publisher /\ task'[c] # NoTask /\ pub' # c =>
                    k.c = c /\ k.pc \in {"expire", "index", "indexWrite"}
               /\ k.c = c =>
                    /\ k.type # "none" => c \notin denied'
                    /\ faults = 0 /\ k.pc \in {"hset", "deregZrem", "keyDel"} => task'[c] = NoTask
                    /\ k.ret = "deny" => faults # 0 /\ (k.pc = "deregZrem" => task'[c] = NoTask)
  BY <1>2, <1>3 DEF Clean, Exists
<1> USE DEF DeregLabels, Exists
<1>6. CASE PlayLookup(t) \/ DoneGet(t)
  <2>1. CASE PlayLookup(t)
    <3>1. c \notin Publisher /\ UNCHANGED redis /\ l.ret # "deny"
      BY <1>1, <2>1 DEF PlayLookup, KindOk, TypeOf
    <3>2. Return(t) \/ Goes(t, "playCheck")
      BY <1>1, <2>1, ReadFields
    <3> QED
      BY <1>1, <1>4, <3>1, <3>2, Flat DEF Goes, Ends, Idle, SameWork, redis, answers
  <2>2. CASE DoneGet(t)
    BY <1>1, <1>4, <2>2, Flat DEF DoneGet, Goes, Ends, Idle, SameWork, redis, answers
  <2> QED
    BY <1>6, <2>1, <2>2
<1>7. CASE PubCheck(t)
  <2>1. c \in Publisher
    BY <1>1, <1>7 DEF PubCheck, KindOk, TypeOf
  <2> QED
    BY <1>1, <1>4, <1>7, <2>1, Flat
       DEF PubCheck, Goes, Calls, SameWork, redis, answers
<1>8. CASE PlayCheck(t)
  <2>1. c \notin Publisher
    BY <1>1, <1>8 DEF PlayCheck, KindOk, TypeOf
  <2> QED
    BY <1>1, <1>4, <1>8, <2>1, Flat DEF PlayCheck, Goes, Calls, SameWork, redis, answers
<1>9. CASE HashSet(t)
  <2>1. l.type # "none" /\ UNCHANGED pub
    BY <1>1, <1>9 DEF HashSet, SetHash, KindOk
  <2> QED
    BY <1>1, <1>4, <1>9, <2>1, Flat DEF HashSet, Goes, SameWork, answers
<1>10. CASE KeyExpire(t)
  <2>1. l.type # "none" /\ l.type = TypeOf(c)
    BY <1>1, <1>10 DEF KeyExpire, KindOk
  <2>2. CASE SetExpiry(c) /\ Goto(t, IF l.type = "publisher" THEN "index" ELSE "sadd")
    BY <1>1, <1>4, <2>1, <2>2, Flat DEF SetExpiry, TypeOf, Goes, SameWork, answers
  <2>3. CASE task[c] = NoTask /\ UNCHANGED redis /\ Goto(t, "keyDel")
    BY <1>1, <1>4, <1>10, <2>1, <2>3, Flat DEF KeyExpire, Goes, SameWork, redis, answers
  <2> QED
    BY <1>10, <2>2, <2>3 DEF KeyExpire
<1>11. CASE KeyDel(t)
  BY <1>1, <1>11, Flat DEF KeyDel, DelHash, Ends, Idle
<1>12. CASE IndexCheck(t)
  <2>1. c \in Publisher /\ Goto(t, "indexWrite") /\ l.pc = "index"
    BY <1>1, <1>12 DEF IndexCheck, KindOk, TypeOf
  <2> QED
    BY <1>1, <1>4, <1>12, <2>1, Flat DEF IndexCheck, Goes, SameWork, redis, answers
<1>13. CASE IndexWrite(t)
  BY <1>1, <1>4, <1>13, Flat DEF IndexWrite, WriteIndices, Goes, SameWork, answers
<1>14. CASE SetAdd(t) \/ IncrTotal(t)
  <2>1. c \notin Publisher /\ UNCHANGED task
    BY <1>1, <1>14 DEF SetAdd, IncrTotal, AddMember, IncrBy, KindOk, TypeOf
  <2> QED
    BY <1>1, <1>4, <1>14, <2>1, Flat DEF SetAdd, IncrTotal, Goes, SameWork, answers
<1>15. CASE ZsetAdd(t)
  BY <1>1, <1>4, <1>15, Flat DEF ZsetAdd, SetScore, Ends, Idle
<1>16. CASE DeregGet(t)
  BY <1>1, <1>4, <1>16, ReadFields DEF DeregGet, SameJob, redis, answers
<1>17. CASE DeregZrem(t)
  <2>1. UNCHANGED <<task, pub>> /\ l.pc = "deregZrem"
    BY <1>17 DEF DeregZrem, SetScore
  <2>2. CASE l.ret = "deny" /\ Deny(t)
    BY <1>1, <1>4, <2>1, <2>2, Flat DEF Ends, Idle
  <2>3. CASE l.ret = "hset" /\ Goto(t, "hset")
    BY <1>1, <1>4, <2>1, <2>3, Flat DEF Goes, SameWork, answers
  <2>4. CASE Return(t)
    BY <1>1, <1>4, <2>1, <2>4, Flat DEF Ends, Idle, answers
  <2> QED
    BY <1>1, <1>17, <2>2, <2>3, <2>4 DEF DeregZrem, ReturnFromDeregister
<1>18. CASE DeregBatch(t)
  <2>1. task'[c] = NoTask
    BY <1>1, <1>18 DEF DeregBatch, Batch
  <2>2. CASE Deny(t) \/ Return(t)
    BY <1>1, <2>1, <2>2, Flat DEF Ends, Idle
  <2>3. CASE l.ret = "hset" /\ Goto(t, "hset")
    BY <1>1, <1>4, <2>1, <2>3, Flat DEF Goes, SameWork, answers
  <2> QED
    BY <1>1, <1>18, <2>2, <2>3 DEF DeregBatch, ReturnFromDeregister
<1>19. CASE AllMembers(t) \/ (\E d \in Client : AllGet(t, d))
  <2>1. /\ SameJob(t) /\ k.pc \in {"allDel", "allGet", "allBatch"}
        /\ l.pc \in {"all", "allGet"}
    BY <1>1, <1>19, ReadFields DEF AllMembers, AllGet
  <2> QED
    BY <1>1, <1>4, <2>1 DEF SameJob, redis, answers
<1>20. CASE AllBatch(t)
  <2>1. Goto(t, "allDel") /\ Batch(l.batch) /\ l.pc = "allBatch"
    BY <1>20 DEF AllBatch
  <2>2. task'[c] = task[c] \/ task'[c] = NoTask
    BY <1>1, <2>1 DEF Batch
  <2>3. ASSUME c \in Publisher, task'[c] # NoTask PROVE pub' = pub
    <3>1. \A x \in l.batch : x[1] # c
      BY <1>1, <2>1, <2>3 DEF Batch
    <3>2. \A x \in l.batch : x[2] # "publisher"
      BY <1>1, <2>3, <3>1 DEF KindOk, TypeOf, OneOwner
    <3> QED
      BY <2>1, <3>2 DEF Batch
  <2> QED
    BY <1>1, <1>4, <2>1, <2>2, <2>3, Flat DEF Goes, SameWork, answers
<1>21. CASE AllDel(t)
  BY <1>1, <1>4, <1>21, Flat DEF AllDel, DelMembers, Ends, Idle, answers
<1> QED
  BY <1>6, <1>7, <1>8, <1>9, <1>10, <1>11, <1>12, <1>13, <1>14, <1>15, <1>16, <1>17,
     <1>18, <1>19, <1>20, <1>21 DEF Continue

\* The first failed call, not executed, of a client's own thread.
LEMMA CleanFails ==
    ASSUME TInv, NEW t \in Thread, HandlerOk(t), AfterError(t), UNCHANGED redis,
           faults = 0, faults' = 1, NEW c \in Client, th[t].c = c, Clean(c), KindOk(th[t]),
           \A u \in Thread : u # t => th[u].c # c
    PROVE  Clean(c)'
<1> DEFINE l == th[t]
           k == th'[t]
<1> USE DEF At
<1>1. /\ t \in Proc /\ ThreadInv /\ c # NoClient
      /\ l.ret # "scan" /\ l.pc \notin ScanLabels
  BY ClientAssumption DEF TInv, Proc, HandlerOk
<1>2. \A u \in Thread : u # t => th'[u].c # c
  <2>1. OthersStay(t)
    BY <1>1, StepStays
  <2> QED
    BY <2>1 DEF OthersStay, Proc
<1>3. /\ c \in denied => task[c] = NoTask
      /\ l.type # "none" => c \notin denied
      /\ l.pc \in {"hset", "deregZrem", "keyDel"} => task[c] = NoTask
      /\ l.ret # "deny" /\ task' = task
  BY DEF Clean, Exists, redis
<1>4. SUFFICES /\ c \in denied' => task[c] = NoTask
               /\ k.c = c =>
                    /\ k.type # "none" => c \notin denied'
                    /\ k.ret = "deny" => (k.pc = "deregZrem" => task[c] = NoTask)
  BY <1>2, <1>3 DEF Clean, Exists
<1>5. CASE l.pc \in {"hset", "keyDel"} /\ Deny(t)
  BY <1>1, <1>3, <1>5, Flat DEF Ends, Idle
<1>6. CASE Return(t)
  BY <1>1, <1>3, <1>6, Flat DEF Ends, Idle, answers
<1>7. ASSUME NEW label, Goto(t, label) PROVE k.ret # "deny" /\ UNCHANGED denied /\ k.type = l.type
  BY <1>1, <1>3, <1>7, Flat DEF Goes, SameWork, answers
<1>8. CASE CallDeregister(t, "deny")
  BY <1>1, <1>3, <1>8, Flat DEF Calls, SameWork, answers
<1>9. CASE l.pc = "allGet" /\ \E d \in l.ids : Become(t, AllNext(l, d, {}))
  <2>1. PICK d : k = AllNext(l, d, {}) /\ UNCHANGED answers
    BY <1>1, <1>9 DEF Become, ThreadInv
  <2>2. l \in Local
    BY <1>1 DEF ThreadInv
  <2> QED
    BY <1>3, <2>1, <2>2, NextFields DEF answers
<1> QED
  BY <1>1, <1>3, <1>5, <1>6, <1>7, <1>8, <1>9
     DEF AfterError, IndexFails, ReturnFromDeregister, ScanLabels

\* Every step keeps the refused clients clean.
LEMMA DenyStep ==
    TInv /\ Apart /\ CleanerOk /\ RoleInv /\ DenyInv /\ [Next]_vars => DenyInv'
<1> SUFFICES ASSUME TInv, Apart, CleanerOk, RoleInv, DenyInv, [Next]_vars,
                    OneOwner, OneFault', NEW c \in Client
             PROVE  Clean(c)'
  BY DEF DenyInv
<1>1. /\ faults \in Nat /\ crashes \in Nat /\ lost \in BOOLEAN
      /\ NoClient \notin Client /\ SerialClients /\ KeysInRole /\ ThreadsInRole
      /\ ThreadInv /\ Cleaner \in Proc /\ th \in [Proc -> Local]
  BY BoundAssumption, ClientAssumption
     DEF TInv, EnvInv, OneOwner, RoleInv, ThreadInv, Proc
<1>2. \A t \in Thread : t \in Proc /\ t # Cleaner /\ HandlerOk(t)
  BY CleanerAssumption DEF Proc, Apart, HandlersInv
<1>3. ASSUME OneFault PROVE Clean(c)
  BY <1>3 DEF DenyInv
<1>4. ASSUME NEW t \in Thread, Hook(t) PROVE Clean(c)'
  <2>1. PICK d \in Client, label \in {"pubCheck", "doneGet", "playLookup", "dereg"},
             type \in Type :
               /\ Starts(t, d, label, type)
               /\ c # d => (c \in denied' <=> c \in denied)
               /\ c \in denied' => c \in denied
               /\ c = d /\ type # "none" => c \notin denied'
    BY <1>1, <1>4, HookStarts DEF Client, Type
  <2>2. /\ th'[t].pc = label /\ th'[t].c = d /\ th'[t].ret = "idle" /\ th'[t].type = type
        /\ th[t].c = NoClient /\ UNCHANGED <<task, pub, faults, lost, crashes>>
        /\ \A u \in Thread : u # t => th'[u] = th[u]
        /\ \A u \in Thread : th[u].c # d
    BY <1>1, <1>2, <2>1 DEF Starts, Idle, redis, OthersStay
  <2>3. Clean(c)
    BY <1>3, <2>2 DEF OneFault
  <2>4. CASE c = d
    BY <2>1, <2>2, <2>3, <2>4 DEF Clean, Exists
  <2>5. CASE c # d
    <3>1. Spares(c)
      BY <2>2 DEF Spares
    <3>2. \A u \in Thread : th[u].c = c \/ th'[u].c = c => th'[u] = th[u]
      BY <1>1, <2>2, <2>5
    <3> QED
      BY <2>1, <2>2, <2>3, <2>5, <3>1, <3>2, Bystander
  <2> QED
    BY <2>4, <2>5
<1>5. ASSUME NEW t \in Thread, Continue(t) \/ RedisError(t) PROVE Clean(c)'
  <2>1. /\ \/ Continue(t) /\ UNCHANGED <<faults, lost, crashes>>
           \/ /\ AfterError(t) /\ faults = 0 /\ faults' = 1
              /\ UNCHANGED <<redis, lost, crashes>>
    <3>1. CASE Continue(t)
      BY <3>1 DEF Continue, PlayLookup, DoneGet, PubCheck, PlayCheck, IndexCheck, DeregGet,
                  AllMembers, AllGet, HashSet, KeyExpire, KeyDel, IndexWrite, SetAdd,
                  IncrTotal, ZsetAdd, DeregZrem, DeregBatch, AllBatch, AllDel, env
    <3>2. CASE RedisError(t)
      <4>1. ~lost' /\ faults' < 2
        BY DEF OneFault
      <4>2. faults' = faults + 1 /\ AfterError(t) /\ UNCHANGED crashes
        BY <3>2 DEF RedisError
      <4>3. UNCHANGED <<redis, lost>>
        BY <3>2, <4>1, Zenon DEF RedisError
      <4> QED
        BY <1>1, <4>1, <4>2, <4>3
    <3> QED
      BY <1>5, <3>1, <3>2
  <2>2. OneFault /\ Clean(c)
    BY <1>3, <2>1 DEF OneFault
  <2>3. GoesOn(t) /\ OthersStay(t)
    BY <1>1, <1>2, <2>1, ContinueGoesOn, ErrorGoesOn DEF GoesOn
  <2>4. CASE th[t].c = c
    <3>1. \A u \in Thread : u # t => th[u].c # c
      BY <1>1, <2>4 DEF Apart, SerialInv
    <3>2. KindOk(th[t])
      BY <1>1, <1>2 DEF ThreadsInRole
    <3> QED
      BY <1>1, <1>2, <2>1, <2>2, <2>4, <3>1, <3>2, CleanOwn, CleanFails
  <2>5. CASE th[t].c # c
    <3>1. \A u \in Thread : th[u].c = c \/ th'[u].c = c => th'[u] = th[u]
      BY <1>1, <1>2, <2>3, <2>5 DEF GoesOn, OthersStay, Idle
    <3>2. c \in denied' <=> c \in denied
      BY <1>1, <1>2, <2>1, <2>5, AnswerEffect DEF answers
    <3>3. Spares(c)
      <4>1. CASE UNCHANGED redis
        BY <4>1 DEF Spares, redis
      <4>2. CASE Executed(t)
        BY <1>1, <1>2, <2>5, <4>2, SparesOthers DEF ThreadsInRole
      <4> QED
        BY <1>2, <2>1, <4>1, <4>2, Commands
    <3> QED
      BY <2>1, <2>2, <3>1, <3>2, <3>3, Bystander
  <2> QED
    BY <2>4, <2>5
<1>6. CASE Continue(Cleaner) \/ RedisError(Cleaner) \/ CleanupThread \/ ScanError
  <2>1. OthersStay(Cleaner)
    BY <1>1, <1>6, StepStays, PassMoves, PassFails DEF RedisError
  <2>2. /\ faults' = faults \/ faults' = faults + 1
        /\ UNCHANGED crashes
    BY <1>6 DEF Continue, PlayLookup, DoneGet, PubCheck, PlayCheck, IndexCheck, DeregGet,
                AllMembers, AllGet, HashSet, KeyExpire, KeyDel, IndexWrite, SetAdd,
                IncrTotal, ZsetAdd, DeregZrem, DeregBatch, AllBatch, AllDel, RedisError,
                CleanupThread, Scan, ScanRem, ScanGet, ScanBack, CleanBatch, ScanError, env
  <2>3. UNCHANGED lost
    <3>1. ~lost'
      BY DEF OneFault
    <3>2. CASE RedisError(Cleaner) \/ ScanError
      BY <3>1, <3>2, Zenon DEF RedisError, ScanError
    <3>3. CASE Continue(Cleaner) \/ CleanupThread
      BY <3>3 DEF Continue, PlayLookup, DoneGet, PubCheck, PlayCheck, IndexCheck, DeregGet,
                  AllMembers, AllGet, HashSet, KeyExpire, KeyDel, IndexWrite, SetAdd,
                  IncrTotal, ZsetAdd, DeregZrem, DeregBatch, AllBatch, AllDel,
                  CleanupThread, Scan, ScanRem, ScanGet, ScanBack, CleanBatch, env
    <3> QED
      BY <1>6, <3>2, <3>3
  <2>4. OneFault /\ Clean(c)
    BY <1>1, <1>3, <2>2, <2>3 DEF OneFault
  <2>5. UNCHANGED <<task, pub>> \/ Executed(Cleaner)
    <3>1. CASE Continue(Cleaner)
      BY <1>1, <3>1, Commands DEF redis
    <3>2. CASE RedisError(Cleaner)
      <4>1. ~lost'
        BY DEF OneFault
      <4>2. UNCHANGED redis
        BY <3>2, <4>1, Zenon DEF RedisError
      <4> QED
        BY <4>2 DEF redis
    <3>3. CASE CleanupThread \/ ScanError
      BY <3>3 DEF CleanupThread, Scan, ScanRem, ScanGet, ScanBack, CleanBatch, ScanError,
                  SetScore, Executed, redis, At
    <3> QED
      BY <1>6, <3>1, <3>2, <3>3
  <2>6. Spares(c)
    <3>1. CASE UNCHANGED <<task, pub>>
      BY <3>1 DEF Spares
    <3>2. CASE Executed(Cleaner)
      BY <1>1, <3>2, SparesOthers DEF ThreadsInRole
    <3> QED
      BY <2>5, <3>1, <3>2
  <2>7. UNCHANGED answers
    <3>1. CASE CleanupThread \/ ScanError
      BY <3>1, PassMoves, PassFails
    <3>2. CASE Continue(Cleaner)
      BY <1>1, <3>2, Flat, ReadFields
         DEF Continue, DoneGet, PubCheck, PlayCheck, IndexCheck, HashSet, KeyExpire, KeyDel,
             PlayLookup, IndexWrite, SetAdd, IncrTotal, ZsetAdd, DeregZrem, DeregBatch,
             AllBatch, AllDel, ReturnFromDeregister, Become, Goes, Calls, SameJob, At,
             CleanerOk, ScanLabels, AllLabels, DeregLabels
    <3>3. CASE RedisError(Cleaner)
      BY <1>1, <3>3, Flat
         DEF RedisError, AfterError, IndexFails, ReturnFromDeregister, Become, Goes, Calls, At,
             CleanerOk, ScanLabels, AllLabels, DeregLabels
    <3> QED
      BY <1>6, <3>1, <3>2, <3>3
  <2>8. \A u \in Thread : th'[u] = th[u]
    BY <1>2, <2>1 DEF OthersStay
  <2>9. faults' = faults \/ faults' # 0
    BY <1>1, <2>2
  <2> QED
    BY <2>4, <2>6, <2>7, <2>8, <2>9, Bystander DEF answers
<1>7. CASE Crash
  BY <1>1, <1>7 DEF Crash, OneFault
<1>8. CASE Tick \/ Finished \/ UNCHANGED vars
  <2>1. /\ UNCHANGED <<th, pub, answers, faults, lost, crashes>>
        /\ task'[c] = task[c] \/ task'[c] = NoTask
    BY <1>8 DEF Tick, Finished, vars, redis, env
  <2>2. Clean(c) /\ Spares(c)
    BY <1>3, <2>1 DEF OneFault, Spares
  <2> QED
    BY <2>1, <2>2, Bystander DEF answers
<1> QED
  BY <1>4, <1>5, <1>6, <1>7, <1>8 DEF Next, Proc

\* A client whose registration was refused has no task hash, whichever single call
\* failed without being executed, for one publisher and any number of players whose
\* hooks interleave, and however slowly they run against timeouts and the cleanup
\* pass; only a restart in between can leave a hash behind.
THEOREM DeniedLeavesNoTaskAlways ==
    OneOwner => (Spec => [](crashes = 0 => DeniedLeavesNoTask))
<1> SUFFICES ASSUME OneOwner PROVE Spec => [](crashes = 0 => DeniedLeavesNoTask)
  OBVIOUS
<1>1. Init => DenyInv
  BY ClientAssumption DEF Init, DenyInv, Clean, Exists, Idle, Proc
<1>2. TInv /\ DenyInv => (crashes = 0 => DeniedLeavesNoTask)
  BY DEF DenyInv, OneFault, DeniedLeavesNoTask, Clean, TInv, AnswerInv
<1> QED
  BY <1>1, <1>2, ApartHolds, RolesHold, DenyStep, PTL DEF Spec
-----------------------------------------------------------------------------
(* A registration that succeeded is complete, whatever failed before. *)

\* Nothing can have timed out or expired yet, and the process lives.
Early == crashes = 0 /\ clock < TaskTimeout /\ clock < TaskTTL

EarlyInv == Early => th[Cleaner] = Idle

\* Until then the cleanup thread finds nothing to do, failed calls or not.
LEMMA EarlyStep ==
    ASSUME TInv, EarlyInv, [Next]_vars, Early'
    PROVE  /\ Early /\ th[Cleaner] = Idle /\ th'[Cleaner] = Idle
           /\ \/ \E t \in Thread : Hook(t) \/ Continue(t) \/ RedisError(t)
              \/ Tick
              \/ UNCHANGED <<redis, th, answers>>
<1> USE BoundAssumption, TimeAssumption
<1>1. /\ ThreadInv /\ Cleaner \in Proc /\ Cleaner \notin Thread
      /\ \A t \in Thread : t \in Proc /\ t # Cleaner
      /\ clock \in Nat /\ crashes \in Nat /\ clock' \in Nat
  BY CleanerAssumption, TypeStep DEF TInv, EnvInv, Proc
<1>2. ~Crash
  BY <1>1 DEF Crash, Early
<1>3. Early
  <2>1. crashes' >= crashes /\ clock' >= clock
    <3>1. ASSUME NEW t \in Thread, Hook(t) PROVE UNCHANGED <<crashes, clock>>
      BY <1>1, <3>1, HookStarts DEF Starts
    <3>2. ASSUME NEW t \in Proc, Continue(t) PROVE UNCHANGED <<crashes, clock>>
      BY <3>2 DEF Continue, PlayLookup, DoneGet, PubCheck, PlayCheck, IndexCheck,
                  DeregGet, AllMembers, AllGet, HashSet, KeyExpire, KeyDel, IndexWrite,
                  SetAdd, IncrTotal, ZsetAdd, DeregZrem, DeregBatch, AllBatch, AllDel, env
    <3>3. CASE CleanupThread
      <4>1. UNCHANGED <<crashes, clock>>
        BY <3>3 DEF CleanupThread, Scan, ScanRem, ScanGet, ScanBack, CleanBatch, env
      <4> QED
        BY <1>1, <4>1
    <3>4. CASE Tick \/ Finished \/ UNCHANGED vars
      BY <1>1, <3>4 DEF Tick, Finished, vars, env
    <3>5. CASE ScanError \/ \E t \in Proc : RedisError(t)
      BY <1>1, <3>5 DEF ScanError, RedisError
    <3> QED
      BY <1>1, <1>2, <3>1, <3>2, <3>3, <3>4, <3>5 DEF Next
  <2> QED
    BY <1>1, <2>1 DEF Early
<1>4. th[Cleaner] = Idle
  BY <1>3 DEF EarlyInv
<1>5. th[Cleaner].pc = "idle"
  BY <1>4 DEF Idle
<1>6. ~Continue(Cleaner) /\ ~RedisError(Cleaner)
  BY <1>5 DEF Continue, PlayLookup, DoneGet, PubCheck, PlayCheck, IndexCheck,
              DeregGet, AllMembers, AllGet, HashSet, KeyExpire, KeyDel, IndexWrite,
              SetAdd, IncrTotal, ZsetAdd, DeregZrem, DeregBatch, AllBatch, AllDel, At,
              RedisError, AfterError, IndexFails
<1>7. CASE CleanupThread
  <2>1. Scan
    BY <1>5, <1>7 DEF CleanupThread, ScanRem, ScanGet, ScanBack, CleanBatch, At
  <2> DEFINE old == {c \in Client : zset[c] \in 0..(clock - TaskTimeout)}
             l == [Idle EXCEPT !.ids = old, !.last = clock]
  <2>2. old = {}
    BY <1>1, <1>3 DEF Early, TInv, RedisInv
  <2>3. l.ids = {} /\ l.batch = {}
    BY <2>2 DEF Idle
  <2>4. Become(Cleaner, ScanLoop(l)) /\ UNCHANGED redis
    BY <2>1 DEF Scan
  <2>5. ScanLoop(l) = Idle
    <3> HIDE DEF l
    <3> QED
      BY <2>3 DEF ScanLoop
  <2>6. th' = [th EXCEPT ![Cleaner] = Idle] /\ UNCHANGED answers
    BY <2>4, <2>5 DEF Become
  <2>7. th' = th
    BY <1>1, <1>4, <2>6 DEF ThreadInv
  <2> QED
    BY <1>3, <1>4, <2>4, <2>6, <2>7
<1>8. CASE ScanError
  <2>1. UNCHANGED <<redis, th, answers>>
    BY <1>5, <1>8 DEF ScanError, At
  <2> QED
    BY <1>3, <1>4, <2>1
<1>9. ASSUME NEW t \in Thread, Hook(t) \/ Continue(t) \/ RedisError(t)
      PROVE  th'[Cleaner] = th[Cleaner]
  <2>1. CASE Hook(t)
    BY <1>1, <2>1, HookStarts DEF Starts, OthersStay
  <2>2. CASE Continue(t) \/ RedisError(t)
    <3>1. OthersStay(t)
      BY <1>1, <2>2, StepStays DEF RedisError
    <3> QED
      BY <1>1, <3>1 DEF OthersStay
  <2> QED
    BY <1>9, <2>1, <2>2
<1>10. CASE Tick
  BY <1>3, <1>4, <1>10 DEF Tick
<1>11. CASE Finished \/ UNCHANGED vars
  BY <1>3, <1>4, <1>11 DEF Finished, vars
<1> QED
  BY <1>1, <1>2, <1>3, <1>4, <1>6, <1>7, <1>8, <1>9, <1>10, <1>11 DEF Next, Proc

\* What a thread's step does to the keys, whether its call succeeds or fails.
Sends(t) == UNCHANGED redis \/ Executed(t) \/ PartlyExecuted(t)

\* Every hash outlives the first TaskTTL ticks, whichever command touches it.
Lasts(p) == task[p] # NoTask => TaskTTL <= task[p].exp
LEMMA LastsStep ==
    ASSUME TInv, NEW t \in Proc, Sends(t), NEW p \in Client, Lasts(p)
    PROVE  Lasts(p)'
<1> DEFINE l == th[t]
<1> USE DEF At, Lasts
<1>1. /\ task \in [Client -> [type : Type, last : Nat, exp : Nat]]
      /\ l.pc \notin Unbound => l.c \in Client
      /\ l.kind \in Type /\ l.batch \in SUBSET (Client \X Type)
      /\ RedisInv /\ clock \in Nat /\ TaskTTL <= Never
  BY LocalFacts, BoundAssumption, TimeAssumption DEF TInv, RedisInv, EnvInv, Never
<1>2. CASE task'[p] = task[p] \/ task'[p] = NoTask
  BY <1>2
<1>3. CASE At(t, "hset") /\ SetHash(l.c, l.type, l.last)
  <2>1. CASE p = l.c
    <3>1. task'[p].exp = IF Exists(p) THEN task[p].exp ELSE Never
      BY <1>1, <1>3, <2>1 DEF SetHash
    <3> QED
      BY <1>1, <3>1 DEF Exists
  <2> QED
    BY <1>1, <1>2, <1>3, <2>1 DEF SetHash
<1>4. CASE At(t, "expire") /\ SetExpiry(l.c)
  <2>1. CASE p = l.c
    BY <1>1, <1>4, <2>1, TimeAssumption DEF SetExpiry
  <2> QED
    BY <1>1, <1>2, <1>4, <2>1 DEF SetExpiry
<1>5. CASE DelHash(l.c)
  BY <1>1, <1>2, <1>5 DEF DelHash
<1>6. ASSUME NEW b, Batch(b) PROVE Lasts(p)'
  BY <1>2, <1>6 DEF Batch
<1>7. ASSUME NEW b \in SUBSET (Client \X Type), BatchPart(b) PROVE Lasts(p)'
  BY <1>1, <1>2, <1>7, PartCommand
<1>8. CASE UNCHANGED task
  BY <1>2, <1>8
<1>9. CASE Executed(t)
  BY <1>3, <1>4, <1>5, <1>6, <1>8, <1>9
     DEF Executed, WriteIndices, AddMember, IncrBy, SetScore, DelMembers
<1>10. CASE PartlyExecuted(t)
  <2>1. CASE At(t, "deregBatch") /\ BatchPart({<<l.c, l.kind>>})
    <3>1. {<<l.c, l.kind>>} \in SUBSET (Client \X Type)
      BY <1>1, <2>1 DEF Unbound
    <3> QED
      BY <1>7, <2>1, <3>1
  <2> QED
    BY <1>1, <1>7, <1>8, <1>10, <2>1 DEF PartlyExecuted, WriteIndicesPart
<1> QED
  BY <1>8, <1>9, <1>10 DEF Sends, redis

\* A hook of a player leaves the keys of the publishers alone, even when it fails.
LEMMA ForeignSends ==
    ASSUME TInv, KeysInRole, ThreadsInRole, NEW t \in Thread, HandlerOk(t), Sends(t),
           Continue(t) \/ AfterError(t), NEW p \in Publisher, th[t].c \notin Publisher
    PROVE  /\ task'[p] = task[p] /\ pub' = pub /\ (active => active')
           /\ zset'[p] = zset[p] /\ (p \in members => p \in members')
           /\ p \in granted' <=> p \in granted
           /\ p \in denied' <=> p \in denied
<1> DEFINE l == th[t]
           Alone == /\ task'[p] = task[p] /\ pub' = pub /\ (active => active')
                    /\ zset'[p] = zset[p] /\ (p \in members => p \in members')
<1> USE DEF At
<1>1. /\ t \in Proc /\ ThreadInv /\ RedisInv /\ KindOk(l) /\ p \in Client /\ l.c # p
      /\ task \in [Client -> [type : Type, last : Nat, exp : Nat]]
      /\ zset \in [Client -> Int]
      /\ l.pc \notin AllLabels \cup ScanLabels
  BY DEF TInv, RedisInv, ThreadsInRole, Proc, Client, HandlerOk
<1>2. l.type # "publisher"
  BY <1>1 DEF KindOk, TypeOf
<1>3. l.pc \notin {"indexWrite", "allBatch", "cleanBatch", "allDel"}
  BY <1>1, <1>2 DEF KindOk, AllLabels, ScanLabels
<1>4. ASSUME UNCHANGED redis PROVE Alone
  BY <1>4 DEF redis
<1>5. ASSUME l.pc = "deregBatch"
      PROVE  /\ {<<l.c, l.kind>>} \in SUBSET (Client \X Type)
             /\ l.kind # "publisher"
  <2>1. l.kind = TypeOf(l.c) /\ l.c \in Client
    BY <1>1, <1>5, LocalFacts DEF KindOk, Unbound
  <2> QED
    BY <2>1 DEF TypeOf, Type
<1>6. ASSUME PartlyExecuted(t) PROVE Alone
  <2>1. l.pc = "deregBatch" /\ BatchPart({<<l.c, l.kind>>})
    BY <1>3, <1>6 DEF PartlyExecuted
  <2>2. pub' = pub /\ zset' = zset
    BY <1>1, <1>5, <2>1, PartCommand
  <2>3. active => active'
    BY <1>1, <1>5, <2>1, PartCommand
  <2>4. task'[p] = task[p] /\ (p \in members => p \in members')
    BY <1>1, <1>5, <2>1, PartCommand
  <2> QED
    BY <2>2, <2>3, <2>4
<1>7. ASSUME l.pc = "deregBatch", Batch({<<l.c, l.kind>>}) PROVE Alone
  <2> DEFINE b == {<<l.c, l.kind>>}
             ends == \E x \in b : x[2] = "publisher"
  <2>1. ~ends
    BY <1>5, <1>7
  <2>2. active' = (active /\ ~ends)
    BY <1>7 DEF Batch
  <2>3. /\ task'[p] = task[p] /\ pub' = pub /\ zset' = zset
        /\ p \in members => p \in members'
    BY <1>1, <1>7, <2>1 DEF Batch
  <2> HIDE DEF ends
  <2>4. active => active'
    BY <2>1, <2>2, Zenon
  <2> QED
    BY <2>3, <2>4
<1>8. ASSUME \/ At(t, "hset") /\ SetHash(l.c, l.type, l.last)
             \/ At(t, "expire") /\ SetExpiry(l.c)
             \/ At(t, "keyDel") /\ DelHash(l.c)
      PROVE  Alone
  BY <1>1, <1>8 DEF SetHash, SetExpiry, DelHash
<1>9. ASSUME \/ AddMember(l.c) \/ IncrBy(1)
             \/ \E score \in {clock, l.seen, NoScore} : SetScore(l.c, score)
      PROVE  Alone
  BY <1>1, <1>9 DEF AddMember, IncrBy, SetScore
<1>10. ASSUME Executed(t) PROVE Alone
  BY <1>3, <1>7, <1>8, <1>9, <1>10 DEF Executed
<1>11. Alone
  BY <1>4, <1>6, <1>10 DEF Sends
<1>12. \/ UNCHANGED answers
       \/ denied' = denied \cup {l.c} /\ granted' = granted
       \/ granted' = granted \cup {l.c} /\ denied' = denied
  BY <1>1, AnswerEffect
<1>13. /\ p \in granted' <=> p \in granted
       /\ p \in denied' <=> p \in denied
  BY <1>1, <1>12 DEF answers
<1> QED
  BY <1>11, <1>13

\* The single publisher p: each label of its registration stands for what has been
\* written, and a grant that no thread of p is at work on is registered.
Timed(p) == task[p] # NoTask /\ task[p].exp # Never
Indexed(p) == pub = p /\ active /\ p \in members
Kept(p) ==
    /\ Lasts(p)
    /\ \A t \in Thread : th[t].c = p =>
         /\ th[t].pc \in {"index", "indexWrite", "zadd"} => Timed(p)
         /\ th[t].pc = "zadd" => Indexed(p)
         /\ th[t].pc \in AllLabels \cup {"doneGet"} => p \notin granted
         /\ th[t].pc \in DeregLabels => th[t].ret \in {"hset", "deny"}
    /\ p \in granted /\ p \notin denied =>
         \/ Timed(p) /\ Indexed(p) /\ zset[p] # NoScore
         \/ \E t \in Thread : th[t].c = p
KeptInv == OneOwner /\ Early => \A p \in Publisher : Kept(p)

\* The publisher's own thread, when its call succeeds.
LEMMA KeptOwn ==
    ASSUME TInv, KeysInRole, ThreadsInRole, NEW t \in Thread, HandlerOk(t), Continue(t),
           NEW p \in Publisher, th[t].c = p, Kept(p),
           \A u \in Thread : u # t => th[u].c # p
    PROVE  Kept(p)'
<1> DEFINE l == th[t]
           k == th'[t]
<1> USE DEF At
<1>1. /\ t \in Proc /\ ThreadInv /\ KindOk(l) /\ p \in Client /\ p # NoClient
      /\ task \in [Client -> [type : Type, last : Nat, exp : Nat]]
      /\ zset \in [Client -> Int] /\ l.ret # "scan" /\ clock \in Nat
  BY ClientAssumption, BoundAssumption
     DEF TInv, RedisInv, EnvInv, ThreadsInRole, Proc, Client, HandlerOk
<1>2. \A u \in Thread : u # t => th'[u].c # p
  <2>1. OthersStay(t)
    BY <1>1, StepStays
  <2> QED
    BY <2>1 DEF OthersStay, Proc
<1>3. /\ l.pc \in {"index", "indexWrite", "zadd"} => Timed(p)
      /\ l.pc = "zadd" => Indexed(p)
      /\ l.pc \in AllLabels \cup {"doneGet"} => p \notin granted
      /\ l.pc \in DeregLabels => l.ret \in {"hset", "deny"}
  BY DEF Kept
<1>4. Lasts(p)'
  BY <1>1, Commands, LastsStep DEF Sends, Kept
<1>5. SUFFICES /\ k.c = p =>
                    /\ k.pc \in {"index", "indexWrite", "zadd"} => Timed(p)'
                    /\ k.pc = "zadd" => Indexed(p)'
                    /\ k.pc \in AllLabels \cup {"doneGet"} => p \notin granted'
                    /\ k.pc \in DeregLabels => k.ret \in {"hset", "deny"}
               /\ p \in granted' /\ p \notin denied' =>
                    (Timed(p) /\ Indexed(p) /\ zset[p] # NoScore)' \/ k.c = p
  BY <1>2, <1>4 DEF Kept
<1> USE DEF AllLabels, DeregLabels
<1>6. CASE PubCheck(t)
  BY <1>1, <1>3, <1>6, Flat DEF PubCheck, Goes, Calls, Ends, Idle, SameWork
<1>7. CASE DoneGet(t)
  BY <1>1, <1>3, <1>7, Flat DEF DoneGet, Goes, Ends, Idle, SameWork, answers
<1>8. CASE HashSet(t)
  BY <1>1, <1>3, <1>8, Flat DEF HashSet, Goes, SameWork
<1>9. CASE KeyExpire(t)
  <2>1. CASE SetExpiry(p) /\ Goto(t, "index")
    <3>1. task'[p].exp = clock + TaskTTL /\ task'[p].type = task[p].type
      BY <1>1, <2>1 DEF SetExpiry
    <3>2. task[p].type # "none"
      BY <1>1, <2>1 DEF SetExpiry, KeysInRole, TypeOf
    <3>3. clock + TaskTTL # Never
      BY TimeAssumption, BoundAssumption DEF TInv, EnvInv, Never
    <3>4. Timed(p)'
      BY <3>1, <3>2, <3>3 DEF Timed, NoTask, Never
    <3> QED
      BY <1>1, <2>1, <3>4, Flat DEF Goes, SameWork
  <2>2. CASE Goto(t, "keyDel")
    BY <1>1, <2>2, Flat DEF Goes, SameWork
  <2> QED
    BY <1>1, <1>9, <2>1, <2>2 DEF KeyExpire, KindOk, TypeOf
<1>10. CASE KeyDel(t)
  BY <1>1, <1>10, Flat DEF KeyDel, Ends, Idle
<1>11. CASE IndexCheck(t)
  <2>1. Timed(p)'
    BY <1>3, <1>11 DEF IndexCheck, Timed, redis, Never
  <2> QED
    BY <1>1, <1>11, <2>1, Flat DEF IndexCheck, Goes, Calls, SameWork
<1>12. CASE IndexWrite(t)
  <2>1. Timed(p)'
    BY <1>3, <1>12 DEF IndexWrite, WriteIndices, Timed, Never
  <2>2. Indexed(p)'
    BY <1>1, <1>12 DEF IndexWrite, WriteIndices, Indexed
  <2> QED
    BY <1>1, <1>12, <2>1, <2>2, Flat DEF IndexWrite, Goes, SameWork
<1>13. CASE ZsetAdd(t)
  <2>1. Timed(p)' /\ zset'[p] = clock /\ zset'[p] # NoScore
    BY <1>1, <1>3, <1>13 DEF ZsetAdd, SetScore, Timed, Never, NoScore
  <2>2. Indexed(p)'
    BY <1>3, <1>13 DEF ZsetAdd, SetScore, Indexed
  <2>3. (Timed(p) /\ Indexed(p) /\ zset[p] # NoScore)'
    BY <2>1, <2>2 DEF NoScore
  <2> QED
    BY <1>1, <1>13, <2>3, Flat DEF ZsetAdd, Ends, Idle
<1>14. CASE DeregGet(t)
  BY <1>1, <1>3, <1>14, ReadFields DEF DeregGet, SameJob
<1>15. CASE DeregZrem(t) \/ DeregBatch(t)
  <2>1. Goto(t, "hset") \/ Deny(t)
    BY <1>3, <1>15 DEF DeregZrem, DeregBatch, ReturnFromDeregister
  <2> QED
    BY <1>1, <2>1, Flat DEF Goes, Ends, Idle, SameWork
<1>16. CASE AllMembers(t) \/ \E c \in Client : AllGet(t, c)
  <2>1. SameJob(t) /\ k.pc \in {"allDel", "allGet", "allBatch"} /\ l.pc \in AllLabels
    BY <1>1, <1>16, ReadFields DEF AllMembers, AllGet
  <2> QED
    BY <1>1, <1>3, <2>1 DEF SameJob, answers
<1>17. CASE AllBatch(t) \/ AllDel(t)
  BY <1>1, <1>3, <1>17, Flat DEF AllBatch, AllDel, Goes, Ends, Idle, SameWork, answers
<1>18. ~(PlayLookup(t) \/ PlayCheck(t) \/ SetAdd(t) \/ IncrTotal(t))
  BY <1>1 DEF PlayLookup, PlayCheck, SetAdd, IncrTotal, KindOk, TypeOf
<1> QED
  BY <1>6, <1>7, <1>8, <1>9, <1>10, <1>11, <1>12, <1>13, <1>14, <1>15, <1>16, <1>17,
     <1>18 DEF Continue

\* The publisher's own thread, when its call fails, executed or not or in part.
LEMMA KeptFails ==
    ASSUME TInv, KeysInRole, ThreadsInRole, NEW t \in Thread, HandlerOk(t),
           Sends(t), AfterError(t), NEW p \in Publisher, th[t].c = p, Kept(p),
           \A u \in Thread : u # t => th[u].c # p
    PROVE  Kept(p)'
<1> DEFINE l == th[t]
           k == th'[t]
<1> USE DEF At
<1>1. /\ t \in Proc /\ ThreadInv /\ KindOk(l) /\ p \in Client /\ p # NoClient
      /\ l \in Local /\ th \in [Proc -> Local]
      /\ l.ret # "scan" /\ l.pc \notin ScanLabels
  BY ClientAssumption DEF TInv, ThreadInv, ThreadsInRole, Proc, Client, HandlerOk
<1>2. \A u \in Thread : u # t => th'[u].c # p
  <2>1. OthersStay(t)
    BY <1>1, StepStays
  <2> QED
    BY <2>1 DEF OthersStay, Proc
<1>3. /\ l.pc \in {"index", "indexWrite", "zadd"} => Timed(p)
      /\ l.pc \in AllLabels \cup {"doneGet"} => p \notin granted
      /\ l.pc \in DeregLabels => l.ret \in {"hset", "deny"}
  BY DEF Kept
<1>4. Lasts(p)'
  BY <1>1, LastsStep DEF Kept
<1>5. SUFFICES /\ k.c = p =>
                    /\ k.pc \in {"index", "indexWrite", "zadd"} => Timed(p)'
                    /\ k.pc = "zadd" => Indexed(p)'
                    /\ k.pc \in AllLabels \cup {"doneGet"} => p \notin granted'
                    /\ k.pc \in DeregLabels => k.ret \in {"hset", "deny"}
               /\ p \in granted' /\ p \notin denied' =>
                    (Timed(p) /\ Indexed(p) /\ zset[p] # NoScore)' \/ k.c = p
  BY <1>2, <1>4 DEF Kept
<1> USE DEF AllLabels, DeregLabels
<1>6. CASE \/ l.pc \in {"pubCheck", "playCheck"} /\ Goto(t, "hset")
           \/ l.pc = "expire" /\ Goto(t, "keyDel")
           \/ l.pc = "dereg" /\ Goto(t, "deregZrem")
           \/ l.pc \in {"all", "allBatch"} /\ Goto(t, "allDel")
  BY <1>1, <1>3, <1>6, Flat DEF Goes, SameWork, answers
<1>7. CASE l.pc \in {"hset", "keyDel"} /\ Deny(t)
  BY <1>1, <1>7, Flat DEF Ends, Idle
<1>8. CASE l.pc = "index" /\ Goto(t, "indexWrite")
  <2>1. UNCHANGED redis
    BY <1>8 DEF Sends, Executed, PartlyExecuted
  <2>2. Timed(p)'
    BY <1>3, <1>8, <2>1 DEF Timed, redis, Never
  <2> QED
    BY <1>1, <1>8, <2>2, Flat DEF Goes, SameWork
<1>9. CASE IndexFails(t)
  BY <1>1, <1>9, Flat DEF IndexFails, Calls, SameWork
<1>10. CASE l.pc \in {"deregZrem", "deregBatch"} /\ ReturnFromDeregister(t)
  <2>1. Goto(t, "hset") \/ Deny(t)
    BY <1>3, <1>10 DEF ReturnFromDeregister
  <2> QED
    BY <1>1, <2>1, Flat DEF Goes, Ends, Idle, SameWork
<1>11. ASSUME l.pc = "allGet", NEW c \in l.ids, Become(t, AllNext(l, c, {}))
       PROVE  p \notin granted' /\ k.pc \in {"allGet", "allBatch"}
  <2>1. k = AllNext(l, c, {}) /\ UNCHANGED answers
    BY <1>1, <1>11 DEF Become
  <2> HIDE DEF k, l
  <2>2. k.pc \in {"allGet", "allBatch"}
    BY <1>1, <2>1, NextFields
  <2> QED
    BY <1>3, <1>11, <2>1, <2>2 DEF answers
<1>12. CASE l.pc \in {"doneGet", "allDel"} /\ Return(t)
  BY <1>1, <1>3, <1>12, Flat DEF Ends, Idle, answers
<1>13. l.pc \notin {"playLookup", "playCheck", "sadd", "incr"}
  BY <1>1 DEF KindOk, TypeOf
<1> QED
  BY <1>1, <1>6, <1>7, <1>8, <1>9, <1>10, <1>11, <1>12, <1>13 DEF AfterError, ScanLabels

\* Every step keeps the publisher's registration.
LEMMA KeptStep ==
    /\ TInv /\ Apart /\ EarlyInv /\ CleanerOk /\ RoleInv /\ KeptInv /\ [Next]_vars
    => KeptInv'
<1> SUFFICES ASSUME TInv, Apart, EarlyInv, CleanerOk, RoleInv, KeptInv, [Next]_vars,
                    OneOwner, Early', NEW p \in Publisher
             PROVE  Kept(p)'
  BY DEF KeptInv
<1>1. Early
  BY EarlyStep
<1>2. /\ SerialClients /\ Publisher = {p} /\ Kept(p) /\ KeysInRole /\ ThreadsInRole
      /\ p \in Client /\ p # NoClient
  BY <1>1, ClientAssumption DEF OneOwner, KeptInv, RoleInv, Client
<1>3. ThreadInv /\ \A t \in Thread : t \in Proc /\ HandlerOk(t)
  BY DEF TInv, Proc, Apart, HandlersInv
<1>4. ASSUME NEW t \in Thread, Continue(t) \/ RedisError(t) PROVE Kept(p)'
  <2>1. Sends(t) /\ (Continue(t) \/ AfterError(t))
    BY <1>3, <1>4, Commands DEF Sends, RedisError
  <2>2. CASE th[t].c = p
    <3>1. \A u \in Thread : u # t => th[u].c # p
      BY <1>2, <2>2 DEF Apart, SerialInv
    <3> QED
      BY <1>2, <1>3, <2>1, <2>2, <3>1, KeptOwn, KeptFails
  <2>3. CASE th[t].c # p
    <3>1. /\ task'[p] = task[p] /\ pub' = pub /\ zset'[p] = zset[p]
          /\ p \in members => p \in members'
          /\ p \in granted' <=> p \in granted
          /\ p \in denied' <=> p \in denied
      BY <1>2, <1>3, <2>1, <2>3, ForeignSends
    <3>2. active => active'
      BY <1>2, <1>3, <2>1, <2>3, ForeignSends
    <3>3. GoesOn(t)
      BY <1>3, <2>1, ContinueGoesOn, ErrorGoesOn
    <3>4. th'[t].c # p /\ \A u \in Thread : u # t => th'[u] = th[u]
      BY <1>2, <1>3, <2>3, <3>3 DEF GoesOn, OthersStay, Idle
    <3>5. (Timed(p) => Timed(p)') /\ (Lasts(p) => Lasts(p)')
      BY <3>1 DEF Timed, Lasts, Never
    <3>6. Indexed(p) => Indexed(p)'
      BY <3>1, <3>2 DEF Indexed
    <3> QED
      BY <1>2, <2>3, <3>1, <3>4, <3>5, <3>6 DEF Kept, NoScore
  <2> QED
    BY <2>2, <2>3
<1>5. ASSUME NEW t \in Thread, Hook(t) PROVE Kept(p)'
  <2>1. PICK c \in Client, label \in {"pubCheck", "doneGet", "playLookup", "dereg"}, type \in Type :
               /\ Starts(t, c, label, type)
               /\ c = p => label \in {"pubCheck", "doneGet"}
               /\ p \in granted' => p \in granted
               /\ c # p => (p \in denied' <=> p \in denied)
               /\ c = p /\ label = "doneGet" => p \notin granted'
    BY <1>2, <1>3, <1>5, HookStarts DEF Client, OneOwner, Roles, Type
  <2>2. /\ th'[t].pc = label /\ th'[t].c = c
        /\ th[t].c = NoClient /\ UNCHANGED <<task, pub, active, members, zset>>
        /\ \A u \in Thread : u # t => th'[u] = th[u]
        /\ \A u \in Thread : th[u].c # c
    BY <1>2, <1>3, <2>1 DEF Starts, Idle, redis, OthersStay
  <2>3. (Timed(p)' <=> Timed(p)) /\ (Lasts(p)' <=> Lasts(p)) /\ (Indexed(p)' <=> Indexed(p))
    BY <2>2 DEF Timed, Lasts, Indexed, Never
  <2>4. CASE c = p
    BY <1>2, <2>1, <2>2, <2>3, <2>4 DEF Kept, AllLabels, DeregLabels
  <2>5. CASE c # p
    BY <1>2, <2>1, <2>2, <2>3, <2>5 DEF Kept, NoScore
  <2> QED
    BY <2>4, <2>5
<1>6. CASE Tick
  <2>1. task[p] # NoTask => ~(task[p].exp <= clock')
    BY <1>2, TimeAssumption, BoundAssumption, TypeStep
       DEF Kept, Lasts, Early, TInv, EnvInv, RedisInv
  <2>2. task'[p] = task[p] /\ UNCHANGED <<th, pub, active, members, zset, granted, denied>>
    BY <1>2, <1>6, <2>1 DEF Tick, answers
  <2> QED
    BY <1>2, <2>2 DEF Kept, Timed, Indexed, Lasts, NoScore, Never
<1>7. CASE UNCHANGED <<redis, th, answers>>
  BY <1>2, <1>7 DEF Kept, Timed, Indexed, Lasts, NoScore, Never, redis, answers
<1> QED
  BY <1>4, <1>5, <1>6, <1>7, EarlyStep

\* A stream's single publisher whose last registerTask returned true has its hash with
\* a TTL, its key, its places in active_pubs and the member set and its timestamp,
\* however many calls of any hook failed, were executed without a reply or were cut
\* short in a pipeline, and however the hooks of any number of players interleave with
\* its own, until its next hook, a restart or its timeout.
THEOREM SuccessMeansRegisteredAlways == OneOwner => (Spec => []SuccessMeansRegistered)
<1> SUFFICES ASSUME OneOwner PROVE Spec => []SuccessMeansRegistered
  OBVIOUS
<1>1. Init => EarlyInv /\ KeptInv
  <2> SUFFICES ASSUME Init PROVE EarlyInv /\ KeptInv
    OBVIOUS
  <2>1. granted = {} /\ \A t \in Proc : th[t] = Idle
    BY DEF Init
  <2>2. \A c \in Client : task[c] = NoTask
    BY DEF Init
  <2>3. NoClient \notin Publisher /\ Publisher \subseteq Client
    BY ClientAssumption DEF Client
  <2> QED
    BY <2>1, <2>2, <2>3 DEF EarlyInv, KeptInv, Kept, Lasts, Idle, Proc
<1>2. TInv /\ EarlyInv /\ [Next]_vars => EarlyInv'
  BY EarlyStep DEF EarlyInv
<1>3. TInv /\ RoleInv /\ KeptInv => SuccessMeansRegistered
  <2> SUFFICES ASSUME TInv, RoleInv, KeptInv, Early,
                      NEW p \in (granted \ denied) \cap Publisher,
                      \A t \in Proc : th[t].c # p
               PROVE  Registered(p)
    BY DEF SuccessMeansRegistered, Early
  <2>1. Timed(p) /\ Indexed(p) /\ zset[p] # NoScore
    BY DEF KeptInv, Kept, Proc
  <2>2. task[p].type = "publisher"
    BY <2>1 DEF RoleInv, OneOwner, KeysInRole, Timed, Exists, TypeOf, Client
  <2> QED
    BY <2>1, <2>2 DEF Registered, Timed, Indexed
<1> QED
  BY <1>1, <1>2, <1>3, ApartHolds, RolesHold, KeptStep, PTL DEF Spec
=============================================================================
