-------------------------- MODULE AuthCacheProofs --------------------------
(***************************************************************************)
(* Proofs about the authentication cache, for any number of threads,       *)
(* identities that share the key, tokens and rows, any collation of the    *)
(* table, any changes and failing calls, and any TTLs: how old a grant may *)
(* be and who may be refused.                                              *)
(***************************************************************************)
EXTENDS AuthCache, TLAPS

\* The Grant an entry is about.
About(data) == <<data.who, Fold[data.token]>>

\* No record of the table lies in the future, and a kind of row that is gone was
\* there for the last time before the last change.
HistoryInv ==
    \A g \in Grant :
        /\ since[g] <= clock
        /\ \A f \in BOOLEAN :
             /\ last[<<g, f>>] <= clock
             /\ Accepted(f) \notin rows[g] => last[<<g, f>>] <= since[g]

\* Where a check gets its data from: at "set" from its own query.  setError is
\* reached only by a failing query.
PathOk(p) ==
    Busy(p) =>
        /\ th[p].began <= clock /\ clock <= th[p].began + Stall
        /\ th[p].pc = "set" =>
             /\ th[p].data \in StreamAuthData
             /\ th[p].data.who = th[p].who /\ th[p].data.token = th[p].token
        /\ th[p].pc = "setError" => th[p].failed

\* What a query returned was true after the check began: the table had such a row
\* then, and a Grant that had none then and has one now has changed since.
QueryOk(p) ==
    /\ th[p].pc = "set" => th[p].began <= SaidBy(th[p].data)
    /\ th[p].pc = "setNegative" /\ ~th[p].failed /\ rows[Asked(p)] # {} =>
         th[p].began <= since[Asked(p)]

ThreadInv == \A p \in Thread : PathOk(p) /\ QueryOk(p)

IInv == TypeOK /\ HistoryInv /\ ThreadInv /\ EntryBacked
-----------------------------------------------------------------------------
(* Types *)

AtRest == {"idle", "granted", "refused"}
Local == [pc : AtRest] \cup Check

\* Thread p replaces its local state by l.
Becomes(p, l) ==
    /\ th' \in [Thread -> Local] /\ th'[p] = l
    /\ \A q \in Thread : q # p => th'[q] = th[q]

\* A thread that is not at rest has the fields of a check.
LEMMA BusyChecks ==
  ASSUME TypeOK, NEW p \in Thread
  PROVE  Busy(p) <=> th[p] \in Check
BY DEF TypeOK, Busy, Check

\* What is asked and what an entry is about are Grants, and the table's history of
\* one is a number.
LEMMA Grants ==
  ASSUME TypeOK
  PROVE  /\ \A d \in StreamAuthData : About(d) \in Grant /\ d.isAuthorized \in BOOLEAN
         /\ \A p \in Thread : Busy(p) => Asked(p) \in Grant
         /\ \A g \in Grant : since[g] \in Nat
         /\ \A g \in Grant, f \in BOOLEAN :
              <<g, f>> \in Grant \X BOOLEAN /\ last[<<g, f>>] \in Int /\ Said(g, f) \in Int
<1>1. ASSUME NEW i \in Identity, NEW t \in Token PROVE <<i, Fold[t]>> \in Grant
  BY DEF Grant
<1>2. ASSUME NEW d \in StreamAuthData PROVE About(d) \in Grant /\ d.isAuthorized \in BOOLEAN
  BY <1>1 DEF StreamAuthData, About
<1>3. ASSUME NEW p \in Thread, Busy(p) PROVE Asked(p) \in Grant
  BY <1>1, <1>3, BusyChecks DEF Check, Asked
<1>4. clock \in Nat /\ \A g \in Grant : since[g] \in Nat
  BY BoundAssumption DEF TypeOK
<1>5. ASSUME NEW g \in Grant, NEW f \in BOOLEAN
      PROVE  <<g, f>> \in Grant \X BOOLEAN /\ last[<<g, f>>] \in Int
  BY TimeAssumption, BoundAssumption DEF TypeOK
<1> QED
  BY <1>2, <1>3, <1>4, <1>5 DEF Said

\* Every replacement by a legal local state is such a step.
LEMMA Update ==
  ASSUME TypeOK, NEW p \in Thread, NEW l \in Local, th' = [th EXCEPT ![p] = l]
  PROVE  Becomes(p, l)
BY DEF TypeOK, Local, AtRest, Becomes

\* A check goes on to another command.
LEMMA GotoUpdate ==
  ASSUME TypeOK, NEW p \in Thread, th[p] \in Check,
         NEW x \in {"get", "del", "query", "set", "setNegative", "setError"}, Goto(p, x)
  PROVE  /\ Becomes(p, [th[p] EXCEPT !.pc = x])
         /\ th'[p] \in Check /\ th'[p].pc = x
         /\ th'[p].who = th[p].who /\ th'[p].token = th[p].token /\ th'[p].data = th[p].data
         /\ th'[p].began = th[p].began /\ th'[p].failed = th[p].failed
<1>1. [th[p] EXCEPT !.pc = x] \in Check
  BY DEF Check
<1>2. th' = [th EXCEPT ![p] = [th[p] EXCEPT !.pc = x]]
  BY DEF Goto, TypeOK
<1>3. Becomes(p, [th[p] EXCEPT !.pc = x])
  BY <1>1, <1>2, Update DEF Local
<1> QED
  BY <1>1, <1>3 DEF Becomes, Check

\* performAuthLogic ends.
LEMMA AnswerUpdate ==
  ASSUME TypeOK, NEW p \in Thread, NEW v \in AtRest, Answer(p, v)
  PROVE  Becomes(p, [pc |-> v]) /\ th'[p].pc = v
<1>1. [pc |-> v] \in Local
  BY DEF Local
<1>2. Becomes(p, [pc |-> v])
  BY <1>1, Update DEF Answer
<1> QED
  BY <1>2 DEF Becomes
-----------------------------------------------------------------------------
(* The steps of a check *)

\* A step of one check leaves what is known of the others as it is.
LEMMA OthersKeep ==
  ASSUME IInv, NEW p \in Thread, NEW l, Becomes(p, l), UNCHANGED <<table, clock>>,
         NEW q \in Thread, q # p
  PROVE  PathOk(q)' /\ QueryOk(q)'
<1>1. th'[q] = th[q] /\ UNCHANGED <<rows, last, since, clock>>
  BY DEF Becomes, table
<1>2. PathOk(q) /\ QueryOk(q)
  BY DEF IInv, ThreadInv
<1> QED
  BY <1>1, <1>2 DEF PathOk, QueryOk, Busy, SaidBy, Said, Asked

\* What is left to show of a step of thread p.
LEMMA CheckStep ==
  ASSUME IInv, NEW p \in Thread, NEW l, Becomes(p, l), UNCHANGED <<table, clock>>,
         PathOk(p)', QueryOk(p)',
         entry' \in StreamAuthData \cup {NoEntry, Negative},
         until' \in 0..clock + TTL, entry' # NoEntry => clock < until',
         EntryBacked'
  PROVE  IInv'
<1>1. TypeOK'
  BY DEF IInv, TypeOK, Becomes, Local, AtRest, table
<1>2. HistoryInv'
  BY DEF IInv, HistoryInv, table
<1>3. ThreadInv'
  BY OthersKeep DEF ThreadInv
<1> QED
  BY <1>1, <1>2, <1>3 DEF IInv

\* The cache does not change.
LEMMA KeepsCache ==
  ASSUME IInv, UNCHANGED <<table, cache, clock>>
  PROVE  /\ entry' \in StreamAuthData \cup {NoEntry, Negative}
         /\ until' \in 0..clock + TTL /\ (entry' # NoEntry => clock < until')
         /\ EntryBacked'
BY DEF IInv, TypeOK, EntryBacked, SaidBy, Said, table, cache

\* Deleting the key and writing the negative entry claim nothing.
LEMMA ClearsCache ==
  ASSUME IInv, UNCHANGED <<table, clock>>,
         Del \/ Setex(Negative, NegativeTTL) \/ Setex(Negative, ErrorTTL)
  PROVE  /\ entry' \in StreamAuthData \cup {NoEntry, Negative}
         /\ until' \in 0..clock + TTL /\ (entry' # NoEntry => clock < until')
         /\ EntryBacked'
BY TimeAssumption, ValueAssumption
   DEF IInv, TypeOK, EntryBacked, Del, Setex

\* An answer, after which nothing is known of the thread.
LEMMA AnswerKeeps ==
  ASSUME NEW p \in Thread, th'[p].pc \in AtRest
  PROVE  PathOk(p)' /\ QueryOk(p)'
BY DEF PathOk, QueryOk, Busy, AtRest

\* Writing what this check's query returned: it was so after the check began,
\* and the check lasts no longer than Stall.
LEMMA FillsCache ==
  ASSUME IInv, NEW p \in Thread, th[p].pc = "set", Setex(th[p].data, TTL),
         UNCHANGED <<table, clock>>
  PROVE  /\ entry' \in StreamAuthData \cup {NoEntry, Negative}
         /\ until' \in 0..clock + TTL /\ (entry' # NoEntry => clock < until')
         /\ EntryBacked'
<1> DEFINE data == th[p].data
<1>1. Busy(p) /\ th[p] \in Check
  BY BusyChecks DEF IInv, Busy
<1>2. data \in StreamAuthData /\ clock <= th[p].began + Stall
  BY <1>1 DEF IInv, ThreadInv, PathOk
<1>3. th[p].began <= SaidBy(data)
  BY DEF IInv, ThreadInv, QueryOk
<1>4. entry' = data /\ until' = clock + TTL
  BY DEF Setex
<1>5. /\ th[p].began \in Nat /\ clock \in Nat /\ TTL \in Nat \ {0} /\ Stall \in Nat
      /\ SaidBy(data) \in Int
  <2>1. SaidBy(data) \in Int
    BY <1>2, Grants DEF IInv, SaidBy, About
  <2> QED
    BY <1>1, <2>1, TimeAssumption, BoundAssumption DEF IInv, TypeOK, Check
<1>6. UNCHANGED <<rows, last, clock>>
  BY DEF table
<1> HIDE DEF data
<1>7. SaidBy(entry)' = SaidBy(data)
  BY <1>4, <1>6 DEF SaidBy, Said
<1>8. EntryBacked'
  BY <1>2, <1>3, <1>4, <1>5, <1>7 DEF EntryBacked
<1> QED
  BY <1>2, <1>4, <1>5, <1>8

\* TryGetFromCache: a hit ends the check, a mismatch goes on to the DEL.
LEMMA GetStep == ASSUME IInv, NEW p \in Thread, TryGetFromCache(p) PROVE IInv'
<1>0. /\ TypeOK /\ th[p].pc = "get" /\ UNCHANGED <<table, clock>>
      /\ th[p] \in Check /\ PathOk(p) /\ Busy(p)
  BY BusyChecks DEF TryGetFromCache, IInv, ThreadInv, Busy
<1>1. CASE Hit(p)
  <2>1. PICK v \in AtRest : Answer(p, v)
    BY <1>1 DEF Hit, AnswerWith, AtRest
  <2>2. Becomes(p, [pc |-> v]) /\ th'[p].pc \in AtRest
    BY <1>0, <2>1, AnswerUpdate
  <2>3. UNCHANGED cache
    BY <1>1 DEF Hit
  <2> QED
    BY <1>0, <2>2, <2>3, CheckStep, KeepsCache, AnswerKeeps
<1>2. ASSUME NEW x \in {"del", "query"}, Goto(p, x), UNCHANGED cache PROVE IInv'
  <2>1. Becomes(p, [th[p] EXCEPT !.pc = x]) /\ th'[p].pc = x /\ th'[p].began = th[p].began
    BY <1>0, <1>2, GotoUpdate
  <2>2. PathOk(p)' /\ QueryOk(p)'
    BY <1>0, <2>1 DEF PathOk, QueryOk, Busy
  <2> QED
    BY <1>0, <1>2, <2>1, <2>2, CheckStep, KeepsCache
<1> QED
  BY <1>1, <1>2 DEF TryGetFromCache, Mismatch, Miss, MissByError

\* The commands that end a check: DEL, SETEX of the data or of the negative entry.
LEMMA WriteStep ==
  ASSUME IInv, NEW p \in Thread, KeyDel(p) \/ CacheAuthData(p) \/ CacheNegativeResult(p)
  PROVE  IInv'
<1>0. TypeOK /\ UNCHANGED <<table, clock>>
  BY DEF KeyDel, CacheAuthData, CacheNegativeResult, IInv
<1>1. PICK v \in AtRest : Answer(p, v)
  BY DEF KeyDel, CacheAuthData, CacheNegativeResult, AnswerWith, AtRest
<1>2. Becomes(p, [pc |-> v]) /\ th'[p].pc \in AtRest
  BY <1>0, <1>1, AnswerUpdate
<1>3. \/ UNCHANGED cache
      \/ Del \/ Setex(Negative, NegativeTTL) \/ Setex(Negative, ErrorTTL)
      \/ th[p].pc = "set" /\ Setex(th[p].data, TTL)
  BY DEF KeyDel, CacheAuthData, CacheNegativeResult, BestEffort
<1>4. PathOk(p)' /\ QueryOk(p)'
  BY <1>2, AnswerKeeps
<1> QED
  BY <1>0, <1>2, <1>3, <1>4, CheckStep, KeepsCache, ClearsCache, FillsCache

\* The query: what it returns is the table of this moment.
LEMMA QueryStep == ASSUME IInv, NEW p \in Thread, QueryDatabase(p) PROVE IInv'
<1>0. /\ TypeOK /\ th[p].pc = "query" /\ UNCHANGED <<table, cache, clock>>
      /\ th[p] \in Check /\ PathOk(p) /\ Busy(p)
  BY BusyChecks DEF QueryDatabase, IInv, ThreadInv, Busy
<1>1. CASE Found(p)
  <2>1. PICK isActive \in BOOLEAN :
           /\ Accepted(isActive) \in rows[Asked(p)]
           /\ th' = [th EXCEPT ![p].pc = "set",
                      ![p].data = [who |-> th[p].who, token |-> th[p].token,
                                   isAuthorized |-> isActive]]
    BY <1>1 DEF Found
  <2>0. PICK data : data = [who |-> th[p].who, token |-> th[p].token,
                            isAuthorized |-> isActive]
    OBVIOUS
  <2> DEFINE l == [th[p] EXCEPT !.pc = "set", !.data = data]
  <2>2. /\ data \in StreamAuthData /\ data.who = th[p].who /\ data.token = th[p].token
        /\ data.isAuthorized = isActive
    BY <1>0, <2>0 DEF StreamAuthData, Check
  <2>3. l \in Check /\ l.pc = "set" /\ l.data = data /\ l.who = th[p].who
        /\ l.token = th[p].token /\ l.began = th[p].began
    BY <1>0, <2>2 DEF Check
  <2>4. th' = [th EXCEPT ![p] = l]
    BY <1>0, <2>1, <2>0 DEF TypeOK
  <2>5. Becomes(p, l)
    <3> HIDE DEF l
    <3> QED BY <1>0, <2>3, <2>4, Update DEF Local
  <2>6. PathOk(p)'
    BY <1>0, <2>2, <2>3, <2>5 DEF PathOk, Busy, Becomes
  <2>7. QueryOk(p)'
    <3>1. th'[p].pc = "set" /\ th'[p].data = data /\ th'[p].began = th[p].began
      BY <2>3, <2>5 DEF Becomes
    <3>2. rows' = rows /\ clock' = clock /\ th[p].began <= clock
      BY <1>0 DEF table, PathOk
    <3>3. SaidBy(data)' = clock
      BY <2>1, <2>2, <3>2 DEF SaidBy, Said, Asked
    <3> QED
      BY <3>1, <3>2, <3>3 DEF QueryOk, SaidBy, Said
  <2> HIDE DEF l
  <2> QED
    BY <1>0, <2>5, <2>6, <2>7, CheckStep, KeepsCache
<1>2. CASE Invalid(p)
  <2>1. Becomes(p, [pc |-> "refused"]) /\ th'[p].pc \in AtRest
    BY <1>0, <1>2, AnswerUpdate DEF Invalid, AtRest
  <2> QED
    BY <1>0, <2>1, CheckStep, KeepsCache, AnswerKeeps
<1>3. CASE NotFound(p)
  <2>1. /\ Becomes(p, [th[p] EXCEPT !.pc = "setNegative"])
        /\ th'[p].pc = "setNegative" /\ th'[p].who = th[p].who
        /\ th'[p].token = th[p].token /\ th'[p].began = th[p].began
    BY <1>0, <1>3, GotoUpdate DEF NotFound
  <2>2. PathOk(p)'
    BY <1>0, <2>1 DEF PathOk, Busy
  <2>3. QueryOk(p)'
    BY <1>0, <1>3, <2>1 DEF QueryOk, NotFound, Asked, table
  <2> QED
    BY <1>0, <2>1, <2>2, <2>3, CheckStep, KeepsCache
<1>4. CASE DBError(p)
  <2>1. PICK next \in {"setNegative", "setError"} :
           th' = [th EXCEPT ![p].pc = next, ![p].failed = TRUE]
    BY <1>4 DEF DBError
  <2> DEFINE l == [th[p] EXCEPT !.pc = next, !.failed = TRUE]
  <2>2. l \in Check /\ l.pc = next /\ l.failed = TRUE /\ l.began = th[p].began
    BY <1>0 DEF Check
  <2>3. th' = [th EXCEPT ![p] = l]
    BY <1>0, <2>1 DEF TypeOK
  <2>4. Becomes(p, l)
    <3> HIDE DEF l
    <3> QED BY <1>0, <2>2, <2>3, Update DEF Local
  <2>5. PathOk(p)' /\ QueryOk(p)'
    BY <1>0, <2>2, <2>4 DEF PathOk, QueryOk, Busy, Becomes
  <2> HIDE DEF l
  <2> QED
    BY <1>0, <2>4, <2>5, CheckStep, KeepsCache
<1> QED
  BY <1>1, <1>2, <1>3, <1>4 DEF QueryDatabase
-----------------------------------------------------------------------------
(* The other steps *)

\* A check begins.
LEMMA StartStep ==
  ASSUME IInv, NEW p \in Thread, NEW i \in Identity, NEW t \in Token, Start(p, i, t)
  PROVE  IInv'
<1> DEFINE l == [pc |-> "get", who |-> i, token |-> t, data |-> NoEntry,
                 began |-> clock, failed |-> FALSE]
<1>0. TypeOK /\ UNCHANGED <<table, cache, clock>> /\ th' = [th EXCEPT ![p] = l]
  BY DEF IInv, Start
<1>1. l \in Check /\ l.pc = "get" /\ l.began = clock
  BY <1>0 DEF Check, TypeOK
<1>2. Becomes(p, l)
  <2> HIDE DEF l
  <2> QED BY <1>0, <1>1, Update DEF Local
<1>3. PathOk(p)' /\ QueryOk(p)'
  BY <1>0, <1>1, <1>2, TimeAssumption, BoundAssumption
     DEF PathOk, QueryOk, Busy, Becomes, TypeOK
<1> HIDE DEF l
<1> QED
  BY <1>0, <1>2, <1>3, CheckStep, KeepsCache

\* A time at which the table said something never lies further back than before.
LEMMA SaidGrows ==
  ASSUME TypeOK, HistoryInv, NEW g \in Grant, NEW f \in BOOLEAN,
         Tick \/ \E h \in Grant, R \in SUBSET Row : Change(h, R)
  PROVE  Said(g, f) <= Said(g, f)' /\ Said(g, f) \in Int /\ Said(g, f)' \in Int
<1>0. /\ <<g, f>> \in Grant \X BOOLEAN /\ clock \in Nat /\ last[<<g, f>>] \in Int
      /\ last[<<g, f>>] <= clock
  BY Grants, BoundAssumption DEF TypeOK, HistoryInv
<1>1. CASE Tick
  BY <1>0, <1>1 DEF Tick, Said, table
<1>2. ASSUME NEW h \in Grant, NEW R \in SUBSET Row, Change(h, R)
      PROVE  Said(g, f) <= Said(g, f)' /\ Said(g, f) \in Int /\ Said(g, f)' \in Int
  <2>1. /\ last'[<<g, f>>] = IF g = h /\ Accepted(f) \in rows[h] THEN clock
                             ELSE last[<<g, f>>]
        /\ clock' = clock /\ (g # h => rows'[g] = rows[g])
    BY <1>0, <1>2 DEF Change, TypeOK
  <2> QED
    BY <1>0, <2>1 DEF Said
<1> QED
  BY <1>1, <1>2

\* Nor does the time at which it said what an entry says.
LEMMA SaidByGrows ==
  ASSUME TypeOK, HistoryInv, NEW d \in StreamAuthData,
         Tick \/ \E h \in Grant, R \in SUBSET Row : Change(h, R)
  PROVE  SaidBy(d) <= SaidBy(d)' /\ SaidBy(d) \in Int /\ SaidBy(d)' \in Int
<1>1. About(d) \in Grant /\ d.isAuthorized \in BOOLEAN
  BY Grants
<1> QED
  BY <1>1, SaidGrows DEF SaidBy, About

\* An operator changes the rows of a Grant: whatever they no longer say they said
\* until this moment.
LEMMA ChangeStep ==
  ASSUME IInv, NEW h \in Grant, NEW R \in SUBSET Row, Change(h, R) PROVE IInv'
<1>0. /\ TypeOK /\ HistoryInv /\ UNCHANGED <<cache, clock, th>>
      /\ \A d \in StreamAuthData :
           SaidBy(d) <= SaidBy(d)' /\ SaidBy(d) \in Int /\ SaidBy(d)' \in Int
  BY SaidByGrows DEF IInv, Change
<1>1. /\ rows' \in [Grant -> SUBSET Row]
      /\ since' \in [Grant -> 0..MaxClock] /\ since'[h] = clock
      /\ \A g \in Grant : g # h => rows'[g] = rows[g] /\ since'[g] = since[g]
  BY <1>0 DEF Change, TypeOK
<1>2. /\ clock \in Nat /\ TTL \in Nat \ {0} /\ Stall \in Nat
      /\ until \in Nat /\ until <= clock + TTL
  BY <1>0, TimeAssumption, BoundAssumption DEF TypeOK
<1>3. \A g \in Grant, f \in BOOLEAN :
         last'[<<g, f>>] = IF g = h /\ Accepted(f) \in rows[h] THEN clock
                           ELSE last[<<g, f>>]
  <2> SUFFICES ASSUME NEW g \in Grant, NEW f \in BOOLEAN
               PROVE  last'[<<g, f>>] = IF g = h /\ Accepted(f) \in rows[h] THEN clock
                                        ELSE last[<<g, f>>]
    OBVIOUS
  <2> QED
    BY <1>0, Grants DEF Change
<1>4. TypeOK'
  <2>1. last' \in [Grant \X BOOLEAN -> (-TTL - Stall)..MaxClock]
    BY <1>0, <1>2, BoundAssumption DEF Change, TypeOK
  <2>2. changes' \in 0..MaxChanges
    BY <1>0, BoundAssumption DEF Change, TypeOK
  <2> QED
    BY <1>0, <1>1, <2>1, <2>2 DEF TypeOK, cache
<1>5. HistoryInv'
  <2> SUFFICES ASSUME NEW g \in Grant, NEW f \in BOOLEAN
               PROVE  /\ since'[g] <= clock' /\ last'[<<g, f>>] <= clock'
                      /\ Accepted(f) \notin rows'[g] => last'[<<g, f>>] <= since'[g]
    BY DEF HistoryInv
  <2>1. /\ since[g] <= clock /\ last[<<g, f>>] <= clock
        /\ Accepted(f) \notin rows[g] => last[<<g, f>>] <= since[g]
        /\ since[g] \in Nat /\ last[<<g, f>>] \in Int
    BY <1>0, Grants DEF HistoryInv
  <2> QED
    BY <1>0, <1>1, <1>2, <1>3, <2>1
<1>6. EntryBacked'
  <2> SUFFICES ASSUME NEW d \in StreamAuthData, entry = d
               PROVE  until <= SaidBy(d)' + TTL + Stall
    BY <1>0 DEF EntryBacked, cache, SaidBy, Said
  <2>1. until <= SaidBy(d) + TTL + Stall
    BY DEF IInv, EntryBacked
  <2> QED
    BY <1>0, <1>2, <2>1
<1>7. ASSUME NEW p \in Thread PROVE PathOk(p)' /\ QueryOk(p)'
  <2>1. PathOk(p) /\ QueryOk(p)
    BY DEF IInv, ThreadInv
  <2>2. PathOk(p)'
    BY <1>0, <2>1 DEF PathOk, Busy
  <2>3. CASE th[p].pc = "set"
    <3>1. Busy(p) /\ th[p] \in Check
      BY <1>0, <2>3, BusyChecks DEF Busy
    <3>2. /\ th[p].data \in StreamAuthData /\ th[p].began \in Nat
          /\ th[p].began <= SaidBy(th[p].data)
      BY <2>1, <2>3, <3>1 DEF PathOk, QueryOk, Check
    <3>3. PICK d \in StreamAuthData : d = th[p].data
      BY <3>2
    <3>4. th[p].began <= SaidBy(d)'
      BY <1>0, <3>2, <3>3
    <3> QED
      BY <1>0, <2>2, <2>3, <3>3, <3>4 DEF QueryOk, SaidBy, Said
  <2>4. CASE th[p].pc = "setNegative"
    <3>1. Busy(p) /\ th[p] \in Check
      BY <1>0, <2>4, BusyChecks DEF Busy
    <3>2. /\ Asked(p) \in Grant /\ th[p].began \in Nat /\ th[p].began <= clock
          /\ Asked(p)' = Asked(p)
      BY <1>0, <2>1, <3>1, Grants DEF PathOk, Check, Asked
    <3> HIDE DEF Asked
    <3> QED
      BY <1>0, <1>1, <1>2, <2>1, <2>2, <2>4, <3>2 DEF QueryOk
  <2> QED
    BY <1>0, <2>2, <2>3, <2>4 DEF QueryOk
<1> QED
  BY <1>4, <1>5, <1>6, <1>7 DEF IInv, ThreadInv

\* Time passes: no check lasts longer than Stall, and a key is gone at its time.
LEMMA TickStep == ASSUME IInv, Tick PROVE IInv'
<1>0. /\ TypeOK /\ HistoryInv /\ UNCHANGED <<table, th>> /\ clock' = clock + 1
      /\ clock' \in 0..MaxClock /\ clock \in Nat
      /\ \A p \in Thread : Busy(p) => clock < th[p].began + Stall
      /\ \A d \in StreamAuthData :
           SaidBy(d) <= SaidBy(d)' /\ SaidBy(d) \in Int /\ SaidBy(d)' \in Int
  BY SaidByGrows, BoundAssumption DEF IInv, Tick, TypeOK
<1>1. /\ UNCHANGED <<rows, last, since, changes>>
      /\ \/ until = clock' /\ entry' = NoEntry /\ until' = 0
         \/ until # clock' /\ UNCHANGED <<entry, until>>
  BY <1>0 DEF Tick, table, cache, Del
<1>2. TTL \in Nat \ {0} /\ Stall \in Nat
  BY TimeAssumption
<1>3. TypeOK'
  BY <1>0, <1>1, <1>2 DEF TypeOK
<1>4. HistoryInv'
  <2>1. /\ \A g \in Grant : since[g] \in Int
        /\ \A g \in Grant, f \in BOOLEAN : last[<<g, f>>] \in Int
    BY <1>0, Grants
  <2> QED
    BY <1>0, <1>1, <2>1 DEF HistoryInv
<1>5. EntryBacked'
  <2> SUFFICES ASSUME NEW d \in StreamAuthData, entry' = d
               PROVE  until' <= SaidBy(d)' + TTL + Stall
    BY DEF EntryBacked, SaidBy, Said
  <2>1. entry = d /\ until' = until
    BY <1>1, ValueAssumption
  <2>2. until <= SaidBy(d) + TTL + Stall /\ until \in Int
    BY <1>0, <1>2, <2>1 DEF IInv, EntryBacked, TypeOK
  <2> QED
    BY <1>0, <1>2, <2>1, <2>2
<1>6. ASSUME NEW p \in Thread PROVE PathOk(p)' /\ QueryOk(p)'
  <2>1. PathOk(p) /\ QueryOk(p) /\ (Busy(p) => th[p] \in Check)
    BY <1>0, BusyChecks DEF IInv, ThreadInv
  <2>2. PathOk(p)'
    <3> SUFFICES ASSUME Busy(p) PROVE PathOk(p)'
      BY <1>0 DEF PathOk, Busy
    <3>1. th[p].began \in Nat /\ clock < th[p].began + Stall
      BY <1>0, <2>1 DEF Check
    <3> QED
      BY <1>0, <1>2, <2>1, <3>1 DEF PathOk, Busy
  <2>3. QueryOk(p)'
    <3>1. CASE th[p].pc = "set"
      <4>1. Busy(p)
        BY <3>1 DEF Busy
      <4>2. th[p].data \in StreamAuthData /\ th[p].began \in Nat
            /\ th[p].began <= SaidBy(th[p].data)
        BY <2>1, <3>1, <4>1 DEF PathOk, QueryOk, Check
      <4>3. PICK d \in StreamAuthData : d = th[p].data
        BY <4>2
      <4>4. th[p].began <= SaidBy(d)'
        BY <1>0, <4>2, <4>3
      <4> QED
        BY <1>0, <3>1, <4>3, <4>4 DEF QueryOk, SaidBy, Said
    <3>2. CASE th[p].pc # "set"
      BY <1>0, <1>1, <2>1, <3>2 DEF QueryOk, Asked
    <3> QED
      BY <3>1, <3>2
  <2> QED
    BY <2>2, <2>3
<1> QED
  BY <1>3, <1>4, <1>5, <1>6 DEF IInv, ThreadInv
-----------------------------------------------------------------------------
(* The theorems *)

\* The empty cache satisfies the invariant, whatever the table says.
LEMMA InitInv == Init => IInv
<1> SUFFICES ASSUME Init PROVE IInv
  OBVIOUS
<1> USE TimeAssumption, BoundAssumption, ValueAssumption DEF Init
<1>1. TypeOK
  <2>1. rows \in [Grant -> SUBSET Row]
    BY DEF Row
  <2>2. th \in [Thread -> [pc : {"idle", "granted", "refused"}] \cup Check]
    OBVIOUS
  <2>3. last \in [Grant \X BOOLEAN -> (-TTL - Stall)..MaxClock]
    OBVIOUS
  <2> QED
    BY <2>1, <2>2, <2>3 DEF TypeOK
<1>2. HistoryInv
  BY DEF HistoryInv
<1>3. ThreadInv
  BY DEF ThreadInv, PathOk, QueryOk, Busy
<1>4. EntryBacked
  BY DEF EntryBacked
<1> QED
  BY <1>1, <1>2, <1>3, <1>4 DEF IInv

\* Every step of a check, of an operator and of the clock preserves it.
LEMMA StepInv == IInv /\ [Next]_vars => IInv'
<1> SUFFICES ASSUME IInv, [Next]_vars PROVE IInv'
  OBVIOUS
<1>1. CASE UNCHANGED vars
  BY <1>1 DEF vars, table, cache, IInv, TypeOK, HistoryInv, ThreadInv, PathOk, QueryOk,
     EntryBacked, SaidBy, Said, Busy, Asked
<1>2. ASSUME NEW p \in Thread, GetAuthData(p) PROVE IInv'
  BY <1>2, GetStep, WriteStep, QueryStep DEF GetAuthData
<1> QED
  BY <1>1, <1>2, StartStep, ChangeStep, TickStep DEF Next

LEMMA Inductive == Spec => []IInv
<1> QED
  BY InitInv, StepInv, PTL DEF Spec

\* The variables keep their types, and every cache entry has a TTL.
THEOREM TypeCorrect == Spec => []TypeOK
<1>1. IInv => TypeOK
  BY DEF IInv
<1> QED
  BY <1>1, Inductive, PTL

\* No entry outlives by more than TTL + Stall a time at which the table
\* said the same, for any number of checks that fill the key at their own pace.
THEOREM EntryBackedAlways == Spec => []EntryBacked
<1>1. IInv => EntryBacked
  BY DEF IInv
<1> QED
  BY <1>1, Inductive, PTL

-----------------------------------------------------------------------------
(* The answers *)

\* The verdict of performAuthLogic on what it found.
Verdict(data) == IF data.isAuthorized THEN "granted" ELSE "refused"

\* Where an answer can come from: a hit, the query's data or a row it rejects, or one
\* of the writes that accompany a refusal.
Source(p, v) ==
    \/ th[p].pc = "get" /\ entry \in StreamAuthData /\ Matches(p, entry) /\ v = Verdict(entry)
    \/ th[p].pc = "set" /\ v = Verdict(th[p].data)
    \/ th[p].pc = "query" /\ "rejected" \in rows[Asked(p)] /\ v = "refused"
    \/ th[p].pc \in {"del", "setNegative", "setError"} /\ v = "refused"

\* A check goes on, and ends, by steps of its own.
LEMMA OwnStep ==
  ASSUME TypeOK, [Next]_vars, NEW p \in Thread, Busy(p), th'[p] # th[p]
  PROVE  GetAuthData(p)
<1>2. CASE UNCHANGED vars
  BY <1>2 DEF vars
<1>3. ASSUME NEW h \in Grant, NEW R \in SUBSET Row, Change(h, R) PROVE FALSE
  BY <1>3 DEF Change
<1>4. CASE Tick
  BY <1>4 DEF Tick
<1>5. ASSUME NEW q \in Thread, NEW i \in Identity, NEW t \in Token, Start(q, i, t)
      PROVE  FALSE
  <2>1. q = p
    BY <1>5 DEF Start, TypeOK
  <2> QED
    BY <1>5, <2>1 DEF Start
<1>6. ASSUME NEW q \in Thread, GetAuthData(q), q # p PROVE FALSE
  <2>1. \E l : th' = [th EXCEPT ![q] = l]
    BY <1>6 DEF GetAuthData, TryGetFromCache, Hit, Mismatch, Miss, MissByError, KeyDel,
       QueryDatabase, Found, Invalid, NotFound, DBError, CacheAuthData,
       CacheNegativeResult, AnswerWith, Answer, Goto
  <2> QED
    BY <1>6, <2>1 DEF TypeOK
<1> QED
  BY <1>2, <1>3, <1>4, <1>5, <1>6 DEF Next

\* Every answer has one of these sources.
LEMMA AnswerSource ==
  ASSUME TypeOK, [Next]_vars, NEW p \in Thread, NEW v \in {"granted", "refused"}, Answers(p, v)
  PROVE  Source(p, v)
<1>0. GetAuthData(p) /\ Busy(p) /\ th'[p].pc = v /\ th[p] \in Check
  BY OwnStep, BusyChecks DEF Answers, Busy
<1>1. \A x \in AtRest : Answer(p, x) => v = x
  BY <1>0, AnswerUpdate
<1>2. \A x \in {"get", "del", "query", "set", "setNegative", "setError"} : ~Goto(p, x)
  BY <1>0, GotoUpdate
<1>3. CASE TryGetFromCache(p)
  <2>1. ~Miss(p) /\ ~MissByError(p) /\ ~Mismatch(p)
    BY <1>2 DEF Miss, MissByError, Mismatch
  <2> QED
    BY <1>1, <1>3, <2>1 DEF TryGetFromCache, Hit, AnswerWith, AtRest, Source, Verdict
<1>4. CASE KeyDel(p)
  BY <1>1, <1>4 DEF KeyDel, AtRest, Source
<1>5. CASE QueryDatabase(p)
  <2>1. ~NotFound(p)
    BY <1>2 DEF NotFound
  <2>2. ~Found(p) /\ ~DBError(p)
    BY <1>0 DEF Found, DBError, TypeOK, Check
  <2> QED
    BY <1>1, <1>5, <2>1, <2>2 DEF QueryDatabase, Invalid, Source, AtRest
<1>6. CASE CacheAuthData(p)
  BY <1>1, <1>6 DEF CacheAuthData, AnswerWith, AtRest, Source, Verdict
<1>7. CASE CacheNegativeResult(p)
  BY <1>1, <1>7 DEF CacheNegativeResult, AtRest, Source
<1> QED
  BY <1>0, <1>3, <1>4, <1>5, <1>6, <1>7 DEF GetAuthData

\* A check turns to the DEL only after an entry that is not its own.
LEMMA DelSource ==
  ASSUME TypeOK, [Next]_vars, NEW p \in Thread, Busy(p), th[p].pc # "del", th'[p].pc = "del"
  PROVE  entry \in StreamAuthData /\ ~Matches(p, entry)
<1>0. GetAuthData(p) /\ th[p] \in Check
  BY OwnStep, BusyChecks
<1>1. \A x \in AtRest : ~Answer(p, x)
  BY AnswerUpdate DEF AtRest
<1>2. \A x \in {"get", "query", "set", "setNegative", "setError"} : ~Goto(p, x)
  BY <1>0, GotoUpdate
<1>3. ~Hit(p) /\ ~Miss(p) /\ ~MissByError(p) /\ ~NotFound(p) /\ ~Invalid(p)
  BY <1>1, <1>2 DEF Hit, AnswerWith, Miss, MissByError, NotFound, Invalid, AtRest
<1>4. ~Found(p) /\ ~DBError(p)
  BY <1>0 DEF Found, DBError, TypeOK, Check
<1>5. ~KeyDel(p) /\ ~CacheAuthData(p) /\ ~CacheNegativeResult(p)
  BY <1>1 DEF KeyDel, CacheAuthData, CacheNegativeResult, AnswerWith, AtRest
<1> QED
  BY <1>0, <1>3, <1>4, <1>5 DEF GetAuthData, TryGetFromCache, QueryDatabase, Mismatch

\* What the proofs below use of a check that is under way.
LEMMA CheckFacts ==
  ASSUME IInv, NEW p \in Thread, Busy(p)
  PROVE  /\ PathOk(p) /\ QueryOk(p) /\ th[p] \in Check
         /\ Asked(p) \in Grant /\ th[p].began \in Nat
         /\ clock \in Nat /\ until \in Nat /\ (entry # NoEntry => clock < until)
         /\ TTL \in Nat \ {0} /\ Stall \in Nat /\ since[Asked(p)] \in Nat
         /\ \A f \in BOOLEAN :
              /\ Said(Asked(p), f) \in Int
              /\ Accepted(f) \notin rows[Asked(p)] => Said(Asked(p), f) <= since[Asked(p)]
<1>1. TypeOK /\ HistoryInv /\ PathOk(p) /\ QueryOk(p) /\ th[p] \in Check
  BY BusyChecks DEF IInv, ThreadInv
<1>2. th[p].began \in Nat
  BY <1>1, BoundAssumption DEF Check
<1>3. Asked(p) \in Grant /\ since[Asked(p)] \in Nat
  BY <1>1, Grants
<1>4. ASSUME NEW f \in BOOLEAN
      PROVE  /\ Said(Asked(p), f) \in Int
             /\ Accepted(f) \notin rows[Asked(p)] => Said(Asked(p), f) <= since[Asked(p)]
  BY <1>1, <1>3, Grants DEF HistoryInv, Said
<1> QED
  BY <1>1, <1>2, <1>3, <1>4, TimeAssumption, BoundAssumption DEF TypeOK

\* What an entry that a check takes for its own says, it says of what is asked.
LEMMA OwnEntry ==
  ASSUME NEW p \in Thread, NEW d \in StreamAuthData,
         d.who = th[p].who, d.token = th[p].token
  PROVE  SaidBy(d) = Said(Asked(p), d.isAuthorized)
BY DEF SaidBy, Asked

\* performAuthLogic answers SUCCESS only to a client that had an active row for its
\* token less than TTL + Stall ago, for any number of threads and identities, rows
\* and spellings.
THEOREM GrantBackedAlways == Spec => GrantBacked
<1> DEFINE Backed == \A p \in Thread :
      Answers(p, "granted") => clock < Said(Asked(p), TRUE) + TTL + Stall
<1>1. IInv /\ [Next]_vars => Backed
  <2> SUFFICES ASSUME IInv, [Next]_vars, NEW p \in Thread, Answers(p, "granted")
               PROVE  clock < Said(Asked(p), TRUE) + TTL + Stall
    OBVIOUS
  <2> DEFINE good == Said(Asked(p), TRUE)
  <2> SUFFICES clock < good + TTL + Stall
    OBVIOUS
  <2>1. Source(p, "granted") /\ Busy(p)
    BY AnswerSource DEF IInv, Answers
  <2>2. CASE th[p].pc = "get" /\ entry \in StreamAuthData /\ Matches(p, entry)
             /\ Verdict(entry) = "granted"
    <3>1. entry.isAuthorized = TRUE
      BY <2>2 DEF Verdict, StreamAuthData
    <3>2. until <= good + TTL + Stall
      BY <2>2, <3>1, OwnEntry DEF IInv, EntryBacked, Matches
    <3>3. clock < until
      BY <2>1, <2>2, CheckFacts, ValueAssumption
    <3>4. good \in Int /\ clock \in Nat /\ until \in Nat
          /\ TTL \in Nat /\ Stall \in Nat
      BY <2>1, CheckFacts
    <3> HIDE DEF good
    <3> QED
      BY <3>2, <3>3, <3>4
  <2>3. CASE th[p].pc = "set" /\ Verdict(th[p].data) = "granted"
    <3>1. /\ th[p].data \in StreamAuthData /\ th[p].data.who = th[p].who
          /\ th[p].data.token = th[p].token /\ th[p].data.isAuthorized = TRUE
          /\ th[p].began <= SaidBy(th[p].data) /\ clock <= th[p].began + Stall
      BY <2>1, <2>3, CheckFacts DEF PathOk, QueryOk, Verdict, StreamAuthData
    <3>2. th[p].began <= good
      BY <3>1, OwnEntry
    <3>3. /\ good \in Int /\ clock \in Nat /\ th[p].began \in Nat
          /\ TTL \in Nat \ {0} /\ Stall \in Nat
      BY <2>1, CheckFacts
    <3> HIDE DEF good
    <3> QED
      BY <3>1, <3>2, <3>3
  <2> QED
    BY <2>1, <2>2, <2>3 DEF Source
<1> QED
  BY <1>1, Inductive, PTL DEF Spec, GrantBacked

\* A client whose only row for its token has been active for TTL + Stall when its
\* check begins is refused only by a database that fails this very check or by an
\* entry that is not its own, for any number of rows, tokens and spellings.
THEOREM RefusalExplainedAlways == Spec => RefusalExplained
<1> DEFINE Explained == \A p \in Thread :
      (/\ Refuses(p)
       /\ rows[Asked(p)] = {"active"}
       /\ since[Asked(p)] + TTL + Stall <= th[p].began)
      => \/ th[p].failed
         \/ /\ entry \in StreamAuthData /\ ~Matches(p, entry)
            /\ clock < SaidBy(entry) + TTL + Stall
<1>1. IInv /\ [Next]_vars => Explained
  <2> SUFFICES ASSUME IInv, [Next]_vars, NEW p \in Thread, Refuses(p),
                      rows[Asked(p)] = {"active"},
                      since[Asked(p)] + TTL + Stall <= th[p].began,
                      ~th[p].failed
               PROVE  /\ entry \in StreamAuthData /\ ~Matches(p, entry)
                      /\ clock < SaidBy(entry) + TTL + Stall
    OBVIOUS
  <2> DEFINE bad == Said(Asked(p), FALSE)
  <2>1. TypeOK /\ Busy(p)
    BY DEF IInv, Refuses
  <2>2. since[Asked(p)] < th[p].began /\ th[p].began <= clock
    BY <2>1, CheckFacts DEF PathOk
  <2>3. /\ bad <= since[Asked(p)] /\ bad \in Int
        /\ since[Asked(p)] \in Nat /\ th[p].began \in Nat /\ clock \in Nat /\ until \in Nat
        /\ TTL \in Nat /\ Stall \in Nat
    BY <2>1, CheckFacts DEF Accepted
  <2>4. CASE th'[p].pc = "del"
    <3>1. entry \in StreamAuthData /\ ~Matches(p, entry)
      BY <2>1, <2>4, DelSource DEF Refuses
    <3>2. until <= SaidBy(entry) + TTL + Stall /\ clock < until /\ SaidBy(entry) \in Int
      <4>1. clock < until
        BY <2>1, <3>1, CheckFacts, ValueAssumption
      <4> QED
        BY <2>1, <3>1, <4>1, Grants DEF IInv, EntryBacked, SaidBy, About
    <3> QED
      BY <2>1, <3>1, <3>2, CheckFacts
  <2>5. CASE th'[p].pc = "refused"
    <3>1. Source(p, "refused") /\ th[p].pc # "del"
      BY <2>1, <2>5, AnswerSource DEF Refuses, Answers
    <3>2. ASSUME th[p].pc = "get", entry \in StreamAuthData, Matches(p, entry),
                 Verdict(entry) = "refused"
          PROVE  FALSE
      <4>1. entry.isAuthorized = FALSE
        BY <3>2 DEF Verdict, StreamAuthData
      <4>2. until <= bad + TTL + Stall
        BY <3>2, <4>1, OwnEntry DEF IInv, EntryBacked, Matches
      <4>3. clock < until
        BY <2>1, <3>2, CheckFacts, ValueAssumption
      <4> HIDE DEF bad
      <4> QED
        BY <2>2, <2>3, <4>2, <4>3
    <3>3. ASSUME th[p].pc = "set", Verdict(th[p].data) = "refused" PROVE FALSE
      <4>1. /\ th[p].data \in StreamAuthData /\ th[p].data.who = th[p].who
            /\ th[p].data.token = th[p].token /\ th[p].data.isAuthorized = FALSE
            /\ th[p].began <= SaidBy(th[p].data)
        BY <2>1, <3>3, CheckFacts DEF PathOk, QueryOk, Verdict, StreamAuthData
      <4>2. th[p].began <= bad
        BY <4>1, OwnEntry
      <4> HIDE DEF bad
      <4> QED
        BY <2>2, <2>3, <4>2
    <3>4. ASSUME th[p].pc = "setNegative" PROVE FALSE
      <4>1. th[p].began <= since[Asked(p)]
        BY <2>1, <3>4, CheckFacts DEF QueryOk
      <4> QED
        BY <2>1, <2>2, <4>1, CheckFacts
    <3>5. th[p].pc # "setError"
      BY <2>1, CheckFacts DEF PathOk
    <3>6. "rejected" \notin rows[Asked(p)]
      OBVIOUS
    <3> QED
      BY <3>1, <3>2, <3>3, <3>4, <3>5, <3>6 DEF Source
  <2> QED
    BY <2>4, <2>5 DEF Refuses
<1> QED
  BY <1>1, Inductive, PTL DEF Spec, RefusalExplained
=============================================================================
