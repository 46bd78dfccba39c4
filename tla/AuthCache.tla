------------------------------ MODULE AuthCache ------------------------------
(***************************************************************************)
(* An authentication check: AuthManager::performAuthLogic over             *)
(* repository/HybridAuthRepository.cpp, the string commands of             *)
(* cache/CacheManager.cpp and the stream_auth table, which operators       *)
(* change while checks run.                                                *)
(*                                                                         *)
(* One cache key is modelled.  buildCacheKey joins the stream and the      *)
(* client with a colon that both may contain, so several (stream, client)  *)
(* pairs can share it; Identity is a set of such pairs.  Their client ids  *)
(* differ, since one key and one client leave one stream.                  *)
(*                                                                         *)
(* The table (src/README.md:203) has no unique key, so an identity may     *)
(* have several tokens and a token several rows, and it compares strings   *)
(* by a collation that takes several spellings for one (the default one    *)
(* ignores case), while the cached token and client id are compared byte   *)
(* by byte.                                                                *)
(*                                                                         *)
(* A step is one Redis command or one SQL query; anything may happen       *)
(* between two steps of a thread.                                          *)
(***************************************************************************)
EXTENDS Integers

CONSTANTS
    Thread,         \* pool threads that run checks
    Identity,       \* the (stream, client) pairs of the cache key
    Token,          \* spellings of tokens
    Fold,           \* what the collation makes of a spelling
    NoEntry,        \* the key does not exist
    Negative,       \* the value "__EMPTY__"
    TTL,            \* _cacheTTL, in ticks
    NegativeTTL,    \* NEGATIVE_CACHE_TTL
    ErrorTTL,       \* TRANSIENT_DB_ERROR_TTL
    Stall,          \* how long a check may last, in ticks
    MaxClock,       \* bound on the clock
    MaxChanges      \* bound on the changes to the table

\* What is compared with auth_token, and the rows a query can select by it.
Grant == Identity \X {Fold[t] : t \in Token}

\* A row of stream_auth for one Grant: is_active, or one that validateAuthData rejects
\* (client_id is not spelled as in the request, or a field is empty).
Row == {"active", "inactive", "rejected"}
Accepted(isActive) == IF isActive THEN "active" ELSE "inactive"

StreamAuthData == [who : Identity, token : Token, isAuthorized : BOOLEAN]

ASSUME ValueAssumption ==
    /\ Token \subseteq DOMAIN Fold
    /\ NoEntry # Negative
    /\ NoEntry \notin StreamAuthData /\ Negative \notin StreamAuthData
ASSUME TimeAssumption ==
    /\ TTL \in Nat \ {0} /\ NegativeTTL \in 1..TTL /\ ErrorTTL \in 1..TTL
    /\ Stall \in Nat
ASSUME BoundAssumption == MaxClock \in Nat /\ MaxChanges \in Nat

VARIABLES
    rows,       \* the rows of every Grant in stream_auth
    entry,      \* the value of the cache key
    until,      \* when the key expires
    clock,
    th,         \* the local state of every thread
    last,       \* when a Grant last had an accepted row with this is_active
    since,      \* when the rows of a Grant were last changed
    changes

table == <<rows, last, since, changes>>
cache == <<entry, until>>
vars == <<table, cache, clock, th>>

Init ==
    /\ rows \in [Grant -> {{}, {"active"}}]
    /\ entry = NoEntry /\ until = 0 /\ clock = 0
    /\ th = [p \in Thread |-> [pc |-> "idle"]]
    /\ last = [s \in Grant \X BOOLEAN |-> -TTL - Stall]
    /\ since = [g \in Grant |-> 0]
    /\ changes = 0
-----------------------------------------------------------------------------
(* The table and the clock *)

\* An operator inserts, updates or deletes rows of one Grant.
Change(g, R) ==
    /\ changes < MaxChanges /\ R # rows[g]
    /\ rows' = [rows EXCEPT ![g] = R]
    /\ last' = [s \in Grant \X BOOLEAN |->
                   IF s[1] = g /\ Accepted(s[2]) \in rows[g] THEN clock ELSE last[s]]
    /\ since' = [since EXCEPT ![g] = clock]
    /\ changes' = changes + 1
    /\ UNCHANGED <<cache, clock, th>>

Busy(p) == th[p].pc \notin {"idle", "granted", "refused"}

Del == entry' = NoEntry /\ until' = 0

\* Redis drops a key whose TTL has passed.
Tick ==
    /\ clock < MaxClock
    /\ \A p \in Thread : Busy(p) => clock < th[p].began + Stall
    /\ clock' = clock + 1
    /\ IF until = clock' THEN Del ELSE UNCHANGED cache
    /\ UNCHANGED <<table, th>>
-----------------------------------------------------------------------------
(* CacheManager: the Redis commands a check sends.  Any of them may fail,   *)
(* and one that fails may have been executed all the same.                 *)

\* Mutant: the TTL is given in milliseconds.
SetexMillis(value, ttl) == entry' = value /\ until' = clock + 1000 * ttl

Setex(value, ttl) == entry' = value /\ until' = clock + ttl

\* A best-effort command: its error is logged and nothing more.
BestEffort(command) == command \/ UNCHANGED cache
-----------------------------------------------------------------------------
(* HybridAuthRepository::getAuthData *)

Goto(p, pc) == th' = [th EXCEPT ![p].pc = pc]

\* performAuthLogic ends with SUCCESS or AUTH_DENIED.
Answer(p, verdict) == th' = [th EXCEPT ![p] = [pc |-> verdict]]
AnswerWith(p, data) == Answer(p, IF data.isAuthorized THEN "granted" ELSE "refused")

\* checkAuthAsync's job starts on a pool thread.
Start(p, i, t) ==
    /\ ~Busy(p)
    /\ th' = [th EXCEPT ![p] =
                [pc |-> "get", who |-> i, token |-> t, data |-> NoEntry,
                 began |-> clock, failed |-> FALSE]]
    /\ UNCHANGED <<table, cache, clock>>

\* Mutant: the client id of the entry is not compared.
TokenMatches(p, data) == data.token = th[p].token

\* An entry that another identity or another token wrote does not count.
Matches(p, data) == data.token = th[p].token /\ data.who = th[p].who

\* Mutant: a hit starts the entry's TTL again.
SlidingHit(p) ==
    /\ entry \in StreamAuthData /\ Matches(p, entry)
    /\ AnswerWith(p, entry)
    /\ Setex(entry, TTL)

\* The cached value is that of this client and this token: it is the answer.
Hit(p) ==
    /\ entry \in StreamAuthData /\ Matches(p, entry)
    /\ AnswerWith(p, entry)
    /\ UNCHANGED cache

\* It is someone else's, or has another token: refuse after deleting it.
Mismatch(p) ==
    /\ entry \in StreamAuthData /\ ~Matches(p, entry)
    /\ Goto(p, "del")
    /\ UNCHANGED cache

\* Mutant: the negative entry is an answer.
MissOnlyAbsent(p) ==
    /\ \/ entry = NoEntry /\ Goto(p, "query")
       \/ entry = Negative /\ Answer(p, "refused")
    /\ UNCHANGED cache

\* No key, or the negative entry, which getAuthDataFromCacheByKey reports as a
\* missing one.
Miss(p) ==
    /\ entry \in {NoEntry, Negative}
    /\ Goto(p, "query")
    /\ UNCHANGED cache

\* A GET that fails is a miss too.
MissByError(p) == Goto(p, "query") /\ UNCHANGED cache

TryGetFromCache(p) ==
    /\ th[p].pc = "get"
    /\ Hit(p) \/ Mismatch(p) \/ Miss(p) \/ MissByError(p)
    /\ UNCHANGED <<table, clock>>

KeyDel(p) ==
    /\ th[p].pc = "del"
    /\ BestEffort(Del)
    /\ Answer(p, "refused")
    /\ UNCHANGED <<table, clock>>

\* What the query looks for: stream, client and token, by the collation.
Asked(p) == <<th[p].who, Fold[th[p].token]>>

\* LIMIT 1 without an order: any row that matches.  The result carries the token of
\* the request.
Found(p) ==
    \E isActive \in BOOLEAN :
        /\ Accepted(isActive) \in rows[Asked(p)]
        /\ th' = [th EXCEPT ![p].pc = "set",
                    ![p].data = [who |-> th[p].who, token |-> th[p].token,
                                 isAuthorized |-> isActive]]

\* validateAuthData rejects the row: refused, and nothing is cached.
Invalid(p) == "rejected" \in rows[Asked(p)] /\ Answer(p, "refused")

NotFound(p) == rows[Asked(p)] = {} /\ Goto(p, "setNegative")

\* No connection or an SQLException is reported as a row that is not there; any
\* other exception reaches queryDatabase.
DBError(p) ==
    \E next \in {"setNegative", "setError"} :
        th' = [th EXCEPT ![p].pc = next, ![p].failed = TRUE]

QueryDatabase(p) ==
    /\ th[p].pc = "query"
    /\ Found(p) \/ Invalid(p) \/ NotFound(p) \/ DBError(p)
    /\ UNCHANGED <<table, cache, clock>>

\* An inactive row is cached as well.
CacheAuthData(p) ==
    /\ th[p].pc = "set"
    /\ BestEffort(Setex(th[p].data, TTL))
    /\ AnswerWith(p, th[p].data)
    /\ UNCHANGED <<table, clock>>

CacheNegativeResult(p) ==
    /\ \/ th[p].pc = "setNegative" /\ BestEffort(Setex(Negative, NegativeTTL))
       \/ th[p].pc = "setError" /\ BestEffort(Setex(Negative, ErrorTTL))
    /\ Answer(p, "refused")
    /\ UNCHANGED <<table, clock>>
-----------------------------------------------------------------------------
GetAuthData(p) ==
    \/ TryGetFromCache(p) \/ KeyDel(p) \/ QueryDatabase(p)
    \/ CacheAuthData(p) \/ CacheNegativeResult(p)

Next ==
    \/ \E p \in Thread :
         GetAuthData(p) \/ \E i \in Identity, t \in Token : Start(p, i, t)
    \/ \E g \in Grant, R \in SUBSET Row : Change(g, R)
    \/ Tick

Spec == Init /\ [][Next]_vars
-----------------------------------------------------------------------------
(* Properties *)

\* A check that is under way.
Check ==
    [pc : {"get", "del", "query", "set", "setNegative", "setError"},
     who : Identity, token : Token,
     data : StreamAuthData \cup {NoEntry},
     began : 0..MaxClock, failed : BOOLEAN]

\* The variables keep their types; every key expires, since setString never
\* writes one without a TTL, and none lives longer than _cacheTTL.
TypeOK ==
    /\ rows \in [Grant -> SUBSET Row]
    /\ entry \in StreamAuthData \cup {NoEntry, Negative}
    /\ until \in 0..clock + TTL /\ (entry # NoEntry => clock < until)
    /\ clock \in 0..MaxClock
    /\ th \in [Thread -> [pc : {"idle", "granted", "refused"}] \cup Check]
    /\ last \in [Grant \X BOOLEAN -> (-TTL - Stall)..MaxClock]
    /\ since \in [Grant -> 0..MaxClock]
    /\ changes \in 0..MaxChanges

\* When the table last had an accepted row for the Grant with this is_active.
Said(g, flag) == IF Accepted(flag) \in rows[g] THEN clock ELSE last[<<g, flag>>]

\* When it last said what an entry says.
SaidBy(data) == Said(<<data.who, Fold[data.token]>>, data.isAuthorized)

\* An entry is at most TTL + Stall away, at its expiry, from a time at which the
\* table said the same: whoever wrote it, cacheAuthData wrote what a query of the
\* same check had returned.
EntryBacked == entry \in StreamAuthData => until <= SaidBy(entry) + TTL + Stall

Answers(p, verdict) == Busy(p) /\ th'[p].pc = verdict

\* performAuthLogic answers SUCCESS only to a client that had an active row, for
\* what the collation takes for its token, less than TTL + Stall ago, whatever the
\* other clients of the cache key, the changes to the table and the failing calls
\* did meanwhile.
GrantBacked ==
    [][\A p \in Thread :
         Answers(p, "granted") => clock < Said(Asked(p), TRUE) + TTL + Stall]_vars

\* getAuthData comes to a decision that can only end in AUTH_DENIED.
Refuses(p) == Busy(p) /\ th[p].pc # "del" /\ th'[p].pc \in {"del", "refused"}

\* A client whose only row for its token was active, and accepted, for TTL + Stall
\* before its check began is refused only if the database failed this very check, or
\* if getAuthData read an entry that is not its own: another identity's, or its own
\* for another token or another spelling, written from a row that the table had less
\* than TTL + Stall ago.  A negative entry, an entry of before the last change, a
\* failing Redis do not refuse it.
RefusalExplained ==
    [][\A p \in Thread :
         (/\ Refuses(p)
          /\ rows[Asked(p)] = {"active"}
          /\ since[Asked(p)] + TTL + Stall <= th[p].began)
         => \/ th[p].failed
            \/ /\ entry \in StreamAuthData /\ ~Matches(p, entry)
               /\ clock < SaidBy(entry) + TTL + Stall]_vars
=============================================================================
