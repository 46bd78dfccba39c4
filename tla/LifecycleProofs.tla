-------------------------- MODULE LifecycleProofs ---------------------------
(***************************************************************************)
(* Proofs about the process, for any number of connections and requests    *)
(* and any capacity of the pool's queue: what a session's buffers are used *)
(* for, and which objects exist while a thread does.                       *)
(***************************************************************************)
EXTENDS Lifecycle, SequenceTheorems, TLAPS

\* ServerTypeOK without the flags of HookServer.
SessionTypes ==
    /\ fresh \in SUBSET Conn /\ reading \in SUBSET Conn /\ writing \in SUBSET Conn
    /\ posted \in SUBSET Job
    /\ keep \in [Conn -> BOOLEAN] /\ responded \in [Conn -> BOOLEAN]
    /\ asked \in [Conn -> 0..MaxRequests]
    /\ DOMAIN told = Conn /\ \A c \in Conn : told[c] \in 0..asked[c]
    /\ queue \in Seq(Job) /\ running \in SUBSET Job /\ done \in SUBSET Job
    /\ closed \in BOOLEAN

\* A connection that was not accepted has no session.
FreshInv ==
    \A c \in fresh : asked[c] = 0 /\ c \notin reading \cup writing

\* A job is in the pool once.
OnceInv ==
    /\ \A m, n \in DOMAIN queue : m # n => queue[m] # queue[n]
    /\ Queued \cap running = {}

SessionInv == SessionTypes /\ AnswersOwnRequest /\ FreshInv /\ OnceInv

\* The objects of main() from the constructors to the resets.
Core == {"db", "pool", "state", "auth", "scheduler"}

\* Where main() has all its objects, and where an I/O thread may exist.
Serving == {"check", "window", "blocked", "missed", "stopCollector", "joinCollector", "stopServer",
            "joinIo", "resetServer"}

\* The objects that exist where main() is, outside the unwinding of an exception.
ObjectsAt(s) ==
    CASE s \in {"redis", "ping", "pool"} -> {"db"}
      [] s \in {"components", "drain", "closeDb"} -> {"db", "pool"}
      [] s \in {"scheduler", "collector", "stopScheduler", "joinCleanup"} -> Core
      [] s \in Serving \cup {"server"} -> Core \cup {"front", "server"}
      [] s = "resetFront" -> Core \cup {"front"}
      [] s = "resetAuth" -> Core \ {"scheduler"}
      [] s = "resetState" -> {"db", "pool", "state"}
      [] OTHER -> {}

\* The stages at which the cleanup thread may exist.
Cleaning == Serving \cup {"collector", "server", "resetFront", "stopScheduler", "joinCleanup"}

\* Threads exist only at certain stages, and objects are what the stage says; an
\* exception leaves the scheduler last, after its thread.
StageInv ==
    /\ stage # "unwind" => alive = ObjectsAt(stage)
    /\ stage = "unwind" => alive \subseteq Core /\ (cleanup => "scheduler" \in alive)
    /\ io => stage \in Serving
    /\ collector => stage \in {"server", "check", "window", "blocked", "missed",
                               "stopCollector", "joinCollector"}
    /\ cleanup => stage \in Cleaning \cup {"unwind"}

\* The flags and the variables of main().
MainTypes ==
    /\ started \in BOOLEAN /\ listening \in BOOLEAN /\ guard \in BOOLEAN /\ io \in BOOLEAN
    /\ stage \in Stages /\ config \in [Key -> {"good", "bad"}]
    /\ flag \in BOOLEAN /\ scheduling \in BOOLEAN
    /\ cleanup \in BOOLEAN /\ collector \in BOOLEAN

IInv == SessionInv /\ MainTypes /\ StageInv
-----------------------------------------------------------------------------
(* The pool's queue *)

\* A job is appended.
LEMMA Appends ==
  ASSUME SessionInv, NEW j \in Job, queue' = Append(queue, j), UNCHANGED running
  PROVE  /\ queue' \in Seq(Job) /\ Queued' = Queued \cup {j}
         /\ j \notin Checking => OnceInv'
<1>0. queue \in Seq(Job) /\ OnceInv
  BY DEF SessionInv, SessionTypes
<1>1. /\ queue' \in Seq(Job) /\ Len(queue') = Len(queue) + 1 /\ Len(queue) \in Nat
      /\ DOMAIN queue = 1..Len(queue) /\ DOMAIN queue' = 1..Len(queue) + 1
      /\ \A i \in 1..Len(queue) : queue'[i] = queue[i]
      /\ queue'[Len(queue) + 1] = j
  BY <1>0, AppendProperties
<1>2. Queued' = Queued \cup {j}
  BY <1>1 DEF Queued
<1>3. ASSUME j \notin Checking PROVE OnceInv'
  <2>1. \A m, n \in DOMAIN queue' : m # n => queue'[m] # queue'[n]
    BY <1>0, <1>1, <1>3 DEF OnceInv, Checking, Queued
  <2> QED
    BY <1>0, <1>2, <1>3, <2>1 DEF OnceInv, Checking
<1> QED
  BY <1>1, <1>2, <1>3

\* The oldest job is taken.
LEMMA Takes ==
  ASSUME SessionInv, Pool!Start
  PROVE  /\ queue' \in Seq(Job) /\ running' \in SUBSET Job
         /\ Checking' \subseteq Checking /\ OnceInv'
<1>0. /\ queue \in Seq(Job) /\ queue # <<>> /\ OnceInv /\ running \in SUBSET Job
      /\ queue' = Tail(queue) /\ running' = running \cup {Head(queue)}
  BY DEF SessionInv, SessionTypes, Pool!Start
<1>1. /\ Len(queue) \in Nat \ {0} /\ DOMAIN queue = 1..Len(queue)
      /\ Head(queue) = queue[1] /\ Head(queue) \in Job
      /\ queue' \in Seq(Job) /\ DOMAIN queue' = 1..Len(queue) - 1
      /\ \A i \in 1..Len(queue) - 1 : queue'[i] = queue[i + 1]
  BY <1>0, EmptySeq, HeadTailProperties
<1>2. Queued' \subseteq Queued /\ Head(queue) \in Queued
  <2>1. \A i \in DOMAIN queue' : i + 1 \in DOMAIN queue /\ queue'[i] = queue[i + 1]
    BY <1>1
  <2>2. 1 \in DOMAIN queue
    BY <1>1
  <2> QED
    BY <1>1, <2>1, <2>2 DEF Queued
<1>3. Head(queue) \notin Queued'
  BY <1>0, <1>1 DEF Queued, OnceInv
<1>4. \A m, n \in DOMAIN queue' : m # n => queue'[m] # queue'[n]
  BY <1>0, <1>1 DEF OnceInv
<1> QED
  BY <1>0, <1>1, <1>2, <1>3, <1>4 DEF Checking, OnceInv

\* A job ends.
LEMMA Finishes ==
  ASSUME SessionInv, NEW j \in Job, Pool!Finish(j)
  PROVE  /\ UNCHANGED <<queue, closed>> /\ running' \in SUBSET Job /\ done' \in SUBSET Job
         /\ j \in Checking /\ Checking' \subseteq Checking /\ j \notin Checking' /\ OnceInv'
BY DEF SessionInv, SessionTypes, Pool!Finish, OnceInv, Checking, Queued
-----------------------------------------------------------------------------
(* The sessions *)

\* The session of c has read a request, and nothing of it is pending.
Received(c) ==
    /\ asked' \in [Conn -> 0..MaxRequests] /\ keep' \in [Conn -> BOOLEAN]
    /\ asked[c] \in Nat /\ asked'[c] = asked[c] + 1 /\ asked'[c] \in 1..MaxRequests
    /\ \A d \in Conn : d # c => asked'[d] = asked[d]
    /\ fresh' = fresh /\ c \notin fresh
    /\ reading' = reading \ {c} /\ c \notin writing
    /\ \A j \in Checking \cup posted : j[1] # c

\* A complete request: the session was reading, so nothing else of it was pending.
LEMMA Receives ==
  ASSUME SessionInv, NEW c \in Conn, NEW ka \in BOOLEAN, Receive(c, ka)
  PROVE  Received(c)
<1>1. SessionTypes /\ c \in reading
  BY DEF SessionInv, Receive
<1>2. asked' = [asked EXCEPT ![c] = asked[c] + 1] /\ asked[c] < MaxRequests
  BY DEF Receive
<1>3. asked[c] \in Nat /\ asked[c] + 1 \in 1..MaxRequests
  BY <1>1, <1>2, RequestAssumption DEF SessionTypes
<1>4. /\ asked' \in [Conn -> 0..MaxRequests] /\ asked'[c] = asked[c] + 1
      /\ \A d \in Conn : d # c => asked'[d] = asked[d]
  BY <1>1, <1>2, <1>3 DEF SessionTypes
<1>6. keep' \in [Conn -> BOOLEAN]
  BY <1>1 DEF SessionTypes, Receive
<1>7. c \notin fresh /\ c \notin writing /\ \A j \in Checking \cup posted : j[1] # c
  BY <1>1 DEF SessionInv, FreshInv, AnswersOwnRequest
<1> QED
  BY <1>1, <1>3, <1>4, <1>6, <1>7 DEF Receive, Received

\* A request without an answer yet.
LEMMA ToldStays ==
  ASSUME SessionTypes, NEW c \in Conn, Received(c)
  PROVE  \A d \in Conn : told[d] \in 0..asked'[d]
<1> SUFFICES ASSUME NEW d \in Conn PROVE told[d] \in 0..asked'[d]
  OBVIOUS
<1>1. told[d] \in 0..asked[d] /\ asked[d] \in Nat
  BY DEF SessionTypes
<1>2. asked'[d] \in {asked[d], asked[d] + 1}
  BY DEF Received
<1> QED
  BY <1>1, <1>2

\* The session of c has started an answer.
Wrote(c) ==
    /\ DOMAIN told' = Conn /\ told'[c] = told[c] + 1
    /\ \A d \in Conn : d # c => told'[d] = told[d]
    /\ writing' = writing \cup {c}

\* send_response starts one.
LEMMA Writes == ASSUME SessionTypes, NEW c \in Conn, StartWrite(c) PROVE Wrote(c)
BY DEF SessionTypes, StartWrite, Wrote

\* The jobs of the pool are jobs.
LEMMA JobTypes == ASSUME SessionTypes PROVE Checking \subseteq Job /\ Checking \cup posted \subseteq Job
BY DEF SessionTypes, Checking, Queued

\* The pool does not change.
LEMMA PoolKeeps ==
  ASSUME SessionInv, UNCHANGED pool
  PROVE  /\ queue' \in Seq(Job) /\ running' \in SUBSET Job /\ done' \in SUBSET Job
         /\ closed' \in BOOLEAN /\ Checking' = Checking /\ OnceInv'
<1>1. queue' = queue /\ running' = running /\ done' = done /\ closed' = closed
  BY DEF pool
<1>2. Queued' = Queued
  BY <1>1 DEF Queued
<1> QED
  BY <1>1, <1>2 DEF SessionInv, SessionTypes, OnceInv, Checking

\* A request answered on the spot, or from the catch clause.
LEMMA AnsweredHere ==
  ASSUME SessionInv, NEW c \in Conn, NEW ka \in BOOLEAN, Receive(c, ka), StartWrite(c),
         UNCHANGED <<posted, responded, pool>>
  PROVE  SessionInv'
<1>0. SessionTypes /\ Received(c) /\ Wrote(c)
  BY Receives, Writes DEF SessionInv
<1>1. SessionTypes'
  <2>1. \A d \in Conn : told'[d] \in 0..asked'[d]
    BY <1>0 DEF SessionTypes, Received, Wrote
  <2> QED
    BY <1>0, <2>1, PoolKeeps DEF SessionTypes, Received, Wrote
<1>2. AnswersOwnRequest'
  <2>1. ASSUME NEW j \in Checking \cup posted
        PROVE  /\ j[2] = asked'[j[1]] /\ told'[j[1]] < j[2]
               /\ j[1] \notin reading' \cup writing'
    <3>1. j[1] # c /\ j[1] \in Conn
      BY <1>0, <2>1, JobTypes DEF Job, Received
    <3> QED
      BY <1>0, <2>1, <3>1 DEF SessionInv, AnswersOwnRequest, Received, Wrote
  <2>2. reading' \cap writing' = {}
    BY <1>0 DEF SessionInv, AnswersOwnRequest, Received, Wrote
  <2> QED
    BY <2>1, <2>2, PoolKeeps DEF SessionInv, AnswersOwnRequest
<1>3. FreshInv'
  BY <1>0 DEF SessionInv, SessionTypes, FreshInv, Received, Wrote
<1> QED
  BY <1>1, <1>2, <1>3, PoolKeeps DEF SessionInv

\* The answer of the request the session is at is posted, or dropped.
LEMMA CallbackPosts ==
  ASSUME SessionTypes, NEW c \in Conn, NEW n \in 1..MaxRequests, Callback(c, n)
  PROVE  /\ responded' \in [Conn -> BOOLEAN]
         /\ posted' \in SUBSET Job /\ posted \subseteq posted'
         /\ posted' \subseteq posted \cup {<<c, n>>}
BY DEF SessionTypes, Callback, Job

\* The callback is called before routeHook returns.
LEMMA AnsweredAtOnce ==
  ASSUME SessionInv, NEW c \in Conn, NEW ka \in BOOLEAN, Synchronous(c, ka)
  PROVE  SessionInv'
<1> DEFINE n == asked'[c]
<1>0. SessionTypes /\ Received(c) /\ UNCHANGED <<writing, told, pool>>
  BY Receives DEF SessionInv, Synchronous
<1>1. n \in 1..MaxRequests /\ told[c] < n /\ n = asked[c] + 1
  BY <1>0 DEF SessionTypes, Job, Received
<1>2. /\ responded' \in [Conn -> BOOLEAN] /\ posted' \in SUBSET Job
      /\ posted' \subseteq posted \cup {<<c, n>>}
  <2> HIDE DEF n
  <2>1. Callback(c, n)
    BY DEF Synchronous, n
  <2> QED
    BY <1>0, <1>1, <2>1, CallbackPosts
<1>3. SessionTypes'
  <2>1. \A d \in Conn : told'[d] \in 0..asked'[d]
    BY <1>0, ToldStays
  <2> QED
    BY <1>0, <1>2, <2>1, PoolKeeps DEF SessionTypes, Received
<1>4. AnswersOwnRequest'
  <2>1. ASSUME NEW j \in Checking \cup posted
        PROVE  /\ j[2] = asked'[j[1]] /\ told[j[1]] < j[2]
               /\ j[1] \notin reading' \cup writing /\ j # <<c, n>>
    <3>1. j[1] # c /\ j[1] \in Conn
      BY <1>0, <2>1, JobTypes DEF Job, Received
    <3> QED
      BY <1>0, <2>1, <3>1 DEF SessionInv, AnswersOwnRequest, Received
  <2>2. c \notin reading' \cup writing
    BY <1>0 DEF Received
  <2>3. reading' \cap writing = {} /\ Checking \cap posted = {}
    BY <1>0 DEF SessionInv, AnswersOwnRequest, Received
  <2>4. \A j \in Checking' \cup posted' :
           /\ j[2] = asked'[j[1]] /\ told'[j[1]] < j[2]
           /\ j[1] \notin reading' \cup writing'
    BY <1>0, <1>1, <1>2, <2>1, <2>2, PoolKeeps
  <2>5. Checking' \cap posted' = {}
    BY <1>0, <1>2, <2>1, <2>3, PoolKeeps
  <2> QED
    BY <1>0, <2>3, <2>4, <2>5 DEF AnswersOwnRequest
<1>5. FreshInv'
  BY <1>0 DEF SessionInv, SessionTypes, FreshInv, Received
<1> QED
  BY <1>0, <1>3, <1>4, <1>5, PoolKeeps DEF SessionInv

\* The check of the request goes to the pool.
LEMMA SubmitsCheck ==
  ASSUME SessionInv, NEW c \in Conn, NEW ka \in BOOLEAN, Submitted(c, ka)
  PROVE  SessionInv'
<1> DEFINE j == <<c, asked'[c]>>
<1>0. /\ SessionTypes /\ Received(c) /\ UNCHANGED <<posted, writing, responded, told>>
      /\ queue' = Append(queue, j) /\ UNCHANGED <<running, done, closed>>
  BY Receives DEF SessionInv, Submitted, Pool!Accept
<1>1. /\ j \in Job /\ j[1] = c /\ j[2] = asked'[c] /\ told[c] < asked'[c]
      /\ \A i \in Checking \cup posted : i[1] # c
  <2>1. asked'[c] \in 1..MaxRequests /\ told[c] < asked'[c]
    BY <1>0 DEF SessionTypes, Received
  <2>2. j \in Job
    BY <2>1 DEF Job
  <2> QED
    BY <1>0, <2>1, <2>2 DEF Received
<1> HIDE DEF j
<1>2. j \notin Checking \cup posted
  BY <1>1
<1>3. queue' \in Seq(Job) /\ Queued' = Queued \cup {j} /\ OnceInv'
  BY <1>0, <1>1, <1>2, Appends
<1>4. Checking' = Checking \cup {j}
  BY <1>0, <1>3 DEF Checking
<1>5. SessionTypes'
  <2>1. \A d \in Conn : told'[d] \in 0..asked'[d]
    BY <1>0, ToldStays
  <2> QED
    BY <1>0, <1>3, <2>1 DEF SessionTypes, Received
<1>6. AnswersOwnRequest'
  <2>1. ASSUME NEW i \in Checking \cup posted
        PROVE  /\ i[2] = asked'[i[1]] /\ told[i[1]] < i[2]
               /\ i[1] \notin reading' \cup writing
    <3>1. i[1] # c /\ i[1] \in Conn
      BY <1>0, <2>1, JobTypes DEF Job, Received
    <3> QED
      BY <1>0, <2>1, <3>1 DEF SessionInv, AnswersOwnRequest, Received
  <2>2. c \notin reading' \cup writing
    BY <1>0 DEF Received
  <2>3. reading' \cap writing = {} /\ Checking \cap posted = {}
    BY <1>0 DEF SessionInv, AnswersOwnRequest, Received
  <2>4. \A i \in Checking' \cup posted' :
           /\ i[2] = asked'[i[1]] /\ told'[i[1]] < i[2]
           /\ i[1] \notin reading' \cup writing'
    BY <1>0, <1>1, <1>4, <2>1, <2>2
  <2> QED
    BY <1>0, <1>2, <1>4, <2>3, <2>4 DEF AnswersOwnRequest
<1>7. FreshInv'
  BY <1>0 DEF SessionInv, SessionTypes, FreshInv, Received
<1> QED
  BY <1>3, <1>5, <1>6, <1>7 DEF SessionInv

\* What a step that reads no request and writes nothing leaves: the pool's jobs may
\* have become fewer, and answers may have been posted for the jobs that ended.
LEMMA Quiet ==
  ASSUME SessionInv,
         UNCHANGED <<fresh, writing, asked, told>>, keep' \in [Conn -> BOOLEAN],
         responded' \in [Conn -> BOOLEAN],
         reading' \subseteq reading, posted' \subseteq posted \cup Checking,
         queue' \in Seq(Job), running' \in SUBSET Job, done' \in SUBSET Job,
         closed' \in BOOLEAN, Checking' \subseteq Checking, Checking' \cap posted' = {}, OnceInv'
  PROVE  SessionInv'
<1>1. SessionTypes'
  <2>1. posted' \subseteq Job
    BY JobTypes DEF SessionInv
  <2> QED
    BY <2>1 DEF SessionInv, SessionTypes
<1>2. AnswersOwnRequest'
  BY DEF SessionInv, AnswersOwnRequest
<1>3. FreshInv'
  BY DEF SessionInv, FreshInv
<1> QED
  BY <1>1, <1>2, <1>3 DEF SessionInv

\* A pool thread takes a job.
LEMMA JobStartStep == ASSUME SessionInv, JobStart PROVE SessionInv'
<1>0. SessionTypes /\ Pool!Start /\ UNCHANGED session
  BY DEF JobStart, SessionInv
<1>1. UNCHANGED <<done, closed>>
  BY <1>0 DEF Pool!Start
<1>2. /\ queue' \in Seq(Job) /\ running' \in SUBSET Job
      /\ Checking' \subseteq Checking /\ OnceInv'
  BY <1>0, Takes
<1>3. Checking' \cap posted' = {}
  BY <1>0, <1>2 DEF session, SessionInv, AnswersOwnRequest
<1> QED
  BY <1>0, <1>1, <1>2, <1>3, Quiet DEF session, SessionTypes

\* A job ends, with or without a callback.
LEMMA JobEndStep ==
  ASSUME SessionInv, NEW c \in Conn, NEW n \in 1..MaxRequests, JobEnd(c, n)
  PROVE  SessionInv'
<1> DEFINE j == <<c, n>>
<1>0. /\ SessionTypes /\ j \in Job /\ Pool!Finish(j)
      /\ UNCHANGED <<fresh, reading, writing, keep, asked, told>>
  BY DEF JobEnd, JobAnswer, JobLate, SessionInv, session, Job
<1>1. /\ UNCHANGED <<queue, closed>> /\ running' \in SUBSET Job /\ done' \in SUBSET Job
      /\ j \in Checking /\ Checking' \subseteq Checking /\ j \notin Checking' /\ OnceInv'
  BY <1>0, Finishes
<1>2. responded' \in [Conn -> BOOLEAN] /\ posted' \subseteq posted \cup {j}
  <2>1. CASE JobAnswer(c, n)
    BY <1>0, <2>1, CallbackPosts DEF JobAnswer
  <2>2. CASE JobLate(c, n)
    BY <1>0, <2>2 DEF JobLate, session, SessionTypes
  <2> QED
    BY <2>1, <2>2 DEF JobEnd
<1> HIDE DEF j
<1>3. Checking' \cap posted' = {}
  BY <1>1, <1>2 DEF SessionInv, AnswersOwnRequest
<1> QED
  BY <1>0, <1>1, <1>2, <1>3, Quiet DEF SessionTypes

\* A connection is accepted, a read or a write ends.
LEMMA IoStep ==
  ASSUME SessionInv, NEW c \in Conn, Connect(c) \/ ReadEnds(c) \/ Written(c)
  PROVE  SessionInv'
<1>0. /\ SessionTypes /\ UNCHANGED <<posted, keep, responded, asked, told, pool>>
      /\ Checking' = Checking
  BY PoolKeeps DEF SessionInv, Connect, ReadEnds, Written
<1>1. /\ fresh' \subseteq fresh /\ writing' \subseteq writing
      /\ reading' \subseteq reading \cup {c}
      /\ c \in reading' => c \notin fresh' \cup writing'
  BY DEF SessionInv, FreshInv, AnswersOwnRequest, SessionTypes, Connect, ReadEnds, Written
<1>2. ASSUME c \in reading', NEW j \in Checking \cup posted PROVE j[1] # c
  <2>1. CASE c \in fresh
    <3>1. asked[c] = 0 /\ j[2] # 0
      BY <1>0, <1>2, <2>1, JobTypes DEF SessionInv, FreshInv, Job
    <3> QED
      BY <1>2, <3>1 DEF SessionInv, AnswersOwnRequest
  <2>2. CASE c \in reading \cup writing
    BY <1>2, <2>2 DEF SessionInv, AnswersOwnRequest
  <2> QED
    BY <1>2, <2>1, <2>2 DEF Connect, ReadEnds, Written
<1>3. SessionTypes'
  BY <1>0, <1>1, PoolKeeps DEF SessionTypes
<1>4. AnswersOwnRequest'
  BY <1>0, <1>1, <1>2 DEF SessionInv, AnswersOwnRequest
<1>5. FreshInv'
  BY <1>0, <1>1 DEF SessionInv, FreshInv
<1> QED
  BY <1>0, <1>3, <1>4, <1>5, PoolKeeps DEF SessionInv

\* A posted answer is started: the session has nothing else pending.
LEMMA SendStep ==
  ASSUME SessionInv, NEW c \in Conn, NEW n \in 1..MaxRequests, SendPosted(c, n)
  PROVE  SessionInv'
<1> DEFINE j == <<c, n>>
<1>0. /\ SessionTypes /\ Wrote(c) /\ UNCHANGED <<fresh, reading, keep, responded, asked, pool>>
      /\ j \in posted /\ posted' = posted \ {j} /\ Checking' = Checking
  BY Writes, PoolKeeps DEF SessionInv, SendPosted
<1>1. n = asked[c] /\ told[c] < n /\ c \notin reading /\ j \notin Checking
  BY <1>0 DEF SessionInv, AnswersOwnRequest
<1>2. ASSUME NEW i \in Checking' \cup posted' PROVE i[1] # c /\ i[1] \in Conn
  <2>1. i \in Job /\ i # j /\ i[2] = asked[i[1]]
    BY <1>0, <1>1, <1>2, JobTypes DEF SessionInv, AnswersOwnRequest
  <2> QED
    BY <1>1, <2>1 DEF Job
<1>3. SessionTypes'
  <2>1. \A d \in Conn : told'[d] \in 0..asked[d]
    BY <1>0, <1>1 DEF SessionTypes, Wrote
  <2> QED
    BY <1>0, <2>1, PoolKeeps DEF SessionTypes, Wrote
<1> HIDE DEF j
<1>4. AnswersOwnRequest'
  BY <1>0, <1>1, <1>2 DEF SessionInv, AnswersOwnRequest, Wrote
<1>5. FreshInv'
  <2>1. c \notin fresh
    BY <1>1, RequestAssumption DEF SessionInv, FreshInv
  <2> QED
    BY <1>0, <2>1 DEF SessionInv, FreshInv, Wrote
<1> QED
  BY <1>0, <1>3, <1>4, <1>5, PoolKeeps DEF SessionInv

\* Every step of the I/O threads and of the pool's threads.
LEMMA ServeKeeps == ASSUME SessionInv, ServerNext PROVE SessionInv'
<1>1. ASSUME NEW c \in Conn, NEW ka \in BOOLEAN, Direct(c, ka) \/ Rejected(c, ka)
      PROVE  SessionInv'
  BY <1>1, AnsweredHere DEF Direct, Rejected
<1>2. ASSUME NEW c \in Conn, Request(c) PROVE SessionInv'
  BY <1>1, <1>2, AnsweredAtOnce, SubmitsCheck DEF Request
<1>3. ASSUME NEW c \in Conn, Session(c) PROVE SessionInv'
  BY <1>3, IoStep, SendStep DEF Session
<1>4. CASE IoExit
  <2>1. /\ SessionTypes /\ Checking' = Checking /\ UNCHANGED <<session, pool>>
        /\ Checking \cap posted = {}
    BY <1>4, PoolKeeps DEF IoExit, SessionInv, AnswersOwnRequest
  <2> QED
    BY <2>1, PoolKeeps, Quiet DEF session, SessionTypes
<1> QED
  BY <1>2, <1>3, <1>4, IoStep, JobStartStep, JobEndStep DEF ServerNext
-----------------------------------------------------------------------------
(* The steps of main() *)

\* main() leaves the sessions alone; it may close the pool or end every job.
LEMMA MainKeeps ==
  ASSUME SessionInv, UNCHANGED session,
         \/ UNCHANGED pool
         \/ Pool!Close
         \/ queue' = <<>> /\ running' = {} /\ UNCHANGED <<done, closed>>
  PROVE  SessionInv'
<1>0. SessionTypes /\ Checking \cap posted = {}
  BY DEF SessionInv, AnswersOwnRequest
<1>1. /\ queue' \in Seq(Job) /\ running' \in SUBSET Job /\ done' \in SUBSET Job
      /\ closed' \in BOOLEAN /\ Checking' \subseteq Checking /\ OnceInv'
  <2>1. CASE UNCHANGED pool
    BY <2>1, PoolKeeps
  <2>2. CASE Pool!Close
    BY <1>0, <2>2 DEF Pool!Close, SessionInv, SessionTypes, OnceInv, Checking, Queued
  <2>3. CASE queue' = <<>> /\ running' = {} /\ UNCHANGED <<done, closed>>
    BY <1>0, <2>3 DEF SessionTypes, OnceInv, Checking, Queued
  <2> QED
    BY <2>1, <2>2, <2>3
<1> QED
  BY <1>0, <1>1, Quiet DEF session, SessionTypes

\* Start-up: the objects come into being.
LEMMA StartUpStep ==
  ASSUME MainTypes, StageInv, StartUp
  PROVE  UNCHANGED <<session, pool>> /\ MainTypes' /\ StageInv'
<1>1. CASE Load
  BY <1>1
  DEF Load, Goto, GetInt, Merge, Text, server, MainTypes, StageInv, ObjectsAt, Serving,
      Cleaning, Stages
<1>2. CASE OpenDatabase \/ InitCache \/ Ping
  BY <1>2
  DEF OpenDatabase, InitCache, Ping, Build, Throw, Pass, Goto, server, MainTypes, StageInv,
      ObjectsAt, Serving, Cleaning, Stages, Core
<1>3. CASE CreatePool \/ CreateComponents
  BY <1>3
  DEF CreatePool, CreateComponents, Build, Throw, Pass, Goto, server, MainTypes, StageInv,
      ObjectsAt, Serving, Cleaning, Stages, Core
<1>4. CASE StartScheduler
  BY <1>4
  DEF StartScheduler, server, MainTypes, StageInv, ObjectsAt, Serving, Cleaning, Stages, Core
<1>5. CASE StartCollector
  <2>1. CASE Throw("collector")
    BY <2>1 DEF Throw, Pass, Goto, server, MainTypes, StageInv, ObjectsAt, Serving, Cleaning,
       Stages, Core
  <2>2. CASE ~Throw("collector")
    <3>1. /\ stage = "collector" /\ stage' = "server" /\ collector' = TRUE
          /\ alive' = alive \cup {"front", "server"} /\ alive = Core /\ ~io
          /\ UNCHANGED <<session, pool, started, listening, guard, io,
                         config, flag, scheduling, cleanup>>
      BY <1>5, <2>2 DEF StartCollector, Goto, StageInv, ObjectsAt, Serving, MainTypes
    <3>2. ObjectsAt("server") = Core \cup {"front", "server"}
      BY DEF ObjectsAt, Serving
    <3> QED
      BY <3>1, <3>2 DEF MainTypes, StageInv, Stages, Cleaning
  <2> QED
    BY <2>1, <2>2
<1>6. CASE RunServer
  BY <1>6
  DEF RunServer, StartServer, BindFails, StartPartly, Goto, server, MainTypes, StageInv,
      ObjectsAt, Serving, Cleaning, Stages, Core
<1> QED
  BY <1>1, <1>2, <1>3, <1>4, <1>5, <1>6 DEF StartUp

\* The wait for a signal, and the threads that end: no object comes or goes.
LEMMA WaitStep ==
  ASSUME MainTypes, StageInv, Wait \/ Signal \/ SpuriousWake \/ CollectorExits \/ CleanupExits
  PROVE  UNCHANGED <<session, pool>> /\ MainTypes' /\ StageInv'
<1>1. CASE Wait \/ SpuriousWake
  BY <1>1
  DEF Wait, SpuriousWake, Waiting, Pass, Goto, server, MainTypes, StageInv, ObjectsAt, Serving,
      Cleaning, Stages
<1>2. CASE Signal
  <2>1. /\ UNCHANGED <<session, pool, server, config, scheduling, cleanup, collector>>
        /\ flag' = FALSE
    BY <1>2 DEF Signal
  <2>2. \/ stage' = stage
        \/ Waiting /\ stage' = "check"
    BY <1>2 DEF Signal
  <2>3. MainTypes'
    <3>1. stage' \in Stages
      BY <2>2 DEF MainTypes, Stages, Waiting
    <3> QED
      BY <2>1, <3>1 DEF MainTypes, server
  <2>4. StageInv'
    <3>1. /\ ObjectsAt("blocked") = ObjectsAt("check")
          /\ ObjectsAt("missed") = ObjectsAt("check")
      BY DEF ObjectsAt, Serving
    <3>2. UNCHANGED <<alive, io, cleanup, collector>>
      BY <2>1 DEF server
    <3>3. CASE stage' = stage
      BY <3>2, <3>3 DEF StageInv
    <3>4. CASE Waiting /\ stage' = "check"
      BY <3>1, <3>2, <3>4 DEF StageInv, Serving, Cleaning, Waiting
    <3> QED
      BY <2>2, <3>3, <3>4
  <2> QED
    BY <2>1, <2>3, <2>4
<1>3. CASE CollectorExits \/ CleanupExits
  <2>1. UNCHANGED <<session, pool, server, stage, config, flag, scheduling>>
    BY <1>3 DEF CollectorExits, CleanupExits
  <2>2. (cleanup' => cleanup) /\ (collector' => collector)
    BY <1>3 DEF CollectorExits, CleanupExits
  <2>3. MainTypes'
    BY <1>3, <2>1 DEF CollectorExits, CleanupExits, MainTypes, server
  <2>4. StageInv'
    BY <2>1, <2>2 DEF StageInv, server
  <2> QED
    BY <2>1, <2>3, <2>4
<1> QED
  BY <1>1, <1>2, <1>3

\* A destructor of main(), after which the threads that use the object are gone.
LEMMA ResetStep ==
  ASSUME MainTypes, StageInv, NEW from \in Stages \ {"unwind"}, NEW to \in Stages \ {"unwind"},
         NEW objects, Reset(from, objects, to),
         ObjectsAt(to) = ObjectsAt(from) \ objects,
         io => to \in Serving, ~collector, cleanup => to \in Cleaning
  PROVE  UNCHANGED <<session, pool>> /\ MainTypes' /\ StageInv'
<1>1. /\ stage = from /\ stage' = to /\ alive' = alive \ objects
      /\ UNCHANGED <<session, pool, started, listening, guard, io,
                     config, flag, scheduling, cleanup, collector>>
  BY DEF Reset, Goto
<1>2. alive' = ObjectsAt(to)
  BY <1>1 DEF StageInv
<1> QED
  BY <1>1, <1>2 DEF MainTypes, StageInv

\* The shutdown up to the pool.
LEMMA ShutdownStep ==
  ASSUME MainTypes, StageInv, Shutdown
  PROVE  /\ UNCHANGED session
         /\ \/ UNCHANGED pool
            \/ Pool!Close
            \/ queue' = <<>> /\ running' = {} /\ UNCHANGED <<done, closed>>
         /\ MainTypes' /\ StageInv'
<1>1. CASE StopCollector \/ JoinCollector \/ JoinIo
  BY <1>1
  DEF StopCollector, JoinCollector, JoinIo, Pass, Goto, server, MainTypes, StageInv, ObjectsAt,
      Serving, Cleaning, Stages
<1>2. CASE CallStop
  <2>1. /\ stage = "stopServer" /\ stage' \in {"joinIo", "resetServer"}
        /\ UNCHANGED <<session, pool, io, alive, config, flag, scheduling, cleanup, collector>>
    BY <1>2 DEF CallStop, StopServer, Pass, Goto, server
  <2>2. started' \in BOOLEAN /\ listening' \in BOOLEAN /\ guard' \in BOOLEAN
    BY <1>2 DEF CallStop, StopServer, Pass, Goto, server, MainTypes
  <2>3. MainTypes'
    BY <2>1, <2>2 DEF MainTypes, Stages
  <2>4. ObjectsAt("stopServer") = ObjectsAt("joinIo")
        /\ ObjectsAt("stopServer") = ObjectsAt("resetServer")
    BY DEF ObjectsAt, Serving
  <2>5. StageInv'
    BY <2>1, <2>4 DEF StageInv, Serving, Cleaning
  <2> QED
    BY <2>1, <2>3, <2>5
<1>3. CASE ResetServer
  <2>1. Reset("resetServer", {"server"}, "resetFront") /\ ~io /\ ~collector
    BY <1>3 DEF ResetServer, Reset, Goto, StageInv
  <2>2. ObjectsAt("resetFront") = ObjectsAt("resetServer") \ {"server"}
    BY DEF ObjectsAt, Serving, Core
  <2> QED
    BY <2>1, <2>2, ResetStep DEF Stages, Cleaning
<1>4. CASE Terminate
  BY <1>4
  DEF Terminate, Goto, MainTypes, StageInv, ObjectsAt, Serving, Stages
<1>5. CASE ResetFront
  <2>1. Reset("resetFront", {"front"}, "stopScheduler") /\ ~io /\ ~collector
    BY <1>5 DEF ResetFront, Reset, Goto, StageInv, Serving
  <2>2. ObjectsAt("stopScheduler") = ObjectsAt("resetFront") \ {"front"}
    BY DEF ObjectsAt, Serving, Core
  <2> QED
    BY <2>1, <2>2, ResetStep DEF Stages, Cleaning
<1>6. CASE StopScheduler
  BY <1>6
  DEF StopScheduler, Goto, server, MainTypes, StageInv, ObjectsAt, Serving, Cleaning, Stages
<1>7. CASE JoinCleanup
  <2>1. Reset("joinCleanup", {"scheduler"}, "resetAuth") /\ ~io /\ ~collector /\ ~cleanup
    BY <1>7 DEF JoinCleanup, Reset, Goto, StageInv, Serving
  <2>2. ObjectsAt("resetAuth") = ObjectsAt("joinCleanup") \ {"scheduler"}
    BY DEF ObjectsAt, Serving
  <2> QED
    BY <2>1, <2>2, ResetStep DEF Stages
<1>8. CASE ResetAuth
  <2>1. Reset("resetAuth", {"auth"}, "resetState") /\ ~io /\ ~collector /\ ~cleanup
    BY <1>8 DEF ResetAuth, Reset, Goto, StageInv, Serving, Cleaning
  <2>2. ObjectsAt("resetState") = ObjectsAt("resetAuth") \ {"auth"}
    BY DEF ObjectsAt, Serving, Core
  <2> QED
    BY <2>1, <2>2, ResetStep DEF Stages
<1>9. CASE ResetState
  <2>1. Reset("resetState", {"state"}, "drain") /\ ~io /\ ~collector /\ ~cleanup
    BY <1>9 DEF ResetState, Reset, Goto, StageInv, Serving, Cleaning
  <2>2. ObjectsAt("drain") = ObjectsAt("resetState") \ {"state"}
    BY DEF ObjectsAt, Serving
  <2> QED
    BY <2>1, <2>2, ResetStep DEF Stages
<1>10. CASE DrainPool
  BY <1>10
  DEF DrainPool, Goto, server, MainTypes, StageInv, ObjectsAt, Serving, Cleaning, Stages
<1>11. CASE CloseDb
  <2>1. Reset("closeDb", {"db", "pool"}, "exited") /\ ~io /\ ~collector /\ ~cleanup
    BY <1>11 DEF CloseDb, Reset, Goto, StageInv, Serving, Cleaning
  <2>2. ObjectsAt("exited") = ObjectsAt("closeDb") \ {"db", "pool"}
    BY DEF ObjectsAt, Serving
  <2> QED
    BY <2>1, <2>2, ResetStep DEF Stages
<1> QED
  BY <1>1, <1>2, <1>3, <1>4, <1>5, <1>6, <1>7, <1>8, <1>9, <1>10, <1>11 DEF Shutdown

\* An exception: the scheduler's destructor waits for the cleanup thread.
LEMMA UnwindStep ==
  ASSUME MainTypes, StageInv, Unwind \/ UnwindScheduler
  PROVE  UNCHANGED <<session, pool>> /\ MainTypes' /\ StageInv'
<1>1. CASE Unwind
  <2>1. /\ stage = "unwind" /\ alive' \subseteq alive
        /\ "scheduler" \in alive => "scheduler" \in alive'
        /\ UNCHANGED <<session, pool, started, listening, guard, io, process>>
    BY <1>1 DEF Unwind, Locals
  <2> QED
    BY <2>1 DEF process, MainTypes, StageInv
<1>2. CASE UnwindScheduler
  BY <1>2
  DEF UnwindScheduler, MainTypes, StageInv, ObjectsAt, Serving, Cleaning, Stages, Core
<1> QED
  BY <1>1, <1>2
-----------------------------------------------------------------------------
(* The theorems *)

\* The invariant holds when main() begins.
LEMMA InitInv == Init => IInv
<1> SUFFICES ASSUME Init PROVE IInv
  OBVIOUS
<1>1. SessionInv
  <2>1. SessionTypes
    <3>1. \A c \in Conn : asked[c] = 0 /\ told[c] = 0
      BY DEF Init, ServerInit
    <3>2. DOMAIN told = Conn /\ asked \in [Conn -> 0..MaxRequests]
      BY RequestAssumption DEF Init, ServerInit
    <3>3. queue = <<>> /\ running = {} /\ done = {} /\ closed = FALSE
      BY DEF Init, ServerInit, Pool!Init
    <3>4. queue \in Seq(Job)
      BY <3>3
    <3>5. closed \in BOOLEAN
      BY <3>3
    <3>6. fresh = Conn /\ reading = {} /\ writing = {} /\ posted = {}
      BY DEF Init, ServerInit
    <3>7. keep \in [Conn -> BOOLEAN] /\ responded \in [Conn -> BOOLEAN]
      BY DEF Init, ServerInit
    <3> QED
      BY <3>1, <3>2, <3>3, <3>4, <3>5, <3>6, <3>7 DEF SessionTypes
  <2>2. Checking = {} /\ posted = {}
    BY DEF Init, ServerInit, Pool!Init, Checking, Queued
  <2> QED
    BY <2>1, <2>2
    DEF Init, ServerInit, Pool!Init, SessionInv, AnswersOwnRequest, FreshInv, OnceInv, Checking
<1>2. MainTypes
  BY DEF Init, ServerInit, MainTypes, Stages
<1>3. StageInv
  BY DEF Init, ServerInit, StageInv, ObjectsAt, Serving
<1> QED
  BY <1>1, <1>2, <1>3 DEF IInv

\* Every step of the process preserves it.
LEMMA StepInv == IInv /\ [Next]_vars => IInv'
<1> SUFFICES ASSUME IInv, [Next]_vars PROVE IInv'
  OBVIOUS
<1>0. SessionInv /\ MainTypes /\ StageInv
  BY DEF IInv
<1>1. CASE StartUp
  BY <1>0, <1>1, StartUpStep, MainKeeps DEF IInv
<1>2. CASE Wait \/ Signal \/ SpuriousWake \/ CollectorExits \/ CleanupExits
  BY <1>0, <1>2, WaitStep, MainKeeps DEF IInv
<1>3. CASE Shutdown
  BY <1>0, <1>3, ShutdownStep, MainKeeps DEF IInv
<1>4. CASE Unwind \/ UnwindScheduler
  BY <1>0, <1>4, UnwindStep, MainKeeps DEF IInv
<1>5. CASE Serve
  <2>1. SessionInv'
    BY <1>0, <1>5, ServeKeeps DEF Serve
  <2>2. UNCHANGED <<alive, started, listening, guard, process>> /\ (io' = io \/ io' = FALSE)
    BY <1>5
    DEF Serve, ServerNext, Connect, Request, Direct, Synchronous, Submitted, Rejected, Receive,
        ReadEnds, Session, Written, SendPosted, JobStart, JobEnd, JobAnswer, JobLate, IoExit,
        server
  <2>3. MainTypes'
    BY <1>0, <2>2 DEF process, MainTypes
  <2>4. StageInv'
    BY <1>0, <2>2 DEF process, StageInv
  <2> QED
    BY <2>1, <2>3, <2>4 DEF IInv
<1>6. CASE UNCHANGED vars
  <2>1. UNCHANGED <<session, pool, server, process>>
    BY <1>6 DEF vars
  <2>2. SessionInv'
    BY <1>0, <2>1, MainKeeps
  <2>3. MainTypes' /\ StageInv'
    BY <1>0, <2>1 DEF server, process, MainTypes, StageInv
  <2> QED
    BY <2>2, <2>3 DEF IInv
<1> QED
  BY <1>1, <1>2, <1>3, <1>4, <1>5, <1>6 DEF Next, Main

LEMMA Inductive == Spec => []IInv
BY InitInv, StepInv, PTL DEF Spec

\* The variables keep their types, and no session starts more answers than it has
\* read requests.
THEOREM TypeCorrect == Spec => []TypeOK
<1>1. IInv => TypeOK
  <2> SUFFICES ASSUME IInv PROVE TypeOK
    OBVIOUS
  <2>1. ServerTypeOK
    BY DEF IInv, SessionInv, SessionTypes, MainTypes, ServerTypeOK
  <2>2. alive \subseteq {"db", "pool", "state", "auth", "scheduler", "front", "server"}
    BY DEF IInv, StageInv, ObjectsAt, Core
  <2> QED
    BY <2>1, <2>2 DEF IInv, MainTypes, TypeOK
<1> QED
  BY <1>1, Inductive, PTL

\* A session's request and response buffers are never in use twice, for any number of
\* connections, requests and pool threads.
THEOREM AnswersOwnRequestAlways == Spec => []AnswersOwnRequest
<1>1. IInv => AnswersOwnRequest
  BY DEF IInv, SessionInv
<1> QED
  BY <1>1, Inductive, PTL

\* At every stage of main() a thread exists only while its objects do, but for the
\* registry of the cleanup thread while an exception unwinds.
THEOREM ThreadsHaveObjectsAlways == Spec => []ThreadsHaveObjects
<1>1. IInv => ThreadsHaveObjects
  <2> SUFFICES ASSUME StageInv PROVE ThreadsHaveObjects
    BY DEF IInv
  <2>1. ASSUME io
        PROVE  {"server", "front", "scheduler", "auth", "state", "pool", "db"} \subseteq alive
    BY <2>1 DEF StageInv, ObjectsAt, Serving, Core
  <2>2. ASSUME collector PROVE {"scheduler", "db"} \subseteq alive
    BY <2>2 DEF StageInv, ObjectsAt, Serving, Core
  <2>3. ASSUME cleanup PROVE "scheduler" \in alive /\ ("state" \in alive \/ stage = "unwind")
    BY <2>3 DEF StageInv, ObjectsAt, Serving, Cleaning, Core
  <2> QED
    BY <2>1, <2>2, <2>3 DEF ThreadsHaveObjects
<1> QED
  BY <1>1, Inductive, PTL
=============================================================================
