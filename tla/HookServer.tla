----------------------------- MODULE HookServer -----------------------------
(***************************************************************************)
(* The life of a hook request and of the server: main/HookServer.cpp,      *)
(* main/HookController.cpp and AuthManager::checkAuthAsync, over the       *)
(* thread pool's abstract specification DrainQueue.  main(), which creates *)
(* and destroys the objects and starts and stops the server, is Lifecycle. *)
(*                                                                         *)
(* A session runs on a strand, so one handler of it is one step.  Its      *)
(* pending operations are kept apart (an asynchronous read, an answer      *)
(* posted to the strand, an asynchronous write, a job in the pool), since  *)
(* nothing in the types keeps two of them from being pending at once.  A   *)
(* session that has none is destroyed, which closes its socket.            *)
(***************************************************************************)
EXTENDS Naturals, Sequences

CONSTANTS
    Conn,           \* connections that clients open
    Capacity,       \* the pool's max_queue_size; 0 means unlimited
    MaxRequests     \* bound on the number of requests of a connection

ASSUME RequestAssumption == Capacity \in Nat /\ MaxRequests \in Nat

\* The check of the n-th request of connection c, submitted to the pool.
Job == Conn \X (1..MaxRequests)

VARIABLES
    fresh,      \* connections not yet accepted
    reading,    \* sessions with a pending async_read
    posted,     \* <<session, request>>: answers posted to the strand
    writing,    \* sessions with a pending async_write
    keep,       \* keep_alive of the session's current request
    responded,  \* _responded
    asked,      \* requests the session has read
    told,       \* answers the session has started to write
    queue, running, done, closed,   \* the thread pool
    started,    \* _running
    listening,  \* the acceptor is open
    guard,      \* _work_guard is held
    io,         \* I/O threads are in _ioc.run()
    alive       \* the objects of main() that exist

session == <<fresh, reading, posted, writing, keep, responded, asked, told>>
pool == <<queue, running, done, closed>>
server == <<started, listening, guard, io, alive>>

Pool == INSTANCE DrainQueue WITH Task <- Job

\* Before HookServer::start.
ServerInit ==
    /\ fresh = Conn /\ reading = {} /\ posted = {} /\ writing = {}
    /\ keep = [c \in Conn |-> FALSE]
    /\ responded = [c \in Conn |-> FALSE]
    /\ asked = [c \in Conn |-> 0] /\ told = [c \in Conn |-> 0]
    /\ Pool!Init
    /\ started = FALSE /\ listening = FALSE /\ guard = FALSE /\ io = FALSE
-----------------------------------------------------------------------------
(* HookListener and the reading half of HookSession *)

Connect(c) ==
    /\ c \in fresh /\ listening /\ io
    /\ fresh' = fresh \ {c} /\ reading' = reading \cup {c}
    /\ UNCHANGED <<posted, writing, keep, responded, asked, told, pool, server>>

\* end_of_stream or an error: nothing more is pending.
ReadEnds(c) ==
    /\ c \in reading /\ io
    /\ reading' = reading \ {c}
    /\ UNCHANGED <<fresh, posted, writing, keep, responded, asked, told, pool, server>>

\* on_read with a complete request.
Receive(c, ka) ==
    /\ c \in reading /\ io /\ asked[c] < MaxRequests
    /\ reading' = reading \ {c}
    /\ asked' = [asked EXCEPT ![c] = @ + 1]
    /\ keep' = [keep EXCEPT ![c] = ka]
    /\ UNCHANGED <<fresh, server>>

\* send_response on the strand.
StartWrite(c) ==
    /\ writing' = writing \cup {c}
    /\ told' = [told EXCEPT ![c] = @ + 1]

\* Mutant: the branch of /metrics goes on to the next answer.
FallsThrough(c, ka) ==
    /\ Receive(c, ka)
    /\ writing' = writing \cup {c}
    /\ told' = [told EXCEPT ![c] = @ + 2]
    /\ UNCHANGED <<posted, responded, pool>>

\* /metrics, /health, a wrong method, path or body: answered on the spot.
Direct(c, ka) ==
    /\ Receive(c, ka)
    /\ StartWrite(c)
    /\ UNCHANGED <<posted, responded, pool>>

\* Mutant: only an answered session may answer.
AnswerTwice(c, n) ==
    /\ responded' = [responded EXCEPT ![c] = TRUE]
    /\ posted' = IF responded[c] THEN posted \cup {<<c, n>>} ELSE posted

\* The callback that handle_request gives to routeHook.
Callback(c, n) ==
    /\ responded' = [responded EXCEPT ![c] = TRUE]
    /\ posted' = IF responded[c] THEN posted ELSE posted \cup {<<c, n>>}

\* Done hooks, unsupported actions and publish or play hooks with an empty
\* field: the callback is called before routeHook returns.
Synchronous(c, ka) ==
    /\ Receive(c, ka)
    /\ Callback(c, asked'[c])
    /\ UNCHANGED <<writing, told, pool>>

QueueFull == Capacity > 0 /\ Len(queue) >= Capacity

\* on_publish and on_play: checkAuthAsync submits the check ...
Submitted(c, ka) ==
    /\ Receive(c, ka)
    /\ Pool!Accept(<<c, asked'[c]>>)
    /\ UNCHANGED <<posted, writing, responded, told>>

\* Mutant: submit throws after it has queued the job.
QueuedAndThrown(c, ka) ==
    /\ QueueFull
    /\ Receive(c, ka)
    /\ queue' = Append(queue, <<c, asked'[c]>>)
    /\ StartWrite(c)
    /\ UNCHANGED <<posted, responded, running, done, closed>>

\* ... or throws, and handle_request answers from its catch clause.
Rejected(c, ka) ==
    /\ QueueFull
    /\ Receive(c, ka)
    /\ StartWrite(c)
    /\ UNCHANGED <<posted, responded, pool>>
-----------------------------------------------------------------------------
(* The pool's threads *)

JobStart == "pool" \in alive /\ Pool!Start /\ UNCHANGED <<session, server>>

\* The objects that a job uses: the io_context of the session's strand, the
\* scheduler, the manager that submitted it, the registry and the database.
JobObjects == {"server", "scheduler", "auth", "state", "db"}

\* The check, the scheduler's callback and the session's callback.
JobAnswer(c, n) ==
    /\ JobObjects \subseteq alive
    /\ Pool!Finish(<<c, n>>)
    /\ Callback(c, n)
    /\ UNCHANGED <<fresh, reading, writing, keep, asked, told, server>>

\* Its objects are gone.  Of what may happen then: _shutdown reads as true.
JobLate(c, n) ==
    /\ ~(JobObjects \subseteq alive)
    /\ Pool!Finish(<<c, n>>)
    /\ UNCHANGED <<session, server>>
-----------------------------------------------------------------------------
(* The writing half of HookSession *)

SendPosted(c, n) ==
    /\ <<c, n>> \in posted /\ io
    /\ posted' = posted \ {<<c, n>>}
    /\ StartWrite(c)
    /\ UNCHANGED <<fresh, reading, keep, responded, asked, pool, server>>

\* on_write: an error ends the session, as the absence of keep_alive does.
Written(c) ==
    /\ c \in writing /\ io
    /\ writing' = writing \ {c}
    /\ \/ keep[c] /\ reading' = reading \cup {c}
       \/ UNCHANGED reading
    /\ UNCHANGED <<fresh, posted, keep, responded, asked, told, pool, server>>
-----------------------------------------------------------------------------
(* HookServer::start and stop *)

\* Without an I/O thread (SERVER_IO_THREADS below 1) nobody accepts or reads.
StartServer(threads) ==
    /\ ~started
    /\ started' = TRUE /\ listening' = TRUE /\ guard' = TRUE /\ io' = threads
    /\ UNCHANGED <<session, pool>>

\* The address or the port cannot be used.
BindFails ==
    /\ ~started
    /\ UNCHANGED <<session, pool, started, listening, guard, io>>

\* A thread cannot be created: the acceptor and the threads before it stay.
StartPartly ==
    /\ ~started
    /\ listening' = TRUE /\ guard' = TRUE /\ io' \in BOOLEAN
    /\ UNCHANGED <<session, pool, started>>

\* stop() up to the join: close the acceptor, release the work guard.
StopServer ==
    /\ started
    /\ started' = FALSE /\ listening' = FALSE /\ guard' = FALSE
    /\ UNCHANGED <<session, pool, io>>

\* _ioc.run() returns when nothing is pending in the io_context; a session that
\* waits for its job has nothing pending there.
IoExit ==
    /\ io /\ ~guard
    /\ reading = {} /\ posted = {} /\ writing = {}
    /\ io' = FALSE
    /\ UNCHANGED <<session, pool, started, listening, guard, alive>>
-----------------------------------------------------------------------------
Request(c) ==
    \E ka \in BOOLEAN :
        \/ Direct(c, ka) \/ Synchronous(c, ka)
        \/ Submitted(c, ka) \/ Rejected(c, ka)

Session(c) == Written(c) \/ \E n \in 1..MaxRequests : SendPosted(c, n)

JobEnd(c, n) == JobAnswer(c, n) \/ JobLate(c, n)

\* What the I/O threads and the pool's threads do.
ServerNext ==
    \/ \E c \in Conn : Connect(c) \/ Request(c) \/ ReadEnds(c) \/ Session(c)
    \/ JobStart \/ \E c \in Conn, n \in 1..MaxRequests : JobEnd(c, n)
    \/ IoExit
-----------------------------------------------------------------------------
(* Properties *)

Queued == {queue[i] : i \in DOMAIN queue}
Checking == Queued \cup running

\* The variables keep their types, and no session of HookServer.cpp starts more
\* answers than it has read requests.
ServerTypeOK ==
    /\ fresh \in SUBSET Conn /\ reading \in SUBSET Conn /\ writing \in SUBSET Conn
    /\ posted \in SUBSET Job
    /\ keep \in [Conn -> BOOLEAN] /\ responded \in [Conn -> BOOLEAN]
    /\ asked \in [Conn -> 0..MaxRequests]
    /\ DOMAIN told = Conn /\ \A c \in Conn : told[c] \in 0..asked[c]
    /\ queue \in Seq(Job) /\ running \in SUBSET Job /\ done \in SUBSET Job
    /\ closed \in BOOLEAN
    /\ started \in BOOLEAN /\ listening \in BOOLEAN /\ guard \in BOOLEAN /\ io \in BOOLEAN

\* A job in the pool and a posted answer are for the request the session is at,
\* which has no answer yet, and the session neither reads nor writes meanwhile:
\* the one _request and the one _response of a session are never in use twice.
AnswersOwnRequest ==
    /\ \A j \in Checking \cup posted :
         /\ j[2] = asked[j[1]] /\ told[j[1]] < j[2]
         /\ j[1] \notin reading \cup writing
    /\ Checking \cap posted = {}
    /\ reading \cap writing = {}

\* While the server is up, the first hook of a connection whose check was
\* submitted by checkAuthAsync gets its answer.
HookAnswered ==
    \A c \in Conn :
        (listening /\ ~responded[c] /\ \E n \in 1..MaxRequests : <<c, n>> \in Checking)
        ~> told[c] = asked[c] \/ ~listening

\* AuthManager.h:21: a task left over when the manager is destroyed does not
\* access invalid memory.  No task may therefore run once main() has destroyed
\* the objects it captured.
NoUseAfterDestroy == running # {} => JobObjects \subseteq alive
=============================================================================
