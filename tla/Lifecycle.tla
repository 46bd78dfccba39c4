----------------------------- MODULE Lifecycle ------------------------------
(***************************************************************************)
(* The process: main/main.cpp from the configuration to the last reset,    *)
(* around the hook server, its sessions and the thread pool (HookServer),  *)
(* with the cleanup thread of StreamTaskScheduler, the worker of           *)
(* MetricsCollector and the signal handler.                                *)
(*                                                                         *)
(* Constructors may throw: a size from the configuration is not usable,    *)
(* Redis does not answer, or the system refuses a thread.  The locals of   *)
(* the try block are then destroyed in reverse order of declaration.  What *)
(* the cleanup thread and the collector do is in StreamState and Metrics;  *)
(* here they exist or not.  Failing allocations are left out.              *)
(***************************************************************************)
EXTENDS HookServer

VARIABLES
    stage,      \* what main() does next
    config,     \* what getInt returns for the keys below
    flag,       \* g_ctx.running
    scheduling, \* _running of the scheduler
    cleanup,    \* its cleanup thread exists
    collector   \* the collector's worker exists

process == <<stage, config, flag, scheduling, cleanup, collector>>
vars == <<session, pool, server, process>>

Key == {"DB_MAX_SIZE", "THREAD_POOL_SIZE", "SERVER_IO_THREADS"}

\* A setting in a file: missing, not a number, usable or out of range.
Text == {"absent", "junk", "good", "bad"}

\* The statements of main() that take a step.
Stages ==
    {"config", "database", "redis", "ping", "pool", "components", "scheduler",
     "collector", "server", "check", "window", "blocked", "missed",
     "stopCollector", "joinCollector", "stopServer", "joinIo", "resetServer",
     "resetFront", "stopScheduler", "joinCleanup", "resetAuth", "resetState",
     "drain", "closeDb", "unwind", "exited", "aborted"}

Init ==
    /\ ServerInit
    /\ alive = {} /\ stage = "config" /\ config = [k \in Key |-> "good"]
    /\ flag = TRUE /\ scheduling = FALSE /\ cleanup = FALSE /\ collector = FALSE
-----------------------------------------------------------------------------
(* Start-up *)

Goto(from, to) == stage = from /\ stage' = to

\* A step of main() that changes nothing but its place.
Pass(from, to) ==
    /\ Goto(from, to)
    /\ UNCHANGED <<session, pool, server, config, flag, scheduling, cleanup, collector>>

\* The stack unwinds to the catch clause, or main returns EXIT_FAILURE.
Throw(from) == Pass(from, "unwind")

Build(from, objects, to) ==
    /\ Goto(from, to)
    /\ alive' = alive \cup objects
    /\ UNCHANGED <<session, pool, started, listening, guard, io,
                   config, flag, scheduling, cleanup, collector>>

\* Every default is usable.
GetInt(text) == IF text \in {"absent", "junk"} THEN "good" ELSE text

\* The .env file is read after the ini file into the same map.
Merge(ini, env) == [k \in Key |-> IF env[k] = "absent" THEN ini[k] ELSE env[k]]

\* ConfigLoader::load, whose result is ignored, and the signal handlers.  When
\* the ini file is missing, load throws and the old map, empty, stays.
Load ==
    /\ Goto("config", "database")
    /\ \/ config' = [k \in Key |-> GetInt("absent")]
       \/ \E ini, env \in [Key -> Text] :
             config' = [k \in Key |-> GetInt(Merge(ini, env)[k])]
    /\ UNCHANGED <<session, pool, server, flag, scheduling, cleanup, collector>>

\* The pool of database connections; failing connections do not count.
OpenDatabase ==
    \/ config["DB_MAX_SIZE"] = "good" /\ Build("database", {"db"}, "redis")
    \/ Throw("database")

InitCache == Pass("redis", "ping") \/ Throw("redis")

\* ping returns false: main returns.
Ping == Pass("ping", "pool") \/ Throw("ping")

CreatePool ==
    \/ config["THREAD_POOL_SIZE"] = "good" /\ Build("pool", {"pool"}, "components")
    \/ Throw("pool")

CreateComponents == Build("components", {"state", "auth", "scheduler"}, "scheduler")

\* _running is set before the thread is created.
StartScheduler ==
    /\ stage = "scheduler"
    /\ scheduling' = TRUE
    /\ \/ stage' = "collector" /\ cleanup' = TRUE
       \/ stage' = "unwind" /\ UNCHANGED cleanup
    /\ UNCHANGED <<session, pool, server, config, flag, collector>>

StartCollector ==
    \/ /\ Goto("collector", "server")
       /\ collector' = TRUE /\ alive' = alive \cup {"front", "server"}
       /\ UNCHANGED <<session, pool, started, listening, guard, io,
                      config, flag, scheduling, cleanup>>
    \/ Throw("collector")

\* The result of start() is ignored.
RunServer ==
    /\ Goto("server", "check")
    /\ \/ StartServer(config["SERVER_IO_THREADS"] = "good")
       \/ BindFails
       \/ StartPartly
    /\ UNCHANGED <<alive, config, flag, scheduling, cleanup, collector>>
-----------------------------------------------------------------------------
(* The wait for a signal *)

\* In cv.wait, with every signal so far seen, or with one missed.
Waiting == stage \in {"blocked", "missed"}


\* signalHandler: it wakes main() only if main() already waits.
Signal ==
    /\ stage \notin {"config", "exited", "aborted"} /\ (flag \/ Waiting)
    /\ flag' = FALSE
    /\ stage' = IF Waiting THEN "check" ELSE stage
    /\ UNCHANGED <<session, pool, server, config, scheduling, cleanup, collector>>

\* cv.wait: the predicate, then the wait.  The handler takes no lock, so it may run
\* between the two: main() then waits although the signal has come.
Wait ==
    \/ Pass("check", IF flag THEN "window" ELSE "stopCollector")
    \/ Pass("window", IF flag THEN "blocked" ELSE "missed")

\* The condition variable may wake main() without a reason.
SpuriousWake == Waiting /\ Pass(stage, "check")
-----------------------------------------------------------------------------
(* Shutdown *)

Reset(from, objects, to) ==
    /\ Goto(from, to)
    /\ alive' = alive \ objects
    /\ UNCHANGED <<session, pool, started, listening, guard, io,
                   config, flag, scheduling, cleanup, collector>>

\* MetricsCollector::stop.
StopCollector == Pass("stopCollector", "joinCollector")

CollectorExits ==
    /\ collector /\ stage = "joinCollector"
    /\ collector' = FALSE
    /\ UNCHANGED <<session, pool, server, stage, config, flag, scheduling, cleanup>>

JoinCollector == ~collector /\ Pass("joinCollector", "stopServer")

\* HookServer::stop returns at once unless start() succeeded.
CallStop ==
    \/ /\ Goto("stopServer", "joinIo")
       /\ StopServer
       /\ UNCHANGED <<alive, config, flag, scheduling, cleanup, collector>>
    \/ ~started /\ Pass("stopServer", "resetServer")

JoinIo == ~io /\ Pass("joinIo", "resetServer")

ResetServer == ~io /\ Reset("resetServer", {"server"}, "resetFront")

\* The destructor of a thread that nobody joined calls std::terminate, and every
\* thread ends with the process.
Terminate ==
    /\ io /\ Goto("resetServer", "aborted")
    /\ alive' = {} /\ io' = FALSE /\ listening' = FALSE /\ guard' = FALSE
    /\ cleanup' = FALSE /\ collector' = FALSE
    /\ queue' = <<>> /\ running' = {}
    /\ UNCHANGED <<session, done, closed, started, config, flag, scheduling>>

ResetFront == Reset("resetFront", {"front"}, "stopScheduler")

StopScheduler ==
    /\ Goto("stopScheduler", "joinCleanup")
    /\ scheduling' = FALSE
    /\ UNCHANGED <<session, pool, server, config, flag, cleanup, collector>>

\* timeoutCleanupThread returns.
CleanupExits ==
    /\ cleanup /\ ~scheduling
    /\ cleanup' = FALSE
    /\ UNCHANGED <<session, pool, server, stage, config, flag, scheduling, collector>>

\* Mutant: the scheduler is destroyed without the join.
ResetUnjoined == Reset("joinCleanup", {"scheduler"}, "resetAuth")

JoinCleanup == ~cleanup /\ Reset("joinCleanup", {"scheduler"}, "resetAuth")

ResetAuth == Reset("resetAuth", {"auth"}, "resetState")

ResetState == Reset("resetState", {"state"}, "drain")

\* task_pool.stop_and_wait, as DrainQueue describes it.
DrainPool ==
    /\ Goto("drain", "closeDb")
    /\ running = {} /\ Pool!Close
    /\ UNCHANGED <<session, server, config, flag, scheduling, cleanup, collector>>

CloseDb == Reset("closeDb", {"db", "pool"}, "exited")
-----------------------------------------------------------------------------
(* An exception *)

\* In the order of their destructors.
Locals == <<"pool", "db", "state", "auth">>

\* The pool, which has no job, the database, the registry, the manager ...
Unwind ==
    /\ stage = "unwind"
    /\ \E i \in DOMAIN Locals :
          /\ Locals[i] \in alive
          /\ \A j \in 1..(i - 1) : Locals[j] \notin alive
          /\ alive' = alive \ {Locals[i]}
    /\ UNCHANGED <<session, pool, started, listening, guard, io, process>>

\* ... and the scheduler, whose destructor calls stop().
UnwindScheduler ==
    /\ stage = "unwind" /\ alive \subseteq {"scheduler"}
    /\ \/ /\ scheduling /\ scheduling' = FALSE
          /\ UNCHANGED <<stage, alive>>
       \/ /\ ~scheduling /\ ~cleanup
          /\ stage' = "exited" /\ alive' = {}
          /\ UNCHANGED scheduling
    /\ UNCHANGED <<session, pool, started, listening, guard, io,
                   config, flag, cleanup, collector>>

Ended == stage \in {"exited", "aborted"}
-----------------------------------------------------------------------------
StartUp ==
    \/ Load \/ OpenDatabase \/ InitCache \/ Ping \/ CreatePool
    \/ CreateComponents \/ StartScheduler \/ StartCollector \/ RunServer

Shutdown ==
    \/ StopCollector \/ JoinCollector \/ CallStop \/ JoinIo
    \/ ResetServer \/ Terminate \/ ResetFront \/ StopScheduler \/ JoinCleanup
    \/ ResetAuth \/ ResetState \/ DrainPool \/ CloseDb

Main == StartUp \/ Wait \/ Shutdown \/ Unwind \/ UnwindScheduler

Serve == ServerNext /\ UNCHANGED process

Next ==
    \/ Main \/ Signal \/ SpuriousWake \/ Serve
    \/ CollectorExits \/ CleanupExits
    \/ Ended /\ UNCHANGED vars

Spec == Init /\ [][Next]_vars

(* Every thread runs.  No client has to connect, to send or to close, no    *)
(* signal has to come, once or again, and no wait has to end by itself.     *)
FairSpec ==
    /\ Spec
    /\ WF_vars(Main) /\ WF_vars(CollectorExits) /\ WF_vars(CleanupExits)
    /\ WF_vars(IoExit /\ UNCHANGED process)
    /\ \A c \in Conn : WF_vars(Session(c) /\ UNCHANGED process)
    /\ WF_vars(JobStart /\ UNCHANGED process)
    /\ \A c \in Conn, n \in 1..MaxRequests : WF_vars(JobEnd(c, n) /\ UNCHANGED process)
-----------------------------------------------------------------------------
(* Properties *)

\* The variables of the server and of main() keep their types, and no session
\* of HookServer.cpp starts more answers than it has read requests.
TypeOK ==
    /\ ServerTypeOK
    /\ alive \subseteq {"db", "pool", "state", "auth", "scheduler", "front", "server"}
    /\ stage \in Stages /\ config \in [Key -> {"good", "bad"}]
    /\ flag \in BOOLEAN /\ scheduling \in BOOLEAN
    /\ cleanup \in BOOLEAN /\ collector \in BOOLEAN

\* A thread exists only while the objects it was given exist: the I/O threads of
\* HookServer use the io_context, the controller, the scheduler, the manager, the
\* registry and the pool, the collector's worker the scheduler and the database,
\* the cleanup thread the scheduler and the registry.  While an exception unwinds,
\* main.cpp destroys the registry before the scheduler joins the cleanup thread: that
\* is exempted.  No thread is left when main() ends.
ThreadsHaveObjects ==
    /\ io => {"server", "front", "scheduler", "auth", "state", "pool", "db"} \subseteq alive
    /\ collector => {"scheduler", "db"} \subseteq alive
    /\ cleanup => "scheduler" \in alive /\ ("state" \in alive \/ stage = "unwind")

=============================================================================
