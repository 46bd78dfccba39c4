---------------------------- MODULE MCThreadPool ----------------------------
(***************************************************************************)
(* The thread pool instantiated for TLC.  Threads and tasks are model      *)
(* values given in the configurations; no symmetry is declared, because    *)
(* the runs check a refinement and liveness properties.                    *)
(***************************************************************************)
EXTENDS ThreadPool, TLC
=============================================================================
