------------------------------ MODULE MCMetrics ------------------------------
(***************************************************************************)
(* The scheduler's counters and their collector instantiated for TLC.  No  *)
(* symmetry is declared, because the run checks liveness properties.       *)
(***************************************************************************)
EXTENDS Metrics, TLC
=============================================================================
