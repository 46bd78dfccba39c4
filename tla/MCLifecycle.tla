---------------------------- MODULE MCLifecycle -----------------------------
(***************************************************************************)
(* The process instantiated for TLC.  Connections are model values; no     *)
(* symmetry is declared, because the run checks liveness properties.       *)
(***************************************************************************)
EXTENDS Lifecycle, TLC
=============================================================================
