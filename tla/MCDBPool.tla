------------------------------ MODULE MCDBPool ------------------------------
(***************************************************************************)
(* The connection pool instantiated for TLC.  Borrowers are model values;  *)
(* no symmetry is declared, because the run checks a liveness property.    *)
(***************************************************************************)
EXTENDS DBPool, TLC
=============================================================================
