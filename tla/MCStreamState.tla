--------------------------- MODULE MCStreamState ---------------------------
(***************************************************************************)
(* The stream registry instantiated for TLC.  Clients of the same kind and *)
(* hook threads are interchangeable; the symmetry is declared in the runs  *)
(* that check state invariants only.                                       *)
(***************************************************************************)
EXTENDS StreamState, TLC

Symmetry ==
    Permutations(Thread) \cup Permutations(Publisher) \cup Permutations(Player)
=============================================================================
