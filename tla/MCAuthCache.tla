----------------------------- MODULE MCAuthCache -----------------------------
(***************************************************************************)
(* The authentication check instantiated for TLC.  The collation takes all *)
(* tokens for spellings of one.  Nothing tells threads, identities or      *)
(* tokens of one kind apart.                                               *)
(***************************************************************************)
EXTENDS AuthCache, TLC

OneToken == [t \in Token |-> "token"]

Symmetry == Permutations(Thread) \cup Permutations(Identity) \cup Permutations(Token)
=============================================================================
