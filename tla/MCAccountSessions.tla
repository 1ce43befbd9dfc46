------------------------- MODULE MCAccountSessions -------------------------
(* A small instance of AccountSessions. *)
EXTENDS AccountSessions, TLC

Symmetry == Permutations(Workers) \cup Permutations(Names)
=============================================================================
