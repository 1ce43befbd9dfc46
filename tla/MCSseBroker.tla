---------------------------- MODULE MCSseBroker ----------------------------
(* Small instances of SseBroker. *)
EXTENDS SseBroker, TLC

Symmetry == Permutations(Users) \cup Permutations(Senders) \cup Permutations(Connections)
=============================================================================
