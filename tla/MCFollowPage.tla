---------------------------- MODULE MCFollowPage ----------------------------
(* A small instance of FollowPage. *)
EXTENDS FollowPage, TLC

Symmetry == Permutations(Profiles)
=============================================================================
