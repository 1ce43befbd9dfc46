---------------------------- MODULE MCImageStore ----------------------------
(* A small instance of ImageStore. *)
EXTENDS ImageStore, TLC

Symmetry == Permutations(Workers)
=============================================================================
