--------------------------- MODULE MCFeedService ---------------------------
(* A small instance of FeedService: the workers are interchangeable, and so *)
(* are the users and the texts.                                             *)
EXTENDS FeedService, TLC

Symmetry == Permutations(Workers) \cup Permutations(Users) \cup Permutations(Contents)
=============================================================================
