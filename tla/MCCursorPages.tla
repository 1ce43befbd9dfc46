--------------------------- MODULE MCCursorPages ---------------------------
(* A small instance of CursorPages. *)
EXTENDS CursorPages
=============================================================================
