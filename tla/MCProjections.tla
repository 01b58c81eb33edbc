--------------------------- MODULE MCProjections ---------------------------
(* A small instance of Projections alone for TLC. *)
EXTENDS Projections
=============================================================================
