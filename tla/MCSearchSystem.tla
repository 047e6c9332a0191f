--------------------------- MODULE MCSearchSystem ---------------------------
(* An instance of SearchSystem for TLC. *)
EXTENDS SearchSystem
=============================================================================
