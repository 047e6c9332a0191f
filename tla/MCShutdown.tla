----------------------------- MODULE MCShutdown -----------------------------
(* An instance of ClusterShutdown for TLC. *)
EXTENDS ClusterShutdown
=============================================================================
