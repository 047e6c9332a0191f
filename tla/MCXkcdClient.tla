---------------------------- MODULE MCXkcdClient ----------------------------
(* An instance of XkcdClient for TLC. *)
EXTENDS XkcdClient
=============================================================================
