---------------------------- MODULE ComicsTable ----------------------------
(***************************************************************************)
(* The Postgres table `comics` as the two storage adapters use it:         *)
(* update/adapters/db/storage.go writes it, search/adapters/db/storage.go  *)
(* only reads it.  One SQL statement is one atomic operator.               *)
(*                                                                         *)
(* A row is abstracted to what the services tell apart:                    *)
(*   Absent       no row with this id                                      *)
(*   Placeholder  url = '' and no words, stored for a comic XKCD answers   *)
(*                404 for                                                  *)
(*   c \in Contents   a fetched comic, url <> ''                           *)
(***************************************************************************)
EXTENDS Integers, FiniteSets

CONSTANTS
  MaxID,        \* bound on XKCD ids
  Contents,     \* what a fetched comic can hold
  Absent,
  Placeholder

ASSUME TableAssumption ==
  /\ MaxID \in Nat
  /\ Absent # Placeholder
  /\ Absent \notin Contents
  /\ Placeholder \notin Contents

IDs == 1..MaxID

Row == {Absent, Placeholder} \cup Contents

Table == [IDs -> Row]

\* TRUNCATE TABLE comics
Truncated == [id \in IDs |-> Absent]

\* INSERT ... ON CONFLICT (id) DO UPDATE: the last statement executed wins.
Upsert(t, id, row) == [t EXCEPT ![id] = row]

\* Rows of the table, placeholders included: what SELECT COUNT(*) counts.
Stored(t) == {id \in IDs : t[id] # Absent}

\* SELECT id FROM comics WHERE url <> ''
Fetched(t) == {id \in IDs : t[id] \in Contents}
=============================================================================
