----------------------------- MODULE SearchSystem -----------------------------
(***************************************************************************)
(* The search service over the table the update service writes: the two    *)
(* processes share nothing but Postgres.  SearchService is composed with   *)
(* ComicsStore, which UpdateService implements, so that the writes it sees *)
(* are those of Updates and Drops, of the statements they left behind, and *)
(* of crashes.                                                             *)
(*                                                                         *)
(* `quiet` says that no client calls Update or Drop any more and that no   *)
(* query of the search service fails while its context is not done.  What  *)
(* was in progress then, or left behind, still goes on writing.            *)
(***************************************************************************)
EXTENDS SearchService

CONSTANT Calls   \* slots for Updates and Drops

VARIABLES
  op, cut, emptied, late, lateDrop,   \* of ComicsStore
  quiet

updateVars == <<op, cut, emptied, late, lateDrop>>
systemVars == <<vars, updateVars, quiet>>

Store == INSTANCE ComicsStore

SystemInit ==
  /\ Init
  /\ Store!Init
  /\ quiet = FALSE

\* A step of the update service; if it writes the table, the search service
\* can see that.
UpdateStep ==
  /\ Store!Progress \/ (~quiet /\ \E c \in Calls : Store!Call(c))
  /\ IF table' = table THEN UNCHANGED vars ELSE Write(table')
  /\ UNCHANGED quiet

\* A step of the search service.
SearchServiceStep ==
  /\ Progress \/ ((~quiet \/ done) /\ BuildFailure)
  /\ UNCHANGED <<updateVars, quiet>>

Quiet ==
  /\ ~quiet
  /\ quiet' = TRUE
  /\ UNCHANGED <<vars, updateVars>>

SystemNext == UpdateStep \/ SearchServiceStep \/ Quiet

SystemSpec == SystemInit /\ [][SystemNext]_systemVars

\* The ticker keeps firing and every query of a build returns, if only with
\* an error; of the update service, what ComicsStore promises.
SystemFairSpec ==
  /\ SystemSpec
  /\ WF_vars(BuildStep \/ BuildFailure)
  /\ Store!Fairness

-----------------------------------------------------------------------------

\* Once the clients are quiet, the index of a running initiator becomes equal
\* to that of the table and stays so: whatever was skipped, overwritten or
\* dropped before, and whatever the calls in progress, their late statements
\* and a crash still do afterwards.
EventuallyFresh ==
  [](quiet => <>[](initiator = "ticking" /\ ~done => index = IndexOf(table)))
=============================================================================
