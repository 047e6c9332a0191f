----------------------------- MODULE ComicsStore -----------------------------
(***************************************************************************)
(* What the update service promises about the comics table, seen from      *)
(* outside: Update and Drop exclude each other, a Drop that succeeds has   *)
(* emptied the table, and a call that was not cut off leaves nothing       *)
(* behind.  Workers, semaphores, channels and queries are not seen.        *)
(*                                                                         *)
(* A call is cut off when its caller leaves, or when a connection to the   *)
(* database breaks under one of its statements.  What is not promised is   *)
(* explicit as well: the statements of a call that was cut off, or whose   *)
(* process died, may still take effect long after the call is over, even   *)
(* if its caller waited for it and was told that it succeeded.             *)
(*                                                                         *)
(* UpdateImplementsStore shows that UpdateService implements this module,  *)
(* SearchSystem composes it with the search service.                       *)
(***************************************************************************)
EXTENDS ComicsTable

CONSTANT Calls   \* slots for calls in progress

VARIABLES
  table,    \* the comics table
  op,       \* the call in progress: "none", "update" or "drop"
  cut,      \* its caller has left, or its connections break
  emptied,  \* drop: the table was emptied on behalf of this call
  late,     \* rows a call left behind, still to be inserted
  lateDrop  \* the call left a TRUNCATE behind

storeVars == <<table, op, cut, emptied, late, lateDrop>>

Init ==
  /\ table = Truncated
  /\ op = [c \in Calls |-> "none"]
  /\ cut = [c \in Calls |-> FALSE]
  /\ emptied = [c \in Calls |-> FALSE]
  /\ late = [c \in Calls |-> Truncated]
  /\ lateDrop = [c \in Calls |-> FALSE]

NothingLate(c) == late[c] = Truncated /\ ~lateDrop[c]

\* A call begins: no other is in progress.
Begin(c, kind) ==
  /\ \A d \in Calls : op[d] = "none"
  /\ NothingLate(c)
  /\ op' = [op EXCEPT ![c] = kind]
  /\ UNCHANGED <<table, cut, emptied, late, lateDrop>>

\* Update stores a comic it did not find in the table, or its placeholder.
StoreComic(c, id) ==
  /\ op[c] = "update"
  /\ \E row \in Row \ {Absent} : table' = Upsert(table, id, row)
  /\ UNCHANGED <<op, cut, emptied, late, lateDrop>>

\* Drop empties the table, once.
Empty(c) ==
  /\ op[c] = "drop"
  /\ ~emptied[c]
  /\ table' = Truncated
  /\ emptied' = [emptied EXCEPT ![c] = TRUE]
  /\ UNCHANGED <<op, cut, late, lateDrop>>

\* The caller leaves, or a connection to the database breaks.
CutOff(c) ==
  /\ op[c] # "none"
  /\ ~cut[c]
  /\ cut' = [cut EXCEPT ![c] = TRUE]
  /\ UNCHANGED <<table, op, emptied, late, lateDrop>>

\* Call c leaves some more rows behind.
LeavesRows(c, rows) ==
  /\ op[c] = "update"
  /\ \A id \in IDs : late[c][id] # Absent => rows[id] = late[c][id]

\* A part of an Update that was cut off gives up waiting for the table.
Abandon(c) ==
  /\ cut[c]
  /\ \E rows \in Table : /\ LeavesRows(c, rows)
                         /\ late' = [late EXCEPT ![c] = rows]
  /\ UNCHANGED <<table, op, cut, emptied, lateDrop>>

Ends(c) ==
  /\ op' = [op EXCEPT ![c] = "none"]
  /\ cut' = [cut EXCEPT ![c] = FALSE]
  /\ emptied' = [emptied EXCEPT ![c] = FALSE]
  /\ UNCHANGED table

\* The call succeeds: it leaves no more behind than it had already abandoned,
\* which is nothing if it was not cut off.  A Drop leaves nothing at all.
Succeed(c) ==
  /\ op[c] # "none"
  /\ op[c] = "drop" => emptied[c]
  /\ Ends(c)
  /\ UNCHANGED <<late, lateDrop>>

\* The call fails.  Only if it was cut off may it leave a statement behind.
Fail(c) ==
  /\ op[c] # "none"
  /\ Ends(c)
  /\ \/ UNCHANGED <<late, lateDrop>>
     \/ /\ cut[c]
        /\ \E rows \in Table : /\ LeavesRows(c, rows)
                               /\ late' = [late EXCEPT ![c] = rows]
        /\ UNCHANGED lateDrop
     \/ /\ cut[c]
        /\ op[c] = "drop" /\ ~emptied[c]
        /\ lateDrop' = [lateDrop EXCEPT ![c] = TRUE]
        /\ UNCHANGED late

\* A statement left behind takes effect.
LateRow(c, id) ==
  /\ late[c][id] # Absent
  /\ table' = Upsert(table, id, late[c][id])
  /\ late' = [late EXCEPT ![c][id] = Absent]
  /\ UNCHANGED <<op, cut, emptied, lateDrop>>

LateTruncate(c) ==
  /\ lateDrop[c]
  /\ table' = Truncated
  /\ lateDrop' = [lateDrop EXCEPT ![c] = FALSE]
  /\ UNCHANGED <<op, cut, emptied, late>>

\* A statement left behind is never executed.
LateRowVanishes(c, id) ==
  /\ late[c][id] # Absent
  /\ late' = [late EXCEPT ![c][id] = Absent]
  /\ UNCHANGED <<table, op, cut, emptied, lateDrop>>

LateTruncateVanishes(c) ==
  /\ lateDrop[c]
  /\ lateDrop' = [lateDrop EXCEPT ![c] = FALSE]
  /\ UNCHANGED <<table, op, cut, emptied, late>>

\* The service dies: no call is in progress, but its statements may be on
\* their way.
Crash ==
  /\ op' = [c \in Calls |-> "none"]
  /\ cut' = [c \in Calls |-> FALSE]
  /\ emptied' = [c \in Calls |-> FALSE]
  /\ late' \in [Calls -> Table]
  /\ lateDrop' \in [Calls -> BOOLEAN]
  /\ \A c \in Calls :
       /\ late'[c] = late[c] \/ LeavesRows(c, late'[c])
       /\ lateDrop'[c] = lateDrop[c]
            \/ (lateDrop'[c] /\ op[c] = "drop" /\ ~emptied[c])
  /\ UNCHANGED table

-----------------------------------------------------------------------------

Call(c) == \E kind \in {"update", "drop"} : Begin(c, kind)

End(c) == Succeed(c) \/ Fail(c)

LateStep(c, id) == LateRow(c, id) \/ LateRowVanishes(c, id)

LateDropStep(c) == LateTruncate(c) \/ LateTruncateVanishes(c)

\* Everything but the beginning of a call.
Progress ==
  \/ \E c \in Calls : Empty(c) \/ CutOff(c) \/ Abandon(c) \/ End(c)
  \/ \E c \in Calls, id \in IDs : StoreComic(c, id) \/ LateStep(c, id)
  \/ \E c \in Calls : LateDropStep(c)
  \/ Crash

Next == Progress \/ \E c \in Calls : Call(c)

Spec == Init /\ [][Next]_storeVars

\* A call ends, and what it left behind is executed or forgotten.
Fairness ==
  /\ \A c \in Calls : WF_storeVars(End(c))
  /\ \A c \in Calls, id \in IDs : WF_storeVars(LateStep(c, id))
  /\ \A c \in Calls : WF_storeVars(LateDropStep(c))

FairSpec == Spec /\ Fairness
=============================================================================
