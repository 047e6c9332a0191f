--------------------------- MODULE UpdateService ---------------------------
(***************************************************************************)
(* The update service (search-services/update/core/service.go) with its    *)
(* storage adapter, the XKCD source and the words service.                 *)
(*                                                                         *)
(* Every gRPC handler in progress occupies a slot c \in Calls.  A slot is  *)
(* reused only once everything its last call left behind has ended: the    *)
(* handler, its collector goroutine, its workers, its SQL statements.      *)
(*                                                                         *)
(* A call's context may be cancelled at any moment: the HTTP client of the *)
(* gateway hangs up, or the gRPC server is stopped.  ExecContext then      *)
(* returns at once, while the statement it sent may still be executed by   *)
(* the server: such a statement is an orphan.  A crash of the process      *)
(* makes orphans of all its statements.  So does a lost connection: the    *)
(* caller waits on, but ExecContext returns an error that does not say     *)
(* whether the statement was executed, or still will be.                   *)
(***************************************************************************)
EXTENDS ComicsTable

CONSTANTS
  Calls,        \* slots for handlers in progress
  Concurrency   \* XKCD_CONCURRENCY

ASSUME UpdateAssumption ==
  /\ Concurrency \in Nat \ {0}    \* NewService rejects concurrency < 1
  /\ IsFiniteSet(Calls)

VARIABLES
  table,        \* the comics table
  latest,       \* id of the latest comic XKCD has published
  updating,     \* Service.updating
  pc,           \* where each handler is
  cancelled,    \* the handler's context is done
  lost,         \* connections of the call in progress to Postgres break
  reply,        \* what the last call of the slot returned
  have,         \* Update: ids with a url, read from the table
  total,        \* Update: what LastID answered this call
  todo,         \* collectTask: ids still to be sent on `result`
  open,         \* collectTask: `result` is not closed yet
  cur,          \* Update: id received, its worker not started yet (0: none)
  sema,         \* Update: length of the channel `sema`
  worker,       \* goroutine that fetches an id on behalf of a call
  adding,       \* INSERT sent and not executed yet: its row, Absent if none
  truncating,   \* TRUNCATE sent and not executed yet
  counted       \* Stats: rows counted

\* History variables: the code has no counterpart of these.
VARIABLES
  failed,       \* ids given up by workers of the Update in progress
  orphanRows,   \* ids whose row was last written by an orphan INSERT
  cleared,      \* a Drop has succeeded and no Update has started since
  lateTruncate  \* an orphan TRUNCATE was executed since the last Update began

callVars == <<pc, cancelled, lost, reply>>
loopVars == <<have, total, todo, open, cur>>
workVars == <<sema, worker, failed>>
histVars == <<orphanRows, cleared, lateTruncate>>
vars == <<table, latest, updating, callVars, loopVars, workVars, adding,
          truncating, counted, histVars>>

UpdatePCs == {"readIDs", "readLast", "loop", "acquire", "wait"}
DropPCs   == {"drop", "dropSent"}
WorkerStates == {"none", "get", "norm", "add"}

Init ==
  /\ table = Truncated
  /\ latest \in 0..MaxID
  /\ updating = FALSE
  /\ pc = [c \in Calls |-> "idle"]
  /\ cancelled = [c \in Calls |-> FALSE]
  /\ lost = [c \in Calls |-> FALSE]
  /\ reply = [c \in Calls |-> "none"]
  /\ have = [c \in Calls |-> {}]
  /\ total = [c \in Calls |-> 0]
  /\ todo = [c \in Calls |-> {}]
  /\ open = [c \in Calls |-> FALSE]
  /\ cur = [c \in Calls |-> 0]
  /\ sema = [c \in Calls |-> 0]
  /\ worker = [c \in Calls |-> [id \in IDs |-> "none"]]
  /\ adding = [c \in Calls |-> Truncated]
  /\ truncating = [c \in Calls |-> FALSE]
  /\ counted = [c \in Calls |-> 0]
  /\ failed = [c \in Calls |-> {}]
  /\ orphanRows = {}
  /\ cleared = FALSE
  /\ lateTruncate = FALSE

\* Ids a worker of call c is running for.
Active(c) == {id \in IDs : worker[c][id] # "none"}

\* Nothing of the slot's last call is left.
SlotFree(c) ==
  /\ pc[c] = "idle"
  /\ ~open[c]
  /\ Active(c) = {}
  /\ adding[c] = Truncated
  /\ ~truncating[c]

-----------------------------------------------------------------------------
(* The updating flag.                                                      *)

\* The deferred updating.Store(false), the handler's result, and the end of its
\* variables.
Release(c, result) ==
  /\ updating' = FALSE
  /\ pc' = [pc EXCEPT ![c] = "idle"]
  /\ lost' = [lost EXCEPT ![c] = FALSE]
  /\ reply' = [reply EXCEPT ![c] = result]
  /\ total' = [total EXCEPT ![c] = 0]
  /\ failed' = [failed EXCEPT ![c] = {}]

\* A handler starts: CompareAndSwap(false, true) succeeds.
Acquire(c, next) ==
  /\ SlotFree(c)
  /\ ~updating
  /\ updating' = TRUE
  /\ pc' = [pc EXCEPT ![c] = next]
  /\ cancelled' = [cancelled EXCEPT ![c] = FALSE]
  /\ reply' = [reply EXCEPT ![c] = "none"]
  /\ UNCHANGED lost

\* Update or Drop finds the flag set: ErrAlreadyExists.
RejectBusy(c) ==
  /\ SlotFree(c)
  /\ updating
  /\ reply' = [reply EXCEPT ![c] = "exists"]
  /\ UNCHANGED <<table, latest, updating, pc, cancelled, lost, loopVars,
                 workVars, adding, truncating, counted, histVars>>

-----------------------------------------------------------------------------
(* Update.                                                                 *)

StartUpdate(c) ==
  /\ Acquire(c, "readIDs")
  /\ cleared' = FALSE
  /\ lateTruncate' = FALSE
  /\ UNCHANGED <<table, latest, loopVars, workVars, adding, truncating, counted,
                 orphanRows>>

\* s.db.IDs, and the ctx.Err() check that follows it.
ReadIDs(c) ==
  /\ pc[c] = "readIDs"
  /\ ~cancelled[c]
  /\ have' = [have EXCEPT ![c] = Fetched(table)]
  /\ pc' = [pc EXCEPT ![c] = "readLast"]
  /\ UNCHANGED <<table, latest, updating, cancelled, lost, reply, total, todo,
                 open, cur, workVars, adding, truncating, counted, histVars>>

\* MUTANT of Missing: the loop of collectTask runs to total + 1.
MissingOneMore(last, ids) == {id \in IDs : id <= last + 1 /\ id \notin ids}

\* MUTANT of Missing: the loop of collectTask stops before total.
MissingOneLess(last, ids) == {id \in IDs : id < last /\ id \notin ids}

\* MUTANT of Missing: ids already fetched are not skipped.
MissingAll(last, ids) == {id \in IDs : id <= last}

\* The ids collectTask sends, given LastID and the ids already fetched.
Missing(last, ids) == {id \in IDs : id <= last /\ id \notin ids}

\* s.xkcd.LastID, the ctx.Err() check that follows it, and collectTask, whose
\* goroutine takes the slice over.  What XKCD answers may lag behind what it
\* has published, and behind what an earlier call was told.
ReadLast(c) ==
  /\ pc[c] = "readLast"
  /\ ~cancelled[c]
  /\ \E last \in 0..latest :
       /\ total' = [total EXCEPT ![c] = last]
       /\ todo' = [todo EXCEPT ![c] = Missing(last, have[c])]
  /\ have' = [have EXCEPT ![c] = {}]
  /\ open' = [open EXCEPT ![c] = TRUE]
  /\ pc' = [pc EXCEPT ![c] = "loop"]
  /\ UNCHANGED <<table, latest, updating, cancelled, lost, reply, cur,
                 workVars, adding, truncating, counted, histVars>>

\* The query or the request fails, or the context is done.
AbortUpdate(c) ==
  /\ pc[c] \in {"readIDs", "readLast"}
  /\ Release(c, "error")
  /\ have' = [have EXCEPT ![c] = {}]
  /\ UNCHANGED <<table, latest, cancelled, todo, open, cur, sema, worker, adding,
                 truncating, counted, histVars>>

\* The rendezvous on the unbuffered channel: the collector sends the smallest
\* id it has left, the loop receives it.
Handover(c, id) ==
  /\ pc[c] = "loop"
  /\ open[c]
  /\ id \in todo[c]
  /\ \A other \in todo[c] : id <= other
  /\ todo' = [todo EXCEPT ![c] = @ \ {id}]

Receive(c) ==
  \E id \in IDs :
    /\ Handover(c, id)
    /\ ~cancelled[c]
    /\ cur' = [cur EXCEPT ![c] = id]
    /\ pc' = [pc EXCEPT ![c] = "acquire"]
    /\ UNCHANGED <<table, latest, updating, cancelled, lost, reply, have,
                   total, open, workVars, adding, truncating, counted, histVars>>

\* return ctx.Err() from inside the loop: nobody waits for the workers.
ReturnCancelled(c) ==
  \E id \in IDs :
    /\ Handover(c, id)
    /\ cancelled[c]
    /\ Release(c, "error")
    /\ UNCHANGED <<table, latest, cancelled, have, open, cur, sema, worker,
                   adding, truncating, counted, histVars>>

\* MUTANT of CollectorClose: the select has no ctx.Done() branch.
CollectorCloseNoDone(c) ==
  /\ open[c]
  /\ todo[c] = {}
  /\ open' = [open EXCEPT ![c] = FALSE]
  /\ UNCHANGED <<table, latest, updating, callVars, have, total, todo, cur,
                 workVars, adding, truncating, counted, histVars>>

\* MUTANT of CollectorClose: `defer close(result)` is missing.
CollectorCloseLeavesOpen(c) ==
  /\ open[c]
  /\ todo[c] # {}
  /\ cancelled[c]
  /\ todo' = [todo EXCEPT ![c] = {}]
  /\ UNCHANGED <<table, latest, updating, callVars, have, total, open, cur,
                 workVars, adding, truncating, counted, histVars>>

\* The collector goroutine ends and closes the channel: every id was sent, or
\* its select took the ctx.Done() branch.
CollectorClose(c) ==
  /\ open[c]
  /\ todo[c] = {} \/ cancelled[c]
  /\ open' = [open EXCEPT ![c] = FALSE]
  /\ todo' = [todo EXCEPT ![c] = {}]
  /\ UNCHANGED <<table, latest, updating, callVars, have, total, cur,
                 workVars, adding, truncating, counted, histVars>>

\* MUTANT of StartWorker: the semaphore has one place too many.
StartWorkerOneMore(c) ==
  /\ pc[c] = "acquire"
  /\ sema[c] <= Concurrency
  /\ sema' = [sema EXCEPT ![c] = @ + 1]
  /\ worker' = [worker EXCEPT ![c][cur[c]] = "get"]
  /\ cur' = [cur EXCEPT ![c] = 0]
  /\ pc' = [pc EXCEPT ![c] = "loop"]
  /\ UNCHANGED <<table, latest, updating, cancelled, lost, reply, have, total,
                 todo, open, failed, adding, truncating, counted, histVars>>

\* sema <- struct{}{}, then wg.Go.
StartWorker(c) ==
  /\ pc[c] = "acquire"
  /\ sema[c] < Concurrency
  /\ sema' = [sema EXCEPT ![c] = @ + 1]
  /\ worker' = [worker EXCEPT ![c][cur[c]] = "get"]
  /\ cur' = [cur EXCEPT ![c] = 0]
  /\ pc' = [pc EXCEPT ![c] = "loop"]
  /\ UNCHANGED <<table, latest, updating, cancelled, lost, reply, have, total,
                 todo, open, failed, adding, truncating, counted, histVars>>

\* The range loop ends on the closed channel.
LoopEnd(c) ==
  /\ pc[c] = "loop"
  /\ ~open[c]
  /\ pc' = [pc EXCEPT ![c] = "wait"]
  /\ UNCHANGED <<table, latest, updating, cancelled, lost, reply, loopVars,
                 workVars, adding, truncating, counted, histVars>>

\* MUTANT of ReturnUpdate: wg.Wait() is missing.
ReturnUpdateNoWait(c) ==
  /\ pc[c] = "wait"
  /\ Release(c, "ok")
  /\ UNCHANGED <<table, latest, cancelled, have, todo, open, cur, sema, worker,
                 adding, truncating, counted, histVars>>

\* wg.Wait returns; Update returns nil whatever its workers met.
ReturnUpdate(c) ==
  /\ pc[c] = "wait"
  /\ Active(c) = {}
  /\ Release(c, "ok")
  /\ UNCHANGED <<table, latest, cancelled, have, todo, open, cur, sema, worker,
                 adding, truncating, counted, histVars>>

-----------------------------------------------------------------------------
(* worker.  Its end also frees its place in `sema`.                        *)

\* MUTANT of EndWorker: `<-sema` is executed twice.
EndWorkerTwice(c, id) ==
  /\ worker' = [worker EXCEPT ![c][id] = "none"]
  /\ sema' = [sema EXCEPT ![c] = @ - 2]

EndWorker(c, id) ==
  /\ worker' = [worker EXCEPT ![c][id] = "none"]
  /\ sema' = [sema EXCEPT ![c] = @ - 1]

\* The worker ends without having learnt that its id is stored.
GiveUp(c, id) ==
  /\ EndWorker(c, id)
  /\ failed' = IF pc[c] = "idle" THEN failed
                                  ELSE [failed EXCEPT ![c] = @ \cup {id}]

\* xkcd.Get answers with the comic and the context is not done.
WorkerGot(c, id) ==
  /\ worker[c][id] = "get"
  /\ ~cancelled[c]
  /\ worker' = [worker EXCEPT ![c][id] = "norm"]
  /\ UNCHANGED <<table, latest, updating, callVars, loopVars, sema, failed,
                 adding, truncating, counted, histVars>>

\* db.Add: the INSERT is on its way to the server.  ExecContext sends nothing
\* when the context is already done.
SendAdd(c, id, row) ==
  /\ ~cancelled[c]
  /\ adding' = [adding EXCEPT ![c][id] = row]
  /\ worker' = [worker EXCEPT ![c][id] = "add"]
  /\ UNCHANGED <<table, latest, updating, callVars, loopVars, sema, failed,
                 truncating, counted, histVars>>

\* xkcd.Get reports ErrNotFound: the id is stored as a placeholder.
WorkerNotFound(c, id) ==
  /\ worker[c][id] = "get"
  /\ SendAdd(c, id, Placeholder)

\* words.Norm answers.
WorkerNormalised(c, id) ==
  /\ worker[c][id] = "norm"
  /\ \E content \in Contents : SendAdd(c, id, content)

\* xkcd.Get, words.Norm or db.Add (before sending) fails, or the context is
\* done: the worker logs and returns.
WorkerFails(c, id) ==
  /\ worker[c][id] \in {"get", "norm"}
  /\ GiveUp(c, id)
  /\ UNCHANGED <<table, latest, updating, callVars, loopVars, adding,
                 truncating, counted, histVars>>

\* The server reports the INSERT executed.
AddDone(c, id) ==
  /\ worker[c][id] = "add"
  /\ adding[c][id] = Absent
  /\ EndWorker(c, id)
  /\ UNCHANGED <<table, latest, updating, callVars, loopVars, failed, adding,
                 truncating, counted, histVars>>

\* The server answers with an error: the INSERT had no effect.
AddFails(c, id) ==
  /\ worker[c][id] = "add"
  /\ adding[c][id] # Absent
  /\ adding' = [adding EXCEPT ![c][id] = Absent]
  /\ GiveUp(c, id)
  /\ UNCHANGED <<table, latest, updating, callVars, loopVars, truncating,
                 counted, histVars>>

\* The context is done or the connection is lost: ExecContext returns an error
\* without an answer of the server, which may have executed the INSERT.
AddAbandoned(c, id) ==
  /\ worker[c][id] = "add"
  /\ cancelled[c] \/ lost[c]
  /\ GiveUp(c, id)
  /\ UNCHANGED <<table, latest, updating, callVars, loopVars, adding,
                 truncating, counted, histVars>>

-----------------------------------------------------------------------------
(* Drop.                                                                   *)

\* MUTANT of StartDrop: the flag is set without looking at it.
StartDropNoCAS(c) ==
  /\ SlotFree(c)
  /\ updating' = TRUE
  /\ pc' = [pc EXCEPT ![c] = "drop"]
  /\ cancelled' = [cancelled EXCEPT ![c] = FALSE]
  /\ reply' = [reply EXCEPT ![c] = "none"]
  /\ UNCHANGED <<table, latest, lost, loopVars, workVars, adding, truncating,
                 counted, histVars>>

StartDrop(c) ==
  /\ Acquire(c, "drop")
  /\ UNCHANGED <<table, latest, loopVars, workVars, adding, truncating,
                 counted, histVars>>

SendTruncate(c) ==
  /\ pc[c] = "drop"
  /\ ~cancelled[c]
  /\ truncating' = [truncating EXCEPT ![c] = TRUE]
  /\ pc' = [pc EXCEPT ![c] = "dropSent"]
  /\ UNCHANGED <<table, latest, updating, cancelled, lost, reply, loopVars,
                 workVars, adding, counted, histVars>>

\* The server reports the TRUNCATE executed.
ReturnDrop(c) ==
  /\ pc[c] = "dropSent"
  /\ ~truncating[c]
  /\ Release(c, "ok")
  /\ cleared' = TRUE
  /\ UNCHANGED <<table, latest, cancelled, have, todo, open, cur, sema, worker,
                 adding, truncating, counted, orphanRows, lateTruncate>>

\* The statement is not sent, or the server answers that it failed.
DropFails(c) ==
  /\ pc[c] = "drop" \/ (pc[c] = "dropSent" /\ truncating[c])
  /\ truncating' = [truncating EXCEPT ![c] = FALSE]
  /\ Release(c, "error")
  /\ UNCHANGED <<table, latest, cancelled, have, todo, open, cur, sema, worker,
                 adding, counted, histVars>>

\* The context is done or the connection is lost: Drop returns an error, its
\* TRUNCATE was executed or is still on its way.
DropAbandoned(c) ==
  /\ pc[c] = "dropSent"
  /\ cancelled[c] \/ lost[c]
  /\ Release(c, "error")
  /\ UNCHANGED <<table, latest, cancelled, have, todo, open, cur, sema, worker,
                 adding, truncating, counted, histVars>>

-----------------------------------------------------------------------------
(* Stats: neither of its two reads is protected by the updating flag.      *)

\* s.db.Stats
StatsRows(c) ==
  /\ SlotFree(c)
  /\ counted' = [counted EXCEPT ![c] = Cardinality(Stored(table))]
  /\ pc' = [pc EXCEPT ![c] = "statsLast"]
  /\ cancelled' = [cancelled EXCEPT ![c] = FALSE]
  /\ reply' = [reply EXCEPT ![c] = "none"]
  /\ UNCHANGED <<table, latest, updating, lost, loopVars, workVars, adding,
                 truncating, histVars>>

\* s.xkcd.LastID answers some id in 0..latest, which is handed on unread and
\* may be below the count, or one of the two reads failed.
StatsReturn(c) ==
  /\ pc[c] = "statsLast"
  /\ pc' = [pc EXCEPT ![c] = "idle"]
  /\ \/ ~cancelled[c] /\ reply' = [reply EXCEPT ![c] = "ok"]
     \/ reply' = [reply EXCEPT ![c] = "error"]
  /\ counted' = [counted EXCEPT ![c] = 0]
  /\ UNCHANGED <<table, latest, updating, cancelled, lost, loopVars, workVars,
                 adding, truncating, histVars>>

\* s.updating.Load()
Status == IF updating THEN "running" ELSE "idle"

-----------------------------------------------------------------------------
(* The environment: Postgres, XKCD, the clients, the machine.              *)

\* Call c still stands behind its INSERT for id.
Owned(c, id) == pc[c] \in {"loop", "acquire", "wait"} /\ worker[c][id] = "add"

\* The server executes an INSERT.
ExecAdd(c, id) ==
  /\ adding[c][id] # Absent
  /\ table' = Upsert(table, id, adding[c][id])
  /\ adding' = [adding EXCEPT ![c][id] = Absent]
  /\ orphanRows' = IF Owned(c, id) THEN orphanRows \ {id}
                                   ELSE orphanRows \cup {id}
  /\ UNCHANGED <<latest, updating, callVars, loopVars, workVars, truncating,
                 counted, cleared, lateTruncate>>

\* The server drops an INSERT whose client has gone.
DiscardAdd(c, id) ==
  /\ adding[c][id] # Absent
  /\ worker[c][id] # "add"
  /\ adding' = [adding EXCEPT ![c][id] = Absent]
  /\ UNCHANGED <<table, latest, updating, callVars, loopVars, workVars,
                 truncating, counted, histVars>>

\* The server executes a TRUNCATE.
ExecTruncate(c) ==
  /\ truncating[c]
  /\ table' = Truncated
  /\ truncating' = [truncating EXCEPT ![c] = FALSE]
  /\ orphanRows' = {}
  /\ lateTruncate' = (lateTruncate \/ pc[c] # "dropSent")
  /\ UNCHANGED <<latest, updating, callVars, loopVars, workVars, adding,
                 counted, cleared>>

\* The server drops a TRUNCATE whose client has gone.
DiscardTruncate(c) ==
  /\ truncating[c]
  /\ pc[c] # "dropSent"
  /\ truncating' = [truncating EXCEPT ![c] = FALSE]
  /\ UNCHANGED <<table, latest, updating, callVars, loopVars, workVars, adding,
                 counted, histVars>>

\* A new comic is published.
Publish ==
  /\ latest < MaxID
  /\ latest' = latest + 1
  /\ UNCHANGED <<table, updating, callVars, loopVars, workVars, adding,
                 truncating, counted, histVars>>

\* The caller hangs up or its deadline passes.
Cancel(c) ==
  /\ pc[c] # "idle"
  /\ ~cancelled[c]
  /\ cancelled' = [cancelled EXCEPT ![c] = TRUE]
  /\ UNCHANGED <<table, latest, updating, pc, lost, reply, loopVars, workVars,
                 adding, truncating, counted, histVars>>

\* A connection breaks under a statement of a call in progress, whose caller
\* waits on.  Any later statement of the call may meet the same: `lost` does not
\* tell statements apart.
LoseConnection(c) ==
  /\ ~cancelled[c] /\ ~lost[c]
  /\ pc[c] = "dropSent" \/ \E id \in IDs : Owned(c, id)
  /\ lost' = [lost EXCEPT ![c] = TRUE]
  /\ UNCHANGED <<table, latest, updating, pc, cancelled, reply, loopVars,
                 workVars, adding, truncating, counted, histVars>>

\* The process dies and is started again (restart: unless-stopped).  Only the
\* database and the statements it has received survive.
Crash ==
  /\ updating' = FALSE
  /\ pc' = [c \in Calls |-> "idle"]
  /\ cancelled' = [c \in Calls |-> FALSE]
  /\ lost' = [c \in Calls |-> FALSE]
  /\ reply' = [c \in Calls |-> "none"]
  /\ have' = [c \in Calls |-> {}]
  /\ total' = [c \in Calls |-> 0]
  /\ todo' = [c \in Calls |-> {}]
  /\ open' = [c \in Calls |-> FALSE]
  /\ cur' = [c \in Calls |-> 0]
  /\ sema' = [c \in Calls |-> 0]
  /\ worker' = [c \in Calls |-> [id \in IDs |-> "none"]]
  /\ counted' = [c \in Calls |-> 0]
  /\ failed' = [c \in Calls |-> {}]
  /\ UNCHANGED <<table, latest, adding, truncating, histVars>>

-----------------------------------------------------------------------------

\* Calls arrive.
Request(c) ==
  \/ StartUpdate(c)
  \/ StartDrop(c)
  \/ RejectBusy(c)
  \/ StatsRows(c)

\* Steps of a handler and of its collector goroutine.
CallStep(c) ==
  \/ ReadIDs(c)
  \/ ReadLast(c)
  \/ AbortUpdate(c)
  \/ Receive(c)
  \/ ReturnCancelled(c)
  \/ CollectorClose(c)
  \/ StartWorker(c)
  \/ LoopEnd(c)
  \/ ReturnUpdate(c)
  \/ SendTruncate(c)
  \/ ReturnDrop(c)
  \/ DropFails(c)
  \/ DropAbandoned(c)
  \/ StatsReturn(c)

WorkerStep(c, id) ==
  \/ WorkerGot(c, id)
  \/ WorkerNotFound(c, id)
  \/ WorkerNormalised(c, id)
  \/ WorkerFails(c, id)
  \/ AddDone(c, id)
  \/ AddFails(c, id)
  \/ AddAbandoned(c, id)

Next ==
  \/ \E c \in Calls : Request(c) \/ CallStep(c) \/ Cancel(c) \/ LoseConnection(c)
  \/ \E c \in Calls, id \in IDs : WorkerStep(c, id)
  \/ \E c \in Calls, id \in IDs : ExecAdd(c, id) \/ DiscardAdd(c, id)
  \/ \E c \in Calls : ExecTruncate(c) \/ DiscardTruncate(c)
  \/ Publish
  \/ Crash

Spec == Init /\ [][Next]_vars

\* Go schedules every runnable goroutine, every remote call returns (with an
\* answer or an error), and the server finishes or drops every statement.
\* Nothing makes a client call or hang up, a connection break or the process
\* crash.
Fairness ==
  /\ \A c \in Calls : WF_vars(CallStep(c))
  /\ \A c \in Calls, id \in IDs : WF_vars(WorkerStep(c, id))
  /\ \A c \in Calls, id \in IDs : WF_vars(ExecAdd(c, id) \/ DiscardAdd(c, id))
  /\ \A c \in Calls : WF_vars(ExecTruncate(c) \/ DiscardTruncate(c))

FairSpec == Spec /\ Fairness

-----------------------------------------------------------------------------
(* Properties.                                                             *)

\* Every variable stays in its domain; in particular a semaphore never
\* exceeds its capacity and never goes below zero.
TypeOK ==
  /\ table \in Table
  /\ latest \in 0..MaxID
  /\ updating \in BOOLEAN
  /\ pc \in [Calls -> {"idle", "statsLast"} \cup UpdatePCs \cup DropPCs]
  /\ cancelled \in [Calls -> BOOLEAN]
  /\ lost \in [Calls -> BOOLEAN]
  /\ reply \in [Calls -> {"none", "ok", "exists", "error"}]
  /\ have \in [Calls -> SUBSET IDs]
  /\ total \in [Calls -> 0..MaxID]
  /\ todo \in [Calls -> SUBSET IDs]
  /\ open \in [Calls -> BOOLEAN]
  /\ cur \in [Calls -> 0..MaxID]
  /\ sema \in [Calls -> 0..Concurrency]
  /\ worker \in [Calls -> [IDs -> WorkerStates]]
  /\ adding \in [Calls -> Table]
  /\ truncating \in [Calls -> BOOLEAN]
  /\ counted \in [Calls -> 0..MaxID]
  /\ failed \in [Calls -> SUBSET IDs]
  /\ orphanRows \subseteq IDs
  /\ cleared \in BOOLEAN
  /\ lateTruncate \in BOOLEAN

\* Call c is between its CompareAndSwap and its deferred Store(false).
Critical(c) == pc[c] \in UpdatePCs \cup DropPCs

\* Update and Drop exclude each other and themselves, and Status reports
\* "running" exactly while one of them is in progress.
OneAtATime ==
  /\ \A c, d \in Calls : Critical(c) /\ Critical(d) => c = d
  /\ (Status = "running") <=> (\E c \in Calls : Critical(c))

\* Once Status says idle, the workers still running (Update returns from
\* inside its loop without waiting for them) all belong to a cancelled call:
\* they can no longer send an INSERT.
IdleMeansNoLiveWorker ==
  Status = "idle" => \A c \in Calls : Active(c) = {} \/ cancelled[c]

\* However many Updates were started and abandoned, at most Concurrency
\* workers fetch from XKCD on behalf of a caller that still waits.
LiveWorkersBounded ==
  Cardinality({w \in Calls \X IDs : w[2] \in Active(w[1]) /\ ~cancelled[w[1]]})
    <= Concurrency

\* After a successful Drop, and until the next Update, a row can only come
\* from an INSERT nobody waits for any more: its Update is gone, or its worker
\* gave it up when the connection broke.
DropLeavesOnlyOrphans == cleared => Stored(table) \subseteq orphanRows

\* A comic already stored is never replaced by the placeholder of a 404 that
\* a later Update met, unless an orphan INSERT had a part in it.
ComicsNeverDowngraded ==
  [][\A id \in IDs :
       table[id] \in Contents /\ table'[id] = Placeholder
         => id \in orphanRows \cup orphanRows']_vars

\* An Update that returns nil to a caller still waiting leaves no hole: each
\* id up to the last id it was told has a row, or its worker gave it up.
UpdateReturnsComplete ==
  [][\A c \in Calls :
       pc[c] = "wait" /\ pc'[c] = "idle" /\ reply'[c] = "ok"
         /\ ~cancelled[c] /\ ~lateTruncate
         => 1..total[c] \subseteq Stored(table) \cup failed[c]]_vars

\* Stats never counts more comics than XKCD has published when it asks for the
\* last id, whatever Updates, orphans and crashes have put into the table and
\* whatever last ids they were told.  So it reports more comics than their
\* total only if XKCD answers this very request with a last id that lags.
StatsCountPublished ==
  \A c \in Calls : pc[c] = "statsLast" => counted[c] <= latest

\* Whatever its caller does, a call ends and leaves nothing behind: no
\* handler, no collector blocked on its channel, no worker, no statement.
GoroutinesDrain == \A c \in Calls : ~SlotFree(c) ~> SlotFree(c)

-----------------------------------------------------------------------------
(* What the repository's tests and documentation promise and the code does *)
(* not do.                                                                 *)

\* tests/update_test.go: after a Drop the statistics are all zero.
DropEmptiesTable == cleared => Stored(table) = {}
=============================================================================
