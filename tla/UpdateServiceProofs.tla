------------------------ MODULE UpdateServiceProofs ------------------------
(***************************************************************************)
(* Theorems about UpdateService, for every number of slots and ids, every  *)
(* Concurrency and every set of contents: first of its calls and workers,  *)
(* then of the table they write, at last of what they wait for.            *)
(***************************************************************************)
EXTENDS UpdateService, TLAPS, FiniteSetTheorems

-----------------------------------------------------------------------------
(* Type correctness.  `sema` stays in 0..Concurrency because its length is *)
(* the number of workers, which in turn needs that the loop never starts a *)
(* second worker for an id.                                                *)

\* The semaphore counts the workers.
SemaCounts == \A c \in Calls : sema[c] = Cardinality(Active(c))

\* An id that is still to be started has no worker.
StartedOnce ==
  \A c \in Calls :
    /\ pc[c] \in {"readIDs", "readLast"} => Active(c) = {}
    /\ \A id \in todo[c] : worker[c][id] = "none"
    /\ pc[c] = "acquire" => /\ cur[c] \in IDs \ todo[c]
                            /\ worker[c][cur[c]] = "none"

TypeInv == TypeOK /\ SemaCounts /\ StartedOnce

LEMMA FiniteIDs == IsFiniteSet(IDs) /\ Cardinality(IDs) = MaxID
  BY FS_Interval, TableAssumption DEF IDs

\* Subsets of the ids have a cardinality up to MaxID.
LEMMA SubsetCardinality ==
  ASSUME NEW S \in SUBSET IDs
  PROVE  IsFiniteSet(S) /\ Cardinality(S) \in 0..MaxID
  <1>1. IsFiniteSet(S) /\ Cardinality(S) <= Cardinality(IDs)
    BY FiniteIDs, FS_Subset
  <1>2. Cardinality(S) \in Nat
    BY <1>1, FS_CardinalityType
  <1> QED
    BY <1>1, <1>2, FiniteIDs, TableAssumption

\* A place is freed only where one is taken.
LEMMA FreePlace ==
  ASSUME NEW n \in 0..Concurrency, n # 0
  PROVE  n - 1 \in 0..Concurrency
  BY UpdateAssumption

LEMMA InitTypeInv == Init => TypeInv
  <1> SUFFICES ASSUME Init PROVE TypeInv
    OBVIOUS
  <1>1. TypeOK
    <2>1. Truncated \in Table
      BY DEF Truncated, Table, Row
    <2>2. 0 \in 0..MaxID /\ 0 \in 0..Concurrency
      BY TableAssumption, UpdateAssumption
    <2>3. worker \in [Calls -> [IDs -> WorkerStates]]
      BY DEF Init, WorkerStates
    <2> QED
      BY <2>1, <2>2, <2>3 DEF Init, TypeOK
  <1>2. \A c \in Calls : Active(c) = {}
    BY DEF Init, Active
  <1>3. SemaCounts
    BY <1>2, FS_EmptySet DEF Init, SemaCounts
  <1>4. StartedOnce
    BY <1>2 DEF Init, StartedOnce
  <1> QED
    BY <1>1, <1>3, <1>4 DEF TypeInv

LEMMA TypeOKStep == TypeInv /\ [Next]_vars => TypeOK'
  <1> SUFFICES ASSUME TypeInv, [Next]_vars PROVE TypeOK'
    OBVIOUS
  <1> USE TableAssumption, UpdateAssumption
  <1> USE DEF TypeInv, TypeOK, callVars, loopVars, workVars, histVars,
              UpdatePCs, DropPCs, WorkerStates
  <1>0. 0 \in 0..MaxID
    OBVIOUS
  <1> USE <1>0
  <1>1. ASSUME NEW c \in Calls, Request(c) PROVE TypeOK'
    <2>1. CASE StartUpdate(c)
      BY <2>1 DEF StartUpdate, Acquire
    <2>2. CASE StartDrop(c)
      BY <2>2 DEF StartDrop, Acquire
    <2>3. CASE RejectBusy(c)
      BY <2>3 DEF RejectBusy
    <2>4. CASE StatsRows(c)
      <3>1. Cardinality(Stored(table)) \in 0..MaxID
        BY SubsetCardinality DEF Stored
      <3> QED
        BY <2>4, <3>1 DEF StatsRows
    <2> QED
      BY <1>1, <2>1, <2>2, <2>3, <2>4 DEF Request
  <1>2. ASSUME NEW c \in Calls, CallStep(c) PROVE TypeOK'
    <2>1. CASE ReadIDs(c)
      BY <2>1 DEF ReadIDs, Fetched
    <2>2. CASE ReadLast(c)
      <3>1. PICK last \in 0..latest :
              /\ total' = [total EXCEPT ![c] = last]
              /\ todo' = [todo EXCEPT ![c] = Missing(last, have[c])]
        BY <2>2 DEF ReadLast
      <3>2. last \in 0..MaxID /\ Missing(last, have[c]) \subseteq IDs
        BY DEF Missing
      <3>3. total' \in [Calls -> 0..MaxID] /\ todo' \in [Calls -> SUBSET IDs]
        BY <3>1, <3>2
      <3> QED
        BY <2>2, <3>3 DEF ReadLast
    <2>3. CASE AbortUpdate(c)
      BY <2>3 DEF AbortUpdate, Release
    <2>4. CASE Receive(c)
      BY <2>4 DEF Receive, Handover, IDs
    <2>5. CASE ReturnCancelled(c)
      <3>1. PICK id \in IDs : todo' = [todo EXCEPT ![c] = @ \ {id}]
        BY <2>5 DEF ReturnCancelled, Handover
      <3>2. todo' \in [Calls -> SUBSET IDs]
        BY <3>1
      <3>3. /\ Release(c, "error")
            /\ UNCHANGED <<table, latest, cancelled, have, open, cur, sema, worker,
                           adding, truncating, counted, histVars>>
        BY <2>5 DEF ReturnCancelled
      <3> QED
        BY <3>2, <3>3 DEF Release
    <2>6. CASE CollectorClose(c)
      BY <2>6 DEF CollectorClose
    <2>7. CASE StartWorker(c)
      BY <2>7 DEF StartWorker, StartedOnce
    <2>8. CASE LoopEnd(c)
      BY <2>8 DEF LoopEnd
    <2>9. CASE ReturnUpdate(c)
      BY <2>9 DEF ReturnUpdate, Release
    <2>10. CASE SendTruncate(c)
      BY <2>10 DEF SendTruncate
    <2>11. CASE ReturnDrop(c)
      BY <2>11 DEF ReturnDrop, Release
    <2>12. CASE DropFails(c)
      BY <2>12 DEF DropFails, Release
    <2>13. CASE DropAbandoned(c)
      BY <2>13 DEF DropAbandoned, Release
    <2>14. CASE StatsReturn(c)
      <3>1. /\ \E result \in {"ok", "error"} : reply' = [reply EXCEPT ![c] = result]
            /\ counted' = [counted EXCEPT ![c] = 0] /\ 0 \in 0..MaxID
            /\ pc' = [pc EXCEPT ![c] = "idle"]
        BY <2>14, TableAssumption DEF StatsReturn
      <3>2. /\ reply' \in [Calls -> {"none", "ok", "exists", "error"}]
            /\ counted' \in [Calls -> 0..MaxID]
        BY <3>1
      <3> QED
        BY <2>14, <3>1, <3>2 DEF StatsReturn
    <2> QED
      BY <1>2, <2>1, <2>2, <2>3, <2>4, <2>5, <2>6, <2>7, <2>8, <2>9, <2>10,
         <2>11, <2>12, <2>13, <2>14 DEF CallStep
  <1>3. ASSUME NEW c \in Calls, NEW id \in IDs, WorkerStep(c, id) PROVE TypeOK'
    <2>1. sema[c] = Cardinality(Active(c)) /\ Active(c) \subseteq IDs
      BY DEF SemaCounts, Active
    <2>2. worker[c][id] # "none" => sema[c] - 1 \in 0..Concurrency
      <3> SUFFICES ASSUME worker[c][id] # "none"
                   PROVE  sema[c] - 1 \in 0..Concurrency
        OBVIOUS
      <3>1. id \in Active(c) /\ IsFiniteSet(Active(c))
        BY <2>1, SubsetCardinality DEF Active
      <3>2. Cardinality(Active(c)) # 0
        BY <3>1, FS_EmptySet
      <3>3. sema[c] \in 0..Concurrency
        OBVIOUS
      <3> QED
        BY <2>1, <3>2, <3>3, FreePlace
    <2>3. CASE WorkerGot(c, id)
      BY <2>3 DEF WorkerGot
    <2>4. CASE WorkerNotFound(c, id)
      BY <2>4 DEF WorkerNotFound, SendAdd, Table, Row
    <2>5. CASE WorkerNormalised(c, id)
      BY <2>5 DEF WorkerNormalised, SendAdd, Table, Row
    <2>6. CASE WorkerFails(c, id)
      BY <2>2, <2>6 DEF WorkerFails, EndWorker, GiveUp
    <2>7. CASE AddDone(c, id)
      BY <2>2, <2>7 DEF AddDone, EndWorker
    <2>8. CASE AddFails(c, id)
      BY <2>2, <2>8 DEF AddFails, EndWorker, GiveUp, Table, Row
    <2>9. CASE AddAbandoned(c, id)
      BY <2>2, <2>9 DEF AddAbandoned, EndWorker, GiveUp
    <2> QED
      BY <1>3, <2>3, <2>4, <2>5, <2>6, <2>7, <2>8, <2>9 DEF WorkerStep
  <1>4. ASSUME NEW c \in Calls, Cancel(c) \/ LoseConnection(c) PROVE TypeOK'
    BY <1>4 DEF Cancel, LoseConnection
  <1>5. ASSUME NEW c \in Calls, NEW id \in IDs, ExecAdd(c, id) PROVE TypeOK'
    BY <1>5 DEF ExecAdd, Upsert, Table, Row
  <1>6. ASSUME NEW c \in Calls, NEW id \in IDs, DiscardAdd(c, id) PROVE TypeOK'
    BY <1>6 DEF DiscardAdd, Table, Row
  <1>7. ASSUME NEW c \in Calls, ExecTruncate(c) PROVE TypeOK'
    BY <1>7 DEF ExecTruncate, Truncated, Table, Row
  <1>8. ASSUME NEW c \in Calls, DiscardTruncate(c) PROVE TypeOK'
    BY <1>8 DEF DiscardTruncate
  <1>9. CASE Publish
    BY <1>9 DEF Publish
  <1>10. CASE Crash
    <2>1. 0 \in 0..MaxID /\ 0 \in 0..Concurrency
      OBVIOUS
    <2>2. worker' \in [Calls -> [IDs -> WorkerStates]]
      BY <1>10 DEF Crash
    <2> QED
      BY <1>10, <2>1, <2>2 DEF Crash
  <1>11. CASE UNCHANGED vars
    BY <1>11 DEF vars
  <1> QED
    BY <1>1, <1>2, <1>3, <1>4, <1>5, <1>6, <1>7, <1>8, <1>9, <1>10, <1>11
    DEF Next

\* Starting the worker for id adds id to the active ids.
LEMMA StartCounts ==
  ASSUME TypeInv, NEW c \in Calls, NEW id \in IDs, worker[c][id] = "none",
         worker' = [worker EXCEPT ![c][id] = "get"],
         sema' = [sema EXCEPT ![c] = @ + 1]
  PROVE  SemaCounts'
  <1>1. Active(c)' = Active(c) \cup {id} /\ id \notin Active(c)
    BY DEF TypeInv, TypeOK, Active
  <1>2. \A d \in Calls : d # c => Active(d)' = Active(d)
    BY DEF TypeInv, TypeOK, Active
  <1>3. Cardinality(Active(c)') = Cardinality(Active(c)) + 1
    <2>1. IsFiniteSet(Active(c))
      BY SubsetCardinality DEF Active
    <2> QED
      BY <1>1, <2>1, FS_AddElement
  <1>4. sema'[c] = sema[c] + 1 /\ \A d \in Calls : d # c => sema'[d] = sema[d]
    BY DEF TypeInv, TypeOK
  <1> QED
    BY <1>2, <1>3, <1>4 DEF TypeInv, SemaCounts

\* The end of a worker takes its id out of the active ids.
LEMMA EndCounts ==
  ASSUME TypeInv, NEW c \in Calls, NEW id \in IDs, worker[c][id] # "none",
         EndWorker(c, id)
  PROVE  SemaCounts'
  <1>1. Active(c)' = Active(c) \ {id} /\ id \in Active(c)
    BY DEF TypeInv, TypeOK, Active, EndWorker
  <1>2. \A d \in Calls : d # c => Active(d)' = Active(d)
    BY DEF TypeInv, TypeOK, Active, EndWorker
  <1>3. Cardinality(Active(c)') = Cardinality(Active(c)) - 1
    <2>1. IsFiniteSet(Active(c))
      BY SubsetCardinality DEF Active
    <2> QED
      BY <1>1, <2>1, FS_RemoveElement
  <1>4. sema'[c] = sema[c] - 1 /\ \A d \in Calls : d # c => sema'[d] = sema[d]
    BY DEF TypeInv, TypeOK, EndWorker
  <1> QED
    BY <1>2, <1>3, <1>4 DEF TypeInv, SemaCounts

\* A worker that moves on stays active.
LEMMA MoveCounts ==
  ASSUME TypeInv, NEW c \in Calls, NEW id \in IDs, NEW state,
         worker[c][id] # "none", state # "none",
         worker' = [worker EXCEPT ![c][id] = state], sema' = sema
  PROVE  SemaCounts'
  <1>1. \A d \in Calls : Active(d)' = Active(d)
    BY DEF TypeInv, TypeOK, Active
  <1> QED
    BY <1>1 DEF TypeInv, SemaCounts

LEMMA SemaCountsStep == TypeInv /\ [Next]_vars => SemaCounts'
  <1> SUFFICES ASSUME TypeInv, [Next]_vars PROVE SemaCounts'
    OBVIOUS
  <1>1. CASE UNCHANGED <<sema, worker>>
    BY <1>1 DEF TypeInv, SemaCounts, Active
  <1>2. ASSUME NEW c \in Calls, StartWorker(c) PROVE SemaCounts'
    BY <1>2, StartCounts DEF StartWorker, TypeInv, StartedOnce
  <1>3. ASSUME NEW c \in Calls, NEW id \in IDs, WorkerStep(c, id)
        PROVE SemaCounts'
    <2>1. CASE WorkerGot(c, id)
      BY <2>1, MoveCounts DEF WorkerGot
    <2>2. CASE WorkerNotFound(c, id)
      BY <2>2, MoveCounts DEF WorkerNotFound, SendAdd
    <2>3. CASE WorkerNormalised(c, id)
      <3>1. PICK content \in Contents : SendAdd(c, id, content)
        BY <2>3 DEF WorkerNormalised
      <3> QED
        BY <2>3, <3>1, MoveCounts DEF WorkerNormalised, SendAdd
    <2>4. CASE WorkerFails(c, id)
      BY <2>4, EndCounts DEF WorkerFails, GiveUp
    <2>5. CASE AddDone(c, id)
      BY <2>5, EndCounts DEF AddDone
    <2>6. CASE AddFails(c, id)
      BY <2>6, EndCounts DEF AddFails, GiveUp
    <2>7. CASE AddAbandoned(c, id)
      BY <2>7, EndCounts DEF AddAbandoned, GiveUp
    <2> QED
      BY <1>3, <2>1, <2>2, <2>3, <2>4, <2>5, <2>6, <2>7 DEF WorkerStep
  <1>4. CASE Crash
    <2>1. \A c \in Calls : sema'[c] = 0 /\ Active(c)' = {}
      BY <1>4 DEF Crash, Active
    <2> QED
      BY <2>1, FS_EmptySet DEF SemaCounts
  <1>5. ASSUME NEW c \in Calls, Request(c) PROVE UNCHANGED <<sema, worker>>
    BY <1>5 DEF Request, StartUpdate, StartDrop, RejectBusy, StatsRows, workVars
  <1>6. ASSUME NEW c \in Calls, CallStep(c), ~StartWorker(c)
        PROVE UNCHANGED <<sema, worker>>
    BY <1>6 DEF CallStep, ReadIDs, ReadLast, AbortUpdate, Receive,
       ReturnCancelled, CollectorClose, LoopEnd, ReturnUpdate, SendTruncate,
       ReturnDrop, DropFails, DropAbandoned, StatsReturn, workVars
  <1>7. ASSUME NEW c \in Calls, NEW id \in IDs,
               ExecAdd(c, id) \/ DiscardAdd(c, id)
        PROVE UNCHANGED <<sema, worker>>
    BY <1>7 DEF ExecAdd, DiscardAdd, workVars
  <1>8. ASSUME NEW c \in Calls,
               Cancel(c) \/ LoseConnection(c) \/ ExecTruncate(c) \/ DiscardTruncate(c)
        PROVE UNCHANGED <<sema, worker>>
    BY <1>8 DEF Cancel, LoseConnection, ExecTruncate, DiscardTruncate, workVars
  <1>9. Publish \/ UNCHANGED vars => UNCHANGED <<sema, worker>>
    BY DEF Publish, vars, workVars
  <1> QED
    BY <1>1, <1>2, <1>3, <1>4, <1>5, <1>6, <1>7, <1>8, <1>9 DEF Next

LEMMA StartedOnceStep == TypeInv /\ [Next]_vars => StartedOnce'
  <1> SUFFICES ASSUME TypeInv, [Next]_vars PROVE StartedOnce'
    OBVIOUS
  <1> USE DEF TypeInv, TypeOK, StartedOnce, Active, callVars, loopVars, workVars
  <1>1. ASSUME NEW c \in Calls, Request(c) PROVE StartedOnce'
    <2>1. CASE StartUpdate(c)
      BY <2>1 DEF StartUpdate, Acquire, SlotFree
    <2>2. CASE StartDrop(c)
      BY <2>2 DEF StartDrop, Acquire
    <2>3. CASE RejectBusy(c)
      BY <2>3 DEF RejectBusy
    <2>4. CASE StatsRows(c)
      BY <2>4 DEF StatsRows
    <2> QED
      BY <1>1, <2>1, <2>2, <2>3, <2>4 DEF Request
  <1>2. ASSUME NEW c \in Calls, CallStep(c) PROVE StartedOnce'
    <2>1. CASE ReadIDs(c)
      BY <2>1 DEF ReadIDs
    <2>2. CASE ReadLast(c)
      BY <2>2 DEF ReadLast, Missing
    <2>3. CASE AbortUpdate(c)
      BY <2>3 DEF AbortUpdate, Release
    <2>4. CASE Receive(c)
      BY <2>4 DEF Receive, Handover
    <2>5. CASE ReturnCancelled(c)
      BY <2>5 DEF ReturnCancelled, Handover, Release
    <2>6. CASE CollectorClose(c)
      BY <2>6 DEF CollectorClose
    <2>7. CASE StartWorker(c)
      BY <2>7 DEF StartWorker
    <2>8. CASE LoopEnd(c)
      BY <2>8 DEF LoopEnd
    <2>9. CASE ReturnUpdate(c)
      BY <2>9 DEF ReturnUpdate, Release
    <2>10. CASE SendTruncate(c)
      BY <2>10 DEF SendTruncate
    <2>11. CASE ReturnDrop(c) \/ DropFails(c) \/ DropAbandoned(c)
      BY <2>11 DEF ReturnDrop, DropFails, DropAbandoned, Release
    <2>12. CASE StatsReturn(c)
      BY <2>12 DEF StatsReturn
    <2> QED
      BY <1>2, <2>1, <2>2, <2>3, <2>4, <2>5, <2>6, <2>7, <2>8, <2>9, <2>10,
         <2>11, <2>12 DEF CallStep
  <1>3. ASSUME NEW c \in Calls, NEW id \in IDs, WorkerStep(c, id)
        PROVE StartedOnce'
    <2>1. UNCHANGED <<pc, todo, cur>> /\ worker[c][id] # "none"
      BY <1>3 DEF WorkerStep, WorkerGot, WorkerNotFound, WorkerNormalised,
         SendAdd, WorkerFails, AddDone, AddFails, AddAbandoned
    <2>2. PICK state : worker' = [worker EXCEPT ![c][id] = state]
      BY <1>3 DEF WorkerStep, WorkerGot, WorkerNotFound, WorkerNormalised,
         SendAdd, WorkerFails, AddDone, AddFails, AddAbandoned, EndWorker, GiveUp
    <2> QED
      BY <2>1, <2>2
  <1>4. CASE Crash
    BY <1>4 DEF Crash
  <1>5. ASSUME NEW c \in Calls, NEW id \in IDs,
               ExecAdd(c, id) \/ DiscardAdd(c, id)
        PROVE StartedOnce'
    BY <1>5 DEF ExecAdd, DiscardAdd
  <1>6. ASSUME NEW c \in Calls,
               Cancel(c) \/ LoseConnection(c) \/ ExecTruncate(c) \/ DiscardTruncate(c)
        PROVE StartedOnce'
    BY <1>6 DEF Cancel, LoseConnection, ExecTruncate, DiscardTruncate
  <1>7. CASE Publish \/ UNCHANGED vars
    BY <1>7 DEF Publish, vars
  <1> QED
    BY <1>1, <1>2, <1>3, <1>4, <1>5, <1>6, <1>7 DEF Next

LEMMA TypeInvariant == Spec => []TypeInv
  <1>1. TypeInv /\ [Next]_vars => TypeInv'
    BY TypeOKStep, SemaCountsStep, StartedOnceStep DEF TypeInv
  <1> QED
    BY <1>1, InitTypeInv, PTL DEF Spec

\* The types are right in every reachable state: no worker frees a place of
\* the semaphore it does not hold, none is started beyond its capacity, and
\* the loop only ever hands real ids to the workers.
THEOREM TypeCorrect == Spec => []TypeOK
  BY TypeInvariant, PTL DEF TypeInv

-----------------------------------------------------------------------------
(* Mutual exclusion of Update and Drop.  OneAtATime is inductive: the flag *)
(* is set by whoever finds it clear, and only a critical call clears it.   *)

LEMMA OneAtATimeStep == TypeOK /\ OneAtATime /\ [Next]_vars => OneAtATime'
  <1> SUFFICES ASSUME TypeOK, OneAtATime, [Next]_vars PROVE OneAtATime'
    OBVIOUS
  <1> USE DEF TypeOK, OneAtATime, Status, Critical, UpdatePCs, DropPCs, callVars
  <1>1. ASSUME NEW c \in Calls, Request(c) PROVE OneAtATime'
    <2>1. CASE StartUpdate(c)
      BY <2>1 DEF StartUpdate, Acquire, SlotFree
    <2>2. CASE StartDrop(c)
      BY <2>2 DEF StartDrop, Acquire, SlotFree
    <2>3. CASE RejectBusy(c)
      BY <2>3 DEF RejectBusy
    <2>4. CASE StatsRows(c)
      BY <2>4 DEF StatsRows, SlotFree
    <2> QED
      BY <1>1, <2>1, <2>2, <2>3, <2>4 DEF Request
  <1>2. ASSUME NEW c \in Calls, CallStep(c) PROVE OneAtATime'
    <2>1. ASSUME NEW result, Release(c, result), Critical(c)
          PROVE OneAtATime'
      BY <2>1 DEF Release
    <2>2. CASE ReadIDs(c) \/ ReadLast(c) \/ LoopEnd(c) \/ SendTruncate(c)
      <3>1. /\ Critical(c)
            /\ \E next \in UpdatePCs \cup DropPCs : pc' = [pc EXCEPT ![c] = next]
            /\ UNCHANGED updating
        BY <2>2 DEF ReadIDs, ReadLast, LoopEnd, SendTruncate
      <3> QED
        BY <3>1
    <2>3. CASE AbortUpdate(c) \/ ReturnCancelled(c) \/ ReturnUpdate(c)
      BY <2>1, <2>3 DEF AbortUpdate, ReturnCancelled, Handover, ReturnUpdate
    <2>4. CASE Receive(c)
      BY <2>4 DEF Receive, Handover
    <2>5. CASE CollectorClose(c)
      BY <2>5 DEF CollectorClose
    <2>6. CASE StartWorker(c)
      BY <2>6 DEF StartWorker
    <2>7. CASE ReturnDrop(c) \/ DropFails(c) \/ DropAbandoned(c)
      BY <2>1, <2>7 DEF ReturnDrop, DropFails, DropAbandoned
    <2>8. CASE StatsReturn(c)
      BY <2>8 DEF StatsReturn
    <2> QED
      BY <1>2, <2>2, <2>3, <2>4, <2>5, <2>6, <2>7, <2>8 DEF CallStep
  <1>3. ASSUME NEW c \in Calls, NEW id \in IDs, WorkerStep(c, id)
        PROVE OneAtATime'
    BY <1>3 DEF WorkerStep, WorkerGot, WorkerNotFound, WorkerNormalised,
       SendAdd, WorkerFails, AddDone, AddFails, AddAbandoned
  <1>4. CASE Crash
    BY <1>4 DEF Crash
  <1>5. ASSUME NEW c \in Calls, NEW id \in IDs,
               ExecAdd(c, id) \/ DiscardAdd(c, id)
        PROVE OneAtATime'
    BY <1>5 DEF ExecAdd, DiscardAdd
  <1>6. ASSUME NEW c \in Calls,
               Cancel(c) \/ LoseConnection(c) \/ ExecTruncate(c) \/ DiscardTruncate(c)
        PROVE OneAtATime'
    BY <1>6 DEF Cancel, LoseConnection, ExecTruncate, DiscardTruncate
  <1>7. CASE Publish \/ UNCHANGED vars
    BY <1>7 DEF Publish, vars
  <1> QED
    BY <1>1, <1>2, <1>3, <1>4, <1>5, <1>6, <1>7 DEF Next

\* At most one Update or Drop is in progress, and the status is "running"
\* exactly while one is, whatever is cancelled, fails or crashes.
THEOREM MutualExclusion == Spec => []OneAtATime
  <1>1. Init => OneAtATime
    BY DEF Init, OneAtATime, Status, Critical, UpdatePCs, DropPCs
  <1> QED
    BY <1>1, OneAtATimeStep, TypeCorrect, PTL DEF Spec

-----------------------------------------------------------------------------
(* Workers outlive their Update only when its context is done.             *)

\* A call with workers is still in its loop or waits for them, unless its
\* context is done.
Attended ==
  \A c \in Calls :
    Active(c) = {} \/ cancelled[c] \/ pc[c] \in {"loop", "acquire", "wait"}

LEMMA AttendedStep == TypeInv /\ Attended /\ [Next]_vars => Attended'
  <1> SUFFICES ASSUME TypeInv, Attended, [Next]_vars PROVE Attended'
    OBVIOUS
  <1> USE DEF TypeInv, TypeOK, Attended, Active, callVars, workVars
  <1>1. ASSUME NEW c \in Calls, Request(c) PROVE Attended'
    <2>1. SlotFree(c) => Active(c) = {}
      BY DEF SlotFree
    <2>2. CASE StartUpdate(c) \/ StartDrop(c)
      <3>1. /\ UNCHANGED worker
            /\ SlotFree(c)
            /\ \E next : pc' = [pc EXCEPT ![c] = next]
            /\ cancelled' = [cancelled EXCEPT ![c] = FALSE]
        BY <2>2 DEF StartUpdate, StartDrop, Acquire
      <3> QED
        BY <2>1, <3>1
    <2>3. CASE RejectBusy(c)
      BY <2>3 DEF RejectBusy
    <2>4. CASE StatsRows(c)
      BY <2>1, <2>4 DEF StatsRows
    <2> QED
      BY <1>1, <2>2, <2>3, <2>4 DEF Request
  <1>2. ASSUME NEW c \in Calls, CallStep(c) PROVE Attended'
    <2>1. CASE ReadIDs(c)
      BY <2>1 DEF ReadIDs, StartedOnce
    <2>2. CASE ReadLast(c)
      BY <2>2 DEF ReadLast
    <2>3. CASE AbortUpdate(c)
      BY <2>3 DEF AbortUpdate, Release, StartedOnce
    <2>4. CASE Receive(c)
      BY <2>4 DEF Receive
    <2>5. CASE ReturnCancelled(c)
      BY <2>5 DEF ReturnCancelled, Release
    <2>6. CASE CollectorClose(c)
      BY <2>6 DEF CollectorClose
    <2>7. CASE StartWorker(c)
      BY <2>7 DEF StartWorker
    <2>8. CASE LoopEnd(c)
      BY <2>8 DEF LoopEnd
    <2>9. CASE ReturnUpdate(c)
      BY <2>9 DEF ReturnUpdate, Release
    <2>10. CASE SendTruncate(c)
      BY <2>10 DEF SendTruncate
    <2>11. CASE ReturnDrop(c) \/ DropFails(c) \/ DropAbandoned(c)
      <3>1. /\ pc[c] \in DropPCs
            /\ pc' = [pc EXCEPT ![c] = "idle"]
            /\ UNCHANGED <<worker, cancelled>>
        BY <2>11 DEF ReturnDrop, DropFails, DropAbandoned, Release, DropPCs
      <3> QED
        BY <3>1 DEF DropPCs
    <2>12. CASE StatsReturn(c)
      BY <2>12 DEF StatsReturn
    <2> QED
      BY <1>2, <2>1, <2>2, <2>3, <2>4, <2>5, <2>6, <2>7, <2>8, <2>9, <2>10,
         <2>11, <2>12 DEF CallStep
  <1>3. ASSUME NEW c \in Calls, NEW id \in IDs, WorkerStep(c, id)
        PROVE Attended'
    <2>1. UNCHANGED <<pc, cancelled>> /\ worker[c][id] # "none"
      BY <1>3 DEF WorkerStep, WorkerGot, WorkerNotFound, WorkerNormalised,
         SendAdd, WorkerFails, AddDone, AddFails, AddAbandoned
    <2>2. PICK state : worker' = [worker EXCEPT ![c][id] = state]
      BY <1>3 DEF WorkerStep, WorkerGot, WorkerNotFound, WorkerNormalised,
         SendAdd, WorkerFails, AddDone, AddFails, AddAbandoned, EndWorker, GiveUp
    <2> QED
      BY <2>1, <2>2
  <1>4. CASE Crash
    BY <1>4 DEF Crash
  <1>5. ASSUME NEW c \in Calls, NEW id \in IDs,
               ExecAdd(c, id) \/ DiscardAdd(c, id)
        PROVE Attended'
    BY <1>5 DEF ExecAdd, DiscardAdd
  <1>6. ASSUME NEW c \in Calls,
               Cancel(c) \/ LoseConnection(c) \/ ExecTruncate(c) \/ DiscardTruncate(c)
        PROVE Attended'
    <2>1. CASE Cancel(c)
      BY <2>1 DEF Cancel
    <2>2. CASE LoseConnection(c)
      BY <2>2 DEF LoseConnection
    <2>3. CASE ExecTruncate(c) \/ DiscardTruncate(c)
      BY <2>3 DEF ExecTruncate, DiscardTruncate
    <2> QED
      BY <1>6, <2>1, <2>2, <2>3
  <1>7. CASE Publish \/ UNCHANGED vars
    BY <1>7 DEF Publish, vars
  <1> QED
    BY <1>1, <1>2, <1>3, <1>4, <1>5, <1>6, <1>7 DEF Next

LEMMA AttendedInvariant == Spec => []Attended
  <1>1. Init => Attended
    BY DEF Init, Attended, Active
  <1> QED
    BY <1>1, AttendedStep, TypeInvariant, PTL DEF Spec

\* When Status answers idle, every worker still running belongs to a call
\* whose context is done.
THEOREM NoLiveWorkerWhenIdle == Spec => []IdleMeansNoLiveWorker
  <1>1. OneAtATime /\ Attended => IdleMeansNoLiveWorker
    BY DEF OneAtATime, Attended, IdleMeansNoLiveWorker, Status, Critical,
       UpdatePCs
  <1> QED
    BY <1>1, MutualExclusion, AttendedInvariant, PTL

\* The calls that still have a caller never run more than Concurrency
\* workers together: only one of them can have any.
THEOREM WorkersBounded == Spec => []LiveWorkersBounded
  <1>1. TypeInv /\ OneAtATime /\ Attended => LiveWorkersBounded
    <2> SUFFICES ASSUME TypeInv, OneAtATime, Attended PROVE LiveWorkersBounded
      OBVIOUS
    <2> DEFINE Live == {w \in Calls \X IDs :
                          w[2] \in Active(w[1]) /\ ~cancelled[w[1]]}
    <2>1. CASE Live = {}
      BY <2>1, FS_EmptySet, UpdateAssumption DEF LiveWorkersBounded
    <2>2. CASE Live # {}
      <3>1. PICK c \in Calls : Active(c) # {} /\ ~cancelled[c]
        BY <2>2
      <3>2. \A w \in Live : w[1] = c
        BY <3>1 DEF Attended, OneAtATime, Critical, UpdatePCs
      <3>3. Active(c) \subseteq IDs
        BY DEF Active
      <3>4. Live = {c} \X Active(c)
        BY <3>1, <3>2, <3>3
      <3>5. IsFiniteSet(Active(c)) /\ Cardinality(Active(c)) \in Nat
        BY <3>3, SubsetCardinality, TableAssumption
      <3>6. IsFiniteSet({c}) /\ Cardinality({c}) = 1
        BY FS_Singleton
      <3>7. Cardinality(Live) = Cardinality(Active(c))
        BY <3>4, <3>5, <3>6, FS_Product
      <3>8. Cardinality(Active(c)) <= Concurrency
        BY UpdateAssumption DEF TypeInv, TypeOK, SemaCounts
      <3> QED
        BY <3>7, <3>8 DEF LiveWorkersBounded
    <2> QED
      BY <2>1, <2>2
  <1> QED
    BY <1>1, TypeInvariant, MutualExclusion, AttendedInvariant, PTL

-----------------------------------------------------------------------------
(* Drop.  Between the execution of its TRUNCATE and the next Update only   *)
(* orphan INSERTs reach the table, since Drop holds the flag while it runs *)
(* and no Update runs after it.                                            *)

DropInv ==
  /\ cleared => \A c \in Calls : pc[c] \notin UpdatePCs
  /\ DropLeavesOnlyOrphans
  /\ \A c \in Calls : pc[c] = "dropSent" /\ ~truncating[c]
       => Stored(table) \subseteq orphanRows

\* A step that leaves the table, the flags of Drop and every pc alone, but
\* for moving one Update.
LEMMA DropInvFrame ==
  ASSUME TypeOK, DropInv, NEW c \in Calls, NEW next \in {"idle"} \cup UpdatePCs,
         pc[c] \in UpdatePCs, pc' = [pc EXCEPT ![c] = next],
         UNCHANGED <<table, cleared, orphanRows, truncating>>
  PROVE  DropInv'
  BY DEF TypeOK, DropInv, DropLeavesOnlyOrphans, Stored, UpdatePCs

LEMMA DropInvStep == TypeOK /\ OneAtATime /\ DropInv /\ [Next]_vars => DropInv'
  <1> SUFFICES ASSUME TypeOK, OneAtATime, DropInv, [Next]_vars PROVE DropInv'
    OBVIOUS
  <1>a. ASSUME UNCHANGED <<table, cleared, orphanRows, truncating, pc>>
        PROVE DropInv'
    BY <1>a DEF DropInv, DropLeavesOnlyOrphans, Stored
  <1> USE DEF TypeOK, callVars, histVars
  <1>1. ASSUME NEW c \in Calls, Request(c) PROVE DropInv'
    <2>1. CASE StartUpdate(c)
      BY <2>1 DEF StartUpdate, Acquire, DropInv, DropLeavesOnlyOrphans, Stored
    <2>2. CASE StartDrop(c)
      BY <2>2
      DEF StartDrop, Acquire, DropInv, DropLeavesOnlyOrphans, Stored, UpdatePCs
    <2>3. CASE RejectBusy(c)
      BY <1>a, <2>3 DEF RejectBusy
    <2>4. CASE StatsRows(c)
      BY <2>4 DEF StatsRows, DropInv, DropLeavesOnlyOrphans, Stored, UpdatePCs
    <2> QED
      BY <1>1, <2>1, <2>2, <2>3, <2>4 DEF Request
  <1>2. ASSUME NEW c \in Calls, CallStep(c) PROVE DropInv'
    <2>1. CASE ReadIDs(c)
      BY <2>1, DropInvFrame DEF ReadIDs, UpdatePCs
    <2>2. CASE ReadLast(c)
      <3>1. /\ pc[c] \in UpdatePCs /\ pc' = [pc EXCEPT ![c] = "loop"]
            /\ UNCHANGED <<table, cleared, orphanRows, truncating>>
        BY <2>2 DEF ReadLast, UpdatePCs
      <3> QED
        BY <3>1, DropInvFrame DEF UpdatePCs
    <2>3. CASE AbortUpdate(c)
      <3>1. /\ pc[c] \in UpdatePCs /\ pc' = [pc EXCEPT ![c] = "idle"]
            /\ UNCHANGED <<table, cleared, orphanRows, truncating>>
        BY <2>3 DEF AbortUpdate, Release, UpdatePCs
      <3> QED
        BY <3>1, DropInvFrame
    <2>4. CASE Receive(c)
      BY <2>4, DropInvFrame DEF Receive, Handover, UpdatePCs
    <2>5. CASE ReturnCancelled(c)
      BY <2>5, DropInvFrame DEF ReturnCancelled, Handover, Release, UpdatePCs
    <2>6. CASE CollectorClose(c)
      BY <1>a, <2>6 DEF CollectorClose
    <2>7. CASE StartWorker(c)
      BY <2>7, DropInvFrame DEF StartWorker, UpdatePCs
    <2>8. CASE LoopEnd(c)
      BY <2>8, DropInvFrame DEF LoopEnd, UpdatePCs
    <2>9. CASE ReturnUpdate(c)
      BY <2>9, DropInvFrame DEF ReturnUpdate, Release, UpdatePCs
    <2>10. CASE SendTruncate(c)
      BY <2>10
      DEF SendTruncate, DropInv, DropLeavesOnlyOrphans, Stored, UpdatePCs
    <2>11. CASE ReturnDrop(c)
      <3>1. \A d \in Calls : pc'[d] \notin UpdatePCs
        BY <2>11 DEF ReturnDrop, Release, OneAtATime, Critical, UpdatePCs,
           DropPCs
      <3>2. Stored(table) \subseteq orphanRows
        BY <2>11 DEF ReturnDrop, DropInv
      <3> QED
        BY <2>11, <3>1, <3>2
        DEF ReturnDrop, Release, DropInv, DropLeavesOnlyOrphans, Stored
    <2>12. CASE DropFails(c)
      BY <2>12
      DEF DropFails, Release, DropInv, DropLeavesOnlyOrphans, Stored, UpdatePCs
    <2>13. CASE DropAbandoned(c)
      BY <2>13
      DEF DropAbandoned, Release, DropInv, DropLeavesOnlyOrphans, Stored,
          UpdatePCs
    <2>14. CASE StatsReturn(c)
      BY <2>14
      DEF StatsReturn, DropInv, DropLeavesOnlyOrphans, Stored, UpdatePCs
    <2> QED
      BY <1>2, <2>1, <2>2, <2>3, <2>4, <2>5, <2>6, <2>7, <2>8, <2>9, <2>10,
         <2>11, <2>12, <2>13, <2>14 DEF CallStep
  <1>3. ASSUME NEW c \in Calls, NEW id \in IDs, WorkerStep(c, id) PROVE DropInv'
    BY <1>a, <1>3 DEF WorkerStep, WorkerGot, WorkerNotFound, WorkerNormalised,
       SendAdd, WorkerFails, AddDone, AddFails, AddAbandoned
  <1>4. CASE Crash
    BY <1>4 DEF Crash, DropInv, DropLeavesOnlyOrphans, Stored, UpdatePCs
  <1>5. ASSUME NEW c \in Calls, NEW id \in IDs, ExecAdd(c, id) PROVE DropInv'
    <2>1. /\ Stored(table)' \subseteq Stored(table) \cup {id}
          /\ UNCHANGED <<pc, truncating, cleared>>
      BY <1>5 DEF ExecAdd, Upsert, Stored, Table
    <2>2. CASE Owned(c, id)
      <3>1. pc[c] \in UpdatePCs
        BY <2>2 DEF Owned, UpdatePCs
      <3>2. \A d \in Calls : pc[d] # "dropSent"
        BY <3>1 DEF OneAtATime, Critical, UpdatePCs, DropPCs
      <3>3. ~cleared
        BY <3>1 DEF DropInv
      <3> QED
        BY <2>1, <3>2, <3>3 DEF DropInv, DropLeavesOnlyOrphans
    <2>3. CASE ~Owned(c, id)
      <3>1. orphanRows' = orphanRows \cup {id}
        BY <1>5, <2>3 DEF ExecAdd
      <3> QED
        BY <2>1, <3>1 DEF DropInv, DropLeavesOnlyOrphans
    <2> QED
      BY <2>2, <2>3
  <1>6. ASSUME NEW c \in Calls, ExecTruncate(c) PROVE DropInv'
    <2>1. Stored(table)' = {}
      BY <1>6 DEF ExecTruncate, Stored, Truncated
    <2> QED
      BY <1>6, <2>1 DEF ExecTruncate, DropInv, DropLeavesOnlyOrphans
  <1>7. ASSUME NEW c \in Calls, DiscardTruncate(c) PROVE DropInv'
    BY <1>7 DEF DiscardTruncate, DropInv, DropLeavesOnlyOrphans, Stored
  <1>8. ASSUME NEW c \in Calls, NEW id \in IDs, DiscardAdd(c, id)
        PROVE DropInv'
    BY <1>a, <1>8 DEF DiscardAdd
  <1>9. ASSUME NEW c \in Calls, Cancel(c) \/ LoseConnection(c) PROVE DropInv'
    BY <1>a, <1>9 DEF Cancel, LoseConnection
  <1>10. CASE Publish \/ UNCHANGED vars
    BY <1>a, <1>10 DEF Publish, vars
  <1> QED
    BY <1>1, <1>2, <1>3, <1>4, <1>5, <1>6, <1>7, <1>8, <1>9, <1>10 DEF Next

\* A row found after a successful Drop and before the next Update was written
\* by an INSERT nobody waits for any more.
THEOREM DropClears == Spec => []DropLeavesOnlyOrphans
  <1>1. Init => DropInv
    BY DEF Init, DropInv, DropLeavesOnlyOrphans
  <1>2. DropInv => DropLeavesOnlyOrphans
    BY DEF DropInv
  <1> QED
    BY <1>1, <1>2, DropInvStep, TypeCorrect, MutualExclusion, PTL DEF Spec

-----------------------------------------------------------------------------
(* Stats.  Nobody fetches or stores an id XKCD has not published, and XKCD *)
(* takes no comic back: what was counted is published when the last id is  *)
(* asked for.                                                              *)

PublishedOnly ==
  /\ \A id \in IDs : table[id] # Absent => id <= latest
  /\ \A c \in Calls, id \in IDs :
       /\ adding[c][id] # Absent => id <= latest
       /\ worker[c][id] # "none" => id <= latest
       /\ id \in todo[c] => id <= latest
  /\ \A c \in Calls : cur[c] <= latest
  /\ StatsCountPublished

LEMMA PublishedOnlyStep == TypeInv /\ PublishedOnly /\ [Next]_vars => PublishedOnly'
  <1> SUFFICES ASSUME TypeInv, PublishedOnly, [Next]_vars PROVE PublishedOnly'
    OBVIOUS
  <1> USE TableAssumption
      DEF TypeInv, TypeOK, PublishedOnly, StatsCountPublished, callVars,
          loopVars, workVars
  <1>1. ASSUME NEW c \in Calls, Request(c) PROVE PublishedOnly'
    <2>1. CASE StartUpdate(c)
      BY <2>1 DEF StartUpdate, Acquire
    <2>2. CASE StartDrop(c)
      BY <2>2 DEF StartDrop, Acquire
    <2>3. CASE RejectBusy(c)
      BY <2>3 DEF RejectBusy
    <2>4. CASE StatsRows(c)
      <3>1. Cardinality(Stored(table)) <= latest
        <4>1. latest \in Nat /\ Stored(table) \subseteq 1..latest
          BY DEF Stored, IDs
        <4>2. IsFiniteSet(1..latest) /\ Cardinality(1..latest) = latest
          BY <4>1, FS_Interval
        <4> QED
          BY ONLY <4>1, <4>2, FS_Subset
      <3> QED
        BY <2>4, <3>1 DEF StatsRows
    <2> QED
      BY <1>1, <2>1, <2>2, <2>3, <2>4 DEF Request
  <1>2. ASSUME NEW c \in Calls, CallStep(c) PROVE PublishedOnly'
    <2>1. CASE ReadIDs(c)
      BY <2>1 DEF ReadIDs
    <2>2. CASE ReadLast(c)
      <3>1. PICK last \in 0..latest : todo' = [todo EXCEPT ![c] = Missing(last, have[c])]
        BY <2>2 DEF ReadLast
      <3>2. \A id \in Missing(last, have[c]) : id <= latest
        BY DEF Missing, IDs
      <3> QED
        BY <2>2, <3>1, <3>2 DEF ReadLast
    <2>3. CASE AbortUpdate(c)
      BY <2>3 DEF AbortUpdate, Release
    <2>4. CASE Receive(c)
      BY <2>4 DEF Receive, Handover, IDs
    <2>5. CASE ReturnCancelled(c)
      BY <2>5 DEF ReturnCancelled, Handover, Release
    <2>6. CASE CollectorClose(c)
      BY <2>6 DEF CollectorClose
    <2>7. CASE StartWorker(c)
      BY <2>7 DEF StartWorker
    <2>8. CASE LoopEnd(c)
      BY <2>8 DEF LoopEnd
    <2>9. CASE ReturnUpdate(c)
      BY <2>9 DEF ReturnUpdate, Release
    <2>10. CASE SendTruncate(c)
      BY <2>10 DEF SendTruncate
    <2>11. CASE ReturnDrop(c)
      BY <2>11 DEF ReturnDrop, Release
    <2>12. CASE DropFails(c)
      BY <2>12 DEF DropFails, Release
    <2>13. CASE DropAbandoned(c)
      BY <2>13 DEF DropAbandoned, Release
    <2>14. CASE StatsReturn(c)
      BY <2>14 DEF StatsReturn
    <2> QED
      BY <1>2, <2>1, <2>2, <2>3, <2>4, <2>5, <2>6, <2>7, <2>8, <2>9, <2>10,
         <2>11, <2>12, <2>13, <2>14 DEF CallStep
  <1>3. ASSUME NEW c \in Calls, NEW id \in IDs, WorkerStep(c, id)
        PROVE  PublishedOnly'
    <2>1. CASE WorkerGot(c, id)
      BY <2>1 DEF WorkerGot
    <2>2. CASE WorkerNotFound(c, id)
      BY <2>2 DEF WorkerNotFound, SendAdd, Table
    <2>3. CASE WorkerNormalised(c, id)
      BY <2>3 DEF WorkerNormalised, SendAdd, Table
    <2>4. CASE WorkerFails(c, id)
      BY <2>4 DEF WorkerFails, EndWorker, GiveUp
    <2>5. CASE AddDone(c, id)
      BY <2>5 DEF AddDone, EndWorker
    <2>6. CASE AddFails(c, id)
      BY <2>6 DEF AddFails, EndWorker, GiveUp, Table
    <2>7. CASE AddAbandoned(c, id)
      BY <2>7 DEF AddAbandoned, EndWorker, GiveUp
    <2> QED
      BY <1>3, <2>1, <2>2, <2>3, <2>4, <2>5, <2>6, <2>7 DEF WorkerStep
  <1>4. ASSUME NEW c \in Calls, NEW id \in IDs, ExecAdd(c, id) \/ DiscardAdd(c, id)
        PROVE  PublishedOnly'
    <2>1. /\ adding[c][id] # Absent
          /\ adding' = [adding EXCEPT ![c][id] = Absent]
          /\ UNCHANGED <<latest, pc, worker, todo, cur, counted>>
      BY <1>4 DEF ExecAdd, DiscardAdd
    <2>2. \A i \in IDs : table'[i] # Absent => table[i] # Absent \/ i = id
      BY <1>4 DEF ExecAdd, DiscardAdd, Upsert, Table
    <2>3. \A d \in Calls, i \in IDs : adding'[d][i] # Absent => adding[d][i] # Absent
      BY <2>1 DEF Table
    <2> QED
      BY <2>1, <2>2, <2>3
  <1>5. ASSUME NEW c \in Calls, ExecTruncate(c) \/ DiscardTruncate(c)
        PROVE  PublishedOnly'
    BY <1>5 DEF ExecTruncate, DiscardTruncate, Truncated
  <1>6. ASSUME NEW c \in Calls, Cancel(c) \/ LoseConnection(c) PROVE PublishedOnly'
    BY <1>6 DEF Cancel, LoseConnection
  <1>7. CASE Publish
    <2>1. latest' = latest + 1 /\ latest \in Nat /\ \A id \in IDs : id \in Nat
      BY <1>7 DEF Publish, IDs
    <2> QED
      BY <1>7, <2>1 DEF Publish
  <1>8. CASE Crash
    BY <1>8 DEF Crash
  <1>9. CASE UNCHANGED vars
    BY <1>9 DEF vars
  <1> QED
    BY <1>1, <1>2, <1>3, <1>4, <1>5, <1>6, <1>7, <1>8, <1>9 DEF Next

\* Stats never counts more comics than XKCD has published when it asks for the
\* last id, however far the last ids lag that it and the Updates are told.
THEOREM StatsWithinPublished == Spec => []StatsCountPublished
  <1>1. Init => PublishedOnly
    BY DEF Init, PublishedOnly, StatsCountPublished, Truncated
  <1>2. PublishedOnly => StatsCountPublished
    BY DEF PublishedOnly
  <1> QED
    BY <1>1, <1>2, PublishedOnlyStep, TypeInvariant, PTL DEF Spec

-----------------------------------------------------------------------------
(* Placeholders.  An id an Update still has to store was not stored as a   *)
(* comic when the Update read the table, and nobody but an orphan has      *)
(* stored it since: Update and Drop exclude each other, and an Update has  *)
(* one worker for an id.                                                   *)

\* Update c has still to store id.
Pending(c, id) ==
  /\ pc[c] \in {"loop", "acquire", "wait"}
  /\ \/ id \in todo[c]
     \/ pc[c] = "acquire" /\ id = cur[c]
     \/ worker[c][id] \in {"get", "norm"}
     \/ worker[c][id] = "add" /\ adding[c][id] # Absent

NotYetStored ==
  \A c \in Calls, id \in IDs :
    \/ Pending(c, id)
    \/ pc[c] = "readLast" /\ id \notin have[c]
    => table[id] \notin Contents \/ id \in orphanRows

PlaceInv == TypeInv /\ OneAtATime /\ NotYetStored

\* The table and the orphans stay, and no call finds more to store.
LEMMA NothingMorePending ==
  ASSUME NotYetStored, UNCHANGED <<table, orphanRows>>,
         \A d \in Calls, i \in IDs :
           /\ Pending(d, i)' => Pending(d, i)
                                  \/ (pc[d] = "readLast" /\ i \notin have[d])
           /\ pc'[d] = "readLast" /\ i \notin have'[d]
                => \/ pc[d] = "readLast" /\ i \notin have[d]
                   \/ table[i] \notin Contents
  PROVE  NotYetStored'
  BY DEF NotYetStored

LEMMA NotYetStoredStep == PlaceInv /\ [Next]_vars => NotYetStored'
  <1> SUFFICES ASSUME TypeInv, OneAtATime, NotYetStored, [Next]_vars
               PROVE  NotYetStored'
    BY DEF PlaceInv
  <1> USE DEF TypeInv, TypeOK, callVars, loopVars, workVars, histVars
  <1>1. ASSUME NEW c \in Calls, Request(c) PROVE NotYetStored'
    BY <1>1, NothingMorePending
    DEF Request, StartUpdate, StartDrop, Acquire, RejectBusy, StatsRows, Pending
  <1>2. ASSUME NEW c \in Calls, CallStep(c) PROVE NotYetStored'
    <2>1. CASE ReadIDs(c)
      BY <2>1, NothingMorePending DEF ReadIDs, Pending, Fetched
    <2>2. CASE ReadLast(c)
      <3>1. \A d \in Calls, i \in IDs :
              Pending(d, i)' => Pending(d, i) \/ (pc[d] = "readLast" /\ i \notin have[d])
        BY <2>2 DEF ReadLast, Pending, Missing, StartedOnce, Active
      <3> QED
        BY <2>2, <3>1, NothingMorePending DEF ReadLast
    <2>3. CASE AbortUpdate(c)
      BY <2>3, NothingMorePending DEF AbortUpdate, Release, Pending
    <2>4. CASE Receive(c)
      BY <2>4, NothingMorePending DEF Receive, Handover, Pending
    <2>5. CASE ReturnCancelled(c)
      BY <2>5, NothingMorePending DEF ReturnCancelled, Handover, Release, Pending
    <2>6. CASE CollectorClose(c)
      BY <2>6, NothingMorePending DEF CollectorClose, Pending
    <2>7. CASE StartWorker(c)
      BY <2>7, NothingMorePending DEF StartWorker, Pending
    <2>8. CASE LoopEnd(c)
      BY <2>8, NothingMorePending DEF LoopEnd, Pending
    <2>9. CASE ReturnUpdate(c)
      BY <2>9, NothingMorePending DEF ReturnUpdate, Release, Pending
    <2>10. CASE SendTruncate(c)
      BY <2>10, NothingMorePending DEF SendTruncate, Pending
    <2>11. CASE ReturnDrop(c)
      BY <2>11, NothingMorePending DEF ReturnDrop, Release, Pending
    <2>12. CASE DropFails(c)
      BY <2>12, NothingMorePending DEF DropFails, Release, Pending
    <2>13. CASE DropAbandoned(c)
      BY <2>13, NothingMorePending DEF DropAbandoned, Release, Pending
    <2>14. CASE StatsReturn(c)
      BY <2>14, NothingMorePending DEF StatsReturn, Pending
    <2> QED
      BY <1>2, <2>1, <2>2, <2>3, <2>4, <2>5, <2>6, <2>7, <2>8, <2>9, <2>10,
         <2>11, <2>12, <2>13, <2>14 DEF CallStep
  <1>3. ASSUME NEW c \in Calls, NEW id \in IDs, WorkerStep(c, id)
        PROVE  NotYetStored'
    <2>1. CASE WorkerGot(c, id)
      BY <2>1, NothingMorePending DEF WorkerGot, Pending
    <2>2. ASSUME NEW row, SendAdd(c, id, row), worker[c][id] \in {"get", "norm"}
          PROVE  NotYetStored'
      BY <2>2, NothingMorePending DEF SendAdd, Pending
    <2>3. CASE WorkerNotFound(c, id) \/ WorkerNormalised(c, id)
      BY <2>2, <2>3 DEF WorkerNotFound, WorkerNormalised
    <2>4. CASE WorkerFails(c, id)
      BY <2>4, NothingMorePending DEF WorkerFails, EndWorker, GiveUp, Pending
    <2>5. CASE AddDone(c, id)
      BY <2>5, NothingMorePending DEF AddDone, EndWorker, Pending
    <2>6. CASE AddFails(c, id)
      BY <2>6, NothingMorePending DEF AddFails, EndWorker, GiveUp, Pending, Table
    <2>7. CASE AddAbandoned(c, id)
      BY <2>7, NothingMorePending DEF AddAbandoned, EndWorker, GiveUp, Pending
    <2> QED
      BY <1>3, <2>1, <2>3, <2>4, <2>5, <2>6, <2>7 DEF WorkerStep
  <1>4. ASSUME NEW c \in Calls, NEW id \in IDs, ExecAdd(c, id) PROVE NotYetStored'
    <2>1. /\ adding[c][id] # Absent /\ adding' = [adding EXCEPT ![c][id] = Absent]
          /\ UNCHANGED <<pc, todo, cur, worker, have>>
      BY <1>4 DEF ExecAdd
    <2>2. \A d \in Calls, i \in IDs : Pending(d, i)' => Pending(d, i)
      BY <2>1 DEF Pending, Table
    <2>3. \A i \in IDs \ {id} : table'[i] = table[i]
                                  /\ (i \in orphanRows => i \in orphanRows')
      BY <1>4 DEF ExecAdd, Upsert, Table
    <2>4. CASE Owned(c, id)
      <3>1. \A d \in Calls \ {c} : pc[d] \notin {"readLast", "loop", "acquire", "wait"}
        BY <2>4 DEF Owned, OneAtATime, Critical, UpdatePCs, DropPCs
      <3>2. worker[c][id] = "add" /\ pc[c] # "readLast"
        BY <2>4 DEF Owned
      <3>3. adding'[c][id] = Absent
        BY <2>1 DEF Table
      <3>4. id \notin todo[c] /\ (pc[c] = "acquire" => id # cur[c])
        BY <3>2 DEF StartedOnce
      <3>5. ~Pending(c, id)'
        BY <2>1, <3>2, <3>3, <3>4 DEF Pending
      <3>6. ASSUME NEW d \in Calls, NEW i \in IDs,
                   Pending(d, i)' \/ (pc'[d] = "readLast" /\ i \notin have'[d])
            PROVE  table'[i] \notin Contents \/ i \in orphanRows'
        <4>1. d = c /\ i # id
          BY <2>1, <3>1, <3>2, <3>5, <3>6 DEF Pending
        <4>2. Pending(d, i) \/ (pc[d] = "readLast" /\ i \notin have[d])
          BY <2>1, <2>2, <3>6
        <4> QED
          BY <2>3, <4>1, <4>2 DEF NotYetStored
      <3> QED
        BY <3>6 DEF NotYetStored
    <2>5. CASE ~Owned(c, id)
      <3>1. id \in orphanRows'
        BY <1>4, <2>5 DEF ExecAdd
      <3> QED
        BY <2>1, <2>2, <2>3, <3>1 DEF NotYetStored
    <2> QED
      BY <2>4, <2>5
  <1>5. ASSUME NEW c \in Calls, NEW id \in IDs, DiscardAdd(c, id) PROVE NotYetStored'
    BY <1>5, NothingMorePending DEF DiscardAdd, Pending, Table
  <1>6. ASSUME NEW c \in Calls, ExecTruncate(c) PROVE NotYetStored'
    BY <1>6, TableAssumption DEF ExecTruncate, Truncated, NotYetStored
  <1>7. ASSUME NEW c \in Calls, DiscardTruncate(c) \/ Cancel(c) \/ LoseConnection(c)
        PROVE  NotYetStored'
    BY <1>7, NothingMorePending DEF DiscardTruncate, Cancel, LoseConnection, Pending
  <1>8. CASE Publish \/ UNCHANGED vars
    BY <1>8, NothingMorePending DEF Publish, vars, Pending
  <1>9. CASE Crash
    BY <1>9, NothingMorePending DEF Crash, Pending
  <1> QED
    BY <1>1, <1>2, <1>3, <1>4, <1>5, <1>6, <1>7, <1>8, <1>9 DEF Next

LEMMA PlaceInvariant == Spec => []PlaceInv
  <1>1. Init => NotYetStored
    BY TableAssumption DEF Init, NotYetStored, Pending
  <1> QED
    BY <1>1, NotYetStoredStep, TypeInvariant, MutualExclusion, PTL DEF PlaceInv, Spec

\* A comic already stored is never replaced by the placeholder of a 404 that a
\* later Update met, unless an INSERT nobody waited for any more had a part in it.
THEOREM ComicsKept == Spec => ComicsNeverDowngraded
  <1> DEFINE Downgrade ==
        \A id \in IDs : table[id] \in Contents /\ table'[id] = Placeholder
                          => id \in orphanRows \cup orphanRows'
  <1>1. PlaceInv /\ [Next]_vars => Downgrade
    <2> SUFFICES ASSUME PlaceInv, [Next]_vars,
                        NEW id \in IDs, table[id] \in Contents, table'[id] = Placeholder
                 PROVE  id \in orphanRows \cup orphanRows'
      OBVIOUS
    <2>1. table' # table
      BY TableAssumption
    <2>2. PICK c \in Calls : ExecTruncate(c) \/ \E i \in IDs : ExecAdd(c, i)
      BY <2>1 DEF Next, Request, CallStep, WorkerStep, StartUpdate, StartDrop,
         RejectBusy, StatsRows, ReadIDs, ReadLast, AbortUpdate, Receive,
         ReturnCancelled, CollectorClose, StartWorker, LoopEnd, ReturnUpdate,
         SendTruncate, ReturnDrop, DropFails, DropAbandoned, StatsReturn,
         WorkerGot, WorkerNotFound, WorkerNormalised, SendAdd, WorkerFails,
         AddDone, AddFails, AddAbandoned, DiscardAdd, DiscardTruncate, Publish,
         Cancel, LoseConnection, Crash, vars
    <2>3. ~ExecTruncate(c)
      BY TableAssumption DEF ExecTruncate, Truncated
    <2>4. PICK i \in IDs : ExecAdd(c, i)
      BY <2>2, <2>3
    <2>5. i = id
      BY <2>4, TableAssumption DEF ExecAdd, Upsert, PlaceInv, TypeInv, TypeOK, Table
    <2>6. CASE Owned(c, id)
      BY <2>4, <2>5, <2>6 DEF ExecAdd, Owned, Pending, PlaceInv, NotYetStored
    <2>7. CASE ~Owned(c, id)
      BY <2>4, <2>5, <2>7 DEF ExecAdd
    <2> QED
      BY <2>6, <2>7
  <1>2. PlaceInv /\ [Next]_vars => [Downgrade]_vars
    BY <1>1
  <1>3. []PlaceInv /\ [][Next]_vars => [][Downgrade]_vars
    BY <1>2, PTL
  <1> QED
    BY <1>3, PlaceInvariant, PTL DEF Spec, ComicsNeverDowngraded

-----------------------------------------------------------------------------
(* Complete updates.  Each id up to the LastID an Update has read is       *)
(* stored, given up, or still to be stored, until the context is done or   *)
(* the TRUNCATE of an abandoned Drop comes in between.                     *)

Covered ==
  \A c \in Calls : ~lateTruncate =>
    /\ pc[c] = "readLast" => have[c] \subseteq Stored(table)
    /\ pc[c] \in {"loop", "acquire", "wait"} /\ ~cancelled[c] =>
         \A id \in 1..total[c] :
           Pending(c, id) \/ id \in Stored(table) \cup failed[c]

\* The collector closes its channel last, and the loop ends on a closed one.
SentBeforeClose ==
  \A c \in Calls :
    /\ ~open[c] => todo[c] = {}
    /\ pc[c] = "wait" => ~open[c]

LEMMA SentBeforeCloseStep == TypeOK /\ SentBeforeClose /\ [Next]_vars => SentBeforeClose'
  <1> SUFFICES ASSUME TypeOK, SentBeforeClose, [Next]_vars PROVE SentBeforeClose'
    OBVIOUS
  <1> USE DEF TypeOK, SentBeforeClose, callVars, loopVars, workVars, histVars
  <1>1. ASSUME NEW c \in Calls, Request(c) PROVE SentBeforeClose'
    BY <1>1 DEF Request, StartUpdate, StartDrop, Acquire, RejectBusy, StatsRows
  <1>2. ASSUME NEW c \in Calls, CallStep(c) PROVE SentBeforeClose'
    <2>1. CASE ReadIDs(c)
      BY <2>1 DEF ReadIDs
    <2>2. CASE ReadLast(c)
      BY <2>2 DEF ReadLast
    <2>3. CASE AbortUpdate(c)
      BY <2>3 DEF AbortUpdate, Release
    <2>4. CASE Receive(c)
      BY <2>4 DEF Receive, Handover
    <2>5. CASE ReturnCancelled(c)
      BY <2>5 DEF ReturnCancelled, Handover, Release
    <2>6. CASE CollectorClose(c)
      BY <2>6 DEF CollectorClose
    <2>7. CASE StartWorker(c)
      BY <2>7 DEF StartWorker
    <2>8. CASE LoopEnd(c)
      BY <2>8 DEF LoopEnd
    <2>9. CASE ReturnUpdate(c) \/ ReturnDrop(c) \/ DropFails(c) \/ DropAbandoned(c)
      BY <2>9 DEF ReturnUpdate, ReturnDrop, DropFails, DropAbandoned, Release
    <2>10. CASE SendTruncate(c) \/ StatsReturn(c)
      BY <2>10 DEF SendTruncate, StatsReturn
    <2> QED
      BY <1>2, <2>1, <2>2, <2>3, <2>4, <2>5, <2>6, <2>7, <2>8, <2>9, <2>10
      DEF CallStep
  <1>3. ASSUME NEW c \in Calls, NEW id \in IDs, WorkerStep(c, id)
        PROVE  SentBeforeClose'
    BY <1>3 DEF WorkerStep, WorkerGot, WorkerNotFound, WorkerNormalised, SendAdd,
       WorkerFails, AddDone, AddFails, AddAbandoned
  <1>4. ASSUME NEW c \in Calls, NEW id \in IDs, ExecAdd(c, id) \/ DiscardAdd(c, id)
        PROVE  SentBeforeClose'
    BY <1>4 DEF ExecAdd, DiscardAdd
  <1>5. ASSUME NEW c \in Calls, \/ ExecTruncate(c) \/ DiscardTruncate(c)
                                \/ Cancel(c) \/ LoseConnection(c)
        PROVE  SentBeforeClose'
    BY <1>5 DEF ExecTruncate, DiscardTruncate, Cancel, LoseConnection
  <1>6. CASE Publish \/ UNCHANGED vars
    BY <1>6 DEF Publish, vars
  <1>7. CASE Crash
    BY <1>7 DEF Crash
  <1> QED
    BY <1>1, <1>2, <1>3, <1>4, <1>5, <1>6, <1>7 DEF Next

\* The table and the flag stay, no call gets further by less than what it
\* still has to store.
LEMMA CoveredFrame ==
  ASSUME Covered, UNCHANGED <<table, lateTruncate>>,
         \A d \in Calls :
           /\ pc'[d] = "readLast" => pc[d] = "readLast" /\ have'[d] = have[d]
           /\ pc'[d] \in {"loop", "acquire", "wait"} /\ ~cancelled'[d] =>
                /\ pc[d] \in {"loop", "acquire", "wait"} /\ ~cancelled[d]
                /\ total'[d] = total[d] /\ failed[d] \subseteq failed'[d]
                /\ \A id \in 1..total[d] :
                     Pending(d, id) => Pending(d, id)' \/ id \in failed'[d]
  PROVE  Covered'
  BY DEF Covered

LEMMA CoveredStep ==
  TypeInv /\ OneAtATime /\ Covered /\ [Next]_vars => Covered'
  <1> SUFFICES ASSUME TypeInv, OneAtATime, Covered, [Next]_vars PROVE Covered'
    OBVIOUS
  <1> USE DEF TypeInv, TypeOK, callVars, loopVars, workVars, histVars
  <1>0. \A c \in Calls : \A id \in 1..total[c] : id \in IDs
    BY TableAssumption DEF IDs
  <1>1. ASSUME NEW c \in Calls, Request(c) PROVE Covered'
    <2>1. CASE StartUpdate(c)
      <3>1. \A d \in Calls : pc[d] \notin UpdatePCs
        BY <2>1 DEF StartUpdate, Acquire, OneAtATime, Critical, Status
      <3>2. \A d \in Calls : pc'[d] \notin {"readLast", "loop", "acquire", "wait"}
        BY <2>1, <3>1 DEF StartUpdate, Acquire, UpdatePCs
      <3> QED
        BY <3>2 DEF Covered
    <2>2. CASE StartDrop(c)
      BY <2>2, CoveredFrame DEF StartDrop, Acquire, Pending
    <2>3. CASE RejectBusy(c)
      BY <2>3, CoveredFrame DEF RejectBusy, Pending
    <2>4. CASE StatsRows(c)
      BY <2>4, CoveredFrame DEF StatsRows, Pending
    <2> QED
      BY <1>1, <2>1, <2>2, <2>3, <2>4 DEF Request
  <1>2. ASSUME NEW c \in Calls, CallStep(c) PROVE Covered'
    <2>1. CASE ReadIDs(c)
      <3>1. Fetched(table) \subseteq Stored(table)
        BY TableAssumption DEF Fetched, Stored
      <3>2. /\ pc' = [pc EXCEPT ![c] = "readLast"] /\ have'[c] = Fetched(table)
            /\ \A d \in Calls \ {c} : have'[d] = have[d]
            /\ UNCHANGED <<table, lateTruncate, cancelled, total, failed, todo,
                           cur, worker, adding>>
        BY <2>1 DEF ReadIDs
      <3>3. ASSUME NEW d \in Calls, d # c, NEW id \in IDs, Pending(d, id)
            PROVE  Pending(d, id)'
        <4>1. pc'[d] = pc[d] /\ todo' = todo /\ cur' = cur /\ worker' = worker
              /\ adding' = adding
          BY <3>2, <3>3
        <4> QED
          BY ONLY <3>3, <4>1 DEF Pending
      <3>4. Stored(table)' = Stored(table)
        BY <3>2 DEF Stored
      <3>5. pc'[c] = "readLast" /\ \A d \in Calls \ {c} : pc'[d] = pc[d]
        BY <3>2
      <3> QED
        BY <1>0, <3>1, <3>2, <3>3, <3>4, <3>5 DEF Covered
    <2>2. CASE ReadLast(c)
      <3>1. \A id \in 1..total'[c] : Pending(c, id)' \/ id \in have[c]
        BY <2>2, <1>0, TableAssumption DEF ReadLast, Missing, Pending, IDs
      <3>2. \A d \in Calls \ {c} : /\ pc'[d] = pc[d] /\ have'[d] = have[d]
                                   /\ total'[d] = total[d]
                                   /\ \A id \in IDs : Pending(d, id) => Pending(d, id)'
        BY <2>2 DEF ReadLast, Pending
      <3>3. /\ pc[c] = "readLast" /\ pc'[c] = "loop"
            /\ UNCHANGED <<table, lateTruncate, cancelled, failed>>
        BY <2>2 DEF ReadLast
      <3> QED
        BY <1>0, <3>1, <3>2, <3>3 DEF Covered, Stored
    <2>3. CASE AbortUpdate(c)
      BY <2>3, CoveredFrame DEF AbortUpdate, Release, Pending
    <2>4. CASE Receive(c)
      BY <2>4, <1>0, CoveredFrame DEF Receive, Handover, Pending
    <2>5. CASE ReturnCancelled(c)
      BY <2>5, <1>0, CoveredFrame DEF ReturnCancelled, Handover, Release, Pending
    <2>6. CASE CollectorClose(c)
      BY <2>6, <1>0, CoveredFrame DEF CollectorClose, Pending
    <2>7. CASE StartWorker(c)
      BY <2>7, <1>0, CoveredFrame DEF StartWorker, Pending, StartedOnce
    <2>8. CASE LoopEnd(c)
      BY <2>8, CoveredFrame DEF LoopEnd, Pending
    <2>9. CASE ReturnUpdate(c)
      BY <2>9, CoveredFrame DEF ReturnUpdate, Release, Pending
    <2>10. CASE SendTruncate(c)
      BY <2>10, CoveredFrame DEF SendTruncate, Pending
    <2>11. CASE ReturnDrop(c)
      BY <2>11, CoveredFrame DEF ReturnDrop, Release, Pending
    <2>12. CASE DropFails(c)
      BY <2>12, CoveredFrame DEF DropFails, Release, Pending
    <2>13. CASE DropAbandoned(c)
      BY <2>13, CoveredFrame DEF DropAbandoned, Release, Pending
    <2>14. CASE StatsReturn(c)
      BY <2>14, CoveredFrame DEF StatsReturn, Pending
    <2> QED
      BY <1>2, <2>1, <2>2, <2>3, <2>4, <2>5, <2>6, <2>7, <2>8, <2>9, <2>10,
         <2>11, <2>12, <2>13, <2>14 DEF CallStep
  <1>3. ASSUME NEW c \in Calls, NEW id \in IDs, WorkerStep(c, id)
        PROVE  Covered'
    <2>1. CASE WorkerGot(c, id)
      BY <2>1, <1>0, CoveredFrame DEF WorkerGot, Pending
    <2>2. ASSUME NEW row \in Row, row # Absent, SendAdd(c, id, row)
          PROVE  Covered'
      BY <2>2, <1>0, CoveredFrame DEF SendAdd, Pending, Table
    <2>3. CASE WorkerNotFound(c, id) \/ WorkerNormalised(c, id)
      BY <2>2, <2>3, TableAssumption DEF WorkerNotFound, WorkerNormalised, Row
    <2>4. CASE WorkerFails(c, id)
      BY <2>4, <1>0, CoveredFrame DEF WorkerFails, EndWorker, GiveUp, Pending
    <2>5. CASE AddDone(c, id)
      BY <2>5, <1>0, CoveredFrame DEF AddDone, EndWorker, Pending
    <2>6. CASE AddFails(c, id)
      BY <2>6, <1>0, CoveredFrame DEF AddFails, EndWorker, GiveUp, Pending, Table
    <2>7. CASE AddAbandoned(c, id)
      BY <2>7, <1>0, CoveredFrame DEF AddAbandoned, EndWorker, GiveUp, Pending
    <2> QED
      BY <1>3, <2>1, <2>3, <2>4, <2>5, <2>6, <2>7 DEF WorkerStep
  <1>4. ASSUME NEW c \in Calls, NEW id \in IDs, ExecAdd(c, id) PROVE Covered'
    <2>1. /\ adding[c][id] # Absent
          /\ adding' = [adding EXCEPT ![c][id] = Absent]
          /\ UNCHANGED <<pc, cancelled, have, total, failed, todo, cur, worker,
                         lateTruncate>>
      BY <1>4 DEF ExecAdd
    <2>2. Stored(table)' = Stored(table) \cup {id}
      BY <1>4 DEF ExecAdd, Upsert, Table, Stored
    <2>3. \A d \in Calls, i \in IDs : Pending(d, i) => Pending(d, i)' \/ i = id
      BY <2>1 DEF Pending, Table
    <2> QED
      BY <1>0, <2>1, <2>2, <2>3 DEF Covered
  <1>5. ASSUME NEW c \in Calls, NEW id \in IDs, DiscardAdd(c, id) PROVE Covered'
    BY <1>5, <1>0, CoveredFrame DEF DiscardAdd, Pending, Table
  <1>6. ASSUME NEW c \in Calls, ExecTruncate(c) PROVE Covered'
    <2>1. CASE pc[c] = "dropSent"
      <3>1. \A d \in Calls : pc[d] \notin UpdatePCs
        BY <2>1 DEF OneAtATime, Critical, UpdatePCs, DropPCs
      <3> QED
        BY <1>6, <3>1 DEF ExecTruncate, Covered, UpdatePCs
    <2>2. CASE pc[c] # "dropSent"
      BY <1>6, <2>2 DEF ExecTruncate, Covered
    <2> QED
      BY <2>1, <2>2
  <1>7. ASSUME NEW c \in Calls, DiscardTruncate(c) \/ Cancel(c) \/ LoseConnection(c) PROVE Covered'
    BY <1>7, CoveredFrame DEF DiscardTruncate, Cancel, LoseConnection, Pending
  <1>8. CASE Publish \/ UNCHANGED vars
    BY <1>8, CoveredFrame DEF Publish, vars, Pending
  <1>9. CASE Crash
    BY <1>9, CoveredFrame DEF Crash, Pending
  <1> QED
    BY <1>1, <1>2, <1>3, <1>4, <1>5, <1>6, <1>7, <1>8, <1>9 DEF Next

\* An Update that returns nil to a caller still waiting leaves no hole up to
\* the LastID it has read, but for the ids a worker gave up.
THEOREM UpdatesComplete == Spec => UpdateReturnsComplete
  <1> DEFINE CompleteInv == TypeInv /\ Covered /\ SentBeforeClose
             Complete ==
               \A c \in Calls :
                 pc[c] = "wait" /\ pc'[c] = "idle" /\ reply'[c] = "ok"
                   /\ ~cancelled[c] /\ ~lateTruncate
                   => 1..total[c] \subseteq Stored(table) \cup failed[c]
  <1>1. Init => Covered /\ SentBeforeClose
    BY DEF Init, Covered, SentBeforeClose
  <1>2. CompleteInv /\ [Next]_vars => Complete
    <2> SUFFICES ASSUME CompleteInv, [Next]_vars, NEW c \in Calls,
                        pc[c] = "wait", pc'[c] = "idle", reply'[c] = "ok",
                        ~cancelled[c], ~lateTruncate
                 PROVE  1..total[c] \subseteq Stored(table) \cup failed[c]
      OBVIOUS
    <2>1. Active(c) = {}
      <3>1. ~Crash
        BY DEF Crash
      <3>2. pc' # pc
        OBVIOUS
      <3>3. PICK d \in Calls : Request(d) \/ CallStep(d)
        BY <3>1, <3>2 DEF Next, WorkerStep, WorkerGot, WorkerNotFound,
           WorkerNormalised, SendAdd, WorkerFails, AddDone, AddFails,
           AddAbandoned, ExecAdd, DiscardAdd, ExecTruncate, DiscardTruncate,
           Publish, Cancel, LoseConnection, vars, callVars
      <3>4. d = c
        BY <3>3 DEF Request, CallStep, StartUpdate, StartDrop, Acquire,
           RejectBusy, StatsRows, ReadIDs, ReadLast, AbortUpdate, Receive,
           ReturnCancelled, CollectorClose, StartWorker, LoopEnd, ReturnUpdate,
           SendTruncate, ReturnDrop, DropFails, DropAbandoned, StatsReturn,
           Release, TypeInv, TypeOK, callVars
      <3>5. ReturnUpdate(c)
        BY <3>3, <3>4 DEF Request, CallStep, StartUpdate, StartDrop, Acquire,
           SlotFree, RejectBusy, StatsRows, ReadIDs, ReadLast, AbortUpdate,
           Receive, ReturnCancelled, Handover, CollectorClose, StartWorker,
           LoopEnd, SendTruncate, ReturnDrop, DropFails, DropAbandoned,
           StatsReturn, callVars
      <3> QED
        BY <3>5 DEF ReturnUpdate
    <2>2. \A id \in IDs : ~Pending(c, id)
      BY <2>1 DEF Pending, SentBeforeClose, Active
    <2>3. \A id \in 1..total[c] : id \in IDs
      BY TableAssumption DEF TypeInv, TypeOK, IDs
    <2> QED
      BY <2>2, <2>3 DEF Covered
  <1>3. CompleteInv /\ [Next]_vars => [Complete]_vars
    BY <1>2
  <1>4. []CompleteInv /\ [][Next]_vars => [][Complete]_vars
    BY <1>3, PTL
  <1>5. Spec => []CompleteInv
    <2>1. TypeInv => TypeOK
      BY DEF TypeInv
    <2> QED
      BY <1>1, <2>1, CoveredStep, SentBeforeCloseStep, TypeInvariant,
         MutualExclusion, PTL DEF Spec
  <1> QED
    BY <1>4, <1>5, PTL DEF Spec, UpdateReturnsComplete

-----------------------------------------------------------------------------
(* The safety half of GoroutinesDrain, which itself needs fairness and is  *)
(* model-checked: no call ever waits for somebody who is not there, and    *)
(* the work of a call only shrinks.                                        *)

\* Whom the collector of a call can still count on: its handler, or the end of
\* its context.  Before LastID is known there is no collector yet.
CollectorAttended ==
  \A c \in Calls :
    /\ open[c] => cancelled[c] \/ pc[c] \in {"loop", "acquire"}
    /\ pc[c] \in {"readIDs", "readLast"} => ~open[c]

LEMMA CollectorAttendedStep ==
  TypeOK /\ CollectorAttended /\ [Next]_vars => CollectorAttended'
  <1> SUFFICES ASSUME TypeOK, CollectorAttended, [Next]_vars
               PROVE  CollectorAttended'
    OBVIOUS
  <1> USE DEF TypeOK, CollectorAttended, callVars, loopVars, workVars, histVars
  <1>1. ASSUME NEW c \in Calls, Request(c) PROVE CollectorAttended'
    BY <1>1 DEF Request, StartUpdate, StartDrop, Acquire, RejectBusy, StatsRows,
       SlotFree
  <1>2. ASSUME NEW c \in Calls, CallStep(c) PROVE CollectorAttended'
    <2>1. CASE ReadIDs(c)
      BY <2>1 DEF ReadIDs
    <2>2. CASE ReadLast(c)
      BY <2>2 DEF ReadLast
    <2>3. CASE AbortUpdate(c)
      BY <2>3 DEF AbortUpdate, Release
    <2>4. CASE Receive(c)
      BY <2>4 DEF Receive
    <2>5. CASE ReturnCancelled(c)
      BY <2>5 DEF ReturnCancelled, Release
    <2>6. CASE CollectorClose(c)
      BY <2>6 DEF CollectorClose
    <2>7. CASE StartWorker(c)
      BY <2>7 DEF StartWorker
    <2>8. CASE LoopEnd(c)
      BY <2>8 DEF LoopEnd
    <2>9. CASE ReturnUpdate(c) \/ ReturnDrop(c) \/ DropFails(c) \/ DropAbandoned(c)
      <3>1. /\ pc[c] \in {"wait", "drop", "dropSent"}
            /\ pc' = [pc EXCEPT ![c] = "idle"]
            /\ open' = open /\ cancelled' = cancelled
        BY <2>9 DEF ReturnUpdate, ReturnDrop, DropFails, DropAbandoned, Release
      <3> QED
        BY <3>1
    <2>10. CASE SendTruncate(c)
      BY <2>10 DEF SendTruncate
    <2>11. CASE StatsReturn(c)
      BY <2>11 DEF StatsReturn
    <2> QED
      BY <1>2, <2>1, <2>2, <2>3, <2>4, <2>5, <2>6, <2>7, <2>8, <2>9, <2>10,
         <2>11 DEF CallStep
  <1>3. ASSUME NEW c \in Calls, NEW id \in IDs, WorkerStep(c, id)
        PROVE  CollectorAttended'
    BY <1>3 DEF WorkerStep, WorkerGot, WorkerNotFound, WorkerNormalised, SendAdd,
       WorkerFails, AddDone, AddFails, AddAbandoned
  <1>4. ASSUME NEW c \in Calls, NEW id \in IDs, ExecAdd(c, id) \/ DiscardAdd(c, id)
        PROVE  CollectorAttended'
    BY <1>4 DEF ExecAdd, DiscardAdd
  <1>5. ASSUME NEW c \in Calls, \/ ExecTruncate(c) \/ DiscardTruncate(c)
                                \/ Cancel(c) \/ LoseConnection(c)
        PROVE  CollectorAttended'
    BY <1>5 DEF ExecTruncate, DiscardTruncate, Cancel, LoseConnection
  <1>6. CASE Publish \/ UNCHANGED vars
    BY <1>6 DEF Publish, vars
  <1>7. CASE Crash
    BY <1>7 DEF Crash
  <1> QED
    BY <1>1, <1>2, <1>3, <1>4, <1>5, <1>6, <1>7 DEF Next

LEMMA CollectorInvariant == Spec => []CollectorAttended
  <1>1. Init => CollectorAttended
    BY DEF Init, CollectorAttended
  <1>2. TypeInv => TypeOK
    BY DEF TypeInv
  <1> QED
    BY <1>1, <1>2, CollectorAttendedStep, TypeInvariant, PTL DEF Spec

\* Somebody has a step to take for call c: its handler has a remote call that
\* returns, an id to receive or a closed channel to leave, a free place or
\* nobody to wait for; its collector has sent everything or has a done
\* context; a worker runs; or the server has a statement of it to finish.
SomebodyMoves(c) ==
  \/ pc[c] \in {"readIDs", "readLast", "statsLast", "drop", "dropSent"}
  \/ pc[c] = "loop" /\ (~open[c] \/ todo[c] # {})
  \/ pc[c] = "acquire" /\ sema[c] < Concurrency
  \/ pc[c] = "wait" /\ Active(c) = {}
  \/ open[c] /\ (todo[c] = {} \/ cancelled[c])
  \/ Active(c) # {}
  \/ adding[c] # Truncated
  \/ truncating[c]

\* No part of a call that has not ended waits for somebody who is gone.
NothingBlocks ==
  \A c \in Calls :
    /\ ~SlotFree(c) => SomebodyMoves(c)
    /\ open[c] => cancelled[c] \/ pc[c] \in {"loop", "acquire"}
    /\ pc[c] = "acquire" => sema[c] < Concurrency \/ Active(c) # {}

\* Whatever the callers, XKCD and the server do, a call that has not ended has
\* a step to take: a collector blocked on its channel has a handler that
\* receives or a context that is done, and a full semaphore has workers that
\* empty it.
THEOREM NobodyBlocks == Spec => []NothingBlocks
  <1>1. TypeInv /\ CollectorAttended => NothingBlocks
    <2> SUFFICES ASSUME TypeInv, CollectorAttended, NEW c \in Calls
                 PROVE  /\ ~SlotFree(c) => SomebodyMoves(c)
                        /\ open[c] => cancelled[c] \/ pc[c] \in {"loop", "acquire"}
                        /\ pc[c] = "acquire" =>
                             sema[c] < Concurrency \/ Active(c) # {}
      BY DEF NothingBlocks
    <2>1. open[c] => cancelled[c] \/ pc[c] \in {"loop", "acquire"}
      BY DEF CollectorAttended
    <2>2. sema[c] < Concurrency \/ Active(c) # {}
      <3>1. sema[c] \in 0..Concurrency /\ sema[c] = Cardinality(Active(c))
        BY DEF TypeInv, TypeOK, SemaCounts
      <3>2. Active(c) = {} => sema[c] = 0
        BY <3>1, FS_EmptySet
      <3> QED
        BY <3>1, <3>2, UpdateAssumption
    <2>3. pc[c] \in {"idle", "statsLast"} \cup UpdatePCs \cup DropPCs
      BY DEF TypeInv, TypeOK
    <2>4. ~SlotFree(c) => SomebodyMoves(c)
      BY <2>1, <2>2, <2>3 DEF SlotFree, SomebodyMoves, UpdatePCs, DropPCs
    <2> QED
      BY <2>1, <2>2, <2>4
  <1> QED
    BY <1>1, TypeInvariant, CollectorInvariant, PTL

\* How far an id is from the end of its way through call c: to be sent, sent,
\* fetched, normalised, stored.
StagesLeft(c, id) ==
  IF id \in todo[c] THEN 5
  ELSE IF pc[c] = "acquire" /\ id = cur[c] THEN 4
  ELSE CASE worker[c][id] = "get"  -> 3
         [] worker[c][id] = "norm" -> 2
         [] worker[c][id] = "add"  -> 1
         [] OTHER                  -> 0

\* An id never goes back to an earlier stage, and each step of its worker takes
\* it to a later one.
IdsMoveOn ==
  \A c \in Calls, id \in IDs :
    /\ \/ StagesLeft(c, id)' <= StagesLeft(c, id)
       \/ pc[c] = "readLast" /\ StagesLeft(c, id) = 0
    /\ WorkerStep(c, id) => StagesLeft(c, id)' < StagesLeft(c, id)

LEMMA StagesFall ==
  ASSUME NEW c \in Calls, NEW id \in IDs,
         id \in todo'[c] => id \in todo[c],
         pc'[c] = "acquire" /\ id = cur'[c] =>
           id \in todo[c] \/ (pc[c] = "acquire" /\ id = cur[c]),
         \/ worker'[c][id] \in {worker[c][id], "none"}
         \/ worker'[c][id] = "get" /\ pc[c] = "acquire" /\ id = cur[c]
         \/ worker'[c][id] = "norm" /\ worker[c][id] = "get"
         \/ worker'[c][id] = "add" /\ worker[c][id] \in {"get", "norm"}
  PROVE  StagesLeft(c, id)' <= StagesLeft(c, id)
  BY DEF StagesLeft

\* The step of a worker: its id moves on, and nothing else does.
LEMMA WorkerMoves ==
  ASSUME TypeInv, NEW c \in Calls, NEW id \in IDs, WorkerStep(c, id)
  PROVE  /\ UNCHANGED <<todo, pc, cur>>
         /\ StagesLeft(c, id)' < StagesLeft(c, id)
         /\ \A d \in Calls, other \in IDs :
              <<d, other>> # <<c, id>> => worker'[d][other] = worker[d][other]
  <1> USE DEF TypeInv, TypeOK
  <1>1. UNCHANGED <<todo, pc, cur>>
    BY DEF WorkerStep, WorkerGot, WorkerNotFound, WorkerNormalised, SendAdd,
       WorkerFails, AddDone, AddFails, AddAbandoned, callVars, loopVars
  <1>2. PICK state :
          /\ worker' = [worker EXCEPT ![c][id] = state]
          /\ \/ worker[c][id] = "get" /\ state \in {"norm", "add", "none"}
             \/ worker[c][id] = "norm" /\ state \in {"add", "none"}
             \/ worker[c][id] = "add" /\ state = "none"
    BY DEF WorkerStep, WorkerGot, WorkerNotFound, WorkerNormalised, SendAdd,
       WorkerFails, AddDone, AddFails, AddAbandoned, EndWorker, GiveUp
  <1>3. id \notin todo[c] /\ ~(pc[c] = "acquire" /\ id = cur[c])
    BY <1>2 DEF StartedOnce
  <1>4. worker'[c][id] = state
    BY <1>2
  <1>5. StagesLeft(c, id)' < StagesLeft(c, id)
    BY <1>1, <1>2, <1>3, <1>4 DEF StagesLeft
  <1> QED
    BY <1>1, <1>2, <1>5

\* An Update sends, fetches, normalises and stores an id at most once: an id
\* gets work to do only when its call reads LastID and had none left, and then
\* only moves on, by every step of its worker.
THEOREM IdsOnlyMoveOn == Spec => [][IdsMoveOn]_vars
  <1> DEFINE MovesInv == TypeInv /\ SentBeforeClose /\ CollectorAttended
  <1>1. ASSUME MovesInv, Next PROVE IdsMoveOn
    <2> SUFFICES ASSUME NEW c \in Calls, NEW id \in IDs
                 PROVE  \/ StagesLeft(c, id)' <= StagesLeft(c, id)
                        \/ pc[c] = "readLast" /\ StagesLeft(c, id) = 0
      BY <1>1, WorkerMoves DEF IdsMoveOn
    <2> USE <1>1 DEF TypeInv, TypeOK, callVars, loopVars, workVars
    <2>1. ASSUME NEW d \in Calls, Request(d)
          PROVE  StagesLeft(c, id)' <= StagesLeft(c, id)
      <3>1. /\ UNCHANGED <<todo, cur, worker>>
            /\ pc'[c] = "acquire" => pc[c] = "acquire"
        BY <2>1 DEF Request, StartUpdate, StartDrop, Acquire, RejectBusy,
           StatsRows
      <3> QED
        BY <3>1, StagesFall
    <2>2. ASSUME NEW d \in Calls, CallStep(d)
          PROVE  \/ StagesLeft(c, id)' <= StagesLeft(c, id)
                 \/ pc[c] = "readLast" /\ StagesLeft(c, id) = 0
      <3>1. CASE ReadLast(d)
        <4>1. CASE c = d
          <5>1. todo[c] = {} /\ worker[c][id] = "none" /\ pc[c] = "readLast"
            BY <3>1, <4>1
            DEF ReadLast, SentBeforeClose, CollectorAttended, StartedOnce, Active
          <5> QED
            BY <5>1 DEF StagesLeft
        <4>2. CASE c # d
          BY <3>1, <4>2, StagesFall DEF ReadLast
        <4> QED
          BY <4>1, <4>2
      <3>2. CASE Receive(d)
        <4>1. PICK i \in IDs :
                /\ i \in todo[d] /\ todo' = [todo EXCEPT ![d] = @ \ {i}]
                /\ pc[d] = "loop" /\ pc' = [pc EXCEPT ![d] = "acquire"]
                /\ cur' = [cur EXCEPT ![d] = i] /\ worker' = worker
          BY <3>2 DEF Receive, Handover
        <4>2. /\ id \in todo'[c] => id \in todo[c]
              /\ pc'[c] = "acquire" /\ id = cur'[c] =>
                   id \in todo[c] \/ (pc[c] = "acquire" /\ id = cur[c])
          BY <4>1
        <4> QED
          BY <4>1, <4>2, StagesFall
      <3>3. CASE ReturnCancelled(d)
        BY <3>3, StagesFall DEF ReturnCancelled, Handover, Release
      <3>4. CASE CollectorClose(d)
        BY <3>4, StagesFall DEF CollectorClose
      <3>5. CASE StartWorker(d)
        BY <3>5, StagesFall DEF StartWorker
      <3>6. CASE \/ ReadIDs(d) \/ AbortUpdate(d) \/ LoopEnd(d) \/ ReturnUpdate(d)
                 \/ SendTruncate(d) \/ ReturnDrop(d) \/ DropFails(d)
                 \/ DropAbandoned(d) \/ StatsReturn(d)
        <4>1. /\ UNCHANGED <<todo, cur, worker>>
              /\ pc'[c] = "acquire" => pc[c] = "acquire"
          BY <3>6 DEF ReadIDs, AbortUpdate, LoopEnd, ReturnUpdate,
             SendTruncate, ReturnDrop, DropFails, DropAbandoned, StatsReturn,
             Release
        <4> QED
          BY <4>1, StagesFall
      <3> QED
        BY <2>2, <3>1, <3>2, <3>3, <3>4, <3>5, <3>6 DEF CallStep
    <2>3. ASSUME NEW d \in Calls, NEW other \in IDs, WorkerStep(d, other)
          PROVE  StagesLeft(c, id)' <= StagesLeft(c, id)
      <3>1. CASE <<c, id>> = <<d, other>>
        <4>1. StagesLeft(c, id)' < StagesLeft(c, id)
          BY <2>3, <3>1, WorkerMoves
        <4> QED
          BY <4>1 DEF StagesLeft
      <3>2. CASE <<c, id>> # <<d, other>>
        <4>1. UNCHANGED <<todo, pc, cur>> /\ worker'[c][id] = worker[c][id]
          BY <2>3, <3>2, WorkerMoves
        <4> QED
          BY <4>1, StagesFall
      <3> QED
        BY <3>1, <3>2
    <2>4. CASE Crash
      BY <2>4, StagesFall DEF Crash
    <2>5. CASE \/ \E d \in Calls, i \in IDs : ExecAdd(d, i) \/ DiscardAdd(d, i)
               \/ \E d \in Calls : Cancel(d) \/ LoseConnection(d) \/ ExecTruncate(d)
                                       \/ DiscardTruncate(d)
               \/ Publish
      <3>1. UNCHANGED <<todo, cur, worker, pc>>
        BY <2>5 DEF ExecAdd, DiscardAdd, Cancel, LoseConnection, ExecTruncate, DiscardTruncate,
           Publish
      <3> QED
        BY <3>1, StagesFall
    <2> QED
      BY <2>1, <2>2, <2>3, <2>4, <2>5 DEF Next
  <1>2. MovesInv /\ [Next]_vars => [IdsMoveOn]_vars
    BY <1>1
  <1>3. []MovesInv /\ [][Next]_vars => [][IdsMoveOn]_vars
    BY <1>2, PTL
  <1>4. Spec => []MovesInv
    <2>1. Init => SentBeforeClose
      BY DEF Init, SentBeforeClose
    <2>2. TypeInv => TypeOK
      BY DEF TypeInv
    <2> QED
      BY <2>1, <2>2, SentBeforeCloseStep, TypeInvariant, CollectorInvariant, PTL
      DEF Spec
  <1> QED
    BY <1>3, <1>4, PTL DEF Spec
=============================================================================
