-------------------------- MODULE UpdateStoreProofs --------------------------
(***************************************************************************)
(* UpdateService implements ComicsStore, for every number of slots and     *)
(* ids, every Concurrency and every set of contents.                       *)
(***************************************************************************)
EXTENDS UpdateImplementsStore, UpdateServiceProofs

-----------------------------------------------------------------------------
(* What a call owns.                                                       *)

\* Call c has still to send its INSERT for id, if it sends one.
NotSent(c, id) ==
  \/ pc[c] \in {"readIDs", "readLast"}
  \/ id \in todo[c]
  \/ pc[c] = "acquire" /\ id = cur[c]
  \/ worker[c][id] \in {"get", "norm"}

\* A TRUNCATE on its way belongs to a Drop that waits for it or is over, and
\* no INSERT of an Update is on its way before the Update has sent it: what
\* the last call of the slot had left behind was over when this one began.  Nor
\* does a call begin with its connections broken.
StatementsOwned ==
  /\ \A c \in Calls : truncating[c] => pc[c] \in {"idle", "dropSent"}
  /\ \A c \in Calls, id \in IDs :
       pc[c] \in UpdatePCs /\ NotSent(c, id) => adding[c][id] = Absent
  /\ \A c \in Calls : lost[c] => Critical(c)

LEMMA StatementsOwnedStep ==
  TypeInv /\ StatementsOwned /\ [Next]_vars => StatementsOwned'
  <1> SUFFICES ASSUME TypeInv, StatementsOwned, [Next]_vars PROVE StatementsOwned'
    OBVIOUS
  <1> USE DEF TypeInv, TypeOK, StatementsOwned, NotSent, Critical, UpdatePCs, DropPCs,
              callVars, workVars, loopVars
  <1>1. ASSUME NEW c \in Calls, Request(c) PROVE StatementsOwned'
    <2>1. SlotFree(c) => /\ pc[c] = "idle" /\ ~truncating[c]
                         /\ \A id \in IDs : adding[c][id] = Absent
      BY DEF SlotFree, Truncated
    <2>2. CASE StartUpdate(c)
      <3>1. /\ ~truncating[c]
            /\ \A id \in IDs : adding[c][id] = Absent
            /\ \A d \in Calls : pc'[d] = IF d = c THEN "readIDs" ELSE pc[d]
            /\ UNCHANGED <<todo, cur, worker, adding, truncating, lost>>
        BY <2>1, <2>2 DEF StartUpdate, Acquire
      <3> QED
        BY ONLY <3>1, StatementsOwned
        DEF StatementsOwned, NotSent, Critical, UpdatePCs, DropPCs
    <2>3. CASE StartDrop(c)
      BY <2>1, <2>3 DEF StartDrop, Acquire
    <2>4. CASE RejectBusy(c)
      BY <2>4 DEF RejectBusy
    <2>5. CASE StatsRows(c)
      BY <2>1, <2>5 DEF StatsRows
    <2> QED
      BY <1>1, <2>2, <2>3, <2>4, <2>5 DEF Request
  <1>2. ASSUME NEW c \in Calls, CallStep(c) PROVE StatementsOwned'
    <2>1. CASE ReadIDs(c)
      BY <2>1 DEF ReadIDs
    <2>2. CASE ReadLast(c)
      BY <2>2 DEF ReadLast
    <2>3. CASE AbortUpdate(c)
      BY <2>3 DEF AbortUpdate, Release
    <2>4. CASE Receive(c)
      BY <2>4 DEF Receive, Handover
    <2>5. CASE ReturnCancelled(c)
      BY <2>5 DEF ReturnCancelled, Handover, Release
    <2>6. CASE CollectorClose(c)
      BY <2>6 DEF CollectorClose
    <2>7. CASE StartWorker(c)
      BY <2>7 DEF StartWorker, StartedOnce
    <2>8. CASE LoopEnd(c)
      BY <2>8 DEF LoopEnd
    <2>9. CASE ReturnUpdate(c)
      BY <2>9 DEF ReturnUpdate, Release
    <2>10. CASE SendTruncate(c)
      BY <2>10 DEF SendTruncate
    <2>11. CASE ReturnDrop(c)
      BY <2>11 DEF ReturnDrop, Release
    <2>12. CASE DropFails(c)
      BY <2>12 DEF DropFails, Release
    <2>13. CASE DropAbandoned(c)
      BY <2>13 DEF DropAbandoned, Release
    <2>14. CASE StatsReturn(c)
      BY <2>14 DEF StatsReturn
    <2> QED
      BY <1>2, <2>1, <2>2, <2>3, <2>4, <2>5, <2>6, <2>7, <2>8, <2>9, <2>10,
         <2>11, <2>12, <2>13, <2>14 DEF CallStep
  <1>3. ASSUME NEW c \in Calls, NEW id \in IDs, WorkerStep(c, id)
        PROVE StatementsOwned'
    <2>1. CASE WorkerGot(c, id)
      BY <2>1 DEF WorkerGot
    <2>2. CASE WorkerNotFound(c, id) \/ WorkerNormalised(c, id)
      <3>1. ~NotSent(c, id)' \/ pc[c] \notin UpdatePCs
        BY <2>2 DEF WorkerNotFound, WorkerNormalised, SendAdd, StartedOnce, Active
      <3>2. \A d \in Calls, i \in IDs :
              <<d, i>> # <<c, id>> => /\ NotSent(d, i)' <=> NotSent(d, i)
                                      /\ adding'[d][i] = adding[d][i]
        BY <2>2 DEF WorkerNotFound, WorkerNormalised, SendAdd, Table
      <3>3. UNCHANGED <<pc, truncating, lost>>
        BY <2>2 DEF WorkerNotFound, WorkerNormalised, SendAdd
      <3> HIDE DEF NotSent, UpdatePCs
      <3> QED
        BY <3>1, <3>2, <3>3
    <2>3. CASE WorkerFails(c, id)
      BY <2>3 DEF WorkerFails, EndWorker, GiveUp
    <2>4. CASE AddDone(c, id)
      BY <2>4 DEF AddDone, EndWorker
    <2>5. CASE AddFails(c, id)
      BY <2>5 DEF AddFails, EndWorker, GiveUp, Table
    <2>6. CASE AddAbandoned(c, id)
      BY <2>6 DEF AddAbandoned, EndWorker, GiveUp
    <2> QED
      BY <1>3, <2>1, <2>2, <2>3, <2>4, <2>5, <2>6 DEF WorkerStep
  <1>4. CASE Crash
    BY <1>4 DEF Crash
  <1>5. ASSUME NEW c \in Calls, NEW id \in IDs,
               ExecAdd(c, id) \/ DiscardAdd(c, id)
        PROVE StatementsOwned'
    <2>1. adding' = [adding EXCEPT ![c][id] = Absent]
      BY <1>5 DEF ExecAdd, DiscardAdd
    <2>2. UNCHANGED <<pc, todo, cur, truncating, worker, lost>>
      BY <1>5 DEF ExecAdd, DiscardAdd
    <2>3. \A d \in Calls, i \in IDs : adding'[d][i] # Absent => adding[d][i] # Absent
      BY <2>1 DEF Table
    <2> QED
      BY <2>2, <2>3
  <1>6. ASSUME NEW c \in Calls, Cancel(c) \/ LoseConnection(c)
        PROVE StatementsOwned'
    <2>1. /\ UNCHANGED <<pc, todo, cur, worker, adding, truncating>>
          /\ \A d \in Calls : lost'[d] => lost[d] \/ Critical(d)
      BY <1>6 DEF Cancel, LoseConnection, Owned
    <2> QED
      BY <2>1
  <1>7. ASSUME NEW c \in Calls, ExecTruncate(c) \/ DiscardTruncate(c)
        PROVE StatementsOwned'
    <2>1. UNCHANGED <<pc, todo, cur, worker, adding, lost>>
      BY <1>7 DEF ExecTruncate, DiscardTruncate
    <2>2. \A d \in Calls : truncating'[d] => truncating[d]
      BY <1>7 DEF ExecTruncate, DiscardTruncate
    <2> QED
      BY <2>1, <2>2
  <1>8. CASE Publish \/ UNCHANGED vars
    BY <1>8 DEF Publish, vars
  <1> QED
    BY <1>1, <1>2, <1>3, <1>4, <1>5, <1>6, <1>7, <1>8 DEF Next

LEMMA StatementsOwnedInvariant == Spec => []StatementsOwned
  <1>1. Init => StatementsOwned
    BY DEF Init, StatementsOwned, Critical, UpdatePCs, DropPCs
  <1> QED
    BY <1>1, StatementsOwnedStep, TypeInvariant, PTL DEF Spec
-----------------------------------------------------------------------------
(* The steps, seen through the mapping.                                    *)

StoreInv == TypeInv /\ OneAtATime /\ Attended /\ StatementsOwned

\* Nobody waits for the TRUNCATE of call c any more.
LateDrop(c) == truncating[c] /\ pc[c] # "dropSent"

\* What the mapping depends on, and how each variable of the store changes.
LEMMA Stutter ==
  ASSUME UNCHANGED table,
         \A c \in Calls : /\ OpOf(c)' = OpOf(c)
                          /\ (Critical(c) /\ IsCut(c))'
                               <=> Critical(c) /\ IsCut(c)
                          /\ pc'[c] = "dropSent" /\ ~truncating'[c]
                               <=> pc[c] = "dropSent" /\ ~truncating[c]
                          /\ LateRows(c)' = LateRows(c)
                          /\ truncating'[c] /\ pc'[c] # "dropSent"
                               <=> truncating[c] /\ pc[c] # "dropSent"
  PROVE  UNCHANGED Store!storeVars
  BY DEF Store!storeVars

LEMMA StartSteps ==
  ASSUME StoreInv, NEW c \in Calls, Request(c)
  PROVE  [Store!Next]_(Store!storeVars)
  <1> USE DEF StoreInv, TypeInv, TypeOK, Critical, UpdatePCs, DropPCs, OpOf, IsCut
  <1>1. CASE RejectBusy(c)
    <2>1. UNCHANGED Store!storeVars
      BY <1>1, Stutter DEF RejectBusy, LateRows, Owned, workVars
    <2> QED
      BY <2>1
  <1>2. CASE StatsRows(c)
    <2>1. UNCHANGED Store!storeVars
      BY <1>2, Stutter DEF StatsRows, LateRows, Owned, workVars, SlotFree
    <2> QED
      BY <2>1
  <1>3. ASSUME NEW kind \in {"update", "drop"}, NEW next \in {"readIDs", "drop"},
               next = "readIDs" <=> kind = "update",
               Acquire(c, next), UNCHANGED <<table, worker, adding, truncating>>
        PROVE Store!Begin(c, kind)
    <2>1. \A d \in Calls : ~Critical(d)
      BY <1>3 DEF OneAtATime, Status, Acquire
    <2>2. Store!NothingLate(c)
      <3>1. LateRows(c) = Truncated
        BY <1>3 DEF Acquire, SlotFree, Truncated, LateRows, Owned
      <3>2. Store!Truncated = Truncated
        BY DEF Store!Truncated, Truncated, Store!IDs, IDs
      <3> QED
        BY <1>3, <3>1, <3>2 DEF Store!NothingLate, Acquire, SlotFree
    <2>3. /\ \A d \in Calls : OpOf(d) = "none"
          /\ [d \in Calls |-> OpOf(d)]' = [[d \in Calls |-> OpOf(d)] EXCEPT ![c] = kind]
      <3>1. \A d \in Calls : OpOf(d) = "none"
        BY <2>1
      <3>2. \A d \in Calls : pc'[d] = IF d = c THEN next ELSE pc[d]
        BY <1>3 DEF Acquire
      <3>3. \A d \in Calls : OpOf(d)' = IF d = c THEN kind ELSE OpOf(d)
        BY <1>3, <3>2
      <3> QED
        BY <3>1, <3>3
    <2>4. \A d \in Calls : LateRows(d)' = LateRows(d)
      BY <1>3, <2>1 DEF Acquire, LateRows, Owned
    <2>5. UNCHANGED [d \in Calls |-> Critical(d) /\ IsCut(d)]
      <3>1. \A d \in Calls : ~lost[d]
        BY <2>1 DEF StatementsOwned
      <3>2. \A d \in Calls : ~(Critical(d) /\ IsCut(d))'
        BY <1>3, <2>1, <3>1 DEF Acquire
      <3> QED
        BY <2>1, <3>2
    <2> QED
      BY <1>3, <2>1, <2>2, <2>3, <2>4, <2>5 DEF Store!Begin, Acquire, SlotFree
  <1>4. CASE StartUpdate(c)
    <2>1. Store!Begin(c, "update")
      BY <1>3, <1>4 DEF StartUpdate, workVars
    <2> QED
      BY <2>1 DEF Store!Next, Store!Call
  <1>5. CASE StartDrop(c)
    <2>1. Store!Begin(c, "drop")
      BY <1>3, <1>5 DEF StartDrop, workVars
    <2> QED
      BY <2>1 DEF Store!Next, Store!Call
  <1> QED
    BY <1>1, <1>2, <1>4, <1>5 DEF Request

LEMMA SameTable ==
  /\ Store!IDs = IDs /\ Store!Row = Row /\ Store!Table = Table
  /\ Store!Truncated = Truncated
  /\ \A t, id, row : Store!Upsert(t, id, row) = Upsert(t, id, row)
  BY DEF Store!IDs, IDs, Store!Row, Row, Store!Table, Table, Store!Truncated,
     Truncated, Store!Upsert, Upsert

\* A handler that returns leaves all its INSERTs behind.
LEMMA CallEnds ==
  ASSUME StoreInv, NEW c \in Calls, Critical(c), NEW result, Release(c, result),
         UNCHANGED <<table, cancelled, worker, adding>>,
         truncating' \in [Calls -> BOOLEAN],
         \A d \in Calls \ {c} : truncating'[d] = truncating[d]
  PROVE  /\ Store!Ends(c)
         /\ \A d \in Calls :
              LateRows(d)' = IF d = c THEN adding[c] ELSE LateRows(d)
         /\ \A d \in Calls :
              LateDrop(d)' = IF d = c THEN truncating'[c] ELSE LateDrop(d)
  <1>1. \A d \in Calls : pc'[d] = IF d = c THEN "idle" ELSE pc[d]
    BY DEF Release, StoreInv, TypeInv, TypeOK
  <1>2. Store!Ends(c)
    <2>1. \A d \in Calls : OpOf(d)' = IF d = c THEN "none" ELSE OpOf(d)
      BY <1>1 DEF OpOf, UpdatePCs, DropPCs
    <2>2. \A d \in Calls : (Critical(d) /\ IsCut(d))'
                             = IF d = c THEN FALSE ELSE Critical(d) /\ IsCut(d)
      BY <1>1 DEF Critical, UpdatePCs, DropPCs, IsCut, Release, StoreInv, TypeInv, TypeOK
    <2>3. \A d \in Calls : (pc[d] = "dropSent" /\ ~truncating[d])'
                             = IF d = c THEN FALSE
                                        ELSE pc[d] = "dropSent" /\ ~truncating[d]
      BY <1>1
    <2>4. [d \in Calls |-> OpOf(d)]'
            = [[d \in Calls |-> OpOf(d)] EXCEPT ![c] = "none"]
      BY ONLY <2>1
    <2>5. [d \in Calls |-> Critical(d) /\ IsCut(d)]'
            = [[d \in Calls |-> Critical(d) /\ IsCut(d)] EXCEPT ![c] = FALSE]
      BY ONLY <2>2
    <2>6. [d \in Calls |-> pc[d] = "dropSent" /\ ~truncating[d]]'
            = [[d \in Calls |-> pc[d] = "dropSent" /\ ~truncating[d]]
                 EXCEPT ![c] = FALSE]
      BY ONLY <2>3
    <2> QED
      BY <2>4, <2>5, <2>6 DEF Store!Ends
  <1>3. LateRows(c)' = adding[c]
    BY <1>1 DEF LateRows, Owned, Table, StoreInv, TypeInv, TypeOK
  <1>4. \A d \in Calls \ {c} : LateRows(d)' = LateRows(d)
    BY <1>1 DEF LateRows, Owned
  <1>5. \A d \in Calls : LateDrop(d)' = IF d = c THEN truncating'[c] ELSE LateDrop(d)
    BY <1>1 DEF LateDrop
  <1> QED
    BY <1>2, <1>3, <1>4, <1>5

\* A call that stood behind none of its INSERTs changes nothing by ending.
LEMMA NothingOwned ==
  ASSUME StoreInv, NEW c \in Calls, \A id \in IDs : ~Owned(c, id)
  PROVE  LateRows(c) = adding[c]
  BY DEF StoreInv, TypeInv, TypeOK, Table, LateRows

\* The ways a call may end, as ComicsStore has them.
LEMMA EndsSucceeding ==
  ASSUME NEW c \in Calls, Critical(c), Store!Ends(c),
         pc[c] \in DropPCs => pc[c] = "dropSent" /\ ~truncating[c],
         \A d \in Calls : LateRows(d)' = LateRows(d),
         \A d \in Calls : LateDrop(d)' = LateDrop(d)
  PROVE  Store!Succeed(c)
  <1>1. OpOf(c) # "none" /\ (OpOf(c) = "drop" => pc[c] = "dropSent" /\ ~truncating[c])
    BY DEF Critical, OpOf, UpdatePCs, DropPCs
  <1>2. [d \in Calls |-> LateRows(d)]' = [d \in Calls |-> LateRows(d)]
    OBVIOUS
  <1>3. [d \in Calls |-> truncating[d] /\ pc[d] # "dropSent"]'
          = [d \in Calls |-> truncating[d] /\ pc[d] # "dropSent"]
    BY DEF LateDrop
  <1> QED
    BY <1>1, <1>2, <1>3 DEF Store!Succeed

LEMMA EndsFailing ==
  ASSUME NEW c \in Calls, Critical(c), Store!Ends(c),
         \A d \in Calls : LateRows(d)' = LateRows(d),
         \A d \in Calls : LateDrop(d)' = LateDrop(d)
  PROVE  Store!Fail(c)
  <1>1. OpOf(c) # "none"
    BY DEF Critical, OpOf, UpdatePCs, DropPCs
  <1>2. [d \in Calls |-> LateRows(d)]' = [d \in Calls |-> LateRows(d)]
    OBVIOUS
  <1>3. [d \in Calls |-> truncating[d] /\ pc[d] # "dropSent"]'
          = [d \in Calls |-> truncating[d] /\ pc[d] # "dropSent"]
    BY DEF LateDrop
  <1> QED
    BY <1>1, <1>2, <1>3 DEF Store!Fail

LEMMA EndsGone ==
  ASSUME StoreInv, NEW c \in Calls, pc[c] \in UpdatePCs, IsCut(c),
         Store!Ends(c),
         \A d \in Calls : LateRows(d)' = IF d = c THEN adding[c] ELSE LateRows(d),
         \A d \in Calls : LateDrop(d)' = LateDrop(d)
  PROVE  Store!Fail(c)
  <1>1. OpOf(c) = "update" /\ Critical(c)
    BY DEF Critical, OpOf, UpdatePCs, DropPCs
  <1>2. [d \in Calls |-> LateRows(d)]'
          = [[d \in Calls |-> LateRows(d)] EXCEPT ![c] = adding[c]]
    OBVIOUS
  <1>3. [d \in Calls |-> truncating[d] /\ pc[d] # "dropSent"]'
          = [d \in Calls |-> truncating[d] /\ pc[d] # "dropSent"]
    BY DEF LateDrop
  <1>4. adding[c] \in Store!Table
    BY SameTable DEF StoreInv, TypeInv, TypeOK
  <1>5. Store!LeavesRows(c, adding[c])
    BY <1>1, SameTable DEF Store!LeavesRows, LateRows
  <1> QED
    BY <1>1, <1>2, <1>3, <1>4, <1>5 DEF Store!Fail

LEMMA EndsAbandoning ==
  ASSUME NEW c \in Calls, pc[c] = "dropSent", truncating[c], IsCut(c),
         Store!Ends(c),
         \A d \in Calls : LateRows(d)' = LateRows(d),
         \A d \in Calls : LateDrop(d)' = IF d = c THEN TRUE ELSE LateDrop(d)
  PROVE  Store!Fail(c)
  <1>1. OpOf(c) = "drop" /\ Critical(c)
    BY DEF Critical, OpOf, UpdatePCs, DropPCs
  <1>2. [d \in Calls |-> LateRows(d)]' = [d \in Calls |-> LateRows(d)]
    OBVIOUS
  <1>3. [d \in Calls |-> LateDrop(d)]'
          = [[d \in Calls |-> LateDrop(d)] EXCEPT ![c] = TRUE]
    OBVIOUS
  <1> QED
    BY <1>1, <1>2, <1>3 DEF Store!Fail, LateDrop

LEMMA EndSteps ==
  ASSUME StoreInv, NEW c \in Calls,
         AbortUpdate(c) \/ ReturnCancelled(c) \/ ReturnUpdate(c)
           \/ ReturnDrop(c) \/ DropFails(c) \/ DropAbandoned(c)
  PROVE  Store!Next
  <1> SUFFICES Store!Succeed(c) \/ Store!Fail(c)
    BY DEF Store!Next, Store!Progress, Store!End
  <1> USE DEF callVars, workVars
  <1>a. /\ pc \in [Calls -> {"idle", "statsLast"} \cup UpdatePCs \cup DropPCs]
        /\ truncating \in [Calls -> BOOLEAN]
    BY DEF StoreInv, TypeInv, TypeOK
  <1>b. ASSUME pc[c] \in UpdatePCs PROVE truncating[c] = FALSE /\ LateDrop(c) = FALSE
    BY <1>a, <1>b DEF StoreInv, StatementsOwned, UpdatePCs, LateDrop
  <1>1. CASE AbortUpdate(c)
    <2>1. /\ Critical(c) /\ pc[c] \in UpdatePCs /\ pc[c] \notin DropPCs
          /\ LateRows(c) = adding[c]
      BY <1>1, NothingOwned DEF AbortUpdate, Owned, Critical, UpdatePCs, DropPCs
    <2>2. /\ Store!Ends(c)
          /\ \A d \in Calls : LateRows(d)' = LateRows(d)
          /\ \A d \in Calls : LateDrop(d)' = LateDrop(d)
      BY <1>1, <1>a, <1>b, <2>1, CallEnds DEF AbortUpdate
    <2> QED
      BY <2>1, <2>2, EndsFailing
  <1>2. CASE ReturnUpdate(c)
    <2>1. /\ Critical(c) /\ pc[c] \in UpdatePCs /\ pc[c] \notin DropPCs
          /\ LateRows(c) = adding[c]
      BY <1>2, NothingOwned
      DEF ReturnUpdate, Owned, Active, Critical, UpdatePCs, DropPCs
    <2>2. /\ Store!Ends(c)
          /\ \A d \in Calls : LateRows(d)' = LateRows(d)
          /\ \A d \in Calls : LateDrop(d)' = LateDrop(d)
      BY <1>2, <1>a, <1>b, <2>1, CallEnds DEF ReturnUpdate
    <2> QED
      BY <2>1, <2>2, EndsSucceeding
  <1>3. CASE ReturnCancelled(c)
    <2>1. /\ Critical(c) /\ pc[c] \in UpdatePCs /\ IsCut(c)
          /\ UNCHANGED <<table, cancelled, worker, adding, truncating>>
          /\ Release(c, "error")
      BY <1>3 DEF ReturnCancelled, Handover, Critical, UpdatePCs, IsCut
    <2>2. /\ Store!Ends(c)
          /\ \A d \in Calls : LateRows(d)' = IF d = c THEN adding[c] ELSE LateRows(d)
          /\ \A d \in Calls : LateDrop(d)' = LateDrop(d)
      BY <1>a, <1>b, <2>1, CallEnds
    <2> QED
      BY <2>1, <2>2, EndsGone
  <1>4. ASSUME ReturnDrop(c) \/ DropFails(c) \/ DropAbandoned(c)
        PROVE  /\ Critical(c) /\ pc[c] \in DropPCs /\ LateRows(c) = adding[c]
               /\ UNCHANGED <<table, cancelled, worker, adding>>
    BY <1>4, NothingOwned
    DEF ReturnDrop, DropFails, DropAbandoned, Owned, Critical, DropPCs
  <1>5. CASE ReturnDrop(c)
    <2>1. /\ Release(c, "ok") /\ UNCHANGED truncating
          /\ pc[c] = "dropSent" /\ truncating[c] = FALSE /\ LateDrop(c) = FALSE
      BY <1>5, <1>a DEF ReturnDrop, LateDrop
    <2>2. /\ Store!Ends(c)
          /\ \A d \in Calls : LateRows(d)' = LateRows(d)
          /\ \A d \in Calls : LateDrop(d)' = LateDrop(d)
      BY <1>4, <1>5, <1>a, <2>1, CallEnds
    <2> QED
      BY <1>4, <1>5, <2>1, <2>2, EndsSucceeding
  <1>6. CASE DropFails(c)
    <2>1. /\ Release(c, "error")
          /\ truncating' = [truncating EXCEPT ![c] = FALSE]
          /\ LateDrop(c) = FALSE
      BY <1>6 DEF DropFails, StoreInv, StatementsOwned, LateDrop
    <2>2. /\ Store!Ends(c)
          /\ \A d \in Calls : LateRows(d)' = LateRows(d)
          /\ \A d \in Calls : LateDrop(d)' = LateDrop(d)
      <3>1. /\ truncating' \in [Calls -> BOOLEAN] /\ truncating'[c] = FALSE
            /\ \A d \in Calls \ {c} : truncating'[d] = truncating[d]
        BY <1>a, <2>1
      <3> QED
        BY <1>4, <1>6, <2>1, <3>1, CallEnds
    <2> QED
      BY <1>4, <1>6, <2>2, EndsFailing
  <1>7. CASE DropAbandoned(c)
    <2>1. /\ Release(c, "error") /\ UNCHANGED truncating
          /\ pc[c] = "dropSent" /\ IsCut(c) /\ LateDrop(c) = FALSE
      BY <1>7 DEF DropAbandoned, LateDrop, IsCut
    <2>2. /\ Store!Ends(c)
          /\ \A d \in Calls : LateRows(d)' = LateRows(d)
          /\ \A d \in Calls : LateDrop(d)' = IF d = c THEN truncating[c] ELSE LateDrop(d)
      BY <1>4, <1>7, <1>a, <2>1, CallEnds
    <2>3. CASE truncating[c]
      BY <2>1, <2>2, <2>3, EndsAbandoning
    <2>4. CASE ~truncating[c]
      <3>1. \A d \in Calls : LateDrop(d)' = LateDrop(d)
        BY <1>a, <2>1, <2>2, <2>4
      <3> QED
        BY <1>4, <1>7, <2>2, <3>1, EndsFailing
    <2> QED
      BY <2>3, <2>4
  <1> QED
    BY <1>1, <1>2, <1>3, <1>5, <1>6, <1>7

\* The handler's other steps are not seen: a worker started or a statement
\* sent belongs to a call that stands behind it.
LEMMA HandlerSteps ==
  ASSUME StoreInv, NEW c \in Calls,
         ReadIDs(c) \/ ReadLast(c) \/ Receive(c) \/ CollectorClose(c)
           \/ StartWorker(c) \/ LoopEnd(c) \/ SendTruncate(c) \/ StatsReturn(c)
  PROVE  UNCHANGED Store!storeVars
  <1> USE DEF StoreInv, TypeInv, TypeOK, Critical, UpdatePCs, DropPCs, OpOf,
              IsCut, LateRows, Owned, workVars, callVars
  <1>1. CASE ReadIDs(c)
    BY <1>1, Stutter DEF ReadIDs
  <1>2. CASE ReadLast(c)
    <2>1. Active(c) = {}
      BY <1>2 DEF ReadLast, Attended
    <2> QED
      BY <1>2, <2>1, Stutter DEF ReadLast, Active
  <1>3. CASE Receive(c)
    BY <1>3, Stutter DEF Receive, Handover
  <1>4. CASE CollectorClose(c)
    BY <1>4, Stutter DEF CollectorClose
  <1>5. CASE StartWorker(c)
    <2>1. worker[c][cur[c]] = "none"
      BY <1>5 DEF StartWorker, StartedOnce
    <2>2. \A d \in Calls, id \in IDs : worker'[d][id] = "add" <=> worker[d][id] = "add"
      BY <1>5, <2>1 DEF StartWorker
    <2> QED
      BY <1>5, <2>2, Stutter DEF StartWorker
  <1>6. CASE LoopEnd(c)
    BY <1>6, Stutter DEF LoopEnd
  <1>7. CASE SendTruncate(c)
    <2>1. ~truncating[c]
      BY <1>7 DEF SendTruncate, StatementsOwned
    <2> QED
      BY <1>7, <2>1, Stutter DEF SendTruncate
  <1>8. CASE StatsReturn(c)
    BY <1>8, Stutter DEF StatsReturn
  <1> QED
    BY <1>1, <1>2, <1>3, <1>4, <1>5, <1>6, <1>7, <1>8

\* One INSERT that nobody stands behind is over.
LEMMA LateRowOver ==
  ASSUME StoreInv, NEW c \in Calls, NEW id \in IDs,
         UNCHANGED <<pc, cancelled, lost, truncating>>,
         ~Owned(c, id), adding[c][id] # Absent,
         \/ UNCHANGED worker
         \/ worker' = [worker EXCEPT ![c][id] = "none"],
         adding' = [adding EXCEPT ![c][id] = Absent]
  PROVE  /\ LateRows(c)[id] = adding[c][id]
         /\ table' = Upsert(table, id, adding[c][id]) => Store!LateRow(c, id)
         /\ UNCHANGED table => Store!LateRowVanishes(c, id)
  <1>1. LateRows(c)[id] = adding[c][id]
    BY DEF LateRows
  <1>2. /\ \A d \in Calls : /\ OpOf(d)' = OpOf(d)
                            /\ Critical(d)' = Critical(d)
                            /\ IsCut(d)' = IsCut(d)
        /\ \A d \in Calls \ {c} : LateRows(d)' = LateRows(d)
    BY DEF StoreInv, TypeInv, TypeOK, OpOf, Critical, IsCut, LateRows, Owned
  <1>3. LateRows(c)' = [LateRows(c) EXCEPT ![id] = Absent]
    <2>1. \A i \in IDs : adding'[c][i] = IF i = id THEN Absent ELSE adding[c][i]
      BY DEF StoreInv, TypeInv, TypeOK, Table
    <2>2. \A i \in IDs \ {id} : Owned(c, i)' <=> Owned(c, i)
      BY DEF StoreInv, TypeInv, TypeOK, Owned
    <2> QED
      BY <2>1, <2>2 DEF LateRows
  <1>4. [d \in Calls |-> LateRows(d)]'
          = [[d \in Calls |-> LateRows(d)] EXCEPT ![c][id] = Absent]
    BY <1>2, <1>3
  <1>5. ASSUME table' = Upsert(table, id, adding[c][id])
        PROVE  Store!LateRow(c, id)
    BY <1>1, <1>2, <1>4, <1>5, SameTable DEF Store!LateRow
  <1>6. ASSUME UNCHANGED table PROVE Store!LateRowVanishes(c, id)
    BY <1>1, <1>2, <1>4, <1>6 DEF Store!LateRowVanishes
  <1> QED
    BY <1>1, <1>5, <1>6

LEMMA WorkerSteps ==
  ASSUME StoreInv, NEW c \in Calls, NEW id \in IDs, WorkerStep(c, id)
  PROVE  [Store!Next]_(Store!storeVars)
  <1> USE DEF callVars, workVars
  <1>1. CASE WorkerGot(c, id) \/ WorkerFails(c, id) \/ AddDone(c, id)
    <2>1. UNCHANGED <<table, pc, cancelled, lost, truncating, adding>>
      BY <1>1 DEF WorkerGot, WorkerFails, AddDone
    <2>2. worker \in [Calls -> [IDs -> WorkerStates]]
      BY DEF StoreInv, TypeInv, TypeOK
    <2>3. ASSUME NEW d \in Calls, NEW i \in IDs
          PROVE  Owned(d, i)' = Owned(d, i) \/ adding[d][i] = Absent
      <3>1. CASE d = c /\ i = id
        BY <1>1, <2>1, <2>2, <3>1
        DEF WorkerGot, WorkerFails, AddDone, EndWorker, GiveUp, Owned
      <3>2. CASE ~(d = c /\ i = id)
        <4>1. worker'[d][i] = worker[d][i]
          BY <1>1, <2>2, <3>2 DEF WorkerGot, WorkerFails, AddDone, EndWorker, GiveUp
        <4> QED
          BY <2>1, <4>1 DEF Owned
      <3> QED
        BY <3>1, <3>2
    <2>4. \A d \in Calls : LateRows(d)' = LateRows(d)
      BY <2>1, <2>3 DEF LateRows
    <2>5. \A d \in Calls : /\ OpOf(d)' = OpOf(d)
                           /\ Critical(d)' <=> Critical(d)
                           /\ IsCut(d)' <=> IsCut(d)
      BY <2>1 DEF OpOf, Critical, IsCut
    <2> QED
      BY <2>1, <2>4, <2>5, Stutter
  <1>2. ASSUME NEW row \in Row, SendAdd(c, id, row), worker[c][id] \in {"get", "norm"}
        PROVE  UNCHANGED Store!storeVars
    <2>1. pc[c] \in {"loop", "acquire", "wait"}
      BY <1>2 DEF SendAdd, StoreInv, Attended, Active
    <2>2. adding[c][id] = Absent
      BY <1>2, <2>1 DEF StoreInv, StatementsOwned, NotSent, UpdatePCs
    <2> QED
      BY <1>2, <2>1, <2>2, Stutter
      DEF SendAdd, StoreInv, TypeInv, TypeOK, Table, OpOf, Critical, IsCut, LateRows,
          Owned
  <1>3. CASE WorkerNotFound(c, id) \/ WorkerNormalised(c, id)
    <2>1. UNCHANGED Store!storeVars
      BY <1>2, <1>3 DEF WorkerNotFound, WorkerNormalised, Row
    <2> QED
      BY <2>1
  <1>4. CASE AddFails(c, id)
    <2>1. CASE Owned(c, id)
      <3>1. UNCHANGED Store!storeVars
        BY <1>4, <2>1, Stutter
        DEF AddFails, EndWorker, GiveUp, StoreInv, TypeInv, TypeOK, Table, OpOf, Critical,
            IsCut, LateRows, Owned
      <3> QED
        BY <3>1
    <2>2. CASE ~Owned(c, id)
      <3>1. Store!LateRowVanishes(c, id)
        BY <1>4, <2>2, LateRowOver DEF AddFails, EndWorker, GiveUp
      <3> QED
        BY <3>1, SameTable DEF Store!Next, Store!Progress, Store!LateStep
    <2> QED
      BY <2>1, <2>2
  <1>5. CASE AddAbandoned(c, id)
    <2>1. CASE Owned(c, id)
      <3>1. /\ \A d \in Calls : /\ OpOf(d)' = OpOf(d)
                                /\ Critical(d)' = Critical(d)
                                /\ IsCut(d)' = IsCut(d)
            /\ \A d \in Calls \ {c} : LateRows(d)' = LateRows(d)
        BY <1>5 DEF AddAbandoned, EndWorker, GiveUp, StoreInv, TypeInv, TypeOK, OpOf,
                    Critical, IsCut, LateRows, Owned
      <3>2. LateRows(c)' = [LateRows(c) EXCEPT ![id] = adding[c][id]]
        BY <1>5, <2>1 DEF AddAbandoned, EndWorker, GiveUp, StoreInv, TypeInv, TypeOK,
                          Table, LateRows, Owned
      <3>3. OpOf(c) = "update" /\ Critical(c) /\ IsCut(c) /\ LateRows(c)[id] = Absent
        BY <1>5, <2>1 DEF AddAbandoned, IsCut, Owned, OpOf, Critical, UpdatePCs, DropPCs,
                          LateRows
      <3>4. LateRows(c)' \in Store!Table
        <4>1. \A i \in IDs : LateRows(c)'[i] \in Row
          BY <1>5 DEF AddAbandoned, StoreInv, TypeInv, TypeOK, Table, Row, LateRows
        <4> QED
          BY <4>1, SameTable DEF LateRows, Table
      <3>5. Store!LeavesRows(c, LateRows(c)')
        BY <3>2, <3>3, SameTable DEF Store!LeavesRows, LateRows
      <3>6. [d \in Calls |-> LateRows(d)]'
              = [[d \in Calls |-> LateRows(d)] EXCEPT ![c] = LateRows(c)']
        BY <3>1
      <3>7. Store!Abandon(c)
        BY <1>5, <3>1, <3>3, <3>4, <3>5, <3>6 DEF Store!Abandon, AddAbandoned
      <3> QED
        BY <3>7 DEF Store!Next, Store!Progress
    <2>2. CASE ~Owned(c, id)
      <3>1. UNCHANGED Store!storeVars
        BY <1>5, <2>2, Stutter
        DEF AddAbandoned, EndWorker, GiveUp, StoreInv, TypeInv, TypeOK, OpOf, Critical,
            IsCut, LateRows, Owned
      <3> QED
        BY <3>1
    <2> QED
      BY <2>1, <2>2
  <1> QED
    BY <1>1, <1>3, <1>4, <1>5 DEF WorkerStep

LEMMA StatementSteps ==
  ASSUME StoreInv, NEW c \in Calls
  PROVE  /\ \A id \in IDs : ExecAdd(c, id) => Store!StoreComic(c, id) \/ Store!LateRow(c, id)
         /\ \A id \in IDs : DiscardAdd(c, id) => Store!LateRowVanishes(c, id)
         /\ ExecTruncate(c) => Store!Empty(c) \/ Store!LateTruncate(c)
         /\ DiscardTruncate(c) => Store!LateTruncateVanishes(c)
  <1> USE DEF callVars, workVars
  <1>1. ASSUME NEW id \in IDs, ExecAdd(c, id)
        PROVE  Store!StoreComic(c, id) \/ Store!LateRow(c, id)
    <2>1. CASE Owned(c, id)
      <3>1. \A d \in Calls : /\ OpOf(d)' = OpOf(d)
                             /\ Critical(d)' = Critical(d)
                             /\ IsCut(d)' = IsCut(d)
                             /\ LateRows(d)' = LateRows(d)
        BY <1>1, <2>1 DEF ExecAdd, StoreInv, TypeInv, TypeOK, Table, OpOf,
                          Critical, IsCut, LateRows, Owned
      <3>2. OpOf(c) = "update"
        BY <2>1 DEF Owned, OpOf, UpdatePCs, DropPCs
      <3>3. /\ adding[c][id] \in Store!Row \ {Absent}
            /\ table' = Store!Upsert(table, id, adding[c][id])
        BY <1>1, SameTable DEF ExecAdd, StoreInv, TypeInv, TypeOK, Table
      <3>4. Store!StoreComic(c, id)
        BY <1>1, <3>1, <3>2, <3>3 DEF ExecAdd, Store!StoreComic
      <3> QED
        BY <3>4
    <2>2. CASE ~Owned(c, id)
      BY <1>1, <2>2, LateRowOver DEF ExecAdd
    <2> QED
      BY <2>1, <2>2
  <1>2. ASSUME NEW id \in IDs, DiscardAdd(c, id) PROVE Store!LateRowVanishes(c, id)
    BY <1>2, LateRowOver DEF DiscardAdd, Owned
  <1>3. ASSUME ExecTruncate(c) \/ DiscardTruncate(c)
        PROVE  /\ \A d \in Calls : /\ OpOf(d)' = OpOf(d)
                                   /\ Critical(d)' = Critical(d)
                                   /\ IsCut(d)' = IsCut(d)
                                   /\ LateRows(d)' = LateRows(d)
               /\ UNCHANGED <<pc, cancelled, lost>>
               /\ truncating[c]
               /\ \A d \in Calls : truncating'[d] <=> d # c /\ truncating[d]
    <2>1. UNCHANGED <<pc, cancelled, lost, worker, adding>>
      BY <1>3 DEF ExecTruncate, DiscardTruncate
    <2>2. truncating[c] /\ truncating' = [truncating EXCEPT ![c] = FALSE]
      BY <1>3 DEF ExecTruncate, DiscardTruncate
    <2>3. \A d \in Calls : truncating'[d] <=> d # c /\ truncating[d]
      BY <2>2 DEF StoreInv, TypeInv, TypeOK
    <2> QED
      BY <2>1, <2>2, <2>3 DEF OpOf, Critical, IsCut, LateRows, Owned
  <1>4. ASSUME ExecTruncate(c) \/ DiscardTruncate(c)
        PROVE  UNCHANGED <<[d \in Calls |-> OpOf(d)],
                           [d \in Calls |-> Critical(d) /\ IsCut(d)],
                           [d \in Calls |-> LateRows(d)]>>
    BY ONLY <1>3, <1>4
  <1>5. ASSUME ExecTruncate(c) \/ DiscardTruncate(c), pc[c] # "dropSent"
        PROVE  /\ [d \in Calls |-> truncating[d] /\ pc[d] # "dropSent"]'
                    = [[d \in Calls |-> truncating[d] /\ pc[d] # "dropSent"]
                         EXCEPT ![c] = FALSE]
               /\ UNCHANGED [d \in Calls |-> pc[d] = "dropSent" /\ ~truncating[d]]
    <2>1. \A d \in Calls :
            (truncating'[d] /\ pc'[d] # "dropSent")
              = IF d = c THEN FALSE ELSE truncating[d] /\ pc[d] # "dropSent"
      BY ONLY <1>3, <1>5
    <2>2. \A d \in Calls :
            (pc'[d] = "dropSent" /\ ~truncating'[d])
              = (pc[d] = "dropSent" /\ ~truncating[d])
      BY ONLY <1>3, <1>5
    <2> QED
      BY ONLY <2>1, <2>2
  <1>6. ASSUME ExecTruncate(c) PROVE Store!Empty(c) \/ Store!LateTruncate(c)
    <2>1. CASE pc[c] = "dropSent"
      <3>1. OpOf(c) = "drop"
        BY <2>1 DEF OpOf, UpdatePCs, DropPCs
      <3>2. /\ [d \in Calls |-> pc[d] = "dropSent" /\ ~truncating[d]]'
                 = [[d \in Calls |-> pc[d] = "dropSent" /\ ~truncating[d]]
                      EXCEPT ![c] = TRUE]
            /\ UNCHANGED [d \in Calls |-> truncating[d] /\ pc[d] # "dropSent"]
        <4>1. \A d \in Calls :
                (pc'[d] = "dropSent" /\ ~truncating'[d])
                  = IF d = c THEN TRUE ELSE pc[d] = "dropSent" /\ ~truncating[d]
          BY ONLY <1>3, <1>6, <2>1
        <4>2. \A d \in Calls :
                (truncating'[d] /\ pc'[d] # "dropSent")
                  = (truncating[d] /\ pc[d] # "dropSent")
          BY ONLY <1>3, <1>6, <2>1
        <4> QED
          BY ONLY <4>1, <4>2
      <3>3. Store!Empty(c)
        <4>1. table' = Store!Truncated
          BY <1>6, SameTable DEF ExecTruncate
        <4>2. truncating[c] /\ c \in Calls
          BY <1>3, <1>6
        <4> QED
          BY ONLY <1>4, <1>6, <2>1, <3>1, <3>2, <4>1, <4>2 DEF Store!Empty
      <3> QED
        BY <3>3
    <2>2. CASE pc[c] # "dropSent"
      <3>1. table' = Store!Truncated
        BY <1>6, SameTable DEF ExecTruncate
      <3>2. truncating[c] /\ c \in Calls
        BY <1>3, <1>6
      <3> QED
        BY ONLY <1>4, <1>5, <1>6, <2>2, <3>1, <3>2 DEF Store!LateTruncate
    <2> QED
      BY <2>1, <2>2
  <1>7. ASSUME DiscardTruncate(c) PROVE Store!LateTruncateVanishes(c)
    <2>1. truncating[c] /\ pc[c] # "dropSent" /\ c \in Calls /\ UNCHANGED table
      BY <1>7 DEF DiscardTruncate
    <2> QED
      BY ONLY <1>4, <1>5, <1>7, <2>1 DEF Store!LateTruncateVanishes
  <1> QED
    BY <1>1, <1>2, <1>6, <1>7

\* The first of the two cuts a call off; on a call already cut off, or on one
\* that only reads, neither is seen.
LEMMA CutSteps ==
  ASSUME StoreInv, NEW c \in Calls, Cancel(c) \/ LoseConnection(c)
  PROVE  [Store!Next]_(Store!storeVars)
  <1>1. /\ UNCHANGED <<table, pc, worker, adding, truncating>>
        /\ \A d \in Calls : IsCut(d)' = IF d = c THEN TRUE ELSE IsCut(d)
    BY DEF Cancel, LoseConnection, IsCut, StoreInv, TypeInv, TypeOK, workVars
  <1>2. \A d \in Calls : /\ OpOf(d)' = OpOf(d)
                         /\ Critical(d)' = Critical(d)
                         /\ LateRows(d)' = LateRows(d)
    BY <1>1 DEF OpOf, Critical, LateRows, Owned
  <1>3. CASE Critical(c) /\ ~IsCut(c)
    <2>1. OpOf(c) # "none"
      BY <1>3 DEF OpOf, Critical, UpdatePCs, DropPCs
    <2>2. /\ UNCHANGED [d \in Calls |-> OpOf(d)]
          /\ UNCHANGED [d \in Calls |-> LateRows(d)]
      BY ONLY <1>2
    <2>3. /\ UNCHANGED [d \in Calls |-> pc[d] = "dropSent" /\ ~truncating[d]]
          /\ UNCHANGED [d \in Calls |-> truncating[d] /\ pc[d] # "dropSent"]
      BY ONLY <1>1
    <2>4. [d \in Calls |-> Critical(d) /\ IsCut(d)]'
            = [[d \in Calls |-> Critical(d) /\ IsCut(d)] EXCEPT ![c] = TRUE]
      BY ONLY <1>1, <1>2, <1>3
    <2>5. Store!CutOff(c)
      BY ONLY <1>1, <1>3, <2>1, <2>2, <2>3, <2>4, c \in Calls DEF Store!CutOff
    <2> QED
      BY <2>5 DEF Store!Next, Store!Progress
  <1>4. CASE ~(Critical(c) /\ ~IsCut(c))
    <2>1. UNCHANGED Store!storeVars
      BY <1>1, <1>2, <1>4, Stutter
    <2> QED
      BY <2>1
  <1> QED
    BY <1>3, <1>4

LEMMA CrashStep ==
  ASSUME StoreInv, Crash
  PROVE  Store!Crash
  <1> USE DEF StoreInv, TypeInv, TypeOK, OpOf, Critical, UpdatePCs, DropPCs, Crash
  <1>1. \A d \in Calls : /\ OpOf(d)' = "none"
                         /\ ~Critical(d)'
                         /\ pc'[d] = "idle"
    OBVIOUS
  <1>2. \A d \in Calls : LateRows(d)' = adding[d]
    BY DEF LateRows, Owned, Table
  <1>3. \A d \in Calls :
          \/ OpOf(d) = "update" /\ Store!LeavesRows(d, adding[d])
          \/ LateRows(d) = adding[d]
    <2> SUFFICES ASSUME NEW d \in Calls
                 PROVE  \/ OpOf(d) = "update" /\ Store!LeavesRows(d, adding[d])
                        \/ LateRows(d) = adding[d]
      OBVIOUS
    <2>1. CASE pc[d] \in UpdatePCs
      <3>1. OpOf(d) = "update"
        BY <2>1
      <3> QED
        BY <3>1, SameTable DEF Store!LeavesRows, LateRows
    <2>2. CASE pc[d] \notin UpdatePCs
      BY <2>2, NothingOwned DEF Owned
    <2> QED
      BY <2>1, <2>2
  <1>4. \A d \in Calls : adding[d] \in Store!Table
    BY SameTable
  <1>5. \A d \in Calls : \/ truncating[d] = (truncating[d] /\ pc[d] # "dropSent")
                         \/ truncating[d] /\ OpOf(d) = "drop"
                              /\ ~(pc[d] = "dropSent" /\ ~truncating[d])
    OBVIOUS
  <1>6. /\ [d \in Calls |-> OpOf(d)]' = [d \in Calls |-> "none"]
        /\ [d \in Calls |-> Critical(d) /\ IsCut(d)]' = [d \in Calls |-> FALSE]
        /\ [d \in Calls |-> pc[d] = "dropSent" /\ ~truncating[d]]' = [d \in Calls |-> FALSE]
        /\ [d \in Calls |-> LateRows(d)]' = [d \in Calls |-> adding[d]]
        /\ [d \in Calls |-> truncating[d] /\ pc[d] # "dropSent"]'
             = [d \in Calls |-> truncating[d]]
    <2>1. /\ [d \in Calls |-> OpOf(d)]' = [d \in Calls |-> "none"]
          /\ [d \in Calls |-> LateRows(d)]' = [d \in Calls |-> adding[d]]
      BY ONLY <1>1, <1>2
    <2>2. [d \in Calls |-> Critical(d) /\ IsCut(d)]' = [d \in Calls |-> FALSE]
      BY <1>1
    <2>3. [d \in Calls |-> pc[d] = "dropSent" /\ ~truncating[d]]' = [d \in Calls |-> FALSE]
      BY <1>1
    <2>4. [d \in Calls |-> truncating[d] /\ pc[d] # "dropSent"]'
            = [d \in Calls |-> truncating[d]]
      BY <1>1
    <2> QED
      BY ONLY <2>1, <2>2, <2>3, <2>4
  <1>7. UNCHANGED table /\ truncating \in [Calls -> BOOLEAN]
    OBVIOUS
  <1> HIDE DEF StoreInv, TypeInv, TypeOK, OpOf, Critical, UpdatePCs, DropPCs, Crash
  <1>8. \A d \in Calls :
          \/ [e \in Calls |-> LateRows(e)]'[d] = [e \in Calls |-> LateRows(e)][d]
          \/ Store!LeavesRows(d, [e \in Calls |-> LateRows(e)]'[d])
    BY ONLY <1>3, <1>6 DEF Store!LeavesRows
  <1> QED
    BY ONLY <1>4, <1>5, <1>6, <1>7, <1>8 DEF Store!Crash

LEMMA StoreStep ==
  StoreInv /\ [Next]_vars => [Store!Next]_(Store!storeVars)
  <1> SUFFICES ASSUME StoreInv, [Next]_vars PROVE [Store!Next]_(Store!storeVars)
    OBVIOUS
  <1>1. CASE Publish \/ UNCHANGED vars
    <2>1. UNCHANGED Store!storeVars
      BY <1>1, Stutter DEF Publish, vars, callVars, workVars, OpOf, Critical,
                           IsCut, LateRows, Owned
    <2> QED
      BY <2>1
  <1>2. ASSUME NEW c \in Calls, CallStep(c) PROVE [Store!Next]_(Store!storeVars)
    BY <1>2, HandlerSteps, EndSteps DEF CallStep
  <1>3. ASSUME NEW c \in Calls, NEW id \in IDs, ExecAdd(c, id) \/ DiscardAdd(c, id)
        PROVE  Store!Next
    BY <1>3, StatementSteps, SameTable DEF Store!Next, Store!Progress, Store!LateStep
  <1>4. ASSUME NEW c \in Calls, ExecTruncate(c) \/ DiscardTruncate(c)
        PROVE  Store!Next
    BY <1>4, StatementSteps DEF Store!Next, Store!Progress, Store!LateDropStep
  <1>5. CASE Crash
    BY <1>5, CrashStep DEF Store!Next, Store!Progress
  <1> QED
    BY <1>1, <1>2, <1>3, <1>4, <1>5, StartSteps, WorkerSteps, CutSteps DEF Next

LEMMA StoreInit == Init => Store!Init
  <1> SUFFICES ASSUME Init PROVE Store!Init
    OBVIOUS
  <1>1. \A c \in Calls : OpOf(c) = "none" /\ ~Critical(c) /\ LateRows(c) = Truncated
    BY DEF Init, OpOf, Critical, UpdatePCs, DropPCs, LateRows, Owned, Truncated
  <1> QED
    BY <1>1, SameTable DEF Init, Store!Init

\* What the update service does to the comics table, whatever the order of its
\* goroutines, its callers' hang-ups, its lost connections and the crashes of
\* its process, is what ComicsStore promises: a call whose caller waits and
\* whose connections hold leaves nothing behind, a Drop that succeeds has
\* emptied the table, and Update and Drop exclude each other.
THEOREM ServiceImplementsStore == Spec => ImplementsStore
  <1>1. StoreInv /\ [Next]_vars => [Store!Next]_(Store!storeVars)
    BY StoreStep
  <1>2. Spec => []StoreInv
    BY TypeInvariant, MutualExclusion, AttendedInvariant, StatementsOwnedInvariant,
       PTL DEF StoreInv
  <1> QED
    BY <1>1, <1>2, StoreInit, PTL DEF Spec, ImplementsStore, Store!Spec
=============================================================================
