------------------------- MODULE RateLimiterProofs -------------------------
(***************************************************************************)
(* Theorems about RateLimiter, for every number of requests, Limit,        *)
(* Interval, and bound on the clock and on the requests.                   *)
(***************************************************************************)
EXTENDS RateLimiter, TLAPS, SequenceTheorems, WellFoundedInduction

Clock == 0..MaxClock

\* A set of naturals has a least element: induction in the form the provers
\* can use.
LEMMA Least ==
  ASSUME NEW S \in SUBSET Nat, S # {}
  PROVE  \E n \in S : \A m \in S : n <= m
  <1>1. IsWellFoundedOn(OpToRel(<, Nat), Nat)
    BY NatLessThanWellFounded
  <1>2. PICK x \in S : \A y \in S : ~(<<y, x>> \in OpToRel(<, Nat))
    BY <1>1, WFMin
  <1>3. \A y \in S : ~(y < x)
    BY <1>2 DEF OpToRel
  <1> QED
    BY <1>3

\* cleanReq drops the leading entries that have expired, and only those.
LEMMA CleanReq ==
  ASSUME NEW entries \in Seq(Clock), NEW t \in Clock
  PROVE  \E d \in 0..Len(entries) :
           /\ cleanReq(entries, t) \in Seq(Clock)
           /\ Len(cleanReq(entries, t)) = Len(entries) - d
           /\ \A j \in 1..(Len(entries) - d) : cleanReq(entries, t)[j] = entries[d + j]
           /\ \A j \in 1..d : entries[j] < t - Interval
           /\ d < Len(entries) => entries[d + 1] >= t - Interval
  <1> DEFINE L == Len(entries)
             expired(i) == entries[i] < t - Interval
             Stops == {n \in 0..L : n < L => ~expired(n + 1)}
             P(n) == /\ \A i \in 1..n : expired(i)
                     /\ n < L => ~expired(n + 1)
  <1>1. L \in Nat /\ \A i \in 1..L : entries[i] \in Clock
    BY LenProperties, ElementOfSeq
  <1>2. Stops \in SUBSET Nat /\ L \in Stops
    BY <1>1
  <1>3. PICK n \in Stops : \A m \in Stops : n <= m
    BY <1>2, Least
  <1>4. ASSUME NEW i \in 1..n, ~expired(i) PROVE FALSE
    <2>1. i - 1 \in 0..L /\ i - 1 + 1 = i
      BY <1>1, <1>3
    <2>2. i - 1 \in Stops
      BY <1>4, <2>1
    <2>3. n <= i - 1
      BY <1>3, <2>2
    <2> QED
      BY <1>1, <1>3, <2>3
  <1>5. n \in 0..L /\ P(n)
    BY <1>3, <1>4
  <1> DEFINE d == CHOOSE m \in 0..L : P(m)
  <1>6. d \in 0..L /\ P(d)
    BY <1>5
  <1>7. cleanReq(entries, t) = SubSeq(entries, d + 1, L)
    BY DEF cleanReq
  <1> HIDE DEF d, P
  <1>8. /\ SubSeq(entries, d + 1, L) \in Seq(Clock)
        /\ Len(SubSeq(entries, d + 1, L)) = IF d + 1 <= L THEN L - (d + 1) + 1 ELSE 0
        /\ \A i \in 1..(L - (d + 1) + 1) :
             SubSeq(entries, d + 1, L)[i] = entries[d + 1 + i - 1]
    <2>1. d + 1 \in Int /\ L \in Int /\ \A i \in (d + 1)..L : entries[i] \in Clock
      BY <1>1, <1>6
    <2> QED
      BY <2>1, SubSeqProperties
  <1>9. /\ Len(SubSeq(entries, d + 1, L)) = L - d
        /\ \A i \in 1..(L - d) : SubSeq(entries, d + 1, L)[i] = entries[d + i]
    BY <1>1, <1>6, <1>8
  <1>10. /\ \A j \in 1..d : entries[j] < t - Interval
         /\ d < L => entries[d + 1] >= t - Interval
    <2>1. d < L => entries[d + 1] \in Clock
      BY <1>1, <1>6
    <2> QED
      BY <1>6, <2>1, RateAssumption DEF P, Clock
  <1> QED
    BY <1>6, <1>7, <1>8, <1>9, <1>10

\* What req holds after cleanReq, and what the caller of timeToWait finds.
LEMMA Kept ==
  ASSUME TypeOK, NEW r \in Requests
  PROVE  LET kept == cleanReq(req, now[r])
         IN  /\ kept \in Seq(Clock)
             /\ Len(kept) \in 0..Len(req)
             /\ Len(kept) = Len(req) => kept = req
             /\ kept # <<>> => kept[1] \in Clock /\ kept[1] >= now[r] - Interval
  <1> DEFINE kept == cleanReq(req, now[r])
  <1>1. req \in Seq(Clock) /\ now[r] \in Clock /\ Len(req) \in Nat
    BY LenProperties DEF TypeOK, Clock
  <1>2. PICK d \in 0..Len(req) :
           /\ kept \in Seq(Clock)
           /\ Len(kept) = Len(req) - d
           /\ \A j \in 1..(Len(req) - d) : kept[j] = req[d + j]
           /\ d < Len(req) => req[d + 1] >= now[r] - Interval
    BY <1>1, CleanReq
  <1> HIDE DEF kept
  <1>3. Len(kept) \in 0..Len(req)
    BY <1>1, <1>2
  <1>4. ASSUME Len(kept) = Len(req) PROVE kept = req
    <2>1. d = 0
      BY <1>1, <1>2, <1>4
    <2>2. \A j \in 1..Len(kept) : kept[j] = req[j]
      BY <1>1, <1>2, <1>4, <2>1
    <2> QED
      BY <1>1, <1>2, <1>4, <2>2, SeqEqual
  <1>5. ASSUME kept # <<>> PROVE kept[1] \in Clock /\ kept[1] >= now[r] - Interval
    <2>1. Len(kept) \in Nat \ {0}
      BY <1>2, <1>5, EmptySeq
    <2>2. kept[1] = req[d + 1] /\ d < Len(req) /\ 1 \in 1..Len(kept)
      BY <1>1, <1>2, <2>1
    <2> QED
      BY <1>2, <2>2, ElementOfSeq
  <1> QED
    BY <1>2, <1>3, <1>4, <1>5 DEF kept

-----------------------------------------------------------------------------
(* Types, and readings of the clock that lie in the past.                  *)

NowPast == \A r \in Requests : now[r] <= clock

RateTypes == TypeOK /\ NowPast

LEMMA AdmitTypes ==
  ASSUME RateTypes, NEW r \in Requests, NEW recorded \in BOOLEAN,
         Admit(r, recorded), UNCHANGED clock
  PROVE  /\ log' \in Seq(Admission) /\ records' \in Seq(Admission)
         /\ at' \in [Requests -> {"idle", "stamped", "asleep"}]
         /\ now' \in [Requests -> 0..MaxClock]
         /\ overtaken' \in [Requests -> {"new", "no", "yes"}]
         /\ NowPast'
  <1> USE DEF RateTypes, TypeOK
  <1> DEFINE admission == [stamp |-> now[r], time |-> clock]
  <1>1. admission \in Admission
    BY DEF Admission
  <1>2. /\ log' = Append(log, admission)
        /\ records' = IF recorded THEN Append(records, admission) ELSE records
        /\ at' = [at EXCEPT ![r] = "idle"]
        /\ now' = [now EXCEPT ![r] = 0]
        /\ overtaken' = [q \in Requests |->
                           IF q = r THEN "new"
                           ELSE IF recorded /\ overtaken[q] = "no" THEN "yes"
                           ELSE overtaken[q]]
    BY DEF Admit
  <1> HIDE DEF admission
  <1>3. log' \in Seq(Admission) /\ records' \in Seq(Admission)
    BY <1>1, <1>2
  <1>4. 0 \in 0..MaxClock
    BY RateAssumption
  <1>5. NowPast'
    BY <1>2, RateAssumption DEF NowPast
  <1> QED
    BY <1>2, <1>3, <1>4, <1>5

LEMMA RateTypesStep == RateTypes /\ [Next]_vars => RateTypes'
  <1> SUFFICES ASSUME RateTypes, [Next]_vars PROVE RateTypes'
    OBVIOUS
  <1> USE RateAssumption DEF RateTypes, TypeOK
  <1>0. 0 \in 0..MaxClock /\ 0 \in 0..(2 * MaxClock + Interval) /\ Len(req) \in Nat
    BY LenProperties
  <1>1. CASE Tick
    BY <1>1 DEF Tick, NowPast
  <1>2. ASSUME NEW r \in Requests, ReadClock(r) PROVE RateTypes'
    BY <1>0, <1>2 DEF ReadClock, NowPast
  <1>3. ASSUME NEW r \in Requests, Record(r) PROVE RateTypes'
    <2> DEFINE kept == cleanReq(req, now[r])
    <2>1. /\ kept \in Seq(0..MaxClock) /\ Len(kept) \in 0..Len(req)
          /\ now[r] \in 0..MaxClock
      BY Kept DEF Clock
    <2>2. /\ Len(kept) < Limit /\ req' = Append(kept, now[r])
          /\ Admit(r, TRUE) /\ UNCHANGED <<clock, wakeup>>
      BY <1>3 DEF Record
    <2> HIDE DEF kept
    <2>3. req' \in Seq(0..MaxClock) /\ Len(req') = Len(kept) + 1
      BY <2>1, <2>2
    <2>4. Len(req') <= Limit
      BY <1>0, <2>1, <2>2, <2>3
    <2> QED
      BY <2>2, <2>3, <2>4, AdmitTypes
  <1>4. ASSUME NEW r \in Requests, NoRoom(r) PROVE RateTypes'
    <2> DEFINE kept == cleanReq(req, now[r])
               wait == kept[1] + Interval - now[r]
    <2>1. /\ kept \in Seq(Clock) /\ Len(kept) \in 0..Len(req)
          /\ kept # <<>> => kept[1] \in Clock /\ kept[1] >= now[r] - Interval
      BY Kept
    <2>2. Len(kept) >= Limit /\ req' = kept /\ UNCHANGED clock
      BY <1>4 DEF NoRoom
    <2>3. kept[1] \in 0..MaxClock /\ kept[1] >= now[r] - Interval
      <3>1. Len(kept) # 0
        BY <1>0, <2>1, <2>2
      <3>2. kept # <<>>
        BY <3>1, EmptySeq
      <3> QED
        BY <2>1, <3>2 DEF Clock
    <2>4. req' \in Seq(0..MaxClock) /\ Len(req') <= Limit
      <3>1. Len(kept) <= Limit
        BY <1>0, <2>1
      <3> QED
        BY <2>1, <2>2, <3>1 DEF Clock
    <2>5. clock + wait \in 0..(2 * MaxClock + Interval)
      <3>1. now[r] \in 0..MaxClock /\ clock \in 0..MaxClock
        OBVIOUS
      <3> HIDE DEF kept
      <3> QED
        BY ONLY <2>3, <3>1, RateAssumption
    <2>6. CASE Admit(r, FALSE) /\ UNCHANGED wakeup
      BY <2>2, <2>4, <2>6, AdmitTypes
    <2>7. CASE /\ at' = [at EXCEPT ![r] = "asleep"]
               /\ wakeup' = [wakeup EXCEPT ![r] = clock + wait]
               /\ now' = [now EXCEPT ![r] = 0]
               /\ overtaken' = [overtaken EXCEPT ![r] = "no"]
               /\ UNCHANGED <<log, records>>
      <3> HIDE DEF wait, kept
      <3> QED
        BY <1>0, <2>2, <2>4, <2>5, <2>7 DEF NowPast
    <2> QED
      BY <1>4, <2>6, <2>7 DEF NoRoom
  <1>5. ASSUME NEW r \in Requests, GiveUp(r) PROVE RateTypes'
    BY <1>0, <1>5 DEF GiveUp, NowPast
  <1>6. CASE UNCHANGED vars
    BY <1>6 DEF vars, NowPast
  <1> QED
    BY <1>1, <1>2, <1>3, <1>4, <1>5, <1>6 DEF Next

LEMMA RateTypesInvariant == Spec => []RateTypes
  <1>1. Init => RateTypes
    BY RateAssumption DEF Init, RateTypes, TypeOK, NowPast
  <1> QED
    BY <1>1, RateTypesStep, PTL DEF Spec

\* Every variable stays in its domain; in particular req never holds more than
\* `limit` entries.
THEOREM RateTypeCorrect == Spec => []TypeOK
  BY RateTypesInvariant, PTL DEF RateTypes

-----------------------------------------------------------------------------
(* The rate.  req holds the latest records; those before them were dropped *)
(* because they were more than an interval old.                            *)

Dropped == Len(records) - Len(req)

OnRecord ==
  /\ Dropped \in Nat
  /\ \A j \in 1..Len(req) : req[j] = records[Dropped + j].stamp
  /\ \A k \in 1..Dropped : records[k].stamp + Interval < clock

RateInv == OnRecord /\ RecordedRateHolds

\* Dropping entries keeps the correspondence.
LEMMA DropKeepsRecord ==
  ASSUME RateTypes, OnRecord, NEW r \in Requests
  PROVE  LET kept == cleanReq(req, now[r])
             before == Len(records) - Len(kept)
         IN  /\ kept \in Seq(Clock) /\ Len(kept) \in Nat /\ Len(records) \in Nat
             /\ before \in Nat
             /\ \A j \in 1..Len(kept) : kept[j] = records[before + j].stamp
             /\ \A k \in 1..before : records[k].stamp + Interval < clock
  <1> DEFINE kept == cleanReq(req, now[r])
             before == Len(records) - Len(kept)
  <1>1. /\ req \in Seq(Clock) /\ now[r] \in Clock /\ now[r] <= clock /\ clock \in Clock
        /\ Len(req) \in Nat /\ Len(records) \in Nat
    BY LenProperties DEF RateTypes, TypeOK, NowPast, Clock
  <1>2. PICK d \in 0..Len(req) :
           /\ kept \in Seq(Clock)
           /\ Len(kept) = Len(req) - d
           /\ \A j \in 1..(Len(req) - d) : kept[j] = req[d + j]
           /\ \A j \in 1..d : req[j] < now[r] - Interval
    BY <1>1, CleanReq
  <1> HIDE DEF kept
  <1>3. /\ Len(kept) \in Nat /\ before = Dropped + d /\ before \in Nat
        /\ Dropped \in Nat /\ Dropped = Len(records) - Len(req)
    BY <1>1, <1>2 DEF OnRecord, Dropped
  <1> HIDE DEF before
  <1>4. ASSUME NEW j \in 1..Len(kept) PROVE kept[j] = records[before + j].stamp
    <2>1. d + j \in 1..Len(req) /\ kept[j] = req[d + j]
      BY <1>1, <1>2
    <2>2. req[d + j] = records[Dropped + (d + j)].stamp
      BY <2>1 DEF OnRecord
    <2>3. Dropped + (d + j) = before + j
      BY <1>2, <1>3
    <2> QED
      BY <2>1, <2>2, <2>3
  <1>5. ASSUME NEW k \in 1..before PROVE records[k].stamp + Interval < clock
    <2>1. CASE k <= Dropped
      BY <1>3, <2>1 DEF OnRecord
    <2>2. CASE k > Dropped
      <3>1. k - Dropped \in 1..d /\ Dropped + (k - Dropped) = k
        BY <1>2, <1>3, <2>2
      <3>2. k - Dropped \in 1..Len(req)
        BY <1>1, <1>2, <3>1
      <3>3. req[k - Dropped] = records[k].stamp /\ req[k - Dropped] \in Clock
        BY <1>1, <3>1, <3>2, ElementOfSeq DEF OnRecord
      <3>4. req[k - Dropped] < now[r] - Interval
        BY <1>2, <3>1
      <3>5. records[k].stamp \in Clock /\ records[k].stamp < now[r] - Interval
        BY <3>3, <3>4
      <3> QED
        BY ONLY <1>1, <3>5, RateAssumption DEF Clock
    <2> QED
      BY <1>3, <2>1, <2>2
  <1> QED
    BY <1>1, <1>2, <1>3, <1>4, <1>5 DEF before, kept

LEMMA RateInvStep == RateTypes /\ RateInv /\ [Next]_vars => RateInv'
  <1> SUFFICES ASSUME RateTypes, RateInv, [Next]_vars PROVE RateInv'
    OBVIOUS
  <1> USE DEF RateInv
  <1>0. /\ Len(req) \in Nat /\ Len(records) \in Nat /\ clock \in Nat
        /\ \A k \in 1..Len(records) : records[k] \in Admission
    BY LenProperties, ElementOfSeq DEF RateTypes, TypeOK
  <1>1. CASE Tick
    <2>1. /\ clock' = clock + 1 /\ UNCHANGED <<req, records>>
      BY <1>1 DEF Tick
    <2>2. \A k \in 1..Dropped : records[k].stamp + Interval < clock + 1
      <3> SUFFICES ASSUME NEW k \in 1..Dropped
                   PROVE  records[k].stamp + Interval < clock + 1
        OBVIOUS
      <3>1. k \in 1..Len(records) /\ records[k].stamp + Interval < clock
        BY <1>0 DEF OnRecord, Dropped
      <3>2. records[k].stamp \in Nat
        BY <1>0, <3>1 DEF Admission
      <3> QED
        BY <1>0, <3>1, <3>2, RateAssumption
    <2> QED
      BY <2>1, <2>2 DEF OnRecord, Dropped, RecordedRateHolds
  <1>2. ASSUME NEW r \in Requests, ReadClock(r) \/ GiveUp(r) PROVE RateInv'
    BY <1>2 DEF ReadClock, GiveUp, OnRecord, Dropped, RecordedRateHolds
  <1>3. ASSUME NEW r \in Requests, Record(r) PROVE RateInv'
    <2> DEFINE kept == cleanReq(req, now[r])
               before == Len(records) - Len(kept)
               admission == [stamp |-> now[r], time |-> clock]
    <2>1. /\ kept \in Seq(Clock) /\ Len(kept) \in Nat
          /\ before \in Nat
          /\ \A j \in 1..Len(kept) : kept[j] = records[before + j].stamp
          /\ \A k \in 1..before : records[k].stamp + Interval < clock
      BY DropKeepsRecord
    <2>2. /\ Len(kept) < Limit /\ req' = Append(kept, now[r])
          /\ records' = Append(records, admission) /\ clock' = clock
          /\ now[r] \in Clock
      BY <1>3 DEF Record, Admit, RateTypes, TypeOK, Clock
    <2> HIDE DEF kept
    <2>3. /\ Len(req') = Len(kept) + 1
          /\ \A j \in 1..Len(kept) : req'[j] = kept[j]
          /\ req'[Len(kept) + 1] = now[r]
      BY <2>1, <2>2
    <2>4. records \in Seq(Admission) /\ admission.stamp = now[r] /\ admission.time = clock
      BY DEF RateTypes, TypeOK
    <2> HIDE DEF admission
    <2>5. /\ Len(records') = Len(records) + 1
          /\ \A k \in 1..Len(records) : records'[k] = records[k]
          /\ records'[Len(records) + 1] = admission
      BY <2>2, <2>4
    <2>6. Dropped' = before /\ before + Len(kept) = Len(records)
      BY <1>0, <2>1, <2>3, <2>5 DEF Dropped
    <2> HIDE DEF before
    <2>7. ASSUME NEW j \in 1..Len(req') PROVE req'[j] = records'[before + j].stamp
      <3>1. CASE j \in 1..Len(kept)
        <4>1. before + j \in 1..Len(records)
          BY <1>0, <2>1, <2>6, <3>1
        <4> QED
          BY <2>1, <2>3, <2>5, <3>1, <4>1
      <3>2. CASE j = Len(kept) + 1
        <4>1. before + j = Len(records) + 1
          BY <1>0, <2>1, <2>6, <3>2
        <4> QED
          BY <2>3, <2>4, <2>5, <3>2, <4>1
      <3> QED
        BY <2>1, <2>3, <3>1, <3>2
    <2>8. ASSUME NEW k \in 1..before
          PROVE  k \in 1..Len(records) /\ records'[k].stamp + Interval < clock
      BY <1>0, <2>1, <2>5, <2>6
    <2>9. OnRecord'
      BY <2>1, <2>2, <2>6, <2>7, <2>8 DEF OnRecord
    <2>10. ASSUME NEW i \in 1..Len(records'), i + Limit <= Len(records')
           PROVE  records'[i + Limit].time > records'[i].stamp + Interval
      <3>0. Limit \in Nat \ {0} /\ Interval \in Nat
        BY RateAssumption
      <3>1. CASE i + Limit = Len(records) + 1
        <4>1. i \in 1..before
          BY <1>0, <2>1, <2>2, <2>5, <2>6, <2>10, <3>0, <3>1
        <4>2. records'[i + Limit].time = clock
          BY <2>4, <2>5, <3>1
        <4>3. records'[i].stamp \in Nat
          BY <1>0, <2>5, <2>8, <4>1 DEF Admission
        <4> QED
          BY <1>0, <2>8, <3>0, <4>1, <4>2, <4>3
      <3>2. CASE i + Limit # Len(records) + 1
        <4>1. i + Limit \in 1..Len(records) /\ i \in 1..Len(records)
          BY <1>0, <2>5, <2>10, <3>0, <3>2
        <4>2. records[i + Limit].time > records[i].stamp + Interval
          BY <4>1 DEF RecordedRateHolds
        <4> QED
          BY <2>5, <4>1, <4>2
      <3> QED
        BY <3>1, <3>2
    <2> QED
      BY <2>9, <2>10 DEF RecordedRateHolds
  <1>4. ASSUME NEW r \in Requests, NoRoom(r) PROVE RateInv'
    <2> DEFINE kept == cleanReq(req, now[r])
               before == Len(records) - Len(kept)
    <2>1. /\ before \in Nat
          /\ \A j \in 1..Len(kept) : kept[j] = records[before + j].stamp
          /\ \A k \in 1..before : records[k].stamp + Interval < clock
      BY DropKeepsRecord
    <2>2. req' = kept /\ UNCHANGED <<clock, records>>
      BY <1>4 DEF NoRoom, Admit
    <2> HIDE DEF kept
    <2> QED
      BY <2>1, <2>2 DEF OnRecord, Dropped, RecordedRateHolds
  <1>5. CASE UNCHANGED vars
    BY <1>5 DEF vars, OnRecord, Dropped, RecordedRateHolds
  <1> QED
    BY <1>1, <1>2, <1>3, <1>4, <1>5 DEF Next

\* Of the requests on record, the one that comes `limit` places after another
\* is let through more than an interval after the other's reading of the clock.
THEOREM RateOfRecords == Spec => []RecordedRateHolds
  <1>1. Init => RateInv
    BY DEF Init, RateInv, OnRecord, Dropped, RecordedRateHolds
  <1> QED
    BY <1>1, RateInvStep, RateTypesInvariant, PTL DEF Spec, RateInv

-----------------------------------------------------------------------------
(* Waiting.  A timer fires when the first entry has had its interval: that *)
(* entry is dropped or leaves nothing to wait for, and as long as nobody   *)
(* else is put on record there is no other to wait for.                    *)

\* Nobody has to wait at time t.
RoomAt(t) == Len(req) = Limit => req[1] + Interval <= t

TimersInv ==
  \A r \in Requests : overtaken[r] = "no" =>
    /\ at[r] # "idle"
    /\ at[r] = "asleep" => RoomAt(wakeup[r])
    /\ at[r] = "stamped" => RoomAt(now[r])

\* No timer is set, and dropped entries only make room.
LEMMA TimersFrame ==
  ASSUME TimersInv, req' = req \/ Len(req') # Limit,
         \A r \in Requests : overtaken'[r] = "no" =>
           /\ overtaken[r] = "no" /\ at'[r] = at[r]
           /\ wakeup'[r] = wakeup[r] /\ now'[r] = now[r]
  PROVE  TimersInv'
  BY DEF TimersInv, RoomAt

\* Somebody who finds no room leaves req as it was.
LEMMA FullStays ==
  ASSUME RateTypes, NEW r \in Requests, NoRoom(r)
  PROVE  /\ req' = req /\ Len(req) = Limit /\ cleanReq(req, now[r]) = req
         /\ req[1] \in Clock /\ req[1] >= now[r] - Interval
  <1>1. /\ Len(cleanReq(req, now[r])) \in 0..Len(req)
        /\ Len(cleanReq(req, now[r])) = Len(req) => cleanReq(req, now[r]) = req
        /\ cleanReq(req, now[r]) # <<>> =>
             /\ cleanReq(req, now[r])[1] \in Clock
             /\ cleanReq(req, now[r])[1] >= now[r] - Interval
    BY Kept DEF RateTypes
  <1>2. /\ Len(cleanReq(req, now[r])) >= Limit
        /\ req' = cleanReq(req, now[r])
    BY DEF NoRoom
  <1>3. Len(req) \in Nat /\ Len(req) <= Limit /\ Limit \in Nat \ {0}
    BY LenProperties, RateAssumption DEF RateTypes, TypeOK
  <1>4. Len(req) = Limit /\ cleanReq(req, now[r]) = req
    BY <1>1, <1>2, <1>3
  <1>5. req # <<>>
    BY <1>3, <1>4, EmptySeq
  <1> QED
    BY <1>1, <1>2, <1>4, <1>5

LEMMA TimersStep == RateTypes /\ TimersInv /\ [Next]_vars => TimersInv'
  <1> SUFFICES ASSUME RateTypes, TimersInv, [Next]_vars PROVE TimersInv'
    OBVIOUS
  <1> USE DEF RateTypes, TypeOK
  <1>1. CASE Tick \/ UNCHANGED vars
    BY <1>1, TimersFrame DEF Tick, vars
  <1>2. ASSUME NEW r \in Requests, ReadClock(r) PROVE TimersInv'
    <2>1. /\ at[r] = "idle" \/ (at[r] = "asleep" /\ clock >= wakeup[r])
          /\ at' = [at EXCEPT ![r] = "stamped"] /\ now' = [now EXCEPT ![r] = clock]
          /\ \A q \in Requests \ {r} : wakeup'[q] = wakeup[q]
          /\ UNCHANGED <<req, overtaken>>
      BY <1>2 DEF ReadClock
    <2>2. ASSUME overtaken[r] = "no", Len(req) = Limit PROVE req[1] + Interval <= clock
      <3>1. at[r] = "asleep" /\ clock >= wakeup[r] /\ req[1] + Interval <= wakeup[r]
        BY <2>1, <2>2 DEF TimersInv, RoomAt
      <3>2. req[1] \in 0..MaxClock
        <4>1. 1 \in 1..Len(req)
          BY <2>2, RateAssumption
        <4> QED
          BY <4>1, ElementOfSeq
      <3>3. clock \in Nat /\ wakeup[r] \in Nat
        BY RateAssumption
      <3> QED
        BY <3>1, <3>2, <3>3, RateAssumption
    <2> QED
      BY <2>1, <2>2 DEF TimersInv, RoomAt
  <1>3. ASSUME NEW r \in Requests, Record(r) PROVE TimersInv'
    <2>1. \A q \in Requests : overtaken'[q] # "no"
      BY <1>3 DEF Record, Admit
    <2> QED
      BY <2>1 DEF TimersInv
  <1>4. ASSUME NEW r \in Requests, NoRoom(r) PROVE TimersInv'
    <2>1. /\ req' = req /\ cleanReq(req, now[r]) = req
          /\ req[1] \in Clock
      BY <1>4, FullStays
    <2>2. CASE Admit(r, FALSE) /\ UNCHANGED wakeup
      BY <2>1, <2>2, TimersFrame DEF Admit
    <2>3. CASE /\ at' = [at EXCEPT ![r] = "asleep"]
               /\ wakeup' = [wakeup EXCEPT ![r] = clock + (req[1] + Interval - now[r])]
               /\ now' = [now EXCEPT ![r] = 0]
               /\ overtaken' = [overtaken EXCEPT ![r] = "no"]
      <3>1. wakeup'[r] = clock + (req[1] + Interval - now[r]) /\ at'[r] = "asleep"
        BY <2>3
      <3>2. now[r] <= clock /\ now[r] \in Clock /\ clock \in Clock
        BY DEF NowPast, Clock
      <3>3. req[1] + Interval <= clock + (req[1] + Interval - now[r])
        BY ONLY <2>1, <3>2, RateAssumption DEF Clock
      <3>4. \A q \in Requests \ {r} : /\ at'[q] = at[q] /\ wakeup'[q] = wakeup[q]
                                      /\ now'[q] = now[q] /\ overtaken'[q] = overtaken[q]
        BY <2>3
      <3> QED
        BY <2>1, <3>1, <3>3, <3>4 DEF TimersInv, RoomAt
    <2> QED
      BY <1>4, <2>1, <2>2, <2>3 DEF NoRoom
  <1>5. ASSUME NEW r \in Requests, GiveUp(r) PROVE TimersInv'
    BY <1>5, TimersFrame DEF GiveUp
  <1> QED
    BY <1>1, <1>2, <1>3, <1>4, <1>5 DEF Next

\* A request that has slept and finds no room again was overtaken by one that
\* was put on record while it slept.
THEOREM OnlyOvertakenSleep == Spec => OnlyOvertakenWaitAgain
  <1> DEFINE Overtaken ==
        \A r \in Requests :
          at[r] = "stamped" /\ at'[r] = "asleep" => overtaken[r] # "no"
  <1>1. RateTypes /\ TimersInv /\ [Next]_vars => [Overtaken]_vars
    <2> SUFFICES ASSUME RateTypes, TimersInv, Next, NEW r \in Requests,
                        at[r] = "stamped", at'[r] = "asleep", overtaken[r] = "no"
                 PROVE  FALSE
      OBVIOUS
    <2>1. NoRoom(r) /\ at' = [at EXCEPT ![r] = "asleep"]
          /\ cleanReq(req, now[r])[1] + Interval - now[r] # 0
      <3>1. PICK q \in Requests : ReadClock(q) \/ Record(q) \/ NoRoom(q) \/ GiveUp(q)
        BY DEF Next, Tick
      <3>2. at \in [Requests -> {"idle", "stamped", "asleep"}]
        BY DEF RateTypes, TypeOK
      <3>3. NoRoom(q) /\ at' = [at EXCEPT ![q] = "asleep"]
            /\ cleanReq(req, now[q])[1] + Interval - now[q] # 0
        BY <3>1, <3>2 DEF ReadClock, Record, NoRoom, GiveUp, Admit
      <3>4. q = r
        BY <3>2, <3>3
      <3> QED
        BY <3>3, <3>4
    <2>2. /\ Len(req) = Limit /\ cleanReq(req, now[r]) = req
          /\ req[1] \in Clock /\ req[1] >= now[r] - Interval
      BY <2>1, FullStays
    <2>3. req[1] + Interval <= now[r]
      BY <2>2 DEF TimersInv, RoomAt
    <2>4. now[r] \in Clock /\ req[1] + Interval - now[r] # 0
      BY <2>1, <2>2 DEF RateTypes, TypeOK, Clock
    <2> QED
      BY ONLY <2>2, <2>3, <2>4, RateAssumption DEF Clock
  <1>2. [](RateTypes /\ TimersInv) /\ [][Next]_vars => [][Overtaken]_vars
    BY <1>1, PTL
  <1>3. Init => TimersInv
    BY DEF Init, TimersInv
  <1>4. Spec => [](RateTypes /\ TimersInv)
    BY <1>3, TimersStep, RateTypesInvariant, PTL DEF Spec
  <1> QED
    BY <1>2, <1>4, PTL DEF Spec, OnlyOvertakenWaitAgain
=============================================================================
