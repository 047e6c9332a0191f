---------------------------- MODULE RateLimiter ----------------------------
(***************************************************************************)
(* The rate limiter of /api/isearch:                                       *)
(* search-services/api/adapters/rest/middleware/rate.go.                   *)
(*                                                                         *)
(* Each request runs Wait in a goroutine of its own.  timeToWait reads the *)
(* clock before it takes the lock, so requests can enter the critical      *)
(* section with stamps that are out of order.  The clock is the monotonic  *)
(* one; a tick of the model is the smallest difference it can show.        *)
(***************************************************************************)
EXTENDS Integers, Sequences, FiniteSets

CONSTANTS
  Requests,   \* slots for requests in progress
  Limit,      \* RateLimiter.limit, SEARCH_RATE
  Interval,   \* RateLimiter.interval, one second
  MaxClock,   \* bound on the clock
  MaxRequests \* bound on the requests admitted or in progress

ASSUME RateAssumption ==
  /\ Limit \in Nat \ {0}      \* NewRateLimiter panics otherwise
  /\ Interval \in Nat \ {0}
  /\ MaxClock \in Nat
  /\ MaxRequests \in Nat
  /\ IsFiniteSet(Requests)

VARIABLES
  clock,
  req,        \* RateLimiter.req
  at,         \* where each request is
  now,        \* timeToWait: the clock it read
  wakeup,     \* Wait: when its timer fires
  log,        \* history: the admissions, in the order of the lock
  records,    \* history: those of them that were put on record in req
  overtaken   \* history: since the request fell asleep, another one was put
              \* on record: "yes" or "no"; "new" if it has not slept yet

vars == <<clock, req, at, now, wakeup, log, records, overtaken>>

\* An admission: the request's reading of the clock and the time it is let
\* through.
Admission == [stamp : 0..MaxClock, time : 0..MaxClock]

Init ==
  /\ clock = 0
  /\ req = <<>>
  /\ at = [r \in Requests |-> "idle"]
  /\ now = [r \in Requests |-> 0]
  /\ wakeup = [r \in Requests |-> 0]
  /\ log = <<>>
  /\ records = <<>>
  /\ overtaken = [r \in Requests |-> "new"]

Tick ==
  /\ clock < MaxClock
  /\ clock' = clock + 1
  /\ UNCHANGED <<req, at, now, wakeup, log, records, overtaken>>

Busy == {r \in Requests : at[r] # "idle"}

\* now := time.Now(), at the head of timeToWait: the first round of Wait, or
\* the next one when the timer has fired.
ReadClock(r) ==
  /\ \/ at[r] = "idle" /\ Len(log) + Cardinality(Busy) < MaxRequests
     \/ at[r] = "asleep" /\ clock >= wakeup[r]
  /\ at' = [at EXCEPT ![r] = "stamped"]
  /\ now' = [now EXCEPT ![r] = clock]
  /\ wakeup' = [wakeup EXCEPT ![r] = 0]
  /\ UNCHANGED <<clock, req, log, records, overtaken>>

\* MUTANT of cleanReq: an entry expires one tick too early.
cleanReqEarly(entries, t) ==
  LET expired(i) == entries[i] <= t - Interval
      dropped == CHOOSE n \in 0..Len(entries) :
                   /\ \A i \in 1..n : expired(i)
                   /\ n < Len(entries) => ~expired(n + 1)
  IN  SubSeq(entries, dropped + 1, Len(entries))

\* cleanReq: the entries dropped are the leading ones before t - interval.
cleanReq(entries, t) ==
  LET expired(i) == entries[i] < t - Interval
      dropped == CHOOSE n \in 0..Len(entries) :
                   /\ \A i \in 1..n : expired(i)
                   /\ n < Len(entries) => ~expired(n + 1)
  IN  SubSeq(entries, dropped + 1, Len(entries))

\* Wait returns true.
Admit(r, recorded) ==
  LET admission == [stamp |-> now[r], time |-> clock]
  IN  /\ log' = Append(log, admission)
      /\ records' = IF recorded THEN Append(records, admission) ELSE records
      /\ at' = [at EXCEPT ![r] = "idle"]
      /\ now' = [now EXCEPT ![r] = 0]
      /\ overtaken' = [q \in Requests |->
                         IF q = r THEN "new"
                         ELSE IF recorded /\ overtaken[q] = "no" THEN "yes"
                         ELSE overtaken[q]]

\* MUTANT of Record: the comparison with the limit is off by one.
RecordOneMore(r) ==
  LET kept == cleanReq(req, now[r])
  IN  /\ at[r] = "stamped"
      /\ Len(kept) <= Limit
      /\ req' = Append(kept, now[r])
      /\ Admit(r, TRUE)
      /\ UNCHANGED <<clock, wakeup>>

\* The critical section finds room: the reading goes on record.
Record(r) ==
  LET kept == cleanReq(req, now[r])
  IN  /\ at[r] = "stamped"
      /\ Len(kept) < Limit
      /\ req' = Append(kept, now[r])
      /\ Admit(r, TRUE)
      /\ UNCHANGED <<clock, wakeup>>

\* MUTANT of NoRoom: the timer fires one tick early.
NoRoomWakesEarly(r) ==
  LET kept == cleanReq(req, now[r])
      wait == kept[1] + Interval - now[r]
  IN  /\ at[r] = "stamped"
      /\ Len(kept) >= Limit
      /\ req' = kept
      /\ \/ /\ wait = 0
            /\ Admit(r, FALSE)
            /\ UNCHANGED wakeup
         \/ /\ wait # 0
            /\ at' = [at EXCEPT ![r] = "asleep"]
            /\ wakeup' = [wakeup EXCEPT ![r] = clock + wait - 1]
            /\ now' = [now EXCEPT ![r] = 0]
            /\ overtaken' = [overtaken EXCEPT ![r] = "no"]
            /\ UNCHANGED <<log, records>>
      /\ UNCHANGED clock

\* The critical section finds no room: how long until the oldest entry leaves.
\* Wait takes a result of 0 for "go on".
NoRoom(r) ==
  LET kept == cleanReq(req, now[r])
      wait == kept[1] + Interval - now[r]
  IN  /\ at[r] = "stamped"
      /\ Len(kept) >= Limit
      /\ req' = kept
      /\ \/ /\ wait = 0
            /\ Admit(r, FALSE)
            /\ UNCHANGED wakeup
         \/ /\ wait # 0
            /\ at' = [at EXCEPT ![r] = "asleep"]
            /\ wakeup' = [wakeup EXCEPT ![r] = clock + wait]
            /\ now' = [now EXCEPT ![r] = 0]
            /\ overtaken' = [overtaken EXCEPT ![r] = "no"]
            /\ UNCHANGED <<log, records>>
      /\ UNCHANGED clock

\* ctx.Done: the client hung up while its request slept.
GiveUp(r) ==
  /\ at[r] = "asleep"
  /\ at' = [at EXCEPT ![r] = "idle"]
  /\ wakeup' = [wakeup EXCEPT ![r] = 0]
  /\ overtaken' = [overtaken EXCEPT ![r] = "new"]
  /\ UNCHANGED <<clock, req, now, log, records>>

Next ==
  \/ Tick
  \/ \E r \in Requests : ReadClock(r) \/ Record(r) \/ NoRoom(r) \/ GiveUp(r)

Spec == Init /\ [][Next]_vars

-----------------------------------------------------------------------------
(* Properties.                                                             *)

\* In particular, req never holds more than `limit` entries.
TypeOK ==
  /\ clock \in 0..MaxClock
  /\ req \in Seq(0..MaxClock) /\ Len(req) <= Limit
  /\ at \in [Requests -> {"idle", "stamped", "asleep"}]
  /\ now \in [Requests -> 0..MaxClock]
  /\ wakeup \in [Requests -> 0..(2 * MaxClock + Interval)]
  /\ log \in Seq(Admission)
  /\ records \in Seq(Admission)
  /\ overtaken \in [Requests -> {"new", "no", "yes"}]

\* Of the requests on record, the one that comes `limit` places after another
\* is let through more than an interval after the other's reading of the
\* clock, in whatever order the readings reach the lock.
RecordedRateHolds ==
  \A i \in 1..Len(records) :
    i + Limit <= Len(records)
      => records[i + Limit].time > records[i].stamp + Interval

\* A request that has slept and finds no room again was overtaken: another one
\* was put on record while it slept.  Its timer alone never makes it wait for
\* longer than the entry it waited for, however old its own reading of the
\* clock was and in whatever order the entries are.
OnlyOvertakenWaitAgain ==
  [][\A r \in Requests :
       at[r] = "stamped" /\ at'[r] = "asleep" => overtaken[r] # "no"]_vars

-----------------------------------------------------------------------------
(* README.md: SEARCH_RATE is the rate limit of /api/isearch.               *)

\* No more than `limit` requests are let through within an interval.
RateHolds ==
  \A i \in 1..Len(log) :
    i + Limit <= Len(log) => log[i + Limit].time >= log[i].stamp + Interval
=============================================================================
