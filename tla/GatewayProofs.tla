---------------------------- MODULE GatewayProofs ----------------------------
(***************************************************************************)
(* Theorems about Gateway, for every number of requests, SearchConcurrency *)
(* and TokenTTL.                                                           *)
(***************************************************************************)
EXTENDS Gateway, TLAPS, FiniteSetTheorems

-----------------------------------------------------------------------------
(* One request.  What is known of it depends on where it is; it never      *)
(* depends on the other requests.                                          *)

\* The token of an admin request was verified and good.
Passed(r) == token[r] # NoToken /\ checked[r] < Expiry(token[r])

\* A token lives for its TTL less a fraction of a second.
LEMMA ExpiryBounds ==
  ASSUME NEW login \in Nat
  PROVE  /\ Expiry(login) \in Int
         /\ Expiry(login) <= login + TokenTTL
         /\ Expiry(login) > login + TokenTTL - Second
  <1>1. TokenTTL \in Nat /\ login + TokenTTL \in Nat /\ Second \in Nat \ {0}
    BY GatewayAssumption
  <1>2. ASSUME NEW n \in Nat, NEW s \in Nat \ {0}
        PROVE  /\ n \div s \in Int
               /\ n = s * (n \div s) + (n % s)
               /\ n % s \in 0..(s - 1)
    OBVIOUS
  <1>3. ASSUME NEW n \in Nat, NEW s \in Nat \ {0}, NEW q \in Int, NEW m \in 0..(s - 1),
               n = s * q + m
        PROVE  q * s \in Int /\ q * s <= n /\ n < q * s + s
    BY <1>3
  <1>4. ASSUME NEW n \in Nat, NEW s \in Nat \ {0}
        PROVE  /\ (n \div s) * s \in Int
               /\ (n \div s) * s <= n
               /\ (n \div s) * s > n - s
    BY <1>2, <1>3
  <1>5. /\ ((login + TokenTTL) \div Second) * Second \in Int
        /\ ((login + TokenTTL) \div Second) * Second <= login + TokenTTL
        /\ ((login + TokenTTL) \div Second) * Second > (login + TokenTTL) - Second
    BY ONLY <1>1, <1>4, Zenon
  <1> QED
    BY ONLY <1>1, <1>5 DEF Expiry

\* The answer of a request is written once, and its call's end is known.
StageInv(r) ==
  /\ at[r] \in {"arrived", "handler"}
       => server[r] = "none" /\ served[r] = "none" /\ code[r] = 0
  /\ at[r] = "answered" /\ server[r] = "none"
       => served[r] = "none" /\ code[r] = 0
  /\ at[r] = "calling"
       => server[r] # "none" /\ served[r] = "none" /\ code[r] = 0
  /\ at[r] = "replied" => got[r] # "none" /\ code[r] = 0
  /\ at[r] = "refused" => server[r] = "none" /\ served[r] = "none"
  /\ at[r] \in {"calling", "replied"} => query[r] # "malformed"
  /\ at[r] = "replied" /\ server[r] # "none" => gone[r] /\ got[r] = "error"
  /\ at[r] \in {"written", "answered"} /\ server[r] # "none"
       => gone[r] /\ code[r] = 500

AdminInv(r) ==
  kind[r] \in Admin =>
    /\ at[r] \in {"handler", "calling", "replied", "written"}
         \/ server[r] # "none" => Passed(r)
    /\ code[r] = 401 => at[r] = "refused"
                          /\ (token[r] = NoToken \/ checked[r] >= Expiry(token[r]))
    /\ at[r] = "replied" =>
         /\ got[r] = "ok" => served[r] = "ok"
         /\ got[r] = "alreadyExists" => served[r] = "refused" /\ kind[r] = "update"
    /\ code[r] = 200 => served[r] = "ok"
    /\ code[r] = 202 => served[r] = "refused" /\ kind[r] = "update"

SearchInv(r) ==
  kind[r] \in Searches /\ ~gone[r] =>
    /\ at[r] = "replied" => (got[r] = "badArguments" <=> served[r] = "invalid")
    /\ code[r] \notin {0, 503} =>
         (code[r] = 400 <=> query[r] = "malformed" \/ served[r] = "invalid")

RequestsInv ==
  \A r \in Requests : StageInv(r) /\ AdminInv(r) /\ SearchInv(r)

GatewayInv == TypeOK /\ SlotsBelongToRequests /\ RequestsInv

-----------------------------------------------------------------------------
(* The slots of the limiter.                                               *)

LEMMA HoldersFinite == IsFiniteSet(SlotHolders)
  BY FS_Subset, GatewayAssumption DEF SlotHolders

LEMMA SlotTaken ==
  ASSUME SlotsBelongToRequests, NEW r \in Requests, r \notin SlotHolders,
         SlotHolders' = SlotHolders \union {r}, slots' = slots + 1
  PROVE  SlotsBelongToRequests'
  BY HoldersFinite, FS_AddElement DEF SlotsBelongToRequests

LEMMA SlotGivenBack ==
  ASSUME SlotsBelongToRequests, NEW r \in SlotHolders,
         SlotHolders' = SlotHolders \ {r}, slots' = slots - 1
  PROVE  SlotsBelongToRequests' /\ slots' \in Nat
  <1>1. IsFiniteSet(SlotHolders \ {r}) /\ Cardinality(SlotHolders) # 0
    BY HoldersFinite, FS_RemoveElement, FS_EmptySet
  <1> QED
    BY <1>1, HoldersFinite, FS_RemoveElement, FS_CardinalityType
    DEF SlotsBelongToRequests

LEMMA SlotsStep ==
  GatewayInv /\ [Next]_vars
    => SlotsBelongToRequests' /\ slots' \in 0..SearchConcurrency
  <1> SUFFICES ASSUME GatewayInv, [Next]_vars
               PROVE  SlotsBelongToRequests' /\ slots' \in 0..SearchConcurrency
    OBVIOUS
  <1> USE DEF Goto
  <1>0. /\ slots \in 0..SearchConcurrency /\ SearchConcurrency \in Nat
        /\ SlotsBelongToRequests
        /\ at \in [Requests -> {"arrived", "handler", "calling", "replied",
                                "written", "refused", "answered"}]
        /\ kind \in [Requests -> Kinds]
    BY GatewayAssumption DEF GatewayInv, TypeOK
  <1>1. ASSUME UNCHANGED slots, SlotHolders' = SlotHolders
        PROVE  SlotsBelongToRequests' /\ slots' \in 0..SearchConcurrency
    BY <1>0, <1>1 DEF SlotsBelongToRequests
  <1>2. ASSUME NEW r \in Requests, TakeSlot(r)
        PROVE  SlotsBelongToRequests' /\ slots' \in 0..SearchConcurrency
    <2>1. CASE slots < SearchConcurrency
      <3>1. r \notin SlotHolders /\ SlotHolders' = SlotHolders \union {r}
        BY <1>0, <1>2, <2>1 DEF TakeSlot, SlotHolders
      <3> QED
        BY <1>0, <1>2, <2>1, <3>1, SlotTaken DEF TakeSlot
    <2>2. CASE ~(slots < SearchConcurrency)
      <3>1. SlotHolders' = SlotHolders
        BY <1>0, <1>2, <2>2 DEF TakeSlot, SlotHolders
      <3> QED
        BY <1>1, <1>2, <2>2, <3>1 DEF TakeSlot
    <2> QED
      BY <2>1, <2>2
  <1>3. ASSUME NEW r \in Requests, Finish(r)
        PROVE  SlotsBelongToRequests' /\ slots' \in 0..SearchConcurrency
    <2>1. CASE at[r] = "written" /\ kind[r] = "search"
      <3>1. r \in SlotHolders /\ SlotHolders' = SlotHolders \ {r}
        BY <1>0, <1>3, <2>1 DEF Finish, SlotHolders, Forget
      <3>2. slots' = slots - 1
        BY <1>3, <2>1 DEF Finish, GiveBack
      <3> QED
        BY <1>0, <3>1, <3>2, SlotGivenBack
    <2>2. CASE ~(at[r] = "written" /\ kind[r] = "search")
      <3>1. UNCHANGED slots /\ SlotHolders' = SlotHolders
        BY <1>0, <1>3, <2>2 DEF Finish, SlotHolders, Forget, GiveBack
      <3> QED
        BY <1>1, <3>1
    <2> QED
      BY <2>1, <2>2
  <1>4. ASSUME NEW r \in Requests,
               Arrive(r) \/ Leave(r) \/ PassRate(r) \/ Auth(r) \/ LeaveRate(r)
                 \/ Unguarded(r)
        PROVE  SlotsBelongToRequests' /\ slots' \in 0..SearchConcurrency
    <2>1. UNCHANGED slots /\ SlotHolders' = SlotHolders
      BY <1>0, <1>4
      DEF Arrive, Leave, PassRate, Auth, LeaveRate, Unguarded, SlotHolders,
          Admin, Reports
    <2> QED
      BY <1>1, <2>1
  <1>5. ASSUME NEW r \in Requests,
               Login(r) \/ Malformed(r) \/ Call(r) \/ CallCancelled(r) \/ Respond(r)
        PROVE  SlotsBelongToRequests' /\ slots' \in 0..SearchConcurrency
    <2>1. UNCHANGED slots /\ SlotHolders' = SlotHolders
      BY <1>0, <1>5
      DEF Login, Malformed, Call, CallCancelled, Respond, SlotHolders
    <2> QED
      BY <1>1, <2>1
  <1>6. ASSUME NEW r \in Requests, NEW outcome, ServiceReturns(r, outcome)
        PROVE  SlotsBelongToRequests' /\ slots' \in 0..SearchConcurrency
    <2>1. UNCHANGED slots /\ SlotHolders' = SlotHolders
      BY <1>0, <1>6 DEF ServiceReturns, Forget, SlotHolders
    <2> QED
      BY <1>1, <2>1
  <1>7. ASSUME NEW r \in Requests, ServiceStep(r)
        PROVE  SlotsBelongToRequests' /\ slots' \in 0..SearchConcurrency
    <2>1. CASE ServiceBegins(r)
      BY <1>1, <2>1 DEF ServiceBegins, SlotHolders
    <2>2. CASE ~ServiceBegins(r)
      BY <1>6, <1>7, <2>2
      DEF ServiceStep, ServiceRefuses, ServiceRejects, ServiceEnds,
          ServiceUnreachable
    <2> QED
      BY <2>1, <2>2
  <1>8. CASE Tick \/ UNCHANGED vars
    BY <1>1, <1>8 DEF Tick, vars, SlotHolders
  <1> QED
    BY <1>2, <1>3, <1>4, <1>5, <1>7, <1>8 DEF Next, GatewayStep

-----------------------------------------------------------------------------
(* Types.                                                                  *)

Outcomes == {"ok", "refused", "invalid", "tooLong", "failed"}

\* Every answer of a service is one of these.
LEMMA ServiceAnswers ==
  ASSUME NEW r \in Requests, ServiceStep(r), ~ServiceBegins(r)
  PROVE  \E outcome \in Outcomes :
           /\ ServiceReturns(r, outcome)
           /\ server[r] # "none"
           /\ outcome = "invalid" => query[r] = "empty"
           /\ outcome = "refused" => kind[r] \in Admin
  BY DEF ServiceStep, ServiceRefuses, ServiceRejects, ServiceEnds, Active,
         ServiceUnreachable, Outcomes

LEMMA AnswerTypes ==
  ASSUME NEW k \in Kinds, NEW result \in {"ok", "alreadyExists", "badArguments", "error"}
  PROVE  /\ Sent(Writes(k, result)) =
              CASE result = "alreadyExists" -> 202
                [] result = "badArguments"  -> 400
                [] result = "error"         -> 500
                [] result = "ok"            -> 200
         /\ Sent(Writes(k, result)) \in {200, 202, 400, 500}
  <1>1. CASE result = "alreadyExists"
    BY <1>1 DEF Sent, Writes
  <1>2. CASE result = "badArguments"
    BY <1>2 DEF Sent, Writes
  <1>3. CASE result = "error"
    <2>1. CASE k \in Admin
      BY <1>3, <2>1 DEF Sent, Writes
    <2>2. CASE k \notin Admin
      BY <1>3, <2>2 DEF Sent, Writes
    <2> QED
      BY <2>1, <2>2
  <1>4. CASE result = "ok"
    BY <1>4 DEF Sent, Writes
  <1> QED
    BY <1>1, <1>2, <1>3, <1>4

LEMMA ResultTypes ==
  ASSUME NEW k, NEW outcome \in Outcomes
  PROVE  /\ Result(k, outcome) \in {"ok", "alreadyExists", "badArguments", "error"}
         /\ Result(k, outcome) = "ok" <=> outcome = "ok"
         /\ Result(k, outcome) = "alreadyExists" <=> outcome = "refused" /\ k = "update"
         /\ Result(k, outcome) = "badArguments" <=> outcome = "invalid"
  BY DEF Result, Outcomes

LEMMA ForgetTypes ==
  ASSUME TypeOK, NEW r \in Requests, Forget(r)
  PROVE  /\ kind' \in [Requests -> Kinds]
         /\ query' \in [Requests -> Queries]
         /\ token' \in [Requests -> {NoToken} \union 0..MaxClock]
         /\ gone' \in [Requests -> BOOLEAN]
         /\ got' \in [Requests -> {"none", "ok", "alreadyExists", "badArguments", "error"}]
         /\ code' \in [Requests -> {0, 200, 202, 400, 401, 500, 503}]
         /\ checked' \in [Requests -> 0..MaxClock]
         /\ served' \in [Requests -> {"none", "ok", "refused", "invalid", "tooLong", "failed"}]
  <1>1. 0 \in 0..MaxClock /\ "search" \in Kinds /\ "good" \in Queries
    BY GatewayAssumption DEF Kinds, Searches, Queries
  <1> QED
    BY <1>1 DEF Forget, TypeOK

LEMMA TypeOKStep == GatewayInv /\ [Next]_vars => TypeOK'
  <1> SUFFICES ASSUME GatewayInv, [Next]_vars PROVE TypeOK'
    OBVIOUS
  <1> USE DEF TypeOK, GatewayInv, Goto, Answer
  <1>a. slots' \in 0..SearchConcurrency
    BY SlotsStep
  <1>1. CASE Tick
    <2>1. clock' \in 0..MaxClock
      BY <1>1, GatewayAssumption DEF Tick
    <2> QED
      BY ONLY <1>1, <1>a, <2>1, TypeOK DEF Tick
  <1>2. ASSUME NEW r \in Requests, Arrive(r) \/ Leave(r) \/ PassRate(r) PROVE TypeOK'
    <2>1. CASE Arrive(r)
      <3>1. \E k \in Kinds : kind' = [kind EXCEPT ![r] = k]
        BY <2>1 DEF Arrive
      <3>2. \E q \in Queries : query' = [query EXCEPT ![r] = q]
        BY <2>1 DEF Arrive, Queries
      <3>3. \E t \in {NoToken} \union 0..MaxClock : token' = [token EXCEPT ![r] = t]
        <4>1. 0..clock \subseteq 0..MaxClock
          BY GatewayAssumption
        <4> QED
          BY <2>1, <4>1 DEF Arrive
      <3>4. /\ kind' \in [Requests -> Kinds]
            /\ query' \in [Requests -> Queries]
            /\ token' \in [Requests -> {NoToken} \union 0..MaxClock]
        BY <3>1, <3>2, <3>3
      <3> QED
        BY <1>a, <2>1, <3>4 DEF Arrive
    <2>2. CASE Leave(r)
      BY <1>a, <2>2 DEF Leave
    <2>3. CASE PassRate(r)
      BY <1>a, <2>3 DEF PassRate
    <2> QED
      BY <1>2, <2>1, <2>2, <2>3
  <1>3. ASSUME NEW r \in Requests, GatewayStep(r) PROVE TypeOK'
    <2>1. CASE Auth(r)
      BY <1>a, <2>1 DEF Auth
    <2>2. CASE TakeSlot(r)
      BY <1>a, <2>2 DEF TakeSlot
    <2>3. CASE LeaveRate(r) \/ Unguarded(r) \/ Login(r) \/ Malformed(r)
      BY <1>a, <2>3 DEF LeaveRate, Unguarded, Login, Malformed
    <2>4. CASE Call(r)
      BY <1>a, <2>4 DEF Call
    <2>5. CASE CallCancelled(r)
      <3>1. PICK s \in {"sent", "none", "cancelled"} : server' = [server EXCEPT ![r] = s]
        BY <2>5 DEF CallCancelled
      <3> QED
        BY <1>a, <2>5, <3>1 DEF CallCancelled
    <2>6. CASE Respond(r)
      <3>1. Sent(Writes(kind[r], got[r])) \in {200, 202, 400, 500}
        BY <2>6, AnswerTypes DEF Respond, RequestsInv, StageInv
      <3> QED
        BY <1>a, <2>6, <3>1 DEF Respond
    <2>7. CASE Finish(r)
      <3>1. CASE server[r] = "none"
        BY <1>a, <2>7, <3>1, ForgetTypes DEF Finish
      <3>2. CASE server[r] # "none"
        BY <1>a, <2>7, <3>2 DEF Finish
      <3> QED
        BY <3>1, <3>2
    <2> QED
      BY <1>3, <2>1, <2>2, <2>3, <2>4, <2>5, <2>6, <2>7 DEF GatewayStep
  <1>4. ASSUME NEW r \in Requests, ServiceStep(r) PROVE TypeOK'
    <2>1. CASE ServiceBegins(r)
      BY <1>a, <2>1 DEF ServiceBegins
    <2>2. CASE ~ServiceBegins(r)
      <3>1. PICK outcome \in Outcomes : ServiceReturns(r, outcome)
        BY <1>4, <2>2, ServiceAnswers
      <3>2. Result(kind[r], outcome) \in {"ok", "alreadyExists", "badArguments", "error"}
        BY ResultTypes
      <3> QED
        <4>1. CASE at[r] = "answered"
          BY <1>a, <3>1, <4>1, ForgetTypes DEF ServiceReturns
        <4>2. CASE at[r] # "answered"
          BY <1>a, <3>1, <3>2, <4>2 DEF ServiceReturns, Outcomes
        <4> QED
          BY <4>1, <4>2
    <2> QED
      BY <2>1, <2>2
  <1>5. CASE UNCHANGED vars
    BY <1>5 DEF vars
  <1> QED
    BY <1>1, <1>2, <1>3, <1>4, <1>5 DEF Next

-----------------------------------------------------------------------------
(* What is known of a request stays true.                                  *)

RequestInv(r) == StageInv(r) /\ AdminInv(r) /\ SearchInv(r)

\* A step of one request leaves the others alone.
LEMMA OthersUntouched ==
  ASSUME RequestsInv, NEW r \in Requests, RequestInv(r)',
         \A d \in Requests \ {r} :
           /\ kind'[d] = kind[d] /\ query'[d] = query[d] /\ token'[d] = token[d]
           /\ at'[d] = at[d] /\ gone'[d] = gone[d] /\ server'[d] = server[d]
           /\ got'[d] = got[d] /\ code'[d] = code[d]
           /\ checked'[d] = checked[d] /\ served'[d] = served[d]
  PROVE  RequestsInv'
  BY DEF RequestsInv, RequestInv, StageInv, AdminInv, SearchInv, Passed

LEMMA ArrivingSteps ==
  ASSUME TypeOK, RequestsInv, NEW r \in Requests,
         Arrive(r) \/ Leave(r) \/ PassRate(r) \/ Auth(r) \/ TakeSlot(r)
           \/ LeaveRate(r) \/ Unguarded(r)
  PROVE  RequestInv(r)'
  <1> USE DEF TypeOK, RequestsInv, RequestInv, StageInv, AdminInv, SearchInv,
              Passed, Goto, Answer
  <1>1. CASE Arrive(r)
    <2>1. PICK k \in Kinds : kind' = [kind EXCEPT ![r] = k]
      BY ONLY <1>1 DEF Arrive
    <2>2. /\ at'[r] = "arrived" /\ server'[r] = "none" /\ served'[r] = "none"
          /\ code'[r] = 0 /\ kind'[r] = k
      <3>1. server[r] = "none" /\ served[r] = "none" /\ code[r] = 0
        BY <1>1 DEF Arrive
      <3>2. UNCHANGED <<server, served, code>>
        BY <1>1 DEF Arrive
      <3>3. at' = [at EXCEPT ![r] = "arrived"]
        BY <1>1 DEF Arrive
      <3>4. at'[r] = "arrived" /\ kind'[r] = k
        BY <2>1, <3>3
      <3> QED
        BY ONLY <3>1, <3>2, <3>4
    <2> QED
      BY ONLY <2>2 DEF RequestInv, StageInv, AdminInv, SearchInv
  <1>2. CASE Leave(r)
    BY <1>2 DEF Leave
  <1>3. CASE PassRate(r)
    BY <1>3 DEF PassRate, Admin
  <1>4. CASE Auth(r)
    <2>1. CASE Verify(token[r])
      BY <1>4, <2>1 DEF Auth, Verify, Admin, Searches
    <2>2. CASE ~Verify(token[r])
      <3>1. token[r] = NoToken \/ clock >= Expiry(token[r])
        BY <2>2, ExpiryBounds DEF Verify
      <3> QED
        BY <1>4, <2>2, <3>1 DEF Auth, Admin, Searches
    <2> QED
      BY <2>1, <2>2
  <1>5. CASE TakeSlot(r)
    BY <1>5 DEF TakeSlot, Admin
  <1>6. CASE LeaveRate(r)
    BY <1>6 DEF LeaveRate, Admin
  <1>7. CASE Unguarded(r)
    BY <1>7 DEF Unguarded, Admin, Reports, Searches
  <1> QED
    BY <1>1, <1>2, <1>3, <1>4, <1>5, <1>6, <1>7

LEMMA HandlerSteps ==
  ASSUME TypeOK, RequestsInv, NEW r \in Requests,
         Login(r) \/ Malformed(r) \/ Call(r) \/ CallCancelled(r) \/ Respond(r)
  PROVE  RequestInv(r)'
  <1> USE DEF TypeOK, RequestsInv, RequestInv, StageInv, AdminInv, SearchInv,
              Passed, Goto, Answer
  <1>1. CASE Login(r)
    BY <1>1 DEF Login, Admin, Searches
  <1>2. CASE Malformed(r)
    BY <1>2 DEF Malformed
  <1>3. CASE Call(r)
    BY <1>3 DEF Call
  <1>4. CASE CallCancelled(r)
    <2>1. at'[r] = "replied" /\ got'[r] = "error" /\ gone'[r] = TRUE /\ server[r] # "none"
      BY <1>4 DEF CallCancelled
    <2> QED
      BY <1>4, <2>1 DEF CallCancelled
  <1>5. CASE Respond(r)
    <2>1. got[r] \in {"ok", "alreadyExists", "badArguments", "error"}
      BY <1>5 DEF Respond
    <2>2. code'[r] = CASE got[r] = "alreadyExists" -> 202
                       [] got[r] = "badArguments"  -> 400
                       [] got[r] = "error"         -> 500
                       [] got[r] = "ok"            -> 200
      BY <1>5, <2>1, AnswerTypes DEF Respond
    <2> QED
      BY <1>5, <2>1, <2>2 DEF Respond
  <1> QED
    BY <1>1, <1>2, <1>3, <1>4, <1>5

\* A slot without a request knows nothing.
LEMMA Forgotten ==
  ASSUME TypeOK, NEW r \in Requests, Forget(r), at'[r] = "answered",
         server'[r] = "none"
  PROVE  RequestInv(r)'
  BY DEF TypeOK, Forget, RequestInv, StageInv, AdminInv, SearchInv, Admin

LEMMA EndingSteps ==
  ASSUME TypeOK, RequestsInv, NEW r \in Requests, Finish(r) \/ ServiceStep(r)
  PROVE  RequestInv(r)'
  <1> USE DEF TypeOK, RequestsInv, RequestInv, StageInv, AdminInv, SearchInv,
              Passed, Goto, Answer
  <1>1. CASE Finish(r)
    <2>1. CASE server[r] = "none"
      BY <1>1, <2>1, Forgotten DEF Finish
    <2>2. CASE server[r] # "none"
      BY <1>1, <2>2 DEF Finish
    <2> QED
      BY <2>1, <2>2
  <1>2. CASE ServiceBegins(r)
    BY <1>2 DEF ServiceBegins
  <1>3. CASE ServiceStep(r) /\ ~ServiceBegins(r)
    <2>1. PICK outcome \in Outcomes :
            /\ ServiceReturns(r, outcome)
            /\ server[r] # "none"
            /\ outcome = "invalid" => query[r] = "empty"
            /\ outcome = "refused" => kind[r] \in Admin
      BY <1>3, ServiceAnswers
    <2>2. CASE at[r] = "answered"
      BY <2>1, <2>2, Forgotten DEF ServiceReturns
    <2>3. CASE at[r] = "calling"
      <3>1. /\ got'[r] = Result(kind[r], outcome)
            /\ at'[r] = "replied" /\ server'[r] = "none" /\ served'[r] = outcome
            /\ UNCHANGED <<kind, query, token, gone, code, checked>>
        BY <2>1, <2>3 DEF ServiceReturns
      <3> QED
        BY <2>3, <3>1, ResultTypes
    <2>4. CASE at[r] \in {"replied", "written"}
      <3>1. /\ server'[r] = "none" /\ served'[r] = outcome
            /\ UNCHANGED <<kind, query, token, gone, code, checked, at, got>>
            /\ gone[r]
            /\ at[r] = "replied" => got[r] = "error" /\ code[r] = 0
            /\ at[r] = "written" => code[r] = 500
        BY <2>1, <2>4 DEF ServiceReturns
      <3> QED
        BY <2>4, <3>1
    <2> QED
      BY <2>1, <2>2, <2>3, <2>4 DEF ServiceReturns
  <1> QED
    BY <1>1, <1>2, <1>3

LEMMA OthersStay ==
  ASSUME TypeOK, NEW r \in Requests,
         Arrive(r) \/ Leave(r) \/ PassRate(r) \/ GatewayStep(r) \/ ServiceStep(r)
  PROVE  \A d \in Requests \ {r} :
           /\ kind'[d] = kind[d] /\ query'[d] = query[d] /\ token'[d] = token[d]
           /\ at'[d] = at[d] /\ gone'[d] = gone[d] /\ server'[d] = server[d]
           /\ got'[d] = got[d] /\ code'[d] = code[d]
           /\ checked'[d] = checked[d] /\ served'[d] = served[d]
  <1> USE DEF TypeOK, Goto, Answer, Forget
  <1>1. CASE Arrive(r)
    BY <1>1 DEF Arrive
  <1>2. CASE Leave(r) \/ PassRate(r)
    BY <1>2 DEF Leave, PassRate
  <1>3. CASE Auth(r) \/ TakeSlot(r) \/ LeaveRate(r) \/ Unguarded(r)
    BY <1>3 DEF Auth, TakeSlot, LeaveRate, Unguarded
  <1>4. CASE Login(r) \/ Malformed(r) \/ Call(r)
    BY <1>4 DEF Login, Malformed, Call
  <1>5. CASE CallCancelled(r) \/ Respond(r)
    BY <1>5 DEF CallCancelled, Respond
  <1>6. CASE Finish(r)
    BY <1>6 DEF Finish
  <1>7. CASE ServiceBegins(r)
    BY <1>7 DEF ServiceBegins
  <1>8. CASE ServiceStep(r) /\ ~ServiceBegins(r)
    <2>1. \E outcome \in Outcomes : ServiceReturns(r, outcome)
      BY <1>8, ServiceAnswers
    <2> QED
      BY <2>1 DEF ServiceReturns
  <1> QED
    BY <1>1, <1>2, <1>3, <1>4, <1>5, <1>6, <1>7, <1>8 DEF GatewayStep

LEMMA RequestsInvStep == GatewayInv /\ [Next]_vars => RequestsInv'
  <1> SUFFICES ASSUME TypeOK, RequestsInv, [Next]_vars PROVE RequestsInv'
    BY DEF GatewayInv
  <1>1. CASE Tick \/ UNCHANGED vars
    BY <1>1 DEF Tick, vars, RequestsInv, StageInv, AdminInv, SearchInv, Passed
  <1>2. ASSUME NEW r \in Requests,
               Arrive(r) \/ Leave(r) \/ PassRate(r) \/ GatewayStep(r) \/ ServiceStep(r)
        PROVE  RequestsInv'
    <2>1. RequestInv(r)'
      BY <1>2, ArrivingSteps, HandlerSteps, EndingSteps DEF GatewayStep
    <2> QED
      BY <1>2, <2>1, OthersStay, OthersUntouched
  <1> QED
    BY <1>1, <1>2 DEF Next

LEMMA InitGatewayInv == Init => GatewayInv
  <1> SUFFICES ASSUME Init PROVE GatewayInv
    OBVIOUS
  <1>1. TypeOK
    BY GatewayAssumption DEF Init, TypeOK, Kinds, Searches, Queries
  <1>2. SlotHolders = {}
    BY DEF Init, SlotHolders
  <1>3. SlotsBelongToRequests
    BY <1>2, FS_EmptySet DEF Init, SlotsBelongToRequests
  <1>4. RequestsInv
    BY DEF Init, RequestsInv, StageInv, AdminInv, SearchInv, Admin
  <1> QED
    BY <1>1, <1>3, <1>4 DEF GatewayInv

LEMMA GatewayInvariant == Spec => []GatewayInv
  <1>1. GatewayInv /\ [Next]_vars => GatewayInv'
    BY TypeOKStep, SlotsStep, RequestsInvStep DEF GatewayInv
  <1> QED
    BY <1>1, InitGatewayInv, PTL DEF Spec

-----------------------------------------------------------------------------

\* The types are right in every reachable state: the handlers never meet a
\* result they have no answer for.
THEOREM GatewayTypes == Spec => []TypeOK
  BY GatewayInvariant, PTL DEF GatewayInv

\* The limiter of /api/search never leaks a slot nor lends one twice.
THEOREM LimiterCounts == Spec => []SlotsBelongToRequests
  BY GatewayInvariant, PTL DEF GatewayInv

\* No token opens an admin endpoint at or past its TTL, none is refused that
\* has a second to live.
THEOREM TokensExpire == Spec => []TokensLiveTheirTTL
  <1>1. GatewayInv => TokensLiveTheirTTL
    <2> SUFFICES ASSUME GatewayInv, NEW r \in Requests, kind[r] \in Admin
                 PROVE  /\ server[r] # "none" \/ served[r] # "none"
                             => token[r] # NoToken /\ checked[r] < token[r] + TokenTTL
                        /\ code[r] = 401 /\ token[r] # NoToken
                             => checked[r] > token[r] + TokenTTL - Second
      BY DEF TokensLiveTheirTTL
    <2>1. /\ token[r] # NoToken => token[r] \in Nat
          /\ checked[r] \in Int /\ TokenTTL \in Nat /\ Second \in Nat
          /\ at[r] \in {"arrived", "handler", "calling", "replied", "written",
                        "refused", "answered"}
      BY GatewayAssumption DEF GatewayInv, TypeOK
    <2>2. server[r] # "none" \/ served[r] # "none" => Passed(r)
      BY <2>1 DEF GatewayInv, RequestsInv, StageInv, AdminInv
    <2>3. code[r] = 401 /\ token[r] # NoToken => checked[r] >= Expiry(token[r])
      BY DEF GatewayInv, RequestsInv, AdminInv
    <2>4. ASSUME token[r] # NoToken
          PROVE  /\ Expiry(token[r]) \in Int
                 /\ Expiry(token[r]) <= token[r] + TokenTTL
                 /\ Expiry(token[r]) > token[r] + TokenTTL - Second
      BY <2>1, <2>4, ExpiryBounds
    <2> QED
      BY <2>1, <2>2, <2>3, <2>4 DEF Passed
  <1> QED
    BY <1>1, GatewayInvariant, PTL

\* The answer to an admin tells what became of its own call.
THEOREM AdminsAreToldTheTruth == Spec => []AdminAnswersAreTrue
  <1>1. GatewayInv => AdminAnswersAreTrue
    BY DEF GatewayInv, RequestsInv, AdminInv, AdminAnswersAreTrue
  <1> QED
    BY <1>1, GatewayInvariant, PTL

\* A search that is waited for is called bad exactly if it was.
THEOREM SearchersAreToldTheTruth == Spec => []BadArgumentsAreTold
  <1>1. GatewayInv => BadArgumentsAreTold
    BY DEF GatewayInv, RequestsInv, SearchInv, BadArgumentsAreTold
  <1> QED
    BY <1>1, GatewayInvariant, PTL

-----------------------------------------------------------------------------
(* The safety half of LeaversLeaveNothing, which itself needs fairness and *)
(* is model-checked: no service works for nobody without having been told, *)
(* and a request has a number of steps left that every step of it lowers.  *)

\* A service that works on a call without having been told to cancel it has
\* somebody in the gateway who waits for it; a call that nobody in the gateway
\* waits for any more is one whose client has left.
CallsAreHeard ==
  \A r \in Requests :
    /\ server[r] = "running" => at[r] = "calling"
    /\ server[r] # "none" /\ at[r] # "calling" => gone[r]

LEMMA CallsAreHeardStep ==
  GatewayInv /\ CallsAreHeard /\ [Next]_vars =>
    \A r \in Requests : (server[r] = "running" => at[r] = "calling")'
  <1> SUFFICES ASSUME GatewayInv, CallsAreHeard, [Next]_vars, NEW r \in Requests
               PROVE  server'[r] = "running" => at'[r] = "calling"
    OBVIOUS
  <1> USE DEF GatewayInv, TypeOK, CallsAreHeard, Goto
  <1>1. CASE Tick \/ UNCHANGED vars
    BY <1>1 DEF Tick, vars
  <1>2. ASSUME NEW d \in Requests \ {r},
               Arrive(d) \/ Leave(d) \/ PassRate(d) \/ GatewayStep(d) \/ ServiceStep(d)
        PROVE  server'[r] = "running" => at'[r] = "calling"
    <2>1. at'[r] = at[r] /\ server'[r] = server[r]
      BY <1>2, OthersStay
    <2> QED
      BY <2>1
  <1>3. CASE Arrive(r) \/ Leave(r) \/ PassRate(r)
    BY <1>3 DEF Arrive, Leave, PassRate
  <1>4. CASE GatewayStep(r)
    <2>1. CASE CallCancelled(r)
      BY <2>1 DEF CallCancelled
    <2>2. CASE Call(r)
      BY <2>2 DEF Call
    <2>3. CASE ~CallCancelled(r) /\ ~Call(r)
      BY <1>4, <2>3 DEF GatewayStep, Auth, TakeSlot, LeaveRate, Unguarded,
         Login, Malformed, Respond, Finish
    <2> QED
      BY <2>1, <2>2, <2>3
  <1>5. CASE ServiceBegins(r)
    BY <1>5 DEF ServiceBegins
  <1>6. CASE ServiceStep(r) /\ ~ServiceBegins(r)
    <2>1. \E outcome \in Outcomes : ServiceReturns(r, outcome)
      BY <1>6, ServiceAnswers
    <2> QED
      BY <2>1 DEF ServiceReturns
  <1> QED
    BY <1>1, <1>2, <1>3, <1>4, <1>5, <1>6 DEF Next

\* A service never works on, untold, for a request that has stopped waiting:
\* whoever works without having been told has a request that waits for it.
THEOREM NobodyWorksUnheard == Spec => []CallsAreHeard
  <1>1. ASSUME GatewayInv, NEW r \in Requests, server[r] # "none", at[r] # "calling"
        PROVE  gone[r]
    BY <1>1 DEF GatewayInv, TypeOK, RequestsInv, StageInv
  <1>2. Init => CallsAreHeard
    BY DEF Init, CallsAreHeard
  <1>3. GatewayInv /\ CallsAreHeard /\ [Next]_vars /\ GatewayInv' => CallsAreHeard'
    <2> SUFFICES ASSUME GatewayInv, CallsAreHeard, [Next]_vars, GatewayInv',
                        NEW r \in Requests
                 PROVE  /\ server'[r] = "running" => at'[r] = "calling"
                        /\ server'[r] # "none" /\ at'[r] # "calling" => gone'[r]
      BY DEF CallsAreHeard
    <2>1. server'[r] = "running" => at'[r] = "calling"
      BY CallsAreHeardStep
    <2>2. server'[r] # "none" /\ at'[r] # "calling" => gone'[r]
      BY DEF GatewayInv, TypeOK, RequestsInv, StageInv
    <2> QED
      BY <2>1, <2>2
  <1> QED
    BY <1>2, <1>3, GatewayInvariant, PTL DEF Spec

\* The steps a request has at most still to take, in the gateway and in the
\* service.
GatewaySteps(r) ==
  CASE at[r] = "arrived"                -> 7
    [] at[r] = "handler"                -> 6
    [] at[r] = "calling"                -> 3
    [] at[r] = "replied"                -> 2
    [] at[r] \in {"written", "refused"} -> 1
    [] OTHER                            -> 0

ServiceSteps(r) ==
  CASE server[r] = "sent"                     -> 2
    [] server[r] \in {"running", "cancelled"} -> 1
    [] OTHER                                  -> 0

StepsLeft(r) == GatewaySteps(r) + ServiceSteps(r)

\* A request never goes back to an earlier stage: until it has ended its steps
\* only become fewer.
RequestsMoveOn ==
  \A r \in Requests :
    /\ StepsLeft(r) \in 0..7
    /\ PassRate(r) \/ GatewayStep(r) \/ ServiceStep(r)
         => StepsLeft(r)' < StepsLeft(r)
    /\ StepsLeft(r)' > StepsLeft(r) => StepsLeft(r) = 0

\* Every step of a request, in the gateway or in its service, whatever the
\* other requests do, brings it nearer to its end, which is at most seven steps
\* away; only the slot of a request that has ended begins anew.
THEOREM RequestsOnlyMoveOn == Spec => [][RequestsMoveOn]_vars
  <1>1. ASSUME GatewayInv, GatewayInv', Next PROVE RequestsMoveOn
    <2> SUFFICES ASSUME NEW r \in Requests
                 PROVE  /\ StepsLeft(r) \in 0..7
                        /\ PassRate(r) \/ GatewayStep(r) \/ ServiceStep(r)
                             => StepsLeft(r)' < StepsLeft(r)
                        /\ StepsLeft(r)' > StepsLeft(r) => StepsLeft(r) = 0
      BY DEF RequestsMoveOn
    <2>0. /\ at[r] \in {"arrived", "handler", "calling", "replied", "written",
                        "refused", "answered"}
          /\ server[r] \in {"none", "sent", "running", "cancelled"}
          /\ at \in [Requests -> {"arrived", "handler", "calling", "replied",
                                  "written", "refused", "answered"}]
          /\ server \in [Requests -> {"none", "sent", "running", "cancelled"}]
          /\ StageInv(r)
      BY <1>1 DEF GatewayInv, TypeOK, RequestsInv
    <2>1. /\ GatewaySteps(r) \in 0..7 /\ ServiceSteps(r) \in 0..2
          /\ GatewaySteps(r)' \in 0..7 /\ ServiceSteps(r)' \in 0..2
      BY DEF GatewaySteps, ServiceSteps
    <2>2. StepsLeft(r) \in 0..7
      <3>1. at[r] \in {"arrived", "handler"} => server[r] = "none"
        BY <2>0 DEF StageInv
      <3>2. GatewaySteps(r) > 3 => ServiceSteps(r) = 0
        BY <3>1 DEF GatewaySteps, ServiceSteps
      <3> QED
        BY <2>1, <3>2 DEF StepsLeft
    <2>3. at'[r] = at[r] => GatewaySteps(r)' = GatewaySteps(r)
      BY DEF GatewaySteps
    <2>4. server'[r] = server[r] => ServiceSteps(r)' = ServiceSteps(r)
      BY DEF ServiceSteps
    <2> DEFINE Falls == StepsLeft(r)' < StepsLeft(r)
    <2>5. ASSUME GatewaySteps(r)' < GatewaySteps(r), server'[r] = server[r]
          PROVE  Falls
      BY <2>1, <2>4, <2>5 DEF StepsLeft
    <2>6. ASSUME PassRate(r) \/ Unguarded(r) \/ LeaveRate(r) \/ Auth(r) \/ TakeSlot(r)
          PROVE  Falls
      <3>1. /\ server'[r] = server[r]
            /\ at[r] = "arrived" /\ at'[r] \in {"handler", "refused"}
        BY <2>0, <2>6 DEF PassRate, Unguarded, LeaveRate, Auth, TakeSlot, Goto
      <3>2. GatewaySteps(r)' < GatewaySteps(r)
        BY <3>1 DEF GatewaySteps
      <3> QED
        BY <2>5, <3>1, <3>2
    <2>7. ASSUME Login(r) \/ Malformed(r) \/ Respond(r) PROVE Falls
      <3>1. /\ server'[r] = server[r]
            /\ at[r] \in {"handler", "replied"} /\ at'[r] = "written"
        BY <2>0, <2>7 DEF Login, Malformed, Respond, Goto
      <3>2. GatewaySteps(r)' < GatewaySteps(r)
        BY <3>1 DEF GatewaySteps
      <3> QED
        BY <2>5, <3>1, <3>2
    <2>8. ASSUME Finish(r) PROVE Falls
      <3>1. /\ at[r] \in {"written", "refused"} /\ at'[r] = "answered"
            /\ server'[r] = server[r]
        BY <2>0, <2>8 DEF Finish, Goto
      <3>2. GatewaySteps(r)' < GatewaySteps(r)
        BY <3>1 DEF GatewaySteps
      <3> QED
        BY <2>5, <3>1, <3>2
    <2>9. ASSUME Call(r) PROVE Falls
      <3>1. at[r] = "handler" /\ at'[r] = "calling" /\ server[r] = "none"
        BY <2>0, <2>9 DEF Call, Goto, StageInv
      <3>2. GatewaySteps(r) = 6 /\ GatewaySteps(r)' = 3 /\ ServiceSteps(r) = 0
        BY <3>1 DEF GatewaySteps, ServiceSteps
      <3> QED
        BY <2>1, <3>2 DEF StepsLeft
    <2>10. ASSUME CallCancelled(r) PROVE Falls
      <3>1. /\ at[r] = "calling" /\ at'[r] = "replied"
            /\ \/ server[r] = "sent" /\ server'[r] \in {"sent", "none"}
               \/ server[r] \in {"running", "cancelled"} /\ server'[r] = "cancelled"
        BY <2>0, <2>10 DEF CallCancelled, Goto, StageInv
      <3>2. GatewaySteps(r) = 3 /\ GatewaySteps(r)' = 2
        BY <3>1 DEF GatewaySteps
      <3>3. ServiceSteps(r)' <= ServiceSteps(r)
        BY <3>1 DEF ServiceSteps
      <3> QED
        BY <2>1, <3>2, <3>3 DEF StepsLeft
    <2>11. ASSUME ServiceBegins(r) PROVE Falls
      <3>1. /\ server[r] = "sent" /\ server'[r] \in {"running", "cancelled"}
            /\ at'[r] = at[r]
        BY <2>0, <2>11 DEF ServiceBegins
      <3>2. ServiceSteps(r) = 2 /\ ServiceSteps(r)' = 1
        BY <3>1 DEF ServiceSteps
      <3> QED
        BY <2>1, <2>3, <3>1, <3>2 DEF StepsLeft
    <2>12. ASSUME ServiceStep(r) /\ ~ServiceBegins(r) PROVE Falls
      <3>1. PICK outcome \in Outcomes : ServiceReturns(r, outcome) /\ server[r] # "none"
        BY <2>12, ServiceAnswers
      <3>2. /\ server'[r] = "none"
            /\ at'[r] = at[r] \/ (at[r] = "calling" /\ at'[r] = "replied")
        BY <2>0, <3>1 DEF ServiceReturns, Goto
      <3>3. ServiceSteps(r)' = 0 /\ ServiceSteps(r) > 0
        BY <2>0, <3>1, <3>2 DEF ServiceSteps
      <3>4. GatewaySteps(r)' <= GatewaySteps(r)
        <4>1. CASE at'[r] = at[r]
          BY <2>1, <2>3, <4>1
        <4>2. CASE at[r] = "calling" /\ at'[r] = "replied"
          BY <4>2 DEF GatewaySteps
        <4> QED
          BY <3>2, <4>1, <4>2
      <3> QED
        BY <2>1, <3>3, <3>4 DEF StepsLeft
    <2>13. PassRate(r) \/ GatewayStep(r) \/ ServiceStep(r) => Falls
      BY <2>6, <2>7, <2>8, <2>9, <2>10, <2>11, <2>12 DEF GatewayStep
    <2>14. ASSUME StepsLeft(r)' > StepsLeft(r) PROVE StepsLeft(r) = 0
      <3>1. StepsLeft(r) \in Int /\ StepsLeft(r)' \in Int
        BY <2>1 DEF StepsLeft
      <3>2. ~(PassRate(r) \/ GatewayStep(r) \/ ServiceStep(r))
        BY <2>13, <2>14, <3>1
      <3>3. ~(at'[r] = at[r] /\ server'[r] = server[r])
        BY <2>3, <2>4, <2>14, <3>1 DEF StepsLeft
      <3>4. PICK d \in Requests :
              Arrive(d) \/ Leave(d) \/ PassRate(d) \/ GatewayStep(d) \/ ServiceStep(d)
        BY <1>1, <3>3 DEF Next, Tick
      <3>5. d = r
        BY <1>1, <3>3, <3>4, OthersStay DEF GatewayInv
      <3>6. Arrive(r)
        BY <3>2, <3>3, <3>4, <3>5 DEF Leave
      <3>7. at[r] = "answered" /\ server[r] = "none"
        BY <3>6 DEF Arrive
      <3> QED
        BY <3>7 DEF StepsLeft, GatewaySteps, ServiceSteps
    <2> QED
      BY <2>2, <2>13, <2>14
  <1>2. GatewayInv /\ GatewayInv' /\ [Next]_vars => [RequestsMoveOn]_vars
    BY <1>1
  <1> QED
    BY <1>2, GatewayInvariant, PTL DEF Spec
=============================================================================
