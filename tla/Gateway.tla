------------------------------ MODULE Gateway ------------------------------
(***************************************************************************)
(* The REST gateway (search-services/api): the middleware in front of its  *)
(* endpoints, its handlers, its gRPC clients, and what the gRPC servers of *)
(* update, search and words make of an error on its way back.              *)
(*                                                                         *)
(* Of the services behind it only what the gateway can tell apart is kept: *)
(* update does one Update or Drop at a time (UpdateService shows that it   *)
(* does), search and words answer or fail.  The wait for the rate limit of *)
(* /api/isearch is any delay (RateLimiter has its detail).                 *)
(***************************************************************************)
EXTENDS Integers, FiniteSets, Sequences

CONSTANTS
  Requests,            \* slots for HTTP requests in progress
  SearchConcurrency,   \* SEARCH_CONCURRENCY
  TokenTTL,            \* TOKEN_TTL, in ticks of the clock
  Second,              \* ticks in a second
  MaxClock             \* bound on the clock

ASSUME GatewayAssumption ==
  /\ IsFiniteSet(Requests)
  /\ {SearchConcurrency, TokenTTL, MaxClock} \subseteq Nat
  /\ Second \in Nat \ {0}

VARIABLES
  clock,
  kind,      \* the endpoint asked for
  query,     \* the arguments of a search
  token,     \* the token shown: the time of its login, NoToken if none of ours
  at,        \* where the request is
  gone,      \* the client has left: r.Context() is done
  slots,     \* length of the channel `limiter`
  server,    \* the gRPC call on the side of the service
  got,       \* what the gRPC client of the gateway returned
  code       \* the HTTP status

\* History variables.
VARIABLES
  checked,   \* when the token was verified
  served     \* what the service made of the call

vars == <<clock, kind, query, token, at, gone, slots, server, got, code,
          checked, served>>

Admin    == {"update", "drop"}       \* endpoints behind Auth
Searches == {"search", "isearch"}
Reports  == {"report"}               \* /api/db/stats and /api/db/status
Kinds    == Admin \union Searches \union Reports \union {"login"}
Queries  == {"malformed", "empty", "long", "good"}
NoToken  == -1

Init ==
  /\ clock = 0
  /\ kind = [r \in Requests |-> "search"]
  /\ query = [r \in Requests |-> "good"]
  /\ token = [r \in Requests |-> NoToken]
  /\ at = [r \in Requests |-> "answered"]
  /\ gone = [r \in Requests |-> FALSE]
  /\ slots = 0
  /\ server = [r \in Requests |-> "none"]
  /\ got = [r \in Requests |-> "none"]
  /\ code = [r \in Requests |-> 0]
  /\ checked = [r \in Requests |-> 0]
  /\ served = [r \in Requests |-> "none"]

Tick ==
  /\ clock < MaxClock
  /\ clock' = clock + 1
  /\ UNCHANGED <<kind, query, token, at, gone, slots, server, got, code,
                 checked, served>>

\* A request arrives.  Only the arguments its endpoint looks at are told apart.
\* The gateway keeps no record of the tokens it gave: a client of an admin
\* endpoint may show the token of any login up to now.
Arrive(r) ==
  /\ at[r] = "answered"
  /\ server[r] = "none"
  /\ \E k \in Kinds :
       /\ kind' = [kind EXCEPT ![r] = k]
       /\ \E q \in (IF k \in Searches THEN Queries ELSE {"good"}) :
            query' = [query EXCEPT ![r] = q]
       /\ \E t \in {NoToken} \union (IF k \in Admin THEN 0..clock ELSE {}) :
            token' = [token EXCEPT ![r] = t]
  /\ at' = [at EXCEPT ![r] = "arrived"]
  /\ UNCHANGED <<clock, gone, slots, server, got, code, checked, served>>

\* Nothing is left of a request: its slot is as good as new.
Forget(r) ==
  /\ kind' = [kind EXCEPT ![r] = "search"]
  /\ query' = [query EXCEPT ![r] = "good"]
  /\ token' = [token EXCEPT ![r] = NoToken]
  /\ gone' = [gone EXCEPT ![r] = FALSE]
  /\ got' = [got EXCEPT ![r] = "none"]
  /\ code' = [code EXCEPT ![r] = 0]
  /\ checked' = [checked EXCEPT ![r] = 0]
  /\ served' = [served EXCEPT ![r] = "none"]

\* The client hangs up before its answer.
Leave(r) ==
  /\ at[r] # "answered"
  /\ ~gone[r]
  /\ gone' = [gone EXCEPT ![r] = TRUE]
  /\ UNCHANGED <<clock, kind, query, token, at, slots, server, got, code,
                 checked, served>>

-----------------------------------------------------------------------------
(* Middleware.                                                             *)

Goto(r, place)   == at' = [at EXCEPT ![r] = place]
Answer(r, status) == code' = [code EXCEPT ![r] = status]

\* MUTANT of Expiry: the second the token expires in is counted in full.
ExpiryRoundedUp(login) == ((login + TokenTTL + Second) \div Second) * Second

\* AAA.Login; jwt.NewNumericDate drops the fraction of a second.
Expiry(login) == ((login + TokenTTL) \div Second) * Second

\* AAA.Verify
Verify(t) == t # NoToken /\ clock < Expiry(t)

\* Auth lets a request through or answers 401.
Auth(r) ==
  /\ at[r] = "arrived"
  /\ kind[r] \in Admin
  /\ checked' = [checked EXCEPT ![r] = clock]
  /\ IF Verify(token[r]) THEN Goto(r, "handler") /\ UNCHANGED code
                         ELSE Goto(r, "refused") /\ Answer(r, 401)
  /\ UNCHANGED <<clock, kind, query, token, gone, slots, server, got, served>>

\* Concurrency takes a slot, or answers 503.
TakeSlot(r) ==
  /\ at[r] = "arrived"
  /\ kind[r] = "search"
  /\ IF slots < SearchConcurrency
       THEN slots' = slots + 1 /\ Goto(r, "handler") /\ UNCHANGED code
       ELSE UNCHANGED slots /\ Goto(r, "refused") /\ Answer(r, 503)
  /\ UNCHANGED <<clock, kind, query, token, gone, server, got, checked, served>>

\* Rate lets a request through...
PassRate(r) ==
  /\ at[r] = "arrived"
  /\ kind[r] = "isearch"
  /\ Goto(r, "handler")
  /\ UNCHANGED <<clock, kind, query, token, gone, slots, server, got, code,
                 checked, served>>

\* ...or answers 503 when its client has left.
LeaveRate(r) ==
  /\ at[r] = "arrived"
  /\ kind[r] = "isearch"
  /\ gone[r]
  /\ Goto(r, "refused")
  /\ Answer(r, 503)
  /\ UNCHANGED <<clock, kind, query, token, gone, slots, server, got,
                 checked, served>>

\* The endpoints without a middleware of their own.
Unguarded(r) ==
  /\ at[r] = "arrived"
  /\ kind[r] \in Reports \union {"login"}
  /\ Goto(r, "handler")
  /\ UNCHANGED <<clock, kind, query, token, gone, slots, server, got, code,
                 checked, served>>

\* MUTANT of GiveBack: the slot is given back twice.
GiveBackTwice(r) == slots' = IF kind[r] = "search" THEN slots - 2 ELSE slots

\* MUTANT of GiveBack: only a search that succeeded gives its slot back.
GiveBackIfOK(r) ==
  slots' = IF kind[r] = "search" /\ code[r] = 200 THEN slots - 1 ELSE slots

\* Concurrency gives the slot of a search back once the handler has returned.
GiveBack(r) == slots' = IF kind[r] = "search" THEN slots - 1 ELSE slots

\* A request ends, although its call may go on in the service.
Finish(r) ==
  /\ \/ at[r] = "written" /\ GiveBack(r)
     \/ at[r] = "refused" /\ UNCHANGED slots
  /\ Goto(r, "answered")
  /\ IF server[r] = "none" THEN Forget(r)
                            ELSE UNCHANGED <<kind, query, token, gone, got, code,
                                             checked, served>>
  /\ UNCHANGED <<clock, server>>

-----------------------------------------------------------------------------
(* Handlers and gRPC clients.                                              *)

\* A search without a phrase, or with a limit that is no positive number.
Malformed(r) ==
  /\ at[r] = "handler"
  /\ query[r] = "malformed"
  /\ Goto(r, "written")
  /\ Answer(r, 400)
  /\ UNCHANGED <<clock, kind, query, token, gone, slots, server, got,
                 checked, served>>

\* Login: a token of now, unless the body or the credentials are wrong.
Login(r) ==
  /\ at[r] = "handler"
  /\ kind[r] = "login"
  /\ Goto(r, "written")
  /\ \E status \in {200, 400, 401} : Answer(r, status)
  /\ UNCHANGED <<clock, kind, query, token, gone, slots, server, got,
                 checked, served>>

Call(r) ==
  /\ at[r] = "handler"
  /\ kind[r] # "login"
  /\ query[r] # "malformed"
  /\ Goto(r, "calling")
  /\ server' = [server EXCEPT ![r] = "sent"]
  /\ UNCHANGED <<clock, kind, query, token, gone, slots, got, code,
                 checked, served>>

\* MUTANT of CallCancelled: the service is not told that its caller left.
CallCancelledSilently(r) ==
  /\ at[r] = "calling"
  /\ gone[r]
  /\ Goto(r, "replied")
  /\ got' = [got EXCEPT ![r] = "error"]
  /\ UNCHANGED <<clock, kind, query, token, gone, slots, server, code,
                 checked, served>>

\* The call returns because its context is done.  The service hears of it,
\* perhaps before it has heard of the call.
CallCancelled(r) ==
  /\ at[r] = "calling"
  /\ gone[r]
  /\ Goto(r, "replied")
  /\ got' = [got EXCEPT ![r] = "error"]
  /\ \E s \in (IF server[r] = "sent" THEN {"sent", "none"} ELSE {"cancelled"}) :
       server' = [server EXCEPT ![r] = s]
  /\ UNCHANGED <<clock, kind, query, token, gone, slots, code, checked, served>>

\* MUTANT of Writes: an Update that was refused looks like one that ran.
WritesRefusedAsOK(k, result) ==
  CASE result \in {"alreadyExists", "ok"} -> <<200>>
    [] result = "badArguments"            -> <<400>>
    [] result = "error"                   -> <<500>>

\* The statuses a handler writes, one after the other.  After an error the
\* handlers of Update and Drop go on as if there had been none.
Writes(k, result) ==
  CASE result = "alreadyExists"               -> <<202>>
    [] result = "badArguments"                -> <<400>>
    [] result = "error" /\ k \in Admin        -> <<500, 200>>
    [] result = "error" /\ k \notin Admin     -> <<500>>
    [] result = "ok"                          -> <<200>>

\* MUTANT of Sent: every WriteHeader goes through.
SentLast(statuses) == statuses[Len(statuses)]

\* responseWriter.WriteHeader lets the first status through, and no other.
Sent(statuses) == statuses[1]

Respond(r) ==
  /\ at[r] = "replied"
  /\ Goto(r, "written")
  /\ Answer(r, Sent(Writes(kind[r], got[r])))
  /\ got' = [got EXCEPT ![r] = "none"]
  /\ UNCHANGED <<clock, kind, query, token, gone, slots, server, checked, served>>

-----------------------------------------------------------------------------
(* The services.                                                           *)

\* MUTANT of Result: the client of the gateway knows no code but AlreadyExists.
ResultInvalidIsError(k, outcome) ==
  CASE outcome = "ok"                        -> "ok"
    [] outcome = "refused" /\ k = "update"   -> "alreadyExists"
    [] OTHER                                 -> "error"

\* What the client of the gateway returns when the service has done with the
\* call: the error codes of the gRPC server and their way back.  Update maps
\* ErrAlreadyExists to a code the client knows, Drop does not; search answers
\* InvalidArgument for an empty phrase and Internal for every other error.
Result(k, outcome) ==
  CASE outcome = "ok"                        -> "ok"
    [] outcome = "refused" /\ k = "update"   -> "alreadyExists"
    [] outcome = "invalid"                   -> "badArguments"
    [] OTHER                                 -> "error"

\* The service is done with the call; its answer may find that nobody waits.
ServiceReturns(r, outcome) ==
  /\ server' = [server EXCEPT ![r] = "none"]
  /\ \/ /\ at[r] = "calling"
        /\ Goto(r, "replied")
        /\ got' = [got EXCEPT ![r] = Result(kind[r], outcome)]
        /\ served' = [served EXCEPT ![r] = outcome]
        /\ UNCHANGED <<kind, query, token, gone, code, checked>>
     \/ /\ at[r] \in {"replied", "written"}
        /\ served' = [served EXCEPT ![r] = outcome]
        /\ UNCHANGED <<at, got, kind, query, token, gone, code, checked>>
     \/ /\ at[r] = "answered"
        /\ Forget(r)
        /\ UNCHANGED at
  /\ UNCHANGED <<clock, slots>>

Active(r) == server[r] \in {"running", "cancelled"}

\* The flag `updating` of the update service.
Updating == \E r \in Requests : kind[r] \in Admin /\ Active(r)

\* The service begins to work on a call.
ServiceBegins(r) ==
  /\ server[r] = "sent"
  /\ kind[r] \in Admin => ~Updating
  /\ query[r] # "empty"
  /\ server' = [server EXCEPT ![r] = IF at[r] = "calling" THEN "running" ELSE "cancelled"]
  /\ UNCHANGED <<clock, kind, query, token, at, gone, slots, got, code,
                 checked, served>>

\* Update and Drop are refused while another of them runs.
ServiceRefuses(r) ==
  /\ server[r] = "sent"
  /\ kind[r] \in Admin
  /\ Updating
  /\ ServiceReturns(r, "refused")

\* The gRPC server of search refuses an empty phrase.
ServiceRejects(r) ==
  /\ server[r] = "sent"
  /\ query[r] = "empty"
  /\ ServiceReturns(r, "invalid")

\* The service ends, well or not.  A phrase longer than maxPhraseLen is
\* refused by words; search cannot tell that from any other failure.
ServiceEnds(r) ==
  /\ Active(r)
  /\ \E outcome \in (IF query[r] = "long" THEN {"tooLong", "failed"} ELSE {"ok", "failed"}) :
       ServiceReturns(r, outcome)

\* The service is down, or goes down before it looks at the call.
ServiceUnreachable(r) ==
  /\ server[r] = "sent"
  /\ ServiceReturns(r, "failed")

-----------------------------------------------------------------------------

GatewayStep(r) ==
  \/ Auth(r)
  \/ TakeSlot(r)
  \/ LeaveRate(r)
  \/ Unguarded(r)
  \/ Login(r)
  \/ Malformed(r)
  \/ Call(r)
  \/ CallCancelled(r)
  \/ Respond(r)
  \/ Finish(r)

ServiceStep(r) ==
  \/ ServiceBegins(r)
  \/ ServiceRefuses(r)
  \/ ServiceRejects(r)
  \/ ServiceEnds(r)
  \/ ServiceUnreachable(r)

Next ==
  \/ Tick
  \/ \E r \in Requests :
       Arrive(r) \/ Leave(r) \/ PassRate(r) \/ GatewayStep(r) \/ ServiceStep(r)

Spec == Init /\ [][Next]_vars

\* The goroutine of a request goes on; a call that was sent is looked at; a
\* service ends a call it was told to cancel, and may work for ever otherwise.
Fairness ==
  \A r \in Requests :
    /\ WF_vars(GatewayStep(r))
    /\ WF_vars(ServiceBegins(r) \/ ServiceRefuses(r) \/ ServiceRejects(r))
    /\ WF_vars(server[r] = "cancelled" /\ ServiceEnds(r))

FairSpec == Spec /\ Fairness

-----------------------------------------------------------------------------
(* Properties.                                                             *)

TypeOK ==
  /\ clock \in 0..MaxClock
  /\ kind \in [Requests -> Kinds]
  /\ query \in [Requests -> Queries]
  /\ token \in [Requests -> {NoToken} \union 0..MaxClock]
  /\ at \in [Requests -> {"arrived", "handler", "calling", "replied", "written",
                          "refused", "answered"}]
  /\ gone \in [Requests -> BOOLEAN]
  /\ slots \in 0..SearchConcurrency
  /\ server \in [Requests -> {"none", "sent", "running", "cancelled"}]
  /\ got \in [Requests -> {"none", "ok", "alreadyExists", "badArguments", "error"}]
  /\ code \in [Requests -> {0, 200, 202, 400, 401, 500, 503}]
  /\ checked \in [Requests -> 0..MaxClock]
  /\ served \in [Requests -> {"none", "ok", "refused", "invalid", "tooLong", "failed"}]

\* The requests that hold a slot of the limiter.
SlotHolders ==
  {r \in Requests : kind[r] = "search" /\ at[r] \notin {"arrived", "refused", "answered"}}

\* The limiter of /api/search neither leaks a slot nor lends one twice, on
\* whatever path its requests end: every slot taken belongs to a request that
\* is being handled.
SlotsBelongToRequests == slots = Cardinality(SlotHolders)

\* A token opens the admin endpoints for its whole TTL but for less than a
\* second, and for nothing longer: no call that update has heard of was let
\* through with a token at or past its TTL, and no 401 was given to one that
\* had a second or more to live.
TokensLiveTheirTTL ==
  \A r \in Requests : kind[r] \in Admin =>
    /\ server[r] # "none" \/ served[r] # "none"
         => token[r] # NoToken /\ checked[r] < token[r] + TokenTTL
    /\ code[r] = 401 /\ token[r] # NoToken
         => checked[r] > token[r] + TokenTTL - Second

\* What the client of an admin endpoint is told is what happened to its own
\* call, although other calls were served meanwhile: 200 only if the service
\* completed it, 202 only if it refused it.
AdminAnswersAreTrue ==
  \A r \in Requests : kind[r] \in Admin =>
    /\ code[r] = 200 => served[r] = "ok"
    /\ code[r] = 202 => served[r] = "refused" /\ kind[r] = "update"

\* A client that leaves leaves nothing behind: its request ends in the gateway,
\* and its call in the service, although nothing else would end the call.
LeaversLeaveNothing ==
  \A r \in Requests : gone[r] ~> at[r] = "answered" /\ server[r] = "none"

\* A client that waits for its answer is told of bad arguments exactly when its
\* own were bad: malformed in the eyes of the gateway, or refused as such by
\* search, whose verdict crosses two processes on its way back.  (A login is
\* judged by its body; a search may be refused before it is looked at.)
BadArgumentsAreTold ==
  \A r \in Requests : kind[r] \in Searches /\ code[r] \notin {0, 503} /\ ~gone[r] =>
    (code[r] = 400 <=> query[r] = "malformed" \/ served[r] = "invalid")
=============================================================================
