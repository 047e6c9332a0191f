----------------------------- MODULE XkcdClient -----------------------------
(***************************************************************************)
(* Client.Get of search-services/update/adapters/xkcd/xkcd.go, as a worker *)
(* of the update service calls it: it asks for the latest id, then for the *)
(* comic; each request is repeated up to maxRetries times with a sleep     *)
(* between two attempts.                                                   *)
(*                                                                         *)
(* XKCD is not reliable: an attempt may meet no server, an overloaded one, *)
(* one that answers 404 for what it has, or a cache that lags behind.      *)
(***************************************************************************)
EXTENDS Integers

CONSTANTS
  MaxID,       \* bound on the ids XKCD has published
  MaxRetries   \* maxRetries

ASSUME XkcdAssumption ==
  /\ MaxID \in Nat
  /\ MaxRetries \in Nat \ {0}

VARIABLES
  id,         \* the comic asked for
  stage,      \* what Get is doing
  asking,     \* what doReq asks for: the "last" id, or the "comic"
  attempt,    \* doReq: failed attempts so far
  num,        \* lastId
  cancelled,  \* the context of the call is done
  result,     \* what the last Get returned
  open,       \* response bodies nobody has closed
  sent,       \* history: attempts of this Get
  answer,     \* history: the status of the last attempt, "none" if no answer
  refused     \* history: answers of this Get other than 200

vars == <<id, stage, asking, attempt, num, cancelled, result, open, sent,
          answer, refused>>

Stages == {"idle", "request", "sleep", "body"}

Init ==
  /\ id = 0
  /\ stage = "idle"
  /\ asking = "last"
  /\ attempt = 0
  /\ num = 0
  /\ cancelled = FALSE
  /\ result = "none"
  /\ open = 0
  /\ sent = 0
  /\ answer = "none"
  /\ refused = 0

\* A worker asks for a comic.
StartGet ==
  /\ stage = "idle"
  /\ id' \in 1..MaxID
  /\ stage' = "request"
  /\ asking' = "last"
  /\ attempt' = 0
  /\ num' = 0
  /\ cancelled' = FALSE
  /\ result' = "none"
  /\ open' = 0
  /\ sent' = 0
  /\ answer' = "none"
  /\ refused' = 0

Return(outcome) == stage' = "idle" /\ result' = outcome

-----------------------------------------------------------------------------
(* doReq.                                                                  *)

\* client.Do answers 200: the body is handed to the caller.
AttemptSucceeds ==
  /\ stage = "request"
  /\ ~cancelled
  /\ sent' = sent + 1
  /\ answer' = "200"
  /\ open' = open + 1
  /\ stage' = "body"
  /\ UNCHANGED <<id, asking, attempt, num, cancelled, result, refused>>

\* MUTANT of GiveUp: one attempt too many.
GiveUpLate(failures) == failures > MaxRetries

\* attempt >= maxRetries
GiveUp(failures) == failures >= MaxRetries

\* MUTANT of Verdict: any failure of the last attempt means "not found".
VerdictAlwaysNotFound(status) == "notFound"

\* What doReq reports of its last attempt.  LastID wraps the error with %w, so
\* a 404 for the latest id is ErrNotFound for the caller of Get, too.
Verdict(status) == IF status = "404" THEN "notFound" ELSE "error"

\* client.Do answers with another status, or not at all, which is all it does
\* once the context is done.  The body of such an answer is never closed.
AttemptFails(status) ==
  /\ stage = "request"
  /\ cancelled => status = "none"
  /\ sent' = sent + 1
  /\ answer' = status
  /\ attempt' = attempt + 1
  /\ IF status = "none" THEN UNCHANGED <<open, refused>>
                        ELSE open' = open + 1 /\ refused' = refused + 1
  /\ IF GiveUp(attempt') THEN Return(Verdict(status))
                         ELSE stage' = "sleep" /\ UNCHANGED result
  /\ UNCHANGED <<id, asking, num, cancelled>>

\* MUTANT of Wake: the sleep ends when the context does, and has no timer.
WakeWhenDone ==
  /\ stage = "sleep"
  /\ cancelled
  /\ stage' = "request"
  /\ UNCHANGED <<id, asking, attempt, num, cancelled, result, open, sent, answer,
                 refused>>

\* time.Sleep(backoff) is over; it does not look at the context.
Wake ==
  /\ stage = "sleep"
  /\ stage' = "request"
  /\ UNCHANGED <<id, asking, attempt, num, cancelled, result, open, sent, answer,
                 refused>>

-----------------------------------------------------------------------------
(* LastID and Get.                                                         *)

\* MUTANT of CloseBody: the deferred close is missing.
CloseBodyForgotten == UNCHANGED open

\* The deferred CloseOrLog(resp.Body).
CloseBody == open' = open - 1

\* The body does not decode, or the context is done before it is read.
DecodeFails ==
  /\ stage = "body"
  /\ CloseBody
  /\ Return("error")
  /\ UNCHANGED <<id, asking, attempt, num, cancelled, sent, answer, refused>>

\* LastID returns; Get goes on with the comic unless its id is beyond the last.
LastIDReturns ==
  /\ stage = "body"
  /\ asking = "last"
  /\ CloseBody
  /\ num' \in 0..MaxID
  /\ IF id > num' THEN Return("notFound") /\ UNCHANGED <<asking, attempt>>
                  ELSE /\ stage' = "request"
                       /\ asking' = "comic"
                       /\ attempt' = 0
                       /\ UNCHANGED result
  /\ UNCHANGED <<id, cancelled, sent, answer, refused>>

ComicReturns ==
  /\ stage = "body"
  /\ asking = "comic"
  /\ CloseBody
  /\ Return("comic")
  /\ UNCHANGED <<id, asking, attempt, num, cancelled, sent, answer, refused>>

Cancel ==
  /\ stage # "idle"
  /\ ~cancelled
  /\ cancelled' = TRUE
  /\ UNCHANGED <<id, stage, asking, attempt, num, result, open, sent, answer,
                 refused>>

-----------------------------------------------------------------------------

GetStep ==
  \/ AttemptSucceeds
  \/ \E status \in {"404", "other", "none"} : AttemptFails(status)
  \/ Wake
  \/ DecodeFails
  \/ LastIDReturns
  \/ ComicReturns

Next == StartGet \/ GetStep \/ Cancel

Spec == Init /\ [][Next]_vars

\* The client's timeout ends every attempt, and every sleep ends.
FairSpec == Spec /\ WF_vars(GetStep)

-----------------------------------------------------------------------------
(* Properties.                                                             *)

TypeOK ==
  /\ id \in 0..MaxID
  /\ stage \in Stages
  /\ asking \in {"last", "comic"}
  /\ attempt \in 0..MaxRetries
  /\ num \in 0..MaxID
  /\ cancelled \in BOOLEAN
  /\ result \in {"none", "comic", "notFound", "error"}
  /\ open \in 0..(2 * MaxRetries)
  /\ sent \in 0..(2 * MaxRetries)
  /\ answer \in {"none", "200", "404", "other"}
  /\ refused \in 0..(2 * MaxRetries)

\* An outage never turns a comic into a placeholder: Get reports "not found"
\* only if XKCD said so, by a last id below the comic's or by a 404 to the last
\* attempt, and never when the context was done before that attempt.
NotFoundWasSaid ==
  result = "notFound" => IF answer = "200" THEN id > num ELSE answer = "404"

\* A Get sends at most maxRetries requests for the latest id and as many for
\* the comic.
RetriesBounded == sent <= (IF asking = "last" THEN 1 ELSE 2) * MaxRetries

\* Whatever Get returns, the bodies it leaves open are those of the answers
\* that doReq threw away.
OnlyRefusedBodiesLeak == stage = "idle" => open = refused

\* Get ends whatever XKCD does, even though it ignores the context.
GetEnds == stage # "idle" ~> stage = "idle"
=============================================================================
