-------------------------- MODULE XkcdClientProofs --------------------------
(***************************************************************************)
(* Theorems about XkcdClient, for every MaxRetries and every last id.      *)
(***************************************************************************)
EXTENDS XkcdClient, TLAPS

\* How many attempts were sent, wherever Get is.
SentInv ==
  /\ stage \in {"request", "sleep", "body"} => attempt < MaxRetries
  /\ stage \in {"request", "sleep"} =>
       sent <= attempt + (IF asking = "last" THEN 0 ELSE MaxRetries)
  /\ stage = "body" =>
       sent <= attempt + 1 + (IF asking = "last" THEN 0 ELSE MaxRetries)
  /\ sent <= MaxRetries + (IF asking = "last" THEN 0 ELSE MaxRetries)

\* A body is open for every answer thrown away, and for the one being read.
OpenInv ==
  /\ open = refused + (IF stage = "body" THEN 1 ELSE 0)
  /\ open <= sent

\* "Not found" is said at the end of a Get, of what its last answer was.
VerdictInv ==
  /\ stage # "idle" => result = "none"
  /\ stage = "body" => answer = "200"
  /\ NotFoundWasSaid

GetInv == TypeOK /\ SentInv /\ OpenInv /\ VerdictInv

LEMMA Zeros == 0 \in 0..MaxID /\ 0 \in 0..MaxRetries /\ 0 \in 0..(2 * MaxRetries)
  <1>1. 2 * MaxRetries \in Nat
    BY XkcdAssumption
  <1> QED
    BY <1>1, XkcdAssumption

LEMMA InitGetInv == Init => GetInv
  <1> SUFFICES ASSUME Init PROVE GetInv
    OBVIOUS
  <1>1. TypeOK
    BY Zeros DEF Init, TypeOK, Stages
  <1>2. SentInv /\ OpenInv /\ VerdictInv
    BY XkcdAssumption DEF Init, SentInv, OpenInv, VerdictInv, NotFoundWasSaid
  <1> QED
    BY <1>1, <1>2 DEF GetInv

LEMMA GetInvStep == GetInv /\ [Next]_vars => GetInv'
  <1> SUFFICES ASSUME GetInv, [Next]_vars PROVE GetInv'
    OBVIOUS
  <1> USE XkcdAssumption
      DEF GetInv, TypeOK, Stages, SentInv, OpenInv, VerdictInv,
          NotFoundWasSaid
  <1>1. CASE StartGet
    <2>1. id' \in 0..MaxID
      BY <1>1 DEF StartGet
    <2>2. TypeOK'
      BY ONLY <1>1, <2>1, Zeros DEF StartGet, TypeOK, Stages
    <2>3. SentInv' /\ OpenInv' /\ VerdictInv'
      BY <1>1 DEF StartGet
    <2> QED
      BY <2>2, <2>3
  <1>2. CASE AttemptSucceeds
    BY <1>2 DEF AttemptSucceeds
  <1>3. ASSUME NEW status \in {"404", "other", "none"}, AttemptFails(status)
        PROVE  GetInv'
    <2>1. attempt' = attempt + 1 /\ sent' = sent + 1 /\ answer' = status
      BY <1>3 DEF AttemptFails
    <2>2. \/ open' = open /\ refused' = refused
          \/ open' = open + 1 /\ refused' = refused + 1
      BY <1>3 DEF AttemptFails
    <2>3. CASE attempt + 1 >= MaxRetries
      <3>1. stage' = "idle" /\ result' = Verdict(status)
        BY <1>3, <2>1, <2>3 DEF AttemptFails, GiveUp, Return
      <3> QED
        BY <1>3, <2>1, <2>2, <2>3, <3>1 DEF AttemptFails, Verdict
    <2>4. CASE attempt + 1 < MaxRetries
      <3>1. stage' = "sleep" /\ result' = result
        BY <1>3, <2>1, <2>4 DEF AttemptFails, GiveUp
      <3> QED
        BY <1>3, <2>1, <2>2, <2>4, <3>1 DEF AttemptFails
    <2> QED
      BY <2>3, <2>4
  <1>4. CASE Wake
    BY <1>4 DEF Wake
  <1>5. CASE DecodeFails
    BY <1>5 DEF DecodeFails, CloseBody, Return
  <1>6. CASE LastIDReturns
    <2>1. CASE id > num'
      BY <1>6, <2>1 DEF LastIDReturns, CloseBody, Return
    <2>2. CASE ~(id > num')
      BY <1>6, <2>2 DEF LastIDReturns, CloseBody
    <2> QED
      BY <2>1, <2>2
  <1>7. CASE ComicReturns
    BY <1>7 DEF ComicReturns, CloseBody, Return
  <1>8. CASE Cancel
    BY <1>8 DEF Cancel
  <1>9. CASE UNCHANGED vars
    BY <1>9 DEF vars
  <1> QED
    BY <1>1, <1>2, <1>3, <1>4, <1>5, <1>6, <1>7, <1>8, <1>9 DEF Next, GetStep

LEMMA GetInvariant == Spec => []GetInv
  BY InitGetInv, GetInvStep, PTL DEF Spec

\* The types are right in every reachable state.
THEOREM GetTypes == Spec => []TypeOK
  BY GetInvariant, PTL DEF GetInv

\* "Not found" is said only if XKCD said it, however many attempts failed.
THEOREM NotFoundIsTrue == Spec => []NotFoundWasSaid
  BY GetInvariant, PTL DEF GetInv, VerdictInv

\* No Get sends more than maxRetries requests for each of its two questions.
THEOREM AttemptsBounded == Spec => []RetriesBounded
  <1>1. GetInv => RetriesBounded
    <2>1. MaxRetries \in Int /\ 1 * MaxRetries = MaxRetries
            /\ 2 * MaxRetries = MaxRetries + MaxRetries
      BY XkcdAssumption
    <2>2. CASE asking = "last"
      BY <2>1, <2>2 DEF GetInv, SentInv, RetriesBounded
    <2>3. CASE asking # "last"
      BY <2>1, <2>3 DEF GetInv, SentInv, RetriesBounded
    <2> QED
      BY <2>2, <2>3
  <1> QED
    BY <1>1, GetInvariant, PTL

\* The bodies left open are those of the answers thrown away.
THEOREM BodiesAccountedFor == Spec => []OnlyRefusedBodiesLeak
  <1>1. GetInv => OnlyRefusedBodiesLeak
    BY DEF GetInv, TypeOK, OpenInv, OnlyRefusedBodiesLeak
  <1> QED
    BY <1>1, GetInvariant, PTL

-----------------------------------------------------------------------------
(* The safety half of GetEnds, which itself needs fairness and is model-   *)
(* checked: a Get has a number of steps left that every step of it lowers. *)

\* Requests that Get may still send, for the latest id and for the comic.
AttemptsLeft == (MaxRetries - attempt) + (IF asking = "last" THEN MaxRetries ELSE 0)

\* A request takes at most three steps: the attempt, the sleep and the answer.
StepsLeft ==
  CASE stage = "sleep"   -> 3 * AttemptsLeft + 1
    [] stage = "request" -> 3 * AttemptsLeft
    [] stage = "body"    -> 3 * AttemptsLeft - 1
    [] OTHER             -> 0

\* Each step of Get is one of the few it has left, and a cancelled context
\* takes none away.
GetGoesOn ==
  /\ StepsLeft \in 0..(6 * MaxRetries + 1)
  /\ GetStep => StepsLeft' < StepsLeft
  /\ Cancel => StepsLeft' = StepsLeft

\* Whatever XKCD answers, each step of a Get is one fewer of at most six for
\* each retry and one more; a cancelled context, which the sleeps ignore,
\* neither lengthens a Get nor starts it anew.
THEOREM GetsOnlyGoOn == Spec => [][GetGoesOn]_vars
  <1>1. ASSUME GetInv, Next PROVE GetGoesOn
    <2> USE XkcdAssumption DEF GetInv, TypeOK, Stages, SentInv
    <2>1. /\ AttemptsLeft \in Int /\ AttemptsLeft <= 2 * MaxRetries
          /\ stage # "idle" => AttemptsLeft >= 1
      BY <1>1 DEF AttemptsLeft
    <2>2. StepsLeft \in 0..(6 * MaxRetries + 1)
      BY <1>1, <2>1 DEF StepsLeft
    <2>3. ASSUME AttemptSucceeds PROVE StepsLeft' < StepsLeft
      <3>1. AttemptsLeft' = AttemptsLeft /\ stage = "request" /\ stage' = "body"
        BY <2>3 DEF AttemptSucceeds, AttemptsLeft
      <3> QED
        BY <2>1, <3>1 DEF StepsLeft
    <2>4. ASSUME NEW status \in {"404", "other", "none"}, AttemptFails(status)
          PROVE  StepsLeft' < StepsLeft
      <3>1. /\ stage = "request" /\ stage' \in {"idle", "sleep"}
            /\ AttemptsLeft' = AttemptsLeft - 1
        BY <1>1, <2>4 DEF AttemptFails, Return, AttemptsLeft
      <3> QED
        BY <2>1, <3>1 DEF StepsLeft
    <2>5. ASSUME Wake PROVE StepsLeft' < StepsLeft
      <3>1. AttemptsLeft' = AttemptsLeft /\ stage = "sleep" /\ stage' = "request"
        BY <2>5 DEF Wake, AttemptsLeft
      <3> QED
        BY <2>1, <3>1 DEF StepsLeft
    <2>6. ASSUME DecodeFails \/ ComicReturns PROVE StepsLeft' < StepsLeft
      <3>1. stage = "body" /\ stage' = "idle"
        BY <2>6 DEF DecodeFails, ComicReturns, Return
      <3> QED
        BY <2>1, <3>1 DEF StepsLeft
    <2>7. ASSUME LastIDReturns PROVE StepsLeft' < StepsLeft
      <3>1. CASE stage' = "idle"
        BY <2>1, <2>7, <3>1 DEF StepsLeft, LastIDReturns
      <3>2. CASE stage' # "idle"
        <4>1. /\ stage = "body" /\ stage' = "request"
              /\ asking = "last" /\ asking' = "comic" /\ attempt' = 0
          BY <2>7, <3>2 DEF LastIDReturns, Return
        <4>2. AttemptsLeft' = MaxRetries /\ AttemptsLeft >= MaxRetries + 1
          BY <1>1, <4>1 DEF AttemptsLeft
        <4> QED
          BY <2>1, <4>1, <4>2 DEF StepsLeft
      <3> QED
        BY <3>1, <3>2
    <2>8. GetStep => StepsLeft' < StepsLeft
      BY <2>3, <2>4, <2>5, <2>6, <2>7 DEF GetStep, GetGoesOn
    <2>9. Cancel => StepsLeft' = StepsLeft
      BY DEF Cancel, StepsLeft, AttemptsLeft
    <2> QED
      BY <2>2, <2>8, <2>9 DEF GetGoesOn
  <1>2. GetInv /\ [Next]_vars => [GetGoesOn]_vars
    BY <1>1
  <1> QED
    BY <1>2, GetInvariant, PTL DEF Spec
=============================================================================
