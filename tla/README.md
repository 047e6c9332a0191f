# XKCD searcher: TLA+ models and proofs

This directory holds a verification development of the services under
`src/search-services`: TLA+ models translated from the Go sources, TLC
configurations that check them on small instances, and TLAPS proofs for every
size of instance. Paths below are relative to `src/search-services` unless they
start with `src/`.

## 1. The system

| Component | Source | State it keeps | Operations |
| --- | --- | --- | --- |
| gateway `api` | `api/` | slots of the concurrency limit, log of the rate limiter; tokens are signed, not stored | REST endpoints: login, update, drop, stats, status, search, isearch, ping |
| `update` | `update/` | the flag `updating`; per Update: a channel of ids, a semaphore, workers | Update, Drop, Stats, Status |
| XKCD client | `update/adapters/xkcd` | none; retries | Get, LastID |
| `search` | `search/` | the in-memory index | Search, SearchIndex, BuildIndex |
| initiator | `search/adapters/initiator` | a ticker | first BuildIndex, one per `INDEX_TTL` |
| `words` | `words/` | none | Norm |
| table `comics` | Postgres | `id -> url, words` | written by update, read by both |
| `run()` of each service | `*/main.go` | `serveErr`, the signal, the servers | start, serve, graceful stop, forced stop |

A client talks to the gateway over HTTP; the gateway calls `update` and `search`
over gRPC with the context of the HTTP request, so a client that hangs up cancels
the handler in the service; `update` calls XKCD and `words`, and writes the table;
`search` calls `words` and reads the table, which is the only thing it shares with
`update`. The services are restarted when they die (`src/compose.yaml`,
`restart: unless-stopped`).

### What is hard about it

* **Cancellation.** The context of a handler can be done between any two steps.
  `Update` then returns from inside its loop without waiting for its workers
  (`update/core/service.go:141`), and `ExecContext` returns although the
  statement it sent may still be executed. Models call such a statement an
  *orphan*.
* **Lost connections.** `ExecContext` also fails when the connection to Postgres
  breaks, and its error does not say whether the statement was executed, or still
  will be (`update/adapters/db/storage.go:38`, `:83`): an orphan, with a caller who
  waits on.
* **Crashes.** Only the table and the statements the database server has received
  survive one.
* **Concurrency without locks.** The flag `updating`, the semaphore, the
  collector's unbuffered channel, the pointer `Service.index` that is replaced
  while searches read it, `Stats` with two reads that are not atomic.
* **Unreliable sources.** XKCD fails, answers 404, or answers a last id that lags
  behind what it has published and behind what it told an earlier call. A 404 is
  stored as a placeholder row, so an outage must not look like one.
* **Time.** The rate limiter reads its clock outside its lock; tokens expire on
  whole seconds; a forced stop races the graceful one.

`PROJECT.json` lists each such hazard at its line, with the properties about it.

## 2. Modules

| Module | Models | Checked by |
| --- | --- | --- |
| `ComicsTable` | the table, one operator per SQL statement | (used by the next ones) |
| `ComicsStore` | what `update` promises its callers about the table (abstract) | `UpdateImplementsStore` |
| `UpdateService` | `update/core/service.go`, `update/adapters/db` | `MCUpdateService`, `UpdateServiceProofs` |
| `UpdateImplementsStore` | the refinement from `UpdateService` to `ComicsStore` | `MCUpdateService`, `UpdateStoreProofs` |
| `SearchService` | `search/core`, `search/adapters/db`, the initiator | `MCSearchService`, `SearchServiceProofs` |
| `SearchSystem` | `SearchService` composed with `ComicsStore` over one table | `MCSearchSystem`, `SearchServiceProofs` |
| `XkcdClient` | `update/adapters/xkcd/xkcd.go` | `MCXkcdClient`, `XkcdClientProofs` |
| `Words` | `words/words/words.go`, `words/main.go: Norm`, its two clients | `MCWords`, `WordsProofs` |
| `RateLimiter` | `api/adapters/rest/middleware/rate.go` | `MCRateLimiter`, `RateLimiterProofs` |
| `Gateway` | the REST handlers, `Auth`, `Concurrency`, tokens, the first-write guard of the metrics middleware, gRPC clients, error codes of the gRPC servers | `MCGateway`, `GatewayProofs` |
| `Shutdown` | `run()` of search, update and words | `MCShutdown` |
| `GatewayLife` | `main()` and `run()` of the gateway | `MCShutdown` |
| `ClusterShutdown` | `GatewayLife` and `Shutdown` joined by the calls between them | `MCShutdown`, `ClusterShutdownProofs` |

### ComicsTable

A row is `Absent`, a `Placeholder` (empty url, no words) or one of `Contents`.
`Truncated`, `Upsert`, `Stored` (what `COUNT(*)` counts, placeholders included)
and `Fetched` (`url <> ''`) are the statements the adapters send. `SearchService`
takes the sets of words as contents.

### UpdateService

A call occupies a slot `c \in Calls`; `pc[c]` is where its handler is. A slot is
reused only when nothing of its last call is left (`SlotFree`), which costs no
behaviour as long as there are more slots. Actions follow the code statement by
statement:

* `Acquire`/`Release` are the `CompareAndSwap` and the deferred `Store(false)`;
  `RejectBusy` is `ErrAlreadyExists`.
* `ReadIDs`, `ReadLast`, `AbortUpdate` are the two reads before the loop. The last
  id that `ReadLast` is told may be any up to `latest`, the one published.
  `Missing` is what `collectTask` will send.
* `Handover` is the rendezvous on the unbuffered channel. `Receive` goes on to the
  semaphore, `ReturnCancelled` returns early. `CollectorClose` is the end of the
  collector goroutine, whether it has sent every id or its context is done.
* `StartWorker`, the `Worker*` actions and `Add*` are `worker`. An `INSERT` is sent
  (`SendAdd`), executed by the server (`ExecAdd`) and answered (`AddDone`) in
  separate steps, so that it may be abandoned in between (`AddAbandoned`) and
  then be executed or dropped (`DiscardAdd`) at any later time. `ExecContext`
  has an error for three reasons: the server answered that the statement failed
  (`AddFails`), the context is done, or the connection is lost; the last two are
  `AddAbandoned`. Whatever its reason, a worker that fails ends (`GiveUp`). Drop's
  `TRUNCATE` is treated the same way (`DropFails`, `DropAbandoned`).
* `StatsRows` and `StatsReturn` are the two reads of `Stats`; the last id it hands
  on may be any up to `latest`, too.
* `Publish`, `Cancel`, `LoseConnection` and `Crash` belong to the environment. A
  connection breaks under a statement; `lost` is one flag for all statements of
  the call, so once it is set each of them may, but need not, meet the same. XKCD
  never withdraws a comic.

`failed`, `orphanRows`, `cleared` and `lateTruncate` are history variables.

### ComicsStore and UpdateImplementsStore

`ComicsStore` knows the table, which call is in progress (`op`), whether it was cut
off (`cut`: its caller has left, or its connections break), and what calls left
behind: rows still to be inserted
(`late`) and TRUNCATEs still to be executed (`lateDrop`). No worker, channel,
semaphore or query is seen. Its point is the condition under which something is
left behind: a call that ends for a caller who still waits, and whose connections
hold, leaves nothing (`Succeed`, `Fail`); a call that was cut off or died may leave
anything it was about to write, an Update whose connection broke even if it then
reports success. `UpdateImplementsStore` gives the mapping: `op` is read off the
program counter, `cut` off `cancelled` and `lost`, `late` off the INSERTs that
nobody waits for any more.

### SearchService

`BuildIndex` reads one row per step, so that writes fall between the reads;
`BuildRowFails` is a read that fails and is only logged, which is every read once
the context is done. `BuildStartFails` is the failure of the very first build,
after which the initiator is off. `SearchIndex` reads the published index once per
word (`Lookup`), sorts with ties in any order (`Sort`) and reads each row
(`FetchRow`). `Search` is one SQL statement: the operator `Find` gives all answers
it may return. `Restart` covers a crash. `BuildIndex`'s mutex is never contended
(the initiator is its only caller) and the `RWMutex` of `Index` makes `GetIDs` and
`Add` atomic. Replacing the pointer `s.index` is taken as one atomic write:
it is one word, and the index behind it is written no more. `unsure`, `steady` and the
three `drop` variables are history.

### SearchSystem

The two services share nothing but the table. In `SearchService` alone the table is
written by anybody at any time; here every write is a step of `ComicsStore`, which
`UpdateService` implements, so what is shown of the composition holds of the two
services together: safety because every behaviour of `UpdateService` is, through the
mapping, one of `ComicsStore` (`ImplementsStore`), liveness because `UpdateService`
also keeps the fairness of `ComicsStore` (`ImplementsFairStore`). `quiet` stands for
"no client calls Update or Drop any more, and no query of a live build fails".

### XkcdClient

One `Get` at a time. `AttemptSucceeds` and `AttemptFails` are `client.Do`, `Wake`
the end of the sleep, which does not look at the context. `open` counts response
bodies nobody has closed.

### Words

A phrase is a sequence of runes, of which it matters whether they can be part of a
word and how many bytes they take. `FieldsFunc` is the scan of `strings.FieldsFunc`, rune
by rune, written as a recursive function (`Scan`, whose state `Scanned` names); `Bytes`, the loop of `Norm` word by
word (`NormWord`) and the map whose keys come out in any order (`NormReturns`) are
the service; `NormRefuses` is the length limit. The stemmer and its stop words are an
external library: `Stem` and `StopWords` are constants. `caller` tells the two clients
apart: update stores what it gets with the description, search looks it up.

### RateLimiter

`ReadClock` and the critical section (`Record` or `NoRoom`) are separate steps, as
the clock is read before the lock is taken. A wait of zero admits the request
without a record (`NoRoom`). `Allow` is never called and is left out. `log` is a
history of all admissions, `records` of those that were put on record, `overtaken` of who was put on record while a request slept.

### Gateway

A request is `arrived` (in the middleware), in its `handler`, `calling` a service,
`replied`, `written` (the handler has returned), `refused` (by the middleware) or
`answered`. `TakeSlot` and `GiveBack` are `Concurrency`; `Auth`, `Verify`, `Expiry` the tokens, where
`jwt.NewNumericDate` cuts the expiry to whole seconds. The gateway keeps no
record of tokens, so a client may show one of any login up to now. `server[r]` is
the call on the side of the service, which may outlive the handler of the gateway
or may hear of the cancellation before it hears of the call. `Result` is the way an
error takes back through the gRPC server and the gRPC client. `Writes` are the
statuses a handler writes, one after the other: the handlers of Update and Drop have
no `return` after an error and write 500 and then 200; `Sent` is
`responseWriter.WriteHeader`, which lets the first one through. Stats and status are
the kind `report`. Ping and the metrics page are left out.

### Shutdown

`main`, the goroutine that serves, the one in `GracefulStop` and the initiator meet
in `run()`. `update` and `words` run the same code without the initiator: they are
the behaviours with `loop = "off"`. The gRPC server is external: `GracefulStop`
refuses new calls and returns once the handlers are gone; `Stop` cancels their
contexts, and the `GracefulStop` in progress still waits for them.

### GatewayLife and ClusterShutdown

`http.Server` has other rules than the gRPC server: `Shutdown` waits for the requests
being handled, but only for `httpShutdownTime`; then `Close` cuts them off and `run`
returns with an error, without waiting for the handlers and without reading
`serveErr`, which its deferred call closes. `SendErr` on the closed channel panics.
`ReturnErr`, `ReceiveFirst`, `BeginShutdown`, `ShutdownReturns`, `ShutdownTimesOut` and
`ReceiveLast` are the statements of `run`, `Exit` is the end of `main`.

`ClusterShutdown` joins a gateway and a service through `call[r]`, the gRPC call that a
handler of the gateway waits for. Either process may be told to stop, or may fail,
at any time; a stopped or dead service breaks its calls, a gateway that cuts a
request off or exits cancels the handler in the service.

## 3. What the runs show

### Passing runs

* **update_safety** (2 calls, ids 1..2, concurrency 1, one content; symmetric in
  calls). Two slots are what it takes for an abandoned Update beside a new one,
  or a Drop beside an Update; two ids are what it takes for one worker to run
  while the loop waits for the semaphore. It checks:
  * `OneAtATime`: Update and Drop exclude each other and Status is exact.
  * `IdleMeansNoLiveWorker`: the early return leaves workers, but only workers
    whose context is done, which can send nothing any more.
  * `LiveWorkersBounded`: abandoned Updates do not multiply the workers that
    still work for somebody.
  * `DropLeavesOnlyOrphans`: the most Drop can promise (see the findings).
  * `StatsCountPublished`: the row count never exceeds what XKCD has published
    when the last id is asked for, whatever was written meanwhile or before, and
    whatever last ids Updates were told. It may exceed the total in the same
    answer, if XKCD's last id lags: the code hands both on as they are.
  * `ComicsNeverDowngraded`: no placeholder overwrites a comic, orphans aside.
  * `UpdateReturnsComplete`: an Update that returns nil to a waiting caller
    leaves no hole, up to the last id it was told, but the ids whose worker gave
    up (which does not make Update fail). It excludes the run in which an orphan `TRUNCATE` was
    executed meanwhile.
  * `ImplementsStore`: all of it implements `ComicsStore`.
* **update_live** (1 call, ids 1..3, concurrency 1): `GoroutinesDrain`, every call
  ends and leaves no goroutine and no statement; `ImplementsFairStore`, which is
  what `ComicsStore` promises to its readers. Three ids are what it takes for a
  worker to run, the loop to wait for the semaphore and the collector to block
  on its channel, all at once.
* **search_safety** (ids 1..2, two words, one search, limits 1..2): the published
  index is exact for each id that was read and not written during the build
  (`PublishedIndexIsExact`); while it is exact for the whole table, `SearchIndex`
  answers what `Search` may answer (`SearchesAgree`), ties and limit included,
  unless another index is published while it runs; a
  search that finds no row for an id of the index has met a Drop executed since
  that index began to be built (`MissingRowMeansDropped`).
* **search_system** (ids 1..2, one word, one call to update, no search):
  `EventuallyFresh`, once the clients are quiet the index of a running initiator
  becomes exact for good, whatever calls in progress, late statements, crashes and
  restarts still do.
* **rate_safety** (3 requests at a time and 5 in all, limit 2, interval 2, clock
  0..6): `RecordedRateHolds`, of the recorded requests no two that are `limit`
  places apart fall within an interval, although readings reach the lock out of
  order; `OnlyOvertakenWaitAgain`, a request that wakes and has to wait again has
  been overtaken by one that was put on record while it slept: nobody sleeps for
  nothing.
* **xkcd** (ids 1..2, all 10 retries): an outage is never taken for a 404
  (`NotFoundWasSaid`), at most 10 attempts are made per request
  (`RetriesBounded`), the bodies left open are exactly those of refused answers
  (`OnlyRefusedBodiesLeak`), and `Get` ends (`GetEnds`).
* **shutdown** (2 requests of the gateway, 2 handlers of the service): nothing is sent
  on the closed channel of a service (`NoSendOnClosedChannel`), a serve error is
  returned even if the signal comes first (`ServeErrorReported`), no handler and
  no build uses the database after a stop (`NothingRunsAfterShutdown`; workers that an
  Update abandoned are not in this model, see `IdleMeansNoLiveWorker`), a signal ends the process
  (`ShutdownEnds`). The exit code of the gateway is 0 exactly if it listened until it
  was told to stop and cut no request off (`ExitCodeIsTrue`); it panics only after a
  timed-out `Shutdown` (`PanicOnlyWhenForced`), and a signal always ends it
  (`GatewayEnds`). A service that is told to stop lets go of the gateway's requests,
  although the gateway sets no deadline for its calls
  (`StoppedServiceFreesRequests`). Both processes end on purpose, so deadlock is not
  checked; neither is it in the rate limiter's runs, which stop at the bounds of clock
  and requests.
* **gateway** (2 requests, one slot, TTL of one second in ticks of half a second,
  clock 0..2): `SlotsBelongToRequests`, no slot leaks and none is lent twice
  (the release is not deferred: a handler that panics, which none does here,
  would skip it);
  `TokensLiveTheirTTL`, a token never outlives its TTL and dies less than a second
  early; `AdminAnswersAreTrue`, a client is told what happened to its own call, although the
  handler writes two statuses when it failed; `BadArgumentsAreTold`, 400 is the answer
  exactly to a phrase or limit that the gateway or the server of search found bad;
  `LeaversLeaveNothing`, a client that hangs up leaves no request and no call
  behind even if nothing else would end the call.
* **words** (a letter that is a plural ending and takes two bytes, one that is a stop word
  by itself, a separator; phrases of up to 4 runes, a limit of 5 bytes): `AnswerIsExact`, the words are
  the stems of the maximal stretches of letters, without stop words, each once;
  `QuotesAreFound`, the words of a phrase that quotes whole words of a stored
  description are among the stored ones.

Deadlock is checked in the other runs. In `UpdateService` and `SearchService` it can
hardly occur, as `Crash` and `Restart` are always possible: there the liveness
properties say that nothing hangs.

### Bounds

`MaxID`, `Contents`, `Words`, `MaxLimit`, `MaxClock`, `MaxRequests` and the slots
(`Calls`, `Searches`, `Requests`, `Handlers`), and `MaxRunes`, bound what is unbounded in the
program; `Concurrency`, `Limit`, `Interval`, `MaxRetries`, `SearchConcurrency`,
`TokenTTL`, `Second` and `maxPhraseLen` are its own parameters. Two concurrent actors suffice for
each property (three for the rate limiter, whose third request profits from two
readings out of order), and two ids for every order of neighbouring rows; larger
instances are covered by the proofs of section 4, for the safety of every module.

### Fairness

* `UpdateService`: every goroutine that can go on does, remote calls return with an
  answer or an error (the XKCD client has a timeout and bounded retries: `GetEnds`),
  and the server finishes or drops each statement. Calls, cancellations, lost
  connections, crashes and publications are not fair.
* `ComicsStore`: a call ends, a late statement is executed or forgotten; checked of
  `UpdateService` by `ImplementsFairStore`.
* `SearchSystem`: the steps of a build (the ticker keeps firing, queries return), and
  the fairness of `ComicsStore`.
* `XkcdClient`: the steps of `Get`; `http.Client.Timeout` ends every attempt.
* `Shutdown`: the goroutines, and a handler only once it is cancelled. The end of
  the initiator is strongly fair: with a tick and the signal both pending the
  `select` chooses at random, so it does not choose the tick for ever.
* `ClusterShutdown`: the same, the goroutines of the gateway, and a handler of the
  gateway once its call is over. A call that is in progress need never end.
* `Gateway`: the goroutine of each request; a service ends a call only once it was
  told to cancel it. No fairness for clients.

### Findings

Runs that TLC must find violated, each for a sentence of the documentation or of a
test that the code does not keep:

* **update_drop_empties**: rows after a successful Drop. `src/tests/update_test.go:94-95`
  expects none; an `INSERT` of an abandoned Update may be executed after the
  `TRUNCATE`.
* **search_refresh**: after a failed first build nothing refreshes the index.
  `src/README.md:104` says it is refreshed periodically. On a first deployment
  search may well start before update has created the table.
* **rate_boundary**: at exactly one interval after the oldest entry any number of
  requests pass. `src/README.md:125` calls `SEARCH_RATE` the rate limit.

One more disagreement is left to prose, as no sentence of the documentation is broken
by it: a phrase that `words` refuses as too long is answered 500. The search adapter
turns the refusal into `ErrBadArguments` ("arguments are not acceptable",
`search/core/errors.go:5`), for which the gateway has 400, but the gRPC server of
search in between answers `Internal` for every error of the service
(`search/adapters/grpc/server.go:37`). And `src/compose.yaml` gives the services
docker's default of 10 s to stop, which is less than the gateway's own
`httpShutdownTime` of 30 s: under it the gateway is killed before its forced path is
reached.

## 4. What is proved

Every safety invariant and action property of the passing runs is a theorem, for every
value of the constants that the named assumptions allow:
finitely many slots, `Concurrency`, `Limit`, `Interval`, `MaxRetries`, `Second` and
`MaxLimit` at least 1, finitely many words, `Absent`, `Placeholder` and the contents
all different. The code checks or implies each of them (`NewService` rejects a
concurrency below 1, for instance).

`UpdateServiceProofs`, and `UpdateStoreProofs` on top of it:

| Theorem | Property | Argument |
| --- | --- | --- |
| `TypeCorrect` | `TypeOK` | inductive with `SemaCounts` and `StartedOnce` |
| `MutualExclusion` | `OneAtATime` | inductive by itself, given `TypeOK` |
| `NoLiveWorkerWhenIdle` | `IdleMeansNoLiveWorker` | from `Attended` and `OneAtATime` |
| `WorkersBounded` | `LiveWorkersBounded` | from `TypeInv`, `Attended`, `OneAtATime` |
| `DropClears` | `DropLeavesOnlyOrphans` | inductive as `DropInv` |
| `StatsWithinPublished` | `StatsCountPublished` | inductive as `PublishedOnly` |
| `ComicsKept` | `ComicsNeverDowngraded` | from `PlaceInv` |
| `UpdatesComplete` | `UpdateReturnsComplete` | from `Covered` and `SentBeforeClose` |
| `NobodyBlocks` | (`NothingBlocks`) | from `TypeInv` and `CollectorAttended` |
| `IdsOnlyMoveOn` | (`IdsMoveOn`) | from `StartedOnce`, `SentBeforeClose`, `CollectorAttended` |
| `ServiceImplementsStore` | `ImplementsStore` | step by step, under `StoreInv` |

`TypeOK` is not inductive: that `sema` stays within its capacity and above zero
needs that its length is the number of workers (`SemaCounts`), and this needs that
the loop never starts a second worker for an id (`StartedOnce`: ids still to be
sent have no worker). `Attended` says that a call whose handler has left its
loop early has a done context or no worker. With `OneAtATime` at most one call has
workers that are not cancelled, and its semaphore bounds them. `DropInv` adds to the
property that no Update has begun since the Drop, and that the rows are
orphans' from the moment its `TRUNCATE` is executed, before Drop returns: Drop
holds the flag until then (`OneAtATime`), so no Update can own an `INSERT`.

`PublishedOnly` says that nobody fetches, stores or has stored an id above the last
published one: the last ids that Updates are told lag, but never lead. So the count of
rows stays within what is published when `Stats` asks for the last id. `PlaceInv` says that an id an Update has still to store was not a comic when
the Update read the table and has not become one: the flag excludes another writer
and `StartedOnce` a second worker. `Covered` accounts for every id up to the last
one: it is stored, given up, being worked on or still to be sent; together with
`SentBeforeClose`, the channel is closed with ids unsent only if the context is
done, nothing is left over when Update returns nil.

The refinement shows of each kind of step of `UpdateService` which step of
`ComicsStore` it is: the return of a handler is the step in which `op` becomes idle, and
`CallEnds` shows that what the call leaves behind is what `ComicsStore` allows it to.
That it leaves no more follows from who stands behind a statement: an `INSERT` has a
worker that waits for it until the worker ends, which without an answer of the server
takes a done context or a lost connection (`AddAbandoned`, an `Abandon` of
`ComicsStore`), and `Update` waits for its workers unless its context is done.
`StatementsOwned` is what the mapping needs besides: an Update has no `INSERT` on its
way for an id it has still to send, so nothing of an earlier call is taken for its
own; a `TRUNCATE` on its way belongs to a Drop that waits for it or is over; and no
call begins with its connections broken.

| Module | Theorem | Property | Argument |
| --- | --- | --- | --- |
| `SearchServiceProofs` | `SearchTypeCorrect` | `TypeOK` | with `CountsBounded` |
| | `IndexExactWhenPublished` | `PublishedIndexIsExact` | from `IndexInv` |
| | `RowsMissOnlyAfterDrop` | `MissingRowMeansDropped` | inductive as `DropInv` |
| | `IndexSearchAgreesWithFind` | `SearchesAgree` | `AgreeInv`, lemma `SortedIsFound` |
| | `SystemKeepsStore`, `SystemKeepsSearch` | (`SystemSpec` implies `ComicsStore` and `SearchService`) | step by step |
| | `SystemSearchesRight` | the four above, of the composition | from `SystemKeepsSearch` |
| | `SystemRowsLeaveWithDrops`, `SystemBuildsFresh` | (`RowsLeaveWithDrops`, `QuietBuildsAreFresh`) | from `SystemKeepsStore` |
| `RateLimiterProofs` | `RateTypeCorrect` | `TypeOK` | with `NowPast` |
| | `RateOfRecords` | `RecordedRateHolds` | from `OnRecord` |
| | `OnlyOvertakenSleep` | `OnlyOvertakenWaitAgain` | from `TimersInv` |
| `GatewayProofs` | `GatewayTypes`, `LimiterCounts` | `TypeOK`, `SlotsBelongToRequests` | together, by cardinality |
| | `TokensExpire` | `TokensLiveTheirTTL` | `StageInv`, lemma `ExpiryBounds` |
| | `AdminsAreToldTheTruth` | `AdminAnswersAreTrue` | `StageInv`, `AdminInv` |
| | `SearchersAreToldTheTruth` | `BadArgumentsAreTold` | `StageInv`, `SearchInv` |
| | `NobodyWorksUnheard` | (`CallsAreHeard`) | inductive, given `StageInv` |
| | `RequestsOnlyMoveOn` | (`RequestsMoveOn`) | `StepsLeft` falls, at most 7 |
| `XkcdClientProofs` | `GetTypes` | `TypeOK` | inductive as `GetInv` |
| | `NotFoundIsTrue`, `AttemptsBounded`, `BodiesAccountedFor` | `NotFoundWasSaid`, `RetriesBounded`, `OnlyRefusedBodiesLeak` | from `GetInv` |
| | `GetsOnlyGoOn` | (`GetGoesOn`) | `StepsLeft` falls, at most `6 * MaxRetries + 1` |
| `WordsProofs` | `FieldsAreTheWords` | (`FieldsFunc` yields the maximal stretches of letters) | `ScanFinds`, lemma `UpTo` |
| | `AnswersAreExact` | `AnswerIsExact` | from `WordsInv`, `NormalisedIsStems` |
| | `QuotationsAreFound` | `QuotesAreFound` | from `WordsInv`, `QuotationsKeepWords` |
| `ClusterShutdownProofs` | `NeverSendsOnClosedChannel`, `RunReportsServeError` | `NoSendOnClosedChannel`, `ServeErrorReported` | `ServeInv` |
| | `NothingOutlivesRun` | `NothingRunsAfterShutdown` | `StopInv` |
| | `GatewayExitCode`, `GatewayPanic` | `ExitCodeIsTrue`, `PanicOnlyWhenForced` | `GatewayServeInv`, `GatewayMainInv` |
| | `GatewayAsAlone` | (`ClusterSpec` implies `GatewayLife`) | step by step |
| | `NobodyWaitsInVain` | (`ServiceWaitsCanEnd`, `GatewayWaitsCanEnd`, `CallsAreAttended`) | with `ServiceWaitInv`, `GatewayWaitInv`, `CallInv` |
| | `ProcessesOnlyMoveOn` | (`GatewayMovesOn`, `ServiceMovesOn`) | at most 10 and 12 steps |

A name in parentheses is a property that only the theorem states; each was checked by
TLC on the instances of section 3 before it was proved.

* *Search.* `IndexInv`: the index being built agrees with the table on each id that
  was read and not written since, and holds no other; beyond the last id, which is
  read first, there is no row but those written since. `DropInv`: until a Drop is executed, the ids that
  an index holds, and those a search took from it, have rows. `AgreeInv`: while
  the index is exact a search has counted, for each id, the words looked up so far
  that its row holds. `SortedIsFound` then shows that the first `limit` of any
  sorting of the counts is an answer `Find` admits.
* *Search and update together.* Every step of `SearchSystem` is a step of
  `ComicsStore` or leaves its variables alone (`UpdateStepIsStoreStep`,
  `SearchOnlyReads`), and a step or a stutter of `SearchService`, whose environment may
  insert any row and empty the table at any time. So both keep in the composition what
  they promise alone. What only the composition can say is when a row goes away
  (`RowsLeaveWithDrops`), and that a build during which nothing was written and no
  query failed publishes the index of the whole table.
* *Words.* `ScanFinds` follows the scan of `FieldsFunc` rune by rune: after `n` runes
  it has cut off the stretches that end before `n` and knows where the open one began.
  The provers cannot take the library's induction theorem; `UpTo` gives induction
  over the runes as a least counterexample, from the well-foundedness of the naturals.
  `ScanDefined` is the well-definedness of the recursive function, by the same route.
  `NormalisedIsStems` turns the words into the stems `Norm` puts in its map, and
  `KeysInAnyOrder` shows that the order in which the map is read does not matter. A
  quotation of whole words is cut at the same places as the description it is taken from
  (`QuotationsKeepWords`), so its stems are among the stored ones.
* *Rate limiter.* `OnRecord`: `req` holds the latest records, and the stamp of every
  record before them lies more than an interval in the past. Although the entries need not be in order, only the leading entry
  decides who waits, and the argument follows it. `TimersInv`: a sleeper's timer
  fires when the leading entry has had its interval, unless somebody was put on
  record.
* *Gateway.* What is known of a request depends on the stage it is at and on no
  other request, so each action is shown to keep it for the request it moves
  (`RequestInv`) and to leave the others alone (`OthersUntouched`).
* *Shutdown.* `serveErr` is a channel of capacity 1, so the serving goroutine sends
  without waiting. `run` of a service returns only by taking what it sent, and
  closes the channel after it (`ServeInv`). In the gateway it may return before, but only after `Shutdown` has
  timed out (`GatewayServeInv`). The theorems are about `ClusterSpec`, in which
  both run side by side.

Least elements (a comic that comes last, the first entry that has not expired) are
taken from the library's theorem that the order of the naturals is well founded.

### The safety half of liveness

Liveness rests on fairness and `ENABLED`, which are out of the reach of the prover. Two
kinds of theorem come as near to it as an invariant can:

* *Nobody waits for somebody who is gone.* `NobodyBlocks`: a call to update that has not
  ended has a step to take; a collector blocked on its unbuffered channel has a handler
  that still receives or a done context, and a full semaphore has workers that empty it.
  `NobodyWaitsInVain`: what `run` waits for, on a channel or on the server, can
  still come, and a request of the gateway that waits for a call has one in progress.
  `NobodyWorksUnheard`: a service at work that was not told to cancel has a
  request that waits for it, so no call goes on untold once its request has given it up.
  `SystemBuildsFresh`: a build that nothing disturbs leaves a fresh index.
* *Whoever moves gets nearer to the end.* `IdsOnlyMoveOn`, `GetsOnlyGoOn`,
  `RequestsOnlyMoveOn`, `ProcessesOnlyMoveOn`: a number of stages or steps left, bounded
  from above, that the component's own steps lower and that nothing raises but the
  arrival of something new to do: an id of a new `Update`, a new `Get`, a new request.

What is left to fairness is that a possible step is some day taken. So only
model-checked are the liveness properties themselves: `GoroutinesDrain`,
`ImplementsFairStore`, `EventuallyFresh`, `GetEnds`, `ShutdownEnds`, `GatewayEnds`,
`StoppedServiceFreesRequests`, `LeaversLeaveNothing`.

## 5. Not modelled

* Start-up before a process listens (configuration, connections, migrations) and the
  closers: sequential code that returns its first error. A crash in the middle of
  the first migration is listed among the hazards.
* The `Ping` of the services, the metrics page and the histogram behind it: they keep
  no state that anything else reads.
* Text: JSON, SQL, log messages, HTTP headers, signatures and passwords; the
  conversion of messages; the counts of words in `Stats`.
* `RateLimiter.Allow`, which nobody calls.
* The stemmer and the list of stop words: constants of `Words`.
* Generated protobuf code and the deployment, of which only the restart policy
  matters to the models (`Crash`, `Restart`).

## 6. Where it could go on

What the first plan listed is done. What is left is finer detail:

1. `Gateway` takes what a service makes of an admin call as any outcome; an
   instance of `UpdateService` behind it would tie "refused" to the call that is in
   progress. The answers of `Gateway` do not depend on it.
2. `SearchSystem` has one call to update and no search; a search beside the writes
   of `ComicsStore` is covered by `SearchService`, whose table may be written by
   anybody.
3. The liveness properties stay with TLC and its small instances.
