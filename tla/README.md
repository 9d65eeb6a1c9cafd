# sukumad in TLA+

sukumad takes requests over an HTTP API, turns each into one delivery per
destination server, and a worker program sends the deliveries, retries them,
and follows the jobs that asynchronous servers (DHIS2) start for them. All
state that outlives a process is in PostgreSQL; an API process (`cmd/api`) and
any number of worker processes (`main.go`) share it and do not talk to each
other. This directory specifies that system, checks the specifications with
TLC on small instances and proves theorems about them with TLAPS.

Contents: [Inventory](#inventory), [Plan](#plan),
[Modules and code](#modules-and-code), [Runs](#runs), [Fairness](#fairness),
[Proofs](#proofs), [What the code does otherwise](#what-the-code-does-otherwise),
[Not modelled](#not-modelled).

## Inventory

`S` is `db/migrations/000001_initial.up.sql`.

| Part | State it keeps | Operations | Talks to |
|---|---|---|---|
| Delivery table (`S` 183-497, `delivery_repo.go`) | a row per (request, server): status, attempts, next_run_at, async_* | expand, claim_deliveries, claim_async_polls, start_async_delivery, update_async_status, finalize_delivery, PATCH, DELETE | everybody |
| Dispatcher (`main.go` 233-328) | one open result set | each tick: claim sends, feed sendCh; claim polls, feed pollCh; stop on a signal | table, sendCh, pollCh |
| Send workers (`main.go` 332-358, 500-559) | the row in hand | receive, pass the LimiterSet, request, record the outcome | sendCh, LimiterSet, servers, table |
| Poll workers (`main.go` 360-386, 561-597) | the PollRow in hand | receive, pass the LimiterSet, ask for the job, write the answer | pollCh, LimiterSet, servers, table |
| LimiterSet (`main.go` 107-159) | global limiter, limiter and semaphore per key | wait, release | all workers of one process |
| Retry schedule (`S` 444-497, `main.go` 484-496, 606-619) | attempts, next_run_at, retry_after_at | backoff `LEAST(2 * 2^GREATEST(attempts,1), 120)`, Retry-After | table |
| Request store (`S` 145-176, 233-249, 502-520; `request_repo.go`, `request_handler.go`) | requests, suspended flag | CRUD, expand, roll-up view | delivery table (cascade) |
| Server store (`S` 98-136; `server_repo.go`, `server_handler.go`) | servers: url, use_async, suspended, rps, burst, max_concurrency, rate_class | CRUD | claims join it |
| Sessions (`auth_handler.go` 68-211, `refresh_repo.go`, `auth/jwt.go`) | refresh_tokens; access tokens live outside | login, refresh (rotate), logout (revoke all) | users, roles |
| Login failures and lockout (`auth_handler.go` 37-59, 95-106; `user_repo.go` 195-230) | attempts per IP and user in memory; failed_attempts, last_failed_at, locked_until | allowAttempt, windowed failure count, unlock | sessions |
| Password reset (`auth_handler.go` 221-277, `rest_repo.go`) | password_reset_tokens | create, use once | users |
| Users, roles, permissions (`user_repo.go`, `role_repo.go`, `permission_repo.go`), seeder | users, user_roles, permissions and two join tables | CRUD, grant, revoke, set role, effective permissions; seed at start | middleware, through the token |
| Middleware, router, validation | none | Authn, RequirePerm/Any/All, CORS, logging | handlers |
| Configuration (`config.go`) | AppConfig, reloaded by a watcher | defaults, file, environment | copied once by each program |
| Migrations and fixtures (`migrate.go`, `db/db.go`) | schema version | up, load fixtures | start of the API process |

What is hard, and what makes each part correct:

* **Send pipeline.** Claims of several processes interleave with late
  outcomes; between the claim (committed at once) and the outcome a delivery
  lives only in memory. Correct: in one hand at a time; sent no more often
  than its attempts allow; not sent again after an acceptance; settled rows
  stay settled; nothing claimed is forgotten; everything is settled in the
  end; a stop ends.
* **Poll pipeline.** A poll claim marks nothing, so polls of one job multiply
  and their answers are written in any order, by the id of the delivery only.
  Correct: a delivery is settled as its job ended, once, and in the end.
* **LimiterSet.** Shared by all workers, with a cancel possible at each of
  three waits. Correct: no slot leaks, max_concurrency is kept, nobody waits
  for ever.
* **Dispatcher as one goroutine.** Either channel, when full, stops both
  halves; a claim streamed into a full channel stays open with its locks.
  Correct: neither pipeline starves the other; no row is both rolled back and
  dispatched.
* **Request store.** Expansion is all or nothing, once per server; the
  roll-up agrees with the deliveries.
* **Sessions, lockout, reset, permissions.** Handlers are sequences of
  statements without a transaction, and drop some errors. Correct: a refresh
  token is exchanged once; logout ends every session; the attempt window is
  never overrun; a lock is not lost; a reset token works once; the seeder may
  run any number of times.

`PROJECT.json` lists every hazard at its line with the properties that would
notice it go wrong.

## Plan

Done, in the order of importance: the sending half (`DeliveryRow`,
`SendPipeline`, `DeliveryLifecycle`, `SendRefinement`), the polling half
(`PollPipeline`), what both share in a process (`LimiterSet`), the one
goroutine that feeds both (`Dispatcher`), the API's sessions (`Sessions`),
logins and resets (`Accounts`), users, roles, permissions and the seeder
(`Access`), what clients see of lists and repeated creates (`Listing`),
requests, servers and their expansion (`RequestStore`), the start and end of
the API processes with their migrations (`Startup`), and the time and order of
retries (`Schedule`). Proofs: `SendPipelineProofs`, `SendRefinementProofs`
(which also shows that the pipeline implements `DeliveryLifecycle`),
`PollPipelineProofs`, `LimiterSetProofs`, `DispatcherProofs`, `SessionsProofs`,
`ApiProofs` (`Accounts`, `Access`, `Listing`) and `StoreProofs`
(`RequestStore`, `Startup`, `Schedule`).

Every safety property and every action property that a run checks is proved,
and so is the refinement; the liveness properties are not, see
[Proofs](#proofs). Left: an abstract specification of the polling half like
`DeliveryLifecycle`, and one module of both halves, which would replace the
polls that `SendPipeline`, and the sends that `PollPipeline`, take for their
environment.

## Modules and code

### DeliveryRow

One row of the table and one operator per statement: `InsertedRow` (column
defaults), `Ready`, `ClaimedRow` (claim_deliveries), `StartAsyncRow`,
`UpdateAsyncRow`, `FinalizeOkRow`, `FinalizeFailedRow`, `PatchedRow`,
`DeletedRow`. Each statement commits on its own and names its row by id, so
each is a function from row to row. next_run_at is the flag `due`: a statement
that moves it to the future clears the flag, time sets it. Whether the delay
came from the backoff or from Retry-After makes no difference here. A
Retry-After in the past leaves the row due at once; the flag is cleared
anyway and `BecomesDue` may follow at once. max_attempts is one constant
(`deliveries.max_attempts`, else the 8 that `finalize` passes).

### SendPipeline

Variables: the table (`rows`, `suspended`), the deliveries of which polls are
out (`polling`), per process `life`, `open` (the rows of its claim while that
has not committed), `batch` (the rows of the open result set that the
dispatcher has not read) and `sendCh`, per worker `pc` (`idle`, `limit` in
LimiterSet.wait, `http` while the request is out, `db` with the answer in hand,
`exit`), `held`, `reply`. `sends`, `acked`, `patches`, `meddled`, `undone` and
`verdict` are history the code does not have.

| Action | Code |
|---|---|
| `Insert`, `BecomesDue`, `ToggleSuspended`, `Patch`, `Delete` | the API, the clock, operators |
| `PollClaimed`, `Polled`, `PollsEnd` | the other half as far as it writes the table: claim_async_polls, update_async_status, the end of the last poll |
| `ClaimDeliveries`, `Commit`, `ClaimLost` | pool.Query of claim_deliveries, which streams its result and commits; its answer may be lost |
| `Dispatch`, `ScanFails`, `AbandonBatch` | the loop over rows: Scan, the select of sendCh and ctx.Done, rows.Close |
| `Signal`, `Exit`, `Crash`, `Start` | signal.NotifyContext, close and wg.Wait, the operating system, main |
| `Receive`, `WorkerExit` | the select of sendWorker, which may take a row although the context is done |
| `LimiterFails`, `SendRequest`, `SendCancelled` | ls.wait, then Execute, or Execute that fails because the context is done |
| `Reply`, `Record`, `RecordFails` | the switch of handleSendResty; finalize or startAsync, on a background context, which also fails when PostgreSQL refuses the text of the answer (`BadText`) |

A claim picks any set of claimable rows up to the batch: rows locked by
somebody else are skipped, so which rows remain is not determined, and the
order by priority with them. A `Reply` of `retryable` includes a timeout: the
server may have accepted the request all the same.

`Polled` writes by the id of the delivery, whatever its row says by then, as
update_async_status does. Polls are claimed of rows in `awaiting_async` only,
and as long as nobody interferes the answers about the one job of a delivery
agree once it has ended, but for RUNNING, which is also what an error reads as
(`Answers`).

A claim whose result is streamed may be rolled back when its connection goes
(`AbandonBatch`, `Crash`), also under rows that were dispatched: the row is
ready again and in somebody's hands (`undone` counts those). While the claim
is open others skip its rows or wait for their locks (`Locked`), so `rows` can
say `processing` of them from the start. How long it stays open when a
channel is full is the subject of `Dispatcher`.

Two things make a delivery not `Sound`: an operator changed its status while a
worker or a poll had it, or set it to `awaiting_async` (`meddled`), and a
rollback under a row that was dispatched (`undone`). It may then be in two
hands, and a poll of an old job may answer for a new one. What still holds of
it is what `SendsBounded`, `DoneWasAcked`, `AttemptsWereSent` and
`NothingStranded` say, and the stage `adrift` of the abstract specification.

### DeliveryLifecycle and SendRefinement

What the pipeline promises of one delivery with processes, channels and
goroutines taken away: `queued`, `claimed`, `sending`, `accepted` or
`refused`, `remote`, `done`, `failed`, `lost`, `deleted`, and the ways between
them. A request costs one of a budget; nothing leads from `accepted` or `lost`
back to `queued`, and nothing but an operator out of `done` and `failed`. An
operator's PATCH may move a delivery at rest to any stage of rest, or to `lost`
(a row set to `processing` that nobody works on), and may cost one more request
(`AskAgain`). From the moment somebody interferes with the program's work on it
(see `Sound` above) a delivery is `adrift`: what is promised of it then is the
budget, which each interference raises by one. `SendRefinement` computes the
stage of a delivery from the table and from whose memory it is in, and states
that `SendPipeline` implements the abstract specification.

### PollPipeline

The same layout for the polling half: `ClaimPolls` reads and leaves the rows
as they are, `DispatchPoll`, `AbandonPolls`, `Receive`, `LimiterFails` (a stop,
or a limiter of burst 0), `SendPoll`, `PollCancelled`, `Answer`, `RecordPoll`,
`RecordPollFails` (the database, or jsonb refuses the answer). A task
names the delivery and, in its poll_url, the job; `RecordPoll` writes by
delivery alone, as the code does. `jobs` is the server's side: the jobs it
started for each delivery, which end once. `Answers` is mapDhis2Job: the state
of the job, or RUNNING for every error and every body it cannot read; a row
without poll_url, which only an operator can put into `awaiting_async`, asks
the server's own url, which may say anything. A failing Scan of a PollRow has
the effect of `AbandonPolls`.

The sending half is environment: `SendClaims`, then `SendStarts` (202 with a
job), `SendSucceeds` (any other 2xx, which a server with use_async may answer
too: the row is done without a job; `plain`) or `SendFails`, and `ClaimUndone`
for a claim that is rolled back when its row has been dispatched. Operators
change the status of any row at any time (`Patch`); `byHand` are the rows
whose status they were the last to set, `meddled` those they patched while a
send worker or a poll was out for them, `jobless` those they made wait for a
job without one.

### LimiterSet

`PassGlobal` is Global.Wait with the lookup under the mutex, which makes the
limiter and semaphore of a key from the first row's settings; `PassKey`,
`TakeSlot`, `WaitFails` (the context is done, or the burst is 0), `Release`,
and `Refill` for the passing of time. A row that waits in PassKey does not
hold the mutex, so the steps of workers interleave between the three waits.
Tokens are counted, reservations are not; see Fairness.

### Sessions

| Action | Code |
|---|---|
| `Login` | Login from its checks to SignRefresh |
| `RefreshBegins` | Refresh from ParseRefresh to IsActive |
| `RevokeOld`, `RevokeFails` | Revoke, whose error is dropped |
| `SignNext`, `UserGone` | GetWithHashByUsername, NewJTI and SignRefresh, or the 401 |
| `Store`, `StoreFails`, `StoreUnheard` | Create, whose error is dropped, and the answer, which may be lost |
| `DiesEarly`, `Dies` | a panic or the end of the process between two statements |
| `Logout` | RevokeAllForUser |
| `SetActive`, `DeleteUser`, `Expire` | administrators and the clock |

`table` is what refresh_tokens says of a jti; `handed` are the tokens clients
were given. `session`, `exchanged`, `ended`, `overtaken`, `spoilt` and `lost`
are history: which login a token descends from, how often it was exchanged,
which sessions a logout ended, which of them were refreshing just then, the
tokens on which a statement failed, and those that a refresh revoked without
making another (its handler ended early, or its lookup failed). `Orderly` says that the client of a session waits for an
answer before its next request; clients of the same user never wait for each
other. The code asks for no such thing: without it two refreshes with one
token both find it active, and `ExchangedOnce` is false.
A login is a condition here (password, lock and addresses were accepted).
Neither the middleware nor `Refresh` asks whether the account is still active,
so `SetActive` stops logins only.

### Dispatcher

What the two pipelines leave out of claimAndDispatch: that one goroutine runs
both halves, and that a claim is open while its result crosses to it. `turn` is
the half it is at, `locked` the rows of the open claim, `unread` the rows of
the result that it has not read.

| Action | Code |
|---|---|
| `ClaimSends`, `ClaimPolls`, `EndTick` | the two queries of a tick, each read to its end |
| `Dispatch` | Scan and the send into sendCh or pollCh |
| `Commit` | the database ends the statement when the network has taken the result but for `Buffer` rows |
| `Abandon`, `Leave`, `Gone`, `Signal` | ctx.Done: rows.Close, closing the channels, wg.Wait |
| `Receive`, `Answer`, `Drop`, `Record`, `Exit` | the workers of both kinds; `Record` waits for the lock of its row |
| `OtherClaims`, `OtherRecords` | another process, which passes over what is locked |

Outcomes are reduced to settled, ready again, or waiting for the next poll.
The deliveries are of one server, which the claim locks as well, so an open
claim keeps every other claim away.

### Accounts

A handler is a row of statements, and handlers interleave between them:
`LoginBegins` or `TooManyAttempts` (allowAttempt, under its mutex), `ReadUser`
(the row, and every check of it), then `RecordFailure`, `RecordWrong`, or
`RecordSuccess` and `ClearFailures`, each of which may fail unnoticed
(`RecordFails`); `RequestReset`, `UseToken`, `SetPassword`. `passed`,
`failures`, `overrun` and `resets` are history. The times of a list of attempts
come from one clock, read under the mutex, so they are in order and what
allowAttempt filters out is the head of the list (`Without`, `Recent`). Times are ticks of one clock;
whether an address is in a CIDR list is a set, `admits`.

### Access

One operator per statement on users, roles, permissions and grants, with what
the schema cascades and refuses; one action per handler, which asks a token for
the admin code. `ReadCodes` and `Sign` are the two halves of a login as far as
permissions go; an iteration that breaks off leaves some of the codes, and its
error is dropped. The seeder is one transaction, `SeedRole`, `SeedPermission`
for each code, `SeedCommit`: what it upserts is locked (`HeldRoles`,
`HeldPerms`, `HeldCodes`, `HeldGrants`) and invisible until it commits. The
commit's error is dropped (`SeedCommitFails`). `held` and `revoked` are
history.

### Listing

Requests, users or servers (`kind`), of which a row has an id and a key
(idempotency_key, username) if its table has one. `Create`, `CreateUnheard`
and `CreateRefused` are a client that repeats a call; `UpdateKey` is a PUT
of another idempotency_key, or of none, which writes NULL over it; `ListPage` is one LIMIT and
OFFSET query of a reader who walks to the end.

### RequestStore

`Expand` begins an expansion, which inserts one delivery per step
(`InsertDelivery`), waits for another that has inserted the same pair
(`WaitsFor`), is ended when it violates UNIQUE or REFERENCES, when PostgreSQL
finds a deadlock, or by a lost connection (`ExpandFails`), and shows nothing
before `Commit`. Deletions of requests cascade, those of servers are refused
while a delivery refers to them, and both wait for expansions that hold the
row. `PatchDelivery` is an operator's PATCH, of any row to
any status. `Rollup` is the view request_rollup. `promised` is history: what callers
were told.

### Startup

The stages of cmd/api's main: ping, lock, read, mark, run, clear (the loop of
golang-migrate, modelled from how migrate.go calls it), fixtures, seed, serve,
drain, close. `Fatal` is every log.Fatal and every kill, at any stage; the
session's advisory lock goes with it and the row schema_migrations does not.
`applied` is history. `MaxRequests` bounds the handlers at work.

### Schedule

claim_deliveries' order (priority, next_run_at, id) and limit, and what
finalize_delivery makes of a failure: the doubled and bounded backoff, or the
time a Retry-After named, past or to come. Times are relative: `due` is the
number of seconds until next_run_at, and stays at `-MaxLate` beyond it.

### MCApi and MCStore

Modules that share no state are checked together: a behaviour of the run
belongs to one of them (`part`), and the others stand still, so the states add
up and do not multiply. Nothing is enabled in a part that stands still which
its fairness would ask for. Their constants are those of the modules, given
values by the cfg only, so `ApiProofs` and `StoreProofs` extend them and prove
also what the composition promises. `ApiTypesOK` and `StoreTypesOK` collect the type
invariants of the parts and the references between their tables.

## Runs

| Run | Shows |
|---|---|
| `send_faults` | with stops, crashes, lost and rolled back claims, failing database calls, late polls and operators who change rows in whatever state they are: `HeldOnce`, `SendsBounded`, `FinalIsEarned`, `AckedNotResent`, and `ImplementsLifecycle`: `SendPipeline` implements `DeliveryLifecycle`, so that no settled row is taken back either |
| `send_healthy` | while only the servers fail: `NothingStranded`, `AttemptsWereSent`, `EverySettles`; one server answers what PostgreSQL refuses, and its deliveries are excepted |
| `send_shutdown` | `ShutdownCompletes`, from every point where a stop can come, with a NULL use_async and a burst of 0 among the rows |
| `send_stranded` | a counterexample to `GracefulStop`, see below |
| `poll_safe` | several polls out at once, with stops and restarts, failing database calls, a suspended server, sends that succeed without a job, rolled back claims, and an operator who gives up or requeues: `TrueVerdict`, `VerdictStable` |
| `poll_live` | `EveryJobSettles` over crashes |
| `limiter` | `SlotsReturned` and, with one setting per key, `OwnLimitKept`, also while stopping; `WaitsEnd`, with a key that nothing can pass |
| `sessions` | with failing statements, handlers that die, answers that are lost, and clients that wait for their own answers: `ExchangedOnce`, `LogoutEndsIdle`, `SessionsGoOn` |
| `dispatcher` | `OnePlace`, `SendsGoOn`, `StopCompletes`, with a send claim of any size, poll claims that the network takes whole, and a second process |
| `dispatcher_stall` | a counterexample, see below |
| `api` | `WindowKept`, `LockStops`, `LockEarned`, `TokenOnce` (Accounts); `StaleNoLonger`, `SeedWhole` (Access); `ListKept` (Listing) |
| `store` | `PromisesKept`, `ExpandEnds` (RequestStore); `SchemaSound`, `StopEnds` (Startup); `TurnComes` (Schedule) |

Bounds. Two processes of one worker each are the smallest system in which
claims, outcomes and restarts of different processes interleave; the two
processes are interchangeable, which the symmetry uses (for safety only).
`send_faults` has one delivery, of an asynchronous server, since all that its
properties say is of one delivery; batches of several rows are in
`send_healthy`, channels that are full in `send_shutdown`, and any number of
either in the proofs. `MaxAttempts = 2` has a first, a last and an exhausted attempt; two
PATCHes reopen it after the last, requeue it while the server, a poll or a
worker works on it, or set a ready one to `processing`; one claim of it may be
rolled back under it (`MaxUndone`). A late poll is out of the one job or, after
a requeue, of a job before. `send_healthy` has two deliveries in one batch or
two, and two workers. `send_shutdown` has one worker, four deliveries and a
channel of two: the worker, the channel and the result set can all be occupied.
`poll_safe` has one process with channels for two polls, which one delivery
fills by itself, two workers that can answer in either order, two jobs, one
PATCH and, for the claim that was rolled back, two send workers (`MaxSending`);
a second process would add polls of the same kind, and is in `poll_live` and in
the proofs. `poll_live` has two processes, of which each may crash once
(`MaxCrashes`, a bound of the model).
`limiter` has two workers, for a semaphore of one slot: one has it and the
other waits or comes for another key, of three (`SlotsReturned` is proved for
any number). `sessions` has three tokens for two users: two sessions, one of
which is refreshed, or one that is refreshed twice; two handlers are at work
at a time.
`dispatcher` has three sends, one of which may be refused, and one poll, which
fills pollCh by itself as the ticks repeat it; the network takes none of a
send claim's rows (`SendBuffer = 0`), the worst case, and a whole poll claim.
In `dispatcher_stall` it takes none of either.
`api`: two overlapping logins, of which the lock can stop one; a window, a
lock and a reset that each begin and end within three ticks; four attempts
where two are let pass; two seeders beside two changes of any kind, two roles
and two codes, so that each row can be renamed into or deleted from under a
seeder; three rows in pages of one.
`store`: one request to two servers expanded by two callers in any order of
servers, with a repeated one; two processes and two migrations, so that a
process can die between any two steps and another finds what it left; three
deliveries, one of them a copy, with a batch of one, and four attempts, in which
the backoff doubles and is cut off by its bound.
CHECK_DEADLOCK is off where everything may have come to rest: all deliveries
deleted or settled, all workers gone, all bounds used up.

## Fairness

* The clock moves (`BecomesDue`, `Refill`, `Second`), and the dispatcher's
  ticker fires: weak fairness of each process's dispatcher.
* A goroutine that can go on does: weak fairness of each worker. A request
  always returns since every client has a timeout, and the database answers
  or fails. The choice of a select is not assumed fair.
* `send_healthy`: a row that is polled again and again is told in the end how
  its job came out (strong fairness of a definite `Polled`). `poll_live`
  derives that from less: jobs end, and errors of the polls do not
  go on for ever (strong fairness of a definite answer).
* `poll_live`: a process that is down is started again. `send_*` need no such
  assumption.
* `limiter`: strong fairness of each wait, since a rate.Limiter hands
  out reservations and a channel queues its senders, both in order.
* `dispatcher`: besides dispatcher and workers, the database commits a claim
  once the network has taken enough of its result (`Commit`).
* `RequestStore`: an insert that waits for another transaction is woken when
  that ends and does not lose to new callers for ever (strong fairness: the
  lock queue of PostgreSQL is first come, first served); deadlock_timeout
  ends circles. Deletions, failures and new calls need not come.
* `Startup`: only for a process that serves: its main goroutine goes on, and a
  handler that holds a connection comes to its end. No process need be
  started, and none need be stopped.

Nothing makes an operator act, and nothing makes a fault happen.

## Proofs

A property is seldom inductive. For each, an invariant that implies it is shown
to hold initially and after every action, one step of the proof per action. The theorems hold for
every value of the constants that the ASSUMEs of the modules allow, each of
which TLC evaluates; hypotheses beyond those are named in the theorems and
here. The theorems listed in `PROJECT.json` are the results; everything else is
a lemma on the way.

`SendPipelineProofs`, for any number of processes, workers and deliveries, any
batch size, any set of faults and servers:

* `TypeCorrect`: `[]TypeOK`. TypeOK is inductive as it stands.
* `OneHand`, `HandsAreClaimed`: `[]HeldOnce` and `[]HeldIsProcessing` (which is
  proved only, and no run's property). Neither is inductive alone: a claim
  keeps hands apart only because what is in hand is not `ready`; an outcome
  keeps that only because nobody else holds the row; and a late poll keeps it
  only because polls are out of rows that are at rest, and say of a settled one
  what it says already (`Kept`). That, for every delivery that is `Sound`, with
  TypeOK and with what open claims hold (`OpenInv`), is `HandsInv`.
* `BoundedSends`: `[]SendsBounded`, from `BudgetInv`: the requests sent for a
  delivery, the hands that may still send it, and the attempts its row has left
  are together at most MaxAttempts plus its patches and rollbacks. It counts
  hands and so needs no condition: each PATCH, and each rollback, adds one.

`SendRefinementProofs` rests on those and on two classifications: what a step
does to a delivery as the counts see it (`Effect`, any delivery), and what it
does to one that is `Sound` before and after (`Deed`: it stays, is inserted,
deleted, told by the polling half how its job ended, patched, taken by a claim,
given back by one that is undone, sent, called off, answered, recorded or
dropped). Each goes through the actions once; the rest are consequences:

* `FinalsEarned`: `[]FinalIsEarned`; `NotResent`: `AckedNotResent`. Both from
  `EarnedInv`, which adds that polls are out, and rows wait for jobs, only of
  unpatched deliveries that were accepted (`Truthful`), that an unpatched
  delivery that was accepted, and no claim of which was undone, is with the
  worker that saw it or in nobody's hands, and its row is not `ready`, and that
  such a row that can still go out has an attempt left.
* `AttemptsSent`: `[]AttemptsWereSent` as long as no process is told to stop:
  what a row counts and what workers are still to record were requests, each
  of its own (`Paid`).
* `NoneStranded`: `[]NothingStranded` while nothing goes wrong
  (`NothingWrong`: no faults, no row that Scan or a limiter refuses, no patch
  to `processing`), as every step then keeps a claimed row in hand, or writes
  its outcome; or finds its text refused, which is excepted.
* `Implements`: `SendPipeline` implements `DeliveryLifecycle`, with any faults
  and operators. Each deed is a step of the abstract delivery or a stutter,
  what makes a delivery unsound is `GoAdrift`, and what happens to it then is
  `Drift`; that a request stays within the abstract budget is `BudgetInv`.

`PollPipelineProofs`, for any number of processes, workers, deliveries, jobs,
patches of any kind and faults:

* `TypeCorrect`: `[]TypeOK`.
* `VerdictsAreTrue`: `[]TrueVerdict`; `VerdictsStay`: `VerdictStable`. From
  `JobsInv`: a row names a job that was started for it, one send worker at most
  has a sound delivery, and only while it is `processing` (`Settled`); a poll
  of a sound delivery names the job of its row, which is at rest, and what the
  row says is what that job came to (`Apt`); every answer on its way is RUNNING
  or what its job came to (`Heard`). None needs a condition on operators; what
  an operator can break is in the properties (`Sound`, `byHand`).

`LimiterSetProofs`, for any number of workers, keys and kinds of rows:

* `SlotsBalance`: `[]SlotsReturned`; `LimiterTyped`: `[]TypeOK`. The two are
  proved together: that the count of slots stays a natural number needs that
  each slot given back was counted, by a worker at work for the key.
* `LimitHolds`: `[]OwnLimitKept`, where all rows of a key agree on
  max_concurrency (`OneSetting`): the semaphore was then made with the capacity
  of every row that comes to it (`MadeToMeasure`). The other two need no such
  thing.

`DispatcherProofs`, for any number of deliveries and workers and any sizes of
batches, channels and network buffers:

* `TypeCorrect`: `[]TypeOK`; `OneHolder`: `[]OnePlace`. From `DispatcherInv`:
  workers and channels hold rows of their own kind, and a send not yet lost is
  at most once in each of the result set, the channel and the hands, and in one
  of them only; its row is `processing` if it is in any, or still `ready` while
  the claim is open and holds the lock.

`SessionsProofs`, for any number of users, tokens and handlers:

* `TypeCorrect`: `[]TypeOK`, `NewestIsGood`: `[]SessionsGoOn`, `LogoutHolds`:
  `[]LogoutEndsIdle`, all from `TokensInv`: what a handler refreshes was handed
  to a client, what it is about to hand out was not, each token is signed by
  one handler, and it belongs to the session of the token it replaces. A handler
  that dies leaves all of that as it is.
  For LogoutEndsIdle, besides: no refresh is at work for a session that a
  logout ended at rest (`AtRest`), so none can store a token for it.
* `RotatedOnce`: `[]ExchangedOnce`, for `Orderly` clients: one refresh at a
  time per session (`OneRefresh`), and a token past its revoke is inactive
  unless a statement failed on it (`OnceInv`).

`ApiProofs`. `Accounts`, for any number of users, addresses, handlers and
tokens, and any limits, zero included:

* `ResetOnce`: `[]TokenOnce`. TokenOnce is not inductive: a confirmation that
  has the token in its hands could set a second password. `TokenInOneHand`
  adds that a token is in one hand at most, only when it is spent, and only
  while no password was set with it.
* `LocksAreEarned`: `[]LockEarned`. `CountsAreLow` says more than LockEarned:
  the row never counts more failures than there were since the account was
  cleared, and any lock ever set since, also one that is over, was earned.
* `LocksStop`: `[]LockStops`. While an account is locked, the failures recorded
  under the lock and the wrong logins still to be recorded are together fewer
  than the handlers (`FewUnderLock`); there must be a handler.
* `WindowIsKept`: `[]WindowKept`. `Windows` relates the list in memory to all
  attempts there ever were: it is their end, and what is missing is older than
  the window. `FirstOnes` is the one counting argument: in a list in order
  the old ones are the first so many.

`Access`, for any number of rows, names, codes, clocks, administrators and
processes that start:

* `TokensAreTrue`: `[]StaleNoLonger`; `SeedersFinish`: `SeedWhole`. From
  `AccessInv`: names are unique and references hold (`TablesOK`); one process
  seeds at a time, its upserts come in order, the rows it has locked are as it
  found them, and each permission in its hands is granted, about to be, or was
  revoked meanwhile (`SeedsOK`); a token says what its user had when the codes
  were read (`TokensOK`).

`Listing`, for any number of clients and rows and any size of page:

* `ListsAreKept`: `[]ListKept`. From `ListInv`: under a client's key there is
  one row, or none, as many as were made and not given up (`OneEach`); of the
  rows that were there when the walk began and still are, the reader has seen
  all that rank before its offset (`SeenSoFar`). That a page of the last rows
  shows all of them is a pigeonhole argument about ranks (`PageIsFull`).

* `ApiTypes`: `[]ApiTypesOK` of the three side by side: the types, the limit of
  the attempts, and that grants and users refer to rows that exist.

`StoreProofs`, for any number of requests, servers, expanders, processes,
versions and rows:

* `PromisesHold`: `[]PromisesKept` (RequestStore). `StoreInv` adds that what a
  running expansion has inserted refers to rows that are there and that its
  locks keep there (`Referring`), and that what was promised is in the table.
* `SchemaIsSound`: `[]SchemaSound` (Startup). `StartInv` says what the row
  schema_migrations tells of the versions that were committed, what each stage
  may count on, and that one process at a time migrates. That a process which
  has gone on keeps a clean last version follows from the guard of "mark".
* `StoreTypesHold`: `[]StoreTypesOK` of the three side by side: the types, that
  deliveries have their request and server, that attempts and delays keep their
  bounds (`ScheduleInv`), and that the advisory lock has an owner at work
  (`Manned`).

Only model-checked: liveness, that is `EverySettles`, `ShutdownCompletes`,
`EveryJobSettles`, `WaitsEnd`, `SendsGoOn`, `StopCompletes`, `ExpandEnds`,
`StopEnds` and `TurnComes`. The proof system has no rules for fairness and
ENABLED. No module declares a RECURSIVE operator.

## What the code does otherwise

* **A stop strands deliveries** (`send_stranded`). The program logs "graceful
  shutdown complete" (main.go 251), and a row is left in `processing`, which
  nothing claims again and no start gives back. In the trace claim_deliveries
  is under way when the signal comes: pool.Query (main.go 264) runs under the
  context that the signal cancels and returns an error, and the statement
  commits all the same. The same is left by a stop that drops the rest of a
  result set, that leaves rows in the channel, or that cancels a limiter wait,
  and by crashes, failing database calls, a NULL use_async, a limiter of burst
  0 and an answer that PostgreSQL refuses.
* **The dispatcher can wait for itself** (`dispatcher_stall`).
  claim_async_polls says "Call this on a separate poller loop" (`S` 317); the
  code calls it in the loop that claims sends. A poll stays claimable until it
  is answered, so pollCh fills; if a poll claim is larger than what the
  network takes, the dispatcher waits for the poll workers, who wait for the
  locks of the claim. Nothing moves, and nothing is sent, until a stop.

Not runs of their own, but met while modelling:

* The log and last_error call other statuses a terminal failure (main.go 556);
  the row is retried.
* A claimed poll stays claimable, so duplicates go out although the last
  answer moved next_run_at (`S` 348, 393).
* The semaphore of a key keeps the capacity it was made with (main.go 141); a
  lowered max_concurrency is not kept.
* A logout misses a refresh under way (auth_handler.go 156-194): its new token
  is stored after the logout and stays active. A password reset revokes no
  refresh token.
* Revoked permissions work until the token expires (authz.go 47), and
  deliveries, requests and servers ask for a valid token only (router.go).
* threshold, window and durations of lockout and reset are 0 unless they are
  configured: viper does not read the env-default tags (config.go 43). Every
  failure then locks for no time, and reset tokens are expired when made.
* The map of attempts (auth_handler.go 26) keeps a key for every address and
  name for ever.
* An expansion that is repeated is refused, by a 500 (request_handler.go 99).
  A PUT of a request or server writes every column: what the payload leaves
  out is taken back (suspended, idempotency_key), and with the key gone a
  repeated create makes a second request. A PUT of a user without user_role
  takes the role away.
* Deliveries are listed by next_run_at, which changes: a walk through the
  pages may miss some. Of the other lists `ListKept` holds.
* The smallest backoff is 4 s, not the parameter's 2 (`S` 479). A Retry-After
  in the past leaves a row due at once, so the attempts can be used up within
  seconds. Nothing reads the columns depends_on*.
* truncate (main.go 710) cuts text within a character, and a body may hold NUL;
  PostgreSQL refuses it, finalize fails, and the row stays in processing
  (`BadText`, excepted from `NothingStranded` and `EverySettles`).
* update_async_status writes by id, whatever the row says (`S` 409). A delivery
  that an operator gives up or requeues while a poll of it is out takes the
  answer of that poll, for a job that is no longer its own or against the
  operator (excepted from `VerdictStable`; `TrueVerdict` says what holds).
* A PATCH sets any status, of a row in `processing` too: two workers then have
  it (excepted from `HeldOnce`; `SendsBounded` counts it).
* The dispatcher hands rows on before their claim has committed. A stop in the
  middle may roll it back, and another process sends them again (excepted from
  `HeldOnce`, `AckedNotResent` and `OnePlace`; `SendsBounded` counts it).
* A session whose refresh ends between the revoke and the answer (its handler
  dies, a statement fails, the answer is lost) has no good token left.
* A process killed while it migrates leaves a dirty version, and every later
  start ends in Fatal until somebody repairs the row: safe (`SchemaSound`), and
  not self-healing. `m.Close()` closes the connections that the fixtures are
  then given (migrate.go 137), so a start with SeedSampleData ends in Fatal.
  `//go:embed ../../db` (migrate.go 20) is a pattern that Go does not accept;
  the model reads it as the directory that it means.
* The seeder's commit error is dropped, and a start grants Admin again what an
  administrator revoked; only a grant revoked while the seeder runs stays
  revoked. The second migration grants to a role 'Operator' that nothing makes.

## Not modelled

* Headers, bodies and URLs of requests, and the parsing of answers beyond what
  the workers tell apart: data that no state depends on.
* Configuration: read once by each program; its values are constants. The
  watcher reloads a variable that nobody reads again.
* Validation, CORS and request logging: functions of one request.
* The fixtures: a transaction that cannot begin, see above; `db/db.go` is
  imported by no program.
* Columns that only record what happened (last_error, status codes, response
  bodies, timestamps of a login).
* Generated documents and type declarations.
* Clocks that disagree: each of `Accounts`, `Access` and `Schedule` has one.
* Crashes of PostgreSQL itself: what was committed stays.
