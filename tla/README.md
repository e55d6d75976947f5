# Verification of cpemon

TLA+ models of the cpemon pipeline (Go services `acs-ingest`, `cpemon-writer`
and `cpemon-api` over one MySQL database), TLC configurations that check them
on small instances, and TLAPS proofs of their safety properties for every
instance. Paths below are relative to the repository; `main.go` is the one of
the service under discussion.

## The system

```
 ACS / webhook sender --POST /acs/webhook--> acs-ingest --upsert--> ingest_events
                                                                       |  ^
                                                        poll, lock     v  | markDone
                                                              cpemon-writer (1..n)

 CPE simulator --POST /cpe/heartbeat--> cpemon-api (1..n) --upsert--> cpe_status
                                             |            --insert--> cpe_status_history
                                             +-- in-memory gauges and counters
 operator, dashboards --GET /admin, /api/cpe--> cpemon-api --select--> both tables
```

The services share no memory and exchange no messages: they meet in MySQL.
Every SQL statement of the code autocommits, so a statement is the unit of
atomicity, and whatever the code relies on between two statements may be stale
when the second one runs.

| component | state | operations | what makes it correct |
|---|---|---|---|
| ingest: `acs-ingest`, `pkg/queue` (enqueue), `cpemon-writer` | `ingest_events` (unique per `sn`, `event_ts`); a writer's selected rows and the row it has locked | webhook handler, upsert, poll (`runOnce`), lock, `markDone` | nothing accepted is lost; a delivery is claimed at most once; its status only moves forward; it is eventually done |
| heartbeats: `cpemon-api` | `cpe_status`, `cpe_status_history`, gauges and counters per replica | `handleHeartbeat` (metrics, upsert, insert), `handleAdmin` (two selects) | order of acknowledged heartbeats is kept; acknowledged ones stay on record; counters count requests; the page shows what was acknowledged |
| queries: `GET /api/cpe`, `GET /api/cpe/:sn` | none (reads `cpe_status`) | normalise limit and offset, one select; one lookup | a walk through the pages misses no CPE; what is listed can be fetched, NULLs or not |
| retry and dead letters: `pkg/queue`, `handleFailure` | `attempts`, `next_at`, `status` | backoff, dead after a maximum | no event is given up early or handed out early; retries end; a failure is counted once. Called by no service today |
| start, configuration, pool: `pkg/db`, `pkg/config` | a process, its pool of up to 20 connections | `Load`, `Init`, `main`, taking and returning a connection | requests wait for work and not for each other, none for ever; a pod comes to serve |
| webhook signature: `pkg/hmac` | none | verify | a wrong signature is refused before the body is looked at |
| sender and simulator: `vm3/` | a pending request | send, call back | the caller always gets its callback |
| backup: `k8s/cron` | dump file, bucket, off-site bucket | dump, upload, prune, mirror | only complete dumps are uploaded; pruning leaves the bucket filled and takes nothing that no mirror could copy; only a command that hangs holds a job |
| `cpemon-api/admin` package | – | – | imported by nothing |
| manifests, monitoring, demo scripts | – | – | declarative |

**Hard behaviours.** Two writers select the same rows. An event is delivered
again while a writer is between lock and `markDone`. A statement takes effect
although its answer is lost. A process dies between two statements and nothing
ever looks for its half-done work. Heartbeats of one CPE meet in two replicas
and commit in an order other than that of their timestamps. The history insert
fails after the snapshot was written. Two timestamps fall into one millisecond,
and `next_at` is rounded to seconds while `NOW()` is cut off. The admin page and
the list read several states of the tables. A failed event is retried from a
copy that a redelivery has made stale. Pods that start and die share the
connections of one MySQL, and handlers wait for a connection without a limit.
Two containers share a file with no signal that it is complete, and two
CronJobs a bucket with no signal at all. `PROJECT.json` lists each of these
at its line, with the properties about it.

## Modules

| module | role |
|---|---|
| `DeliveryLifecycle` | abstract specification: the stages of a delivery |
| `IngestQueue` | the ingest pipeline; implements `DeliveryLifecycle` |
| `IngestQueueProofs` | TLAPS proofs about it |
| `HeartbeatRegister` | abstract specification: the status of a CPE as a register, its history as a set |
| `HeartbeatStore` | heartbeats, metrics and the admin page; implements `HeartbeatRegister` |
| `HeartbeatStoreProofs` | TLAPS proofs about it |
| `StatusListing` | the two queries, a client that walks through the pages and looks up CPEs |
| `StatusListingProofs` | TLAPS proofs about it |
| `RetryQueue` | retries, back-off and dead letters, with an external consumer |
| `RetryQueueProofs` | TLAPS proofs about it |
| `BackupPipeline` | the two CronJobs, the volume and the bucket |
| `BackupPipelineProofs` | TLAPS proofs about it |
| `ServicePool` | configuration, start and connection pools of the service processes |
| `ServicePoolProofs` | TLAPS proofs about it |
| `RankTheorems` | what `ORDER BY ... LIMIT` takes: lemmas the proofs share |
| `MC...` | model values, small sets and symmetries for TLC |

Operators marked `BUG:` in the modules are plausible mistakes next to the
definition they would spoil. No specification uses them; each shows that a
property is able to notice the mistake.

### IngestQueue

| variable | code |
|---|---|
| `now` | the wall clock; pods and database read the same one |
| `req` | a request in `handleACSWebhook`: `new`, `handling` (validated, before the database call), or its answer; with the key it computed |
| `row` | the table `ingest_events` as a function on the keys `(sn, event_ts)` of `uk_idem`; `payload` names the delivery the row was written from |
| `lastId` | `AUTO_INCREMENT` |
| `batch`, `hold` | `events` in `runOnce`, and the row between the lock `UPDATE` and `markDone` in `processOneEvent` |
| `claimed`, `faults` | history variables: they guard no action of a service, `faults` only bounds the injected faults |

`Receive` is the handler up to its database call, with its early returns in
their order (`Verdict`); `Enqueue` and `EnqueueFails` are the upsert and the
answer. `Select`, `Lock`, `LockFails`, `MarkDone`, `MarkDoneFails` are the loop
of `cpemon-writer`; `Crash` takes a writer's memory away at any point of it.
Every failing statement comes in two forms, before and after it took effect.

What the data abstracts: a delivery *is* its payload; serial numbers are equal
when the column's collation says so; times are integers in ticks, and the
rounding to `DATETIME(3)` and `DATETIME` is modelled (`Rounded`, `DbNow`), since
the queue's visibility depends on it. A payload the database refuses (an `sn`
that is too long, a year out of range) has the effect of the fault `enqueue`.
`db == nil` in the handlers cannot happen: `main` ends when `Init` fails. A
failing `SELECT` of `runOnce` changes nothing: it is a stuttering step. A
statement of a process that dies took effect before it died or not at all. The
`dead` status and the retry delay are written by `handleFailure`, which nothing
calls, so no row of the model has them.

### HeartbeatStore

| variable | code |
|---|---|
| `beat` | a request in `handleHeartbeat`: `stamped` (parsed, clock read), `metered` (metrics set), `upserted` (snapshot written), or its answer |
| `status`, `history` | the two tables; a row is the beat it was written from |
| `gauge`, `counter` | the Prometheus vectors of a replica; the gauges of cpu and mem, which are set side by side, are one |
| `page` | a page of `handleAdmin` between its two queries, and its result |
| `before`, `faults`, `forgotten` | history variables; `before[b]` are the heartbeats of the same CPE answered before `b` was received, `forgotten` those that were answered by a replica that has been started again since |

A tick of the clock is one millisecond, the precision of `event_ts`. A beat
carries which optional fields it has (absent ones are stored as NULL) and
whether its values fit their columns. `Restart` cuts off the requests of a
replica and empties its metrics. A statement whose answer is lost takes effect
before the handler answers or not at all: the model assumes that MySQL does not
commit it later than the error its client got, and the real-time orders below
rest on that. The same holds for the statements of `IngestQueue`.

`HeartbeatRegister` is what remains for somebody who only sees requests and
records: a heartbeat is opened for a CPE, writes the register of that CPE at one
instant, is put on record, and is acknowledged; it may fail at any of these
points and then does nothing any more. The mapping reads `stamped` and `metered`
as open and `upserted` as written; gauges, counters, clocks and pages have no
counterpart, so `Observe` and the queries of a page are stutters. A statement
whose answer is lost is a step that takes effect and fails in one.

### StatusListing

`row` maps the registered serial numbers to the columns that are NULL in their
rows. `Heartbeat` is the upsert of `handleHeartbeat` as the queries see it.
`handleListCPE` is the pure function `Reply`, `handleGetCPE` the function
`CodeOfGet`; a row can be read when its NULL columns are among the pointer
fields of `model.CPEStatus` (`Scans`; one row that cannot fails its whole page).
A query may also meet an error of the database (`StepFails`, `dbError`): the
answer is 500, and a client under way gives up.
The client is external: `Start` and `Step` go on behind the page they got, by
the `limit` and `offset` the reply reports, until a page is short; `Get` looks
up any CPE at any time. `Contents` bounds the model: a heartbeat leaves out all
optional values or none.

### RetryQueue

| variable | code |
|---|---|
| `protocol` | which family is used: `library` (`FetchReadyBatch`, `MarkDone`, `MarkFailedWithBackoff`) or `writer` (the select and lock of `cpemon-writer` with `handleFailure` and `backoffDuration`) |
| `row`, `due` | `status`, `attempts` and `next_at` of `ingest_events`; `due` is how many seconds `next_at` is ahead of `NOW()` |
| `batch`, `work` | the fetched `IngestEvent`s with the `attempts` they were read with; the one the consumer is at, with the `next_at` it has computed |
| `faults`, `failures`, `owed` | history: the faults so far, the failed processings of each event since it was offered, and how long its back-off should still last |

No service calls these operations, so the consumer is external: it visits a
batch in order, and each event succeeds or fails. `Fail` is the part of a
failure before its `UPDATE` (the counter in the copy, the delay, the clock),
`RecordFailure` the `UPDATE`, `StatementFails` an `UPDATE` that returns an
error before or after it took effect, `Crash` the loss of copy and batch.
Delays are products that wrap around at `WordBits` bits, as `time.Duration`
does (`Wrap`); `next_at` is rounded to seconds by the column and `NOW()` cut
off (`InColumn`, `Tick`). Time is relative, so the clock has no bound.

### BackupPipeline

`dumper` and `uploader` are the containers of a `db-backup` pod; `file` is the
dump in the `emptyDir` and `copy` what the uploader found in it; `bucket` holds
objects by age in days and by what a mirror has done with them (`offsite`,
`listed`); `mirror`, `retries`, `sync` are the job of `mysql-backup-sync`, its
remaining container starts, and how far today's is. `missed` is a history
variable: a day ended without a successful mirror while the object was there.
One action stands for each command that changes something shared, in the order
of the scripts; every command may fail, every container may be killed, and a
job may run on into the next days. The two time tables are not fixed against
each other: 13:30 in Copenhagen and 13:30 in the cluster's zone are any two
moments of a day, and either job may fail to start. Objects that agree in all
their fields are one element of the set. `PruningIsTimely` is the only bound on
the clock: the pruning after an upload does not take `RetentionDays` days.
`BackupAssumption` wants a retention of two days at least (the code has 7).

### ServicePool

| variable | code |
|---|---|
| `env` | `WORKER_INTERVAL` and `BATCH_SIZE` as `config.Load` reads them; `None` is unset or unparsable |
| `mysql` | whether MySQL answers |
| `pod` | a process in `main`: `starting`, `connected` (after `db.Init`), `serving`, `exited` (by itself) or `killed` (from outside) |
| `conns` | the open connections, as slots of a pod's pool |
| `stale` | how many connections of dead processes MySQL still counts |
| `req` | a request, or a run of the writer's loop: `asking` for a connection, `running` a statement on one, `broken` with an error on its way |

`Connect`, `Serve` are `db.Init` and the rest of `main`, with their fatal
ends; in particular `time.NewTicker` panics for an interval that is not
positive, which `Load` lets pass. A process that exits closes its connections; of
one that is killed, any number of them stays behind in MySQL (`End`) until MySQL
notices (`Forget`), and meanwhile `Ping` and new connections of other pods may be
refused (`Room`). `Acquire`, `EndStatement`, `Expire` are
`database/sql` under the limits `db.go` sets: take an idle connection, open one
below `SetMaxOpenConns`, or wait; keep `SetMaxIdleConns` idle ones. A statement
uses one connection and returns it before the next begins, as `Exec`, `Get` and
`Select` do; no code holds rows or a transaction open. Which statements a
request makes is left out but for their number.

## What the runs check

Passing runs:

* **IngestSafety** – three deliveries that may be of one event (stamped or with
  the same `event_ts`), two writers, batches of two, two faults of any kind.
  `AcceptedIsStored`: the row of an accepted delivery holds it or another
  accepted delivery of the event. `QueuedIsUnclaimed`, `NoDoubleClaim`: the
  status guard of the lock gives a delivery to one writer, once, whatever
  failed. `AttemptsCountClaims`: `attempts` speaks of the payload that is in the
  row now. `OrphanBound`: rows stuck in `processing` come from faults, one each.
  `StatusMovesForward`: only an upsert of another delivery takes a row back.
  `ImplementsLifecycle`: a delivery moves through the stages of
  `DeliveryLifecycle` and in no other way. In particular it is never claimed
  again after it was claimed, and it is replaced only by a newer arrival that
  takes its row. The stage `skipped` is part of the abstract specification
  because the code can do it (IngestStaleDone).
* **IngestLiveness** – two writers and two faults that leave no row behind:
  `EventuallyDone`, every accepted delivery is eventually settled, skipped or
  replaced. The check covers the moment where `next_at` was rounded up past
  `NOW()`, and rows re-queued under a writer's feet.
* **HeartbeatStorage** – three heartbeats of one CPE on two replicas, complete,
  without optional values or with values that do not fit, two milliseconds, any
  fault, a page of one row. `RealTimeOrder`, `GaugeRealTimeOrder`: a heartbeat
  answered before another was received does not stand in its place, in the
  snapshot or in the gauges of a replica. `AcknowledgedIsRecorded`,
  `HistoryHasStatus`, and `PageShowsAcknowledged`: a page without error shows
  every heartbeat acknowledged when it was asked for, unless it is full of later
  ones, although its two queries see different states. `CounterMatchesRequests`:
  the counters of a replica count the requests it has handled since it was last
  started, also those that fail, whatever the other replicas went through.
  `ImplementsRegister`: each heartbeat takes effect on `cpe_status` at most once,
  at one instant before its answer, and is recorded at most once, after that.
* **ListingWalk** – four CPEs, limits and offsets below, at and above the bounds
  (default 2, maximum 3), rows that heartbeats fill and empty meanwhile:
  `NothingSkipped`; `WalkEnds`: the walk ends, and fails only if its query met an
  error of the database; `ListedIsFetched`: what the list has shown can be
  fetched, and only an error of the database is a 500, never a missing value.
* **RetryLimits** – two events, three attempts, delays of 2 and 4 seconds under a
  cap of 5, both families, one crash or lost statement, batches of one and of
  the default. `DeadAfterMaxAttempts`, `CountsAreFailures`: an event is given up
  after that many failures and not before, although a redelivery may reset the
  row under the consumer's copy. (Those may be failures of the older payload:
  the copy is not renewed, and its `UPDATE` puts the old count on the new
  payload.) `BackoffRespected`: a failed event is not handed out before its
  delay is over, but for the half second that rounding takes. `WordBits` is such
  that a delay for one more attempt would wrap around, while
  those that occur fit (`DelaysFit`, which the run asserts). `EventuallySettled`:
  without redeliveries an event ends `done` or `dead`; with the library a crash
  does not change that, with the lock of `cpemon-writer` it does. `OldestVisited`:
  as many of the oldest events as fit into a batch are not starved by
  redeliveries of others; younger ones can be.
* **BackupRetention** – any number of days, retention of three days, a mirror
  with one retry. `NeverEmptied`: pruning never takes the last object, though
  uploads fail for weeks: the script prunes only after a successful upload.
  `PrunedIsOffsite`, `OffsiteInTime`: an object is off-site when it is pruned,
  however the two time tables lie, unless a day passed without a successful
  mirror. `OnlyCommandsHold`: a job in which no command is running ends or comes
  to its next command; in particular the uploader does not wait for ever for a
  dumper that died without a file. That a job ends is not claimed: `mysqldump`,
  `mc cp` and `mc find` have no time limit, the job has no
  `activeDeadlineSeconds`, and `Forbid` lets one that hangs block all later ones.
* **PoolLimits** – an API pod and a writer with pools of two, one of them idle,
  three requests, five connections of MySQL, one taken by others; pods die and
  start again and leave connections behind, MySQL comes and goes;
  `WORKER_INTERVAL` unset or zero (a positive one behaves as the default).
  `WaitersWaitForWork`: each connection of an exhausted pool runs a statement of
  a request other than the one that waits. `AllAnswered`: no request waits for
  ever. `EventuallyServing`: every pod serves once MySQL stays up and pods are no
  longer killed, unless its interval is zero or below.

Runs that show where the code does not do what the repository says:

* **IngestStaleDone** – `markDone` updates by `id` alone. When a redelivery
  re-queued the row in between, its payload is marked done unprocessed.
* **IngestCrash** – a writer that dies between lock and `markDone` leaves its row
  in `processing` for ever. A failed `markDone` has the same effect (fault
  `done`): the loop logs the error, and `handleFailure` is called by nothing.
* **HeartbeatLatest** – of two overlapping heartbeats the older may commit its
  snapshot last; `cpe_status` is then older than the newest history row.
* **HeartbeatNulls** – a heartbeat without the optional fields stores NULLs that
  `handleAdmin` cannot scan: the page of a known CPE is an error.
* **BackupWhole** – the uploader waits until there is a file, which is when the
  shell opens it for `gzip`; it copies what is in it by then, both containers
  end well, and the newest object of a successful job is a partial dump.

Two more disagreements with comments need no run of their own. `queue.go:12`
calls the enqueue idempotent; the upsert resets `status`, so a repeated delivery
puts an event that is `done` back to `queued` (`StatusMovesForward` allows
exactly this step). `cpemon-writer` calls its `UPDATE` a lock on the event; the
same upsert lets a second writer lock the event while the first one still works
on an older delivery of it (they never work on one delivery: `NoDoubleClaim`).

**Bounds and why they are enough.** Two deliveries of one event suffice for each
interference of an upsert with a writer; the third lets a replaced delivery
interfere once more. Two writers are the most that one row can involve at a
time, apart from the redelivery's. A second has two ticks, so that rounding up
and cutting off differ, and time goes on until every row accepted by
`LastArrival` is visible. Faults may be of any kind; two
are needed for a retry after a failed retry. Three heartbeats are one that is answered, one that
comes later and one that overlaps both. Four CPEs make two pages of the default
limit with a registration on either side of the boundary. Two events are one
that is retried and one whose redeliveries compete with it; three attempts have
a first, a repeated and a last failure. Three days of retention leave room for
an upload, a mirror of the next day, and a pruning with a day in between. Three
requests on a pool of two make one wait. All names of deliveries, writers, beats
and replicas are interchangeable, so the safety runs use symmetry; the liveness
runs do not.

**Fairness.** Weak fairness for `Tick` (clocks advance), `Enqueue` (a handler at
its database call gets an answer; a fault may still answer it first), and
`Select`, `Lock`, `MarkDone` of each writer: `for range ticker.C` and the loop of
`runOnce` have no exit, and an error of one event does not keep the loop from
the next one. Senders may stop at any time: `Receive` has no fairness, nor has
any fault. Faults are finite, and those that orphan a row are excluded from
IngestLiveness, since EventuallyDone does not hold with them: IngestCrash. In
`StatusListing` the client goes on (`WF(Step)`), and CPEs need not register and
queries need not fail. In
`RetryQueue` the clock runs, the consumer's loop goes on and a processing comes
to an end one way or the other; nothing makes it succeed. In `BackupPipeline`
the waiting loop of the uploader goes on (it counts its looks: `FindDump` or
`GiveUp`), and the job controller ends a job whose containers have ended; no
command is sure to end, no job to be started and no mirror to go on. In
`ServicePool` MySQL forgets the connections of dead processes, statements end, broken connections report
their error, and `Connect`, `Serve`, `Restart` go on (the kubelet restarts a
container; its back-off is finite). `Acquire` has strong fairness: the pool of
Go 1.23 gives a connection that becomes free to a waiter it picks at random, so
that none is passed over for ever. Neither MySQL nor a pod is sure to stay up:
`EventuallyServing` says so where it needs them.

Deadlock is checked in every run: the writers keep polling, pages can always be
asked for again, a client may start another walk, time passes for the consumer
and the backups, and pods can always be started or killed.

## What is proved

`IngestQueueProofs` proves, for any sets of deliveries, serial numbers, times
and writers, any batch size, clock and number of faults (the assumptions are
`ConstantsAssumption` and `NoneAssumption`):

* `InductiveInvariant`: `Spec => []Inductive`, and from it `TypeCorrect`,
  `NothingAcceptedIsLost`, `ClaimedAtMostOnce`, `WritersExcludeEachOther` and
  `AttemptsAreClaims`;
* `StatusNeverMovesBack`, the action property, from the same invariant;
* `PipelineImplementsLifecycle`, the refinement, and `StuckRowsComeFromFaults`
  (`OrphanBound`), described below;
* `DeliveriesMoveOn`: since the pipeline implements `DeliveryLifecycle`, no
  delivery moves back in it (`MovesOn`, an action property of the abstract
  specification that holds of the detailed one through the mapping);
* `BatchesAreBounded` and `OldestAreFirst`: ids are unique, no batch exceeds
  `BATCH_SIZE`, and a poll leaves a ready row out only when its batch is full of
  older ones.

None of the safety properties is inductive alone. That no writer claims a
delivery twice needs that a *queued* row holds a delivery nobody has claimed;
this survives an upsert only because the delivery of a handler that is still
running is not in `claimed` (`ClaimsAreAccepted`), and it survives a lock
because two rows never hold one delivery: each row holds a delivery of its own
key (`RowsHaveOwners`). `markDone` of a writer whose row was replaced finds its
key in the table still (`TypeOK`: rows are never removed), and
`HoldsAreClaims` says that what it holds was claimed whatever the row says now.
Those conjuncts together are `Inductive`. `NextInductive` has one lemma per
kind of write: `UpsertInductive`, `ClaimInductive`, `ReleaseInductive` (mark
done, crash), `QuietInductive` (steps that leave the table alone) and
`RequestInductive`.

The refinement needs one more fact, `ProcessingIsClaimed`: a row that is being
processed holds a delivery that was claimed, so that `markDone` of its writer
settles it and does not skip it. With it each write maps to one abstract step:
an upsert to `Offer` in the place of the delivery its row held (`UpsertOffers`),
the lock to `Claim` (`LockClaims`), `markDone` to `Settle`, `Skip` or nothing
(`DoneSettlesOrSkips`), an early return or a failed enqueue to `Refuse`
(`RequestRefuses`). `OwnerMoves` says why nobody else moves: a write touches one
row, and of the deliveries of that key only its owner is not replaced already.

The bound on stuck rows counts: a step adds no orphan, or one and a fault with
it (`OrphansAfter`, from the library's facts on cardinality). An upsert takes its
row out of `processing`, so that a writer left without its row orphans nothing.

`HeartbeatStoreProofs` proves for any number of heartbeats, replicas and faults
(assumption `HeartbeatAssumption`) `InductiveInvariant` and from it
`TypeCorrect`, `SnapshotKeepsRealTimeOrder`, `GaugesKeepRealTimeOrder`,
`AcknowledgedStaysRecorded` and `HistoryImpliesStatus`. The strengthening here
is `BeforeIsAnswered`: a heartbeat that is before another one has its answer,
so it writes nothing any more; without it the order of the snapshot would have
to be argued about the past. `PageIsComplete` (`PageShowsAcknowledged`) adds that
each history row belongs to the heartbeat that wrote it (`RowsAreOwn`) and that
what the first query found settled stays so until the second one
(`PageIsTrue`). That a page without an acknowledged heartbeat is full of later
ones is `NewestOfMany`: the rows of one SN have distinct times, so that `LIMIT`
takes exactly that many.

`CountersCountRequests` (`CounterMatchesRequests`) is proved by counting: the
heartbeats that a replica has handled for a CPE are a finite set, `Observe` adds
one to it and to the counter, a later step of a handler moves a beat within it,
and a restart sets the counters to zero while it moves what was answered to
`forgotten` and cuts off the rest, so that nothing is left to count.
`HeartbeatsImplementRegister` is the refinement, with one lemma for each kind of
step: receiving opens or refuses (`ReceiveOpens`), the metrics are a stutter
(`ObserveStutters`), an upsert writes (`UpsertWrites`), an insert records
(`InsertRecords`), an error or a restart gives up (`EndGivesUp`,
`RestartGivesUp`). `RecordsAreSound` then follows from the abstract specification
alone, by an invariant of four variables: the status of a CPE comes from a
heartbeat about it, nothing is on record that did not take effect, and what was
acknowledged is on record.

`RankTheorems` holds the lemma both components need: of a finite table in an
order without ties, `LIMIT` takes as many rows as it says, or all, and each one
it takes comes before each one it leaves (`FirstOfMany`; the ranks are a
bijection onto an initial segment). It serves `ORDER BY id` of the writers
and `ORDER BY event_ts DESC` of the page.

`StatusListingProofs` proves, for any finite set of serial numbers and any limits
(`ListingAssumption`), `TypeCorrect`, `WalkSeesEverything` (`NothingSkipped`) and
`ListedCanBeFetched`. The invariant is `SeenBehind`: a client under way has seen
what it knew of at ranks before its offset. Registrations only raise ranks, so
it survives them; a page adds the ranks from its offset on. That a short page is
the last one is the lemma `ShortPageIsLast`: the ranks of a finite table have no
gap (`RanksHaveNoGap`, a counting argument with the library's facts on
injections).

`RetryQueueProofs` proves `CountsNeverRunAhead` and `DeadLettersHaveFailed` for any
number of rows, limits, delays and faults (`RetryAssumption`). The invariant
bounds every count of attempts, in the table, in a fetched batch and in the copy
at work, by the failures since the event was offered; it holds after a
redelivery since the history of failures starts again only when no older copy
is left.

`TypeCorrect` (`TypeOK`) and `BackoffIsRespected` (`BackoffRespected`) are about the
arithmetic. The invariant of the second is `BackoffKept`: the seconds `next_at`
is ahead cover, but for half a second, the ticks a row is still owed; `Tick`
takes from both, a failure sets both from the same delay. What the delay is
needs powers of two, a recursive function about which this prover cannot do
induction. The proof counts instead: 2^n is the cardinality of the subsets of
`1 .. n` (`PowerCounts`, from the library's fact on `SUBSET`), and more elements
have more subsets (`PowerGrows`). The theorem has a premise, `DelaysFit`: the
longest product stays below the sign bit of the word. It is justified for
`cpemon-writer`, whose `backoffDuration` is called with at most 4 before an
event is dead (80 s in 63 bits of nanoseconds), and holds in RetryLimits, where
`MCRetryQueue` asserts it. The library takes base delay and attempts from its
caller, who has to keep to it: beyond it a delay wraps around and the property
fails.

`BackupPipelineProofs` proves `BucketStaysFilled`, `MirrorIsInTime`
and `PruningWaitsForMirror` for any retention of two days or more and any number
of retries (`BackupAssumption`, and the bound `PruningIsTimely`). What pruning
leaves behind is the object its own job stored (`PruningHasNew`); what it takes
is older than a day, and `OffsiteInTime` says that such an object is off-site or
has missed a mirror. `TypeCorrect` is proved as well.

`ServicePoolProofs` proves `TypeCorrect` and `NoCircleOfWaiters`
(`WaitersWaitForWork`) for any number of pods, requests and connections
(`PoolAssumption`). The invariant adds `Exclusive`, no connection serves two
requests: without it, closing the connection one request returns could take that
of another. The second theorem is the part of `AllAnswered` that needs no
fairness. `CapacityAssumption`, that the limits of all pools together fit into
MySQL, matters to `EventuallyServing` alone. It is an assumption on the
deployment, not a fact of the code: two replicas each of `acs-ingest` and
`cpemon-api` and one writer hold at most 100 of the 200 connections; a rolling
update of all three adds a pod to each, and pods that are still terminating come
on top. Even so a pool below its limit can be refused a connection while MySQL
counts those of killed pods, and beyond nine processes at a time for good.

Only model-checked are the liveness properties: `EventuallyDone`, `WalkEnds`,
`EventuallySettled`, `OldestVisited`, `OnlyCommandsHold`, `AllAnswered` and
`EventuallyServing` (liveness under fairness is not for this prover). Every
safety invariant, action property and refinement that a passing run checks is a
theorem. Of the theorems without a run of their own, the two named
`InductiveInvariant` are what the others follow from; `RecordsAreSound`,
`DeliveriesMoveOn`, `BatchesAreBounded` and `OldestAreFirst` speak of the same
specifications as the runs, and their formulas are definitions of
`HeartbeatRegister`, `DeliveryLifecycle` and `IngestQueue`.

## Plan

1. Done: the ingest pipeline with its abstract specification, heartbeats and the
   admin page, the queries, the retry library, the backups, and the service
   processes with their pools.
2. Done: theorems for every safety invariant, action property and refinement that
   a passing run checks; liveness is left to TLC.
3. Next: an abstract specification of what retries promise about one event
   (offered, failed so often, done or dead), and that `RetryQueue` implements it;
   the same for the life of a backup object.
4. Compositions that would add an answer the parts do not give: `RetryQueue`
   inside `IngestQueue`, once `processOneEvent` calls `handleFailure`.

The order follows what is lost when a part goes wrong: accepted data first,
then what operators see, then the paths that only failures reach.

## Not modelled

The `admin` package (`app/cpemon-api/admin`) is linked into no program, and it
queries columns the schema does not have. The webhook sender and the simulator
under `vm3/` are the environment of the models: they may send anything, twice,
or nothing; whether a response that is cut off calls the sender back depends on
the version of Node. The hash in `pkg/hmac` is library code: its three outcomes
are inputs of `Verdict`. Serial numbers are compared as the columns do, without
case and accents; the labels of the metrics compare exactly, which no model
tells apart. Restoring a backup is a manual procedure. HTML, Grafana and Kibana links, logs, probes, manifests, network
policies and demo scripts have no state that a property here is about; replica
counts and `BATCH_SIZE` became constants. MySQL's own recovery, replication lag
and clock skew between nodes are outside: one clock and a durable database are
assumptions of every result above.
