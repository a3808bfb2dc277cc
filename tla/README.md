# TLA+ models of the currency quote service

The service answers `POST /quotes/refresh` by putting a job in a Postgres table,
a background worker fetches exchange rates for batches of jobs, and clients poll
`GET /quotes/{id}` or read `GET /quotes/latest`. What makes it hard is not any one
statement but their interleaving: several instances share one table, work is
leased and leases expire, replies get lost, processes die between two statements,
and every decision is made on a copy of a row that may have moved on.

## 1. Inventory

| Part | Code | State | Operations | Correct when |
|---|---|---|---|---|
| Job queue | `internal/queue/pgqueue`, `migrations/` | table `quote_jobs` | Enqueue, Reserve, Complete, Reschedule, Fail, RecoverExpired, GetByID | one job per coalescing key; one outcome per job; a running job is always recoverable; nobody loses a lease early |
| Coalescing key | `internal/queue/dedupkey.go` | none | DedupKey | clients that share a job get a quote from their own bucket or later |
| Worker | `internal/worker` | the batch in progress | Run, dispatchBatch, handleBatchError, rescheduleOrFail, failJob | decisions on the copy are decisions on the row; the retry budget is kept; the cache is written before a job is done |
| Backoff | `internal/backoff` | none | Compute | delay within its window |
| Quote cache | `internal/quoterepo/pgquoterepo` | table `quotes` | UpsertBatch, GetLatest | never behind a job reported done; only moves forward |
| Producers | `internal/api` RefreshQuote, `internal/scheduler` Tick | last tick | one Enqueue per request, one per pair and tick | every pair gets a job per bucket |
| Read API | `internal/api` GetQuoteJob, GetLatestQuote | none (ETags, cache headers) | | an `immutable` answer never changes; 304 only for an unchanged body |
| Rates provider | `internal/ratesprovider/apilayer` | none | FetchPairs: one request per base, fail fast | every pair is answered or reported missing |
| Server lifecycle | `cmd/server/main.go`, `internal/startup` | goroutines, contexts, pool | start, probe, three-stage shutdown | a signal leads to an exit; the pool outlives its users |
| Health | `internal/health` | heartbeats | Readyz | a stalled worker is reported |
| Configuration | `cmd/server/config.go` | none | Load | every accepted configuration starts |
| In-memory doubles | `memqueue`, `memquoterepo`, `ratesprovider/fake` | maps | as above | same contract |
| Load tests | `loadtest/*.js` (k6) | metrics of the run, virtual users | five profiles: options, default, setup, teardown, checks | a green run means what the profile claims to show |
| Fake upstream | `cmd/fakeprovider` | quota counter, failure switches | `/live`, admin | load tests only |
| Observability | `obs` | Prometheus series | | only what a load test reads back from `/metrics` matters |
| Middleware, generated code | `httpmw`, `api/oapi_gen.go`, `api/swaggerui` | none | | not modelled: stateless plumbing, generated, vendored |

How they interact: producers and workers meet only in the table. A worker makes,
per batch, one Reserve, one FetchPairs, and then for each job an upsert of `quotes`
followed by Complete, or a Reschedule or Fail. The same goroutine runs
RecoverExpired on a second ticker. Instances never talk to each other; the table's
row locks and the predicates of the UPDATE statements are the only coordination.
Timestamps come from each instance's own clock, never from Postgres. The load tests,
the repository's own JavaScript, meet the Go service only over HTTP: the two quote
endpoints and `/metrics`.

What is hard, with the line where it bites and the property that watches it, is the
`hazards` list of `PROJECT.json`.

## 2. Modules

| Module | Models |
|---|---|
| `JobLifecycle` | what `queue.JobQueue` promises, without table, clock or lease: a key owns one job for ever, a job ends at most once |
| `JobQueue` | the table `quote_jobs` and the statements of `pgqueue.go`, one action each |
| `Pipeline` | extends `JobQueue` with producers, the workers of any number of instances, the provider and the table `quotes` |
| `Server` | one process: `main.run`, `gracefulShutdown`, the scheduler, and worker and handlers as users of the connection pool |
| `JobProgress` | the life of one job without absolute time, so that one can ask whether it ends |
| `PipelineProgress` | extends `Pipeline`: the mapping under which it implements `JobProgress` for each of its jobs |
| `RatesFetch` | `apilayer.FetchPairs`: one request per base, fail fast, the outcome counter |
| `LoadedService` | extends `RatesFetch` to the service as a load test sees it: handlers, scheduler, one worker, coalescing |
| `LoadTest` | extends `LoadedService` with the five k6 profiles that run against it |
| `MCJobQueue`, `MCPipeline`, `MCLoadTest` | symmetry and constants for TLC (`Server` and `JobProgress` need none) |
| `JobQueueProofs`, `PipelineProofs`, `CacheProofs`, `JobProgressProofs`, `ProgressProofs`, `ServerProofs`, `LoadedServiceProofs`, `LoadTestProofs` | the theorems and their lemmas; `CacheProofs` and `ProgressProofs` build on `PipelineProofs`, `LoadTestProofs` on `LoadedServiceProofs` |

### JobQueue

`quoteJobs[id]` is a row or `NoRow`. Each SQL statement is atomic, so each method
is one action whose guard is the statement's WHERE clause:

- `Enqueue` - INSERT ... ON CONFLICT DO NOTHING. The follow-up SELECT finds the row
  because rows are never deleted; on a conflict the caller gets the id of the
  stored job *whatever its status*, so a failed job absorbs later requests of its
  bucket.
- `Reserve` - the ORDER BY/LIMIT/SKIP LOCKED choice is `Selected`: any set of at most
  n eligible unlocked rows that is earliest and maximal. `locked` is whatever other
  transactions hold.
- `Complete`, `Reschedule`, `Fail` - WHERE id AND status = 'running'. Their other outcomes,
  ErrNotFound and ErrNotReserved, change nothing. A reason that violates the CHECK
  `last_error_length` makes the statement fail.
- `RecoverExpired` - every running row with lease_until < now, all at once, without
  charging an attempt.
- `GetByID` - the view the API renders.

Data kept abstract: a price with its timestamp is one value of `Snapshots`; a
completion time is whether it is set; a reason is "short" or "long"; the SHA-256
key is the tuple it hashes (collisions excluded).

Time: `clock` is the most advanced clock of the deployment. A statement may carry any
reading that is at most `MaxSkew` behind, which covers skew between instances and
the time between reading the clock and running the statement.

### Pipeline

`work[w]` is the local state of one worker goroutine: program counter, the jobs of the
batch not yet dealt with (copies, as Reserve returned them), and what FetchPairs
returned. One action per call that leaves the process:

    Poll  ->  FetchOk | FetchError  ->  per job: Upsert -> CompleteJob | RetryJob
                                                 FailMissing | HandleBatchError
    Clean (RecoverExpired) only between batches: same goroutine

A failing statement is `Try`: no effect, the error is only logged. A statement that
takes effect while its reply is lost behaves for the worker as an error: for Reserve
the rows are running and nobody knows them, for the upsert the job is retried
although the quote is cached. `Crash` empties a worker at any step; a worker stopped by
a cancelled context does the same steps (failing statements, then idle). The jobs of a
batch are taken in any order, as Reserve returns them in no defined order.

A fetched quote carries the number of its fetch and the time the upstream produced it;
the way back of the answer is time that passes afterwards. The upstream's own
timestamp is unrelated to these clocks and left out.

`Timely` is the assumption the documentation makes of the system (a batch takes far
less than the 60 s lease): time does not pass the lease of a job still in a batch.
Nothing in the code enforces it - the HTTP client has no timeout - so the runs and
theorems are stated with and without it.

### Server

`main` is where `run()` stands: load, ping, probe, the three goroutines, the final select, the
three stages of `gracefulShutdown`, the deferred `pool.Close`. `pc[u]` is what a handler, the
scheduler or the worker is doing and `conn[u]` whether it waits for or holds a connection of the
pool; a statement is three steps (ask, get, end), so that users wait for one another. What
the statements do to the tables is left to `JobQueue` and `Pipeline`; here they succeed or
fail, and fail when the user's context is cancelled or the pool is closed. The scheduler's tick
enqueues pair by pair, each with the second statement a conflict costs, returns at the first
error, and sets LastTick at its end (`beat`); in the bootstrap tick the error ends the goroutine, which calls
`stop()` unless its context was cancelled. A handler is any request that makes one or two
statements in a row, RefreshQuote being the one with two. The statements the worker makes
for one job are one call. A goroutine may panic anywhere in its loop, a statement in progress included, whose connection it
then gives back.

Each stage of the shutdown ends because its users have ended, or by its timeout, which
may fire whenever they have not; `timedOut` records it. `pool.Close`, an external call, hands out no
more connections and waits for those in use.

### JobProgress

One row of `quote_jobs` and what each worker does with it. Clocks are reduced to two
facts: whether the job is `due`, whether its lease is over. `attempts` is capped at
MaxAttempts, beyond which rescheduleOrFail sees no difference. Steps are split in two:
`Good` ones, the errors of the upstream included, and `Uncharged` ones, the failures that
cost the job no attempt - a lost reply of Reserve, an exceeded quota, a worker that dies or
cannot write the outcome (a reason beyond `last_error_length` is one way), a worker that is still
busy when its lease ends. `PipelineImplementsProgress` is the refinement: for each job, every step of
the pipeline is a step of this module or leaves the job alone. It is written with the quantifier over
jobs inside `[]`, the form TLC checks.

### RatesFetch, LoadedService, LoadTest

`RatesFetch` keeps the loop of FetchPairs: `todo` holds the bases not yet asked, `RequestOk` takes
the pairs of the response that have the base asked for, `RequestFails` drops everything and
returns a code; each counts one request on the counter that `startup.Probe` has used before. `LoadedService` puts around it what a
load test can observe of the service: jobs by coalescing key, the cached pairs, the one worker's
batch. It is coarser than `Pipeline`: a batch is written in one step. `Demux` is the end of a batch whose
statements succeed, `DemuxFails` of one in which some fail: each job is then left running, rescheduled or ended on
its own (`LeftAs`: a failed upsert goes to rescheduleOrFail, a failed Complete is only logged), and `faults` counts such
batches. `PollLost` is a Reserve whose reply is lost and `Recover` the cleaner between batches. The service starts with the
one request of its startup probe counted, or, when it has fetched every pair before, with `WarmCount` of them, the
probe's among them.

`LoadTest` is the JavaScript. `options1..5`, `default1..5`, `setup4`, `teardown3` and `teardown4` are the
exported values of the profiles under their number; a default function is the set of requests
an iteration may make, `Math.random` being any choice. Of the responses' headers the
model keeps what the checks look at: `Cache-Control` by its first word (`public` on the way to 200, `no-store` from
writeError) and `Etag`. The parsers are modelled by what they return for
an exposition, an error text and no body (for which `text.split` throws and the script aborts). The
metrics `checks` and `http_reqs` are counted as k6 does, and `Green` is the thresholds on them;
latencies are left out. The executors are external: an arrival takes a free virtual user or is
dropped while another one is allocated; the burst of profile 4 starts all users at once; at the end,
requests in flight may still be answered, then they are interrupted. Virtual users are counts by
`__ITER`, requests in flight a bag.

## 3. Runs

All constants are in the .cfg files; `Symmetry` permutes job ids, pairs and workers, which no
definition tells apart.

| Run | Instance | Shows |
|---|---|---|
| `queue` | 2 jobs, 2 pairs, skew 1, time 0..3, at most 2 charged attempts | the invariants of the table, `TerminalIsFinal`, `NoEarlyRecovery`, and that the table implements `JobLifecycle`, for callers that obey no protocol |
| `pipeline_single` | 1 worker, 2 jobs, 2 pairs, batches of 2, any slowness | `HolderOwnsRow`, `CacheCoversDone`, `BudgetKept` |
| `pipeline_timely` | 2 workers, 2 jobs of one pair, skew 1 = lease, timely | `HolderOwnsRow`, `OneHolder`, `BudgetKept` |
| `pipeline_stale` | 2 workers, 1 job, lease 1, skew 1 = lease, time 0..3: leases may be outlived twice | `DoneIsCached`, `FetchedWithinBucket`, refinement of `JobLifecycle` and of `JobProgress` |
| `server` | 1 request, 2 pairs, batches of 2, 1 connection | `ShutdownOrder`, `NoHalfDeadService`, `StopLeadsToExit`, `NobodyWaitsForever` |
| `progress` | 2 workers, one of them steady; 2 attempts | `NeverStuckRunning`, `JobEnds` |
| `loadtest` | 5 profiles, 2 pairs of 2 bases, window 2, time 0..2, 1 to 2 virtual users to start with, up to 3 arrivals, 1 upstream error in profile 2, 1 batch with failing statements in profile 5, lost replies in all | `PairsSpread`, `RefreshesCoalesce`, `QuietBurstPasses`, `ThresholdsAgree`, `UpstreamBudget` |

Why the bounds are enough to reach the interesting cases: the window is 2 and time runs
to 3, so there are two buckets and requests on both sides of the boundary; the lease is 1,
so it expires twice; one retry is allowed, so the budget is exhausted; two fetches can
succeed, so one can be newer than another; two jobs of one pair are the least for a
coalescing conflict, for two workers writing one cache row and for a batch of two. What
stale workers do to one job does not depend on other jobs, so `pipeline_stale` has one, and
time for two leases to be outlived one after the other (its other properties are proved for any
number of jobs). Two bases are the least for a fetch that fails after a request that succeeded, a
burst of half a window can cross a bucket boundary once, and three arrivals on one preallocated
user make a drop, an allocation and a second iteration of one user. Errors and failing statements multiply the states, so
one profile has each: profile 2, whose jobs come from the scheduler alone, and profile 5, whose refreshes meet rescheduled
and recovered jobs (`MCMaxErrors`, `MCMaxFaults`; any number of both in the theorems). One
connection for all users of a process is the scarcest pool the configuration accepts; two pairs
and two jobs are the least for a tick or a batch that fails in its middle.

Five further runs state what a document or comment says and show a behaviour of the
code that contradicts it:

| Run | Said | Shown |
|---|---|---|
| `lease_doc` | `queue.go:60`: a reserved job is invisible to others until its lease expires | a worker that lost its own lease releases the job another one holds |
| `cache_doc` | `background-mechanism.md:261`: the row always reflects the latest fetch | two workers, neighbouring buckets: the older fetch is written last |
| `server_drain_doc` | `resilience.md:303`: workers finish current jobs | the cancelled context fails the statements of the batch in progress; its jobs stay running |
| `verdict_doc` | `loadtest/README.md:101`: the threshold on checks covers the delta assertion | 100 virtual users pass, the delta is 3, 100 of 101 checks is above 99 %: green |
| `budget_doc` | `background-mechanism.md:266`: a retry if attempts + 1 < max_attempts | rescheduleOrFail retries if attempts < max_attempts, as `worker_test.go:961` expects |

Divergences met while modelling that have no run of their own:

- `queue.go:119`: LastError is "empty unless status is failed". Reschedule writes it, Reserve and Complete
  keep it; `RenderersFindFields` states when it is really there (the API renders it for failed jobs only).
- `background-mechanism.md:264`: the upsert and Complete are "a single transaction". They are two statements, so a failed
  Complete or a crash between them leaves a cached quote that is no job's. What does hold is the converse, `DoneIsCached`.
- `resilience.md:138`: the budget "prevents endless retries". While the quota stays exceeded a job is
  rescheduled whatever its attempts: the reason for `JobEnds`' premise.
- `resilience.md:304`: wait up to 30 s, then exit. See `HandlerFairness` below.
- `scheduler.go:115`: LastTick is the time "of the most recent Tick call". A failed tick leaves it at the last successful one.
- `loadtest/README.md:127`: the teardown "logs the actual pending count". The gauge is registered and never set
  (`metrics.go:206`), so it logs 0; and `profile3.js:54` returns -1 "so the pending_count < 50 check fails", and -1 < 50 holds.
- `REFRESH_MAX_LATENCY_MS` at its accepted minimum gives a poll interval of 0, on which worker.New panics.

What `progress` showed on the way: without its premise `JobEnds` is false, and not only because of
the quota. RecoverExpired charges no attempt, and a worker whose job was recovered gets
ErrNotReserved for its own Reschedule or Fail; so a worker that takes longer than its lease every time
keeps a job going for ever with its budget unspent.

Every property of a passing run has a mutant of the code that breaks it: a lost WHERE
conjunct, `<=` for `<`, a column not reset, an ignored error, a missing `continue`.

### Fairness

The queue, the pipeline and the load tests assume none: their properties are safety properties.

`JobProgress` assumes that time passes (a delay ends, a lease ends) and that one worker, the
*steady* one, gets its turn: its select is fair to both tickers, ORDER BY next_run_at brings every
due job to the front, its calls return. The other worker may stop for ever at any step, since
nothing bounds a provider call. `JobEnds` has the further premise that from some time on no
`Uncharged` step happens.

`Server` assumes, and `StopLeadsToExit` and `NobodyWaitsForever` need:

- weak fairness of `run()` and its shutdown, of the ends of statements, and of FetchPairs *once its
  context is cancelled* (net/http honours the context). The timers of the stages fire, which is
  part of the shutdown's fairness;
- strong fairness of `Return(u)`: Go's select picks at random among ready cases, so a goroutine
  whose context is done leaves its loop although its ticker also fires;
- strong fairness of `Acquire(u)`: pgxpool serves those who wait in order.

Clients, tickers, signals and the upstream are under no obligation. `HandlerFairness` (every
statement of a handler ends) is what the code does *not* provide by itself: there is no
statement timeout, and `srv.Shutdown` cancels no request when its stage times out. Without it
`StopLeadsToExit` is false: a handler's statement that never ends outlives its stage, and the
deferred `pool.Close`, which is not one of the bounded stages, waits for its connection.

## 4. Theorems

Proved with TLAPS for every value of the constants that meets the named assumptions
(window, lease and batch sizes positive, as config.go and worker.New check; delays and
bounds natural numbers; `Null` distinct from the values it stands beside; a finite, non-empty
whitelist whose list names every pair once, as `common.js` does; a burst that takes no longer than a
window, which `profile4.js:8` asks for).

**Queue** (`JobQueueProofs`): types (`QueueTypeCorrect`), the four parts of `QInv` (`QueueInvariant`),
`OutcomesAreFinal`, `RecoveryWaitsForLease`, `QueueImplementsLifecycle`. The argument goes
through `RowUpdate`: a statement leaves a row alone, reserves it, returns it or ends it, or
inserts one row under a fresh key. The inductive invariant `IInv` is `OneJobPerKey` and one
condition per row; it is stronger than `QInv` in also saying that an absent row has no quote
and no lease, which an INSERT needs.

**Pipeline, any workers** (`PipelineProofs`): `PipelineTypeCorrect` from `PInv`, which adds to
types and `IInv` that the jobs a worker holds are stored rows; `PipelineRefinesLifecycle`,
because every step of a worker is at most one statement of the queue; and
`ResultsAreFreshAndCached` from `ResultInv`: no key is of a future bucket, and from fetch to
completion the fetched quote is at least as new as the bucket of every job in the batch and
the pair of the job being completed is cached. It needs no timeliness: a late worker's quote
was fetched after *its* reservation, which came after the job was enqueued.

**Pipeline, exclusive or timely workers**: `HoldersOwnTheirRows` and `BudgetIsKept`, under
`ExclusiveOrTimely` (one worker, or `Timely`). The inductive invariant `OwnInv` says that
held jobs are running rows with the copy's attempts and lease, in one batch only, and -
the point of the argument - that under `Timely` the clock has not passed their lease, so
`RecoverExpired` cannot take them. With one worker the reason is different: the cleaner is
the same goroutine and only runs between batches.

**Server** (`ServerProofs`): `ServerTypeCorrect`, `ShutdownIsOrdered` and `ServiceIsWhole`,
for any number of requests, pairs, jobs and connections, and without fairness.
`ServerInv` adds `Phases` and `Loops` to the properties. `Phases` says what is true at each
point of `run()`: goroutines not yet started are off, nothing is cancelled before the listener is
closed, and after a stage its goroutine has exited or is in `timedOut` - without it the order
would be lost at the step into the next stage. `Loops` says that a goroutine that exited was
cancelled or has stopped the process, and that a tick or batch in progress has work left.

**Cache, one worker** (`CacheProofs`): `CacheIsNeverBehind` (`CacheCoversDone`) and
`OneWorkerAdvancesCache` (`CacheOnlyAdvances`), under `OneWorker`. Neither is inductive: that a job reported
done has a quote no newer than the cache needs the state between upsert and Complete. `CacheInv` adds that
no cached quote has a number beyond the last fetch, that the answer a worker holds *is* the last fetch, and
that when it completes a job the cached quote is the one it is about to report. The second of these is where a
second worker would break the argument, and `cache_doc` shows that it does.

**One job** (`JobProgressProofs`): `ProgressTypeCorrect`, from the safety part of the specification.

**The pipeline implements `JobProgress`** (`ProgressProofs`): `PipelineRefinesProgress`, for any number of workers,
jobs, pairs and attempts, without timeliness, with readings of the clock that lag by at most a lease
(`MaxSkew <= Lease`). `JobProgress` has one fact "due" and one "lease over" for all workers. A reading that is behind
only makes a statement late: what is due or expired by it is so by the clock as well. But Reserve adds the lease to its
reading, so behind by more than a lease it would write a lease that is over when it starts, and TLC finds that step
with a skew of 2 and a lease of 1. The
mapping `View` gives what one worker means to one job; each action of a worker is shown to change the view of the job it
is about by one step of `JobProgress` and to leave every other job's view alone. `ViewInv` is what this needs beyond `PInv`:
a row that does not exist has no attempts, a running row was due (so that recovery finds it due again), and no batch
holds a job twice (so that dropping one copy ends the worker's business with the job).

**The service under load and the load tests** (`LoadedServiceProofs`, `LoadTestProofs`): `LoadTestTypeCorrect`,
`RefreshesAlwaysCoalesce`, `QuietBurstsPass`, `ThresholdsAlwaysAgree`, `UpstreamBudgetKept` and
`PairsAlwaysSpread`, for any whitelist, window, pool, load, batch size and number of upstream errors and faulty batches,
and `SmallBurstIsCovered`. The parts of the invariant `LInv`, and what they are for:

- `FetchInv` ties the worker's batch to the call it is in: there is a batch exactly while there is a call, bases are left
  only while it asks, and until then it has not failed. With it `UpstreamBudget` is inductive: a failing call has asked for
  at most all bases but one, and a call that succeeded ends at least one job, since its batch is not empty, or is a fault.
  The bound would be false without `faults`: an answered job whose upsert or Complete fails is fetched, and counted, again.
- `CoalesceInv` counts the current bucket's job only if its key is taken; the bound of `RefreshesCoalesce` by itself would
  allow one more insertion. Requests in flight in profile 4 date from at most `BurstTime` ago.
- `PoolInv`: the VUs of profile 4 are free all together or have sent, so `startedAt` is set once, before anything is created.
- `ThresholdInv`: the exact equations behind `ThresholdsAgree`, once for profiles 1 and 5, three times for profile 2.
- `QuietInv`: in a quiet burst every job belongs to the burst's pair, there are no more of them than were created, and each
  counted request belongs to an ended job or to the call in progress, which asks for one base. At most two jobs, so at
  most two requests. A lost reply to Reserve costs no request, so the burst stays quiet.

The pool of virtual users has an invariant of its own, `VInv`, on top of `LInv`. A pool is counted as the cardinality of its
copies (an element and a number up to its count), so that a step that moves one virtual user adds or removes one
element of a finite set, and no sum needs an induction over data.

- `PoolFinite`, for the cardinalities. `RoundsInv`: no user has run more iterations than have arrived, so the user that ends
  its iteration has a place to return to and is counted there; without it `SpreadInv` would not be inductive.
- `SpreadInv`: the lead of a pair over a later one *is* the number of users that have in their present round sent to the first
  and not yet to the second. `PairsSpread` alone, a bound, says nothing about which user sends next.
- `SampleInv`: each user of a burst is checked at most once, and a delta beyond 2 is a failed check. From it
  `SmallBurstIsCovered`: with up to 99 users the threshold on checks covers the delta, as `loadtest/README.md:101` says.
  `verdict_doc` shows that it does not with the 100 of `profile4.js`: the bound is exact.

Only model-checked: the liveness properties `StopLeadsToExit`, `NobodyWaitsForever`, `NeverStuckRunning` and
`JobEnds`. Every other property of a passing run is a theorem. Liveness under fairness, ENABLED, induction over data and
recursive definitions are out of this prover's reach and left to TLC wherever they appear.

## 5. Not modelled

- Request validation, conditional requests and cache headers beyond what the load tests check: functions of one
  request and one row. Prices and the upstream's timestamps are abstract, so the ETag's resolution
  of one second is out of view.
- Latencies, and with them the thresholds on p(99) of the load tests.
- Row locks within one statement: Reserve is atomic, `locked` stands for what SKIP LOCKED skips.
- Configuration: a function evaluated once; the models assume what its checks ensure.
- Readiness (`internal/health`): reads of the heartbeats; the scheduler's heartbeat itself is in `Server`.
- The in-memory queue, cache and provider of the tests, and the fake upstream with its failure switches.
- Middleware, logging, the metrics nobody reads back, generated code, the Swagger UI (a vendored bundle
  and the one call that mounts it), test support.

## 6. Plan

1. Proofs: that two workers whose fetches do not overlap still advance the cache.
2. Readiness: `/readyz` against the heartbeats of worker and scheduler, on top of `Server`.
3. `MemQueue` as a second implementation of `JobLifecycle`, and where it differs.
4. `Config`: which accepted configurations start, over bounded inputs.
