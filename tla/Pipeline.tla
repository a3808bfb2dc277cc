------------------------------ MODULE Pipeline ------------------------------
(***************************************************************************)
(* The refresh pipeline: producers (the refresh handler and the scheduler) *)
(* feed the job queue of module JobQueue, and the worker of every service  *)
(* instance (internal/worker/worker.go) reserves batches, asks the rates   *)
(* provider for quotes and writes the table quotes and the job rows.       *)
(*                                                                         *)
(* A worker is one goroutine; each of its steps below is one call that     *)
(* leaves the process (one SQL statement or one provider call), so workers *)
(* interleave between any two of them.  A statement may fail without       *)
(* effect, or take effect while its reply is lost; a process may crash     *)
(* between any two steps and restart with an empty worker.  A worker whose *)
(* context is cancelled by shutdown sees its remaining statements fail and *)
(* then stops: the same steps.                                             *)
(*                                                                         *)
(* A fetched quote is the record [no, at]: the number of the successful    *)
(* fetch that produced it and the time it was produced.  The upstream's    *)
(* own timestamp (Quote.FetchedAt) is unrelated to our clocks              *)
(* (provider.go:32) and is left out.                                       *)
(***************************************************************************)
EXTENDS JobQueue

CONSTANTS Workers,      \* one worker per service instance
          BatchSize,    \* worker.batchSize
          MaxAttempts,  \* worker.maxAttempts
          BackoffBase,  \* backoff.Compute: first and largest range of the
          BackoffCap,   \*   jitter, in ticks
          QuotaDelay,   \* quotaExceededDelay
          Timely,       \* TRUE: every batch ends before its lease does
          MaxFetches    \* bound on the successful fetches

ASSUME WorkersAssumption == IsFiniteSet(Workers)
ASSUME BatchSizeAssumption == BatchSize \in BatchSizes
ASSUME AttemptsAssumption == MaxAttempts \in Nat
ASSUME DelayAssumption ==
    QuotaDelay \in Delays /\ BackoffBase \in Nat /\ BackoffCap \in Nat
ASSUME TimelyAssumption == Timely \in BOOLEAN /\ (Timely => MaxSkew <= Lease)
ASSUME SnapshotsAssumption ==
    /\ MaxFetches \in Nat
    /\ Snapshots = [no : 1..MaxFetches, at : 0..MaxTime]

VARIABLES quotes,    \* the table quotes: the cached quote of each pair
          work,      \* work[w]: the local state of worker w's goroutine
          fetches    \* number of successful fetches so far

pipelineVars == <<quoteJobs, clock, quotes, work, fetches>>

-----------------------------------------------------------------------------
(* Worker-local state. *)

Codes == {"transient", "permanent", "quota_exceeded"}

(* What FetchPairs returned: quotes for the pairs in answered, or an error. *)
NoResult == [code |-> "none", answered |-> {}, quote |-> Null, reason |-> Null]

Result == [code : {"none", "ok"} \cup Codes,
           answered : SUBSET Pairs,
           quote : Snapshots \cup {Null},
           reason : Reasons \cup {Null}]

(* The copy of a job that Reserve returned.  lease is the lease_until it   *)
(* wrote: the worker never sees it, the properties do.                     *)
Job == [id : JobIds, attempts : Nat, lease : Nat]

Idle == [pc |-> "idle", batch |-> {}, cur |-> Null, res |-> NoResult]

Local == [pc : {"idle", "fetch", "demux", "complete", "retry"},
          batch : SUBSET Job,       \* the jobs not yet dealt with
          cur : Job \cup {Null},    \* the one whose quote was just upserted
          res : Result]

(* A job's pair never changes, so the copy's is the row's. *)
PairOf(job) == quoteJobs[job.id].pair

PairsOf(batch) == {PairOf(job) : job \in batch}

(* The worker goes on to the rest of the batch, or back to its select. *)
Drop(w, job) ==
    LET rest == work[w].batch \ {job}
    IN  work' = [work EXCEPT ![w] =
                   IF rest = {} THEN Idle
                   ELSE [work[w] EXCEPT !.pc = "demux", !.cur = Null,
                                        !.batch = rest]]

(* The statement runs, or fails and the error is only logged. *)
Try(statement) == statement \/ UNCHANGED quoteJobs

-----------------------------------------------------------------------------
(* Producers: RefreshQuote, and the body of the scheduler's Tick loop. *)

Submit(id, pair) ==
    /\ \E now \in Readings : Produce(id, pair, now)
    /\ UNCHANGED <<clock, quotes, work, fetches>>

-----------------------------------------------------------------------------
(* Worker.Run. *)

(* Other transactions' row locks exist only where there is another worker. *)
Locks(w) == IF Workers = {w} THEN {{}} ELSE SUBSET JobIds

(* A poll tick: Reserve.  If its reply is lost the rows stay running, and  *)
(* the worker has nothing.  A poll that finds nothing changes nothing.     *)
Poll(w) ==
    /\ work[w].pc = "idle"
    /\ \E ids \in (SUBSET JobIds) \ {{}}, locked \in Locks(w), now \in Readings :
          /\ Reserve(ids, BatchSize, now, locked)
          /\ \/ work' = [work EXCEPT ![w] =
                   [Idle EXCEPT !.pc = "fetch",
                                !.batch = {[id |-> id,
                                            attempts |-> quoteJobs[id].attempts,
                                            lease |-> now + Lease] : id \in ids}]]
             \/ UNCHANGED work
    /\ UNCHANGED <<clock, quotes, fetches>>

(* A clean tick: the worker's own goroutine runs RecoverExpired. *)
Clean(w) ==
    /\ work[w].pc = "idle"
    /\ \E now \in Readings : RecoverExpired(now)
    /\ UNCHANGED <<clock, quotes, work, fetches>>

-----------------------------------------------------------------------------
(* Worker.dispatchBatch. *)

(* The provider answers for some of the pairs; the others are missing.     *)
(* This is the moment the upstream produces the rates (the first of them,  *)
(* as FetchPairs makes one request per base); time that passes before the  *)
(* next step includes the way back of the answer.                          *)
FetchOk(w) ==
    /\ work[w].pc = "fetch"
    /\ fetches < MaxFetches
    /\ fetches' = fetches + 1
    /\ \E answered \in SUBSET PairsOf(work[w].batch) :
          work' = [work EXCEPT ![w] =
                     [work[w] EXCEPT !.pc = "demux",
                                     !.res = [code |-> "ok",
                                              answered |-> answered,
                                              quote |-> [no |-> fetches + 1,
                                                         at |-> clock],
                                              reason |-> Null]]]
    /\ UNCHANGED <<quoteJobs, clock, quotes>>

(* The call fails as a whole; an untyped error counts as transient. *)
FetchError(w) ==
    /\ work[w].pc = "fetch"
    /\ \E code \in Codes, reason \in Reasons :
          work' = [work EXCEPT ![w] =
                     [work[w] EXCEPT !.pc = "demux",
                                     !.res = [NoResult EXCEPT
                                                !.code = code,
                                                !.reason = reason]]]
    /\ UNCHANGED <<quoteJobs, clock, quotes, fetches>>

(* backoff.Compute: uniform below min(BackoffBase * 2^attempt, BackoffCap), *)
(* rounded up to ticks.                                                     *)
Backoff(attempt) ==
    {d \in Delays : d <= BackoffBase * 2^attempt /\ d <= BackoffCap}

(* Mutant: one retry too many. *)
RescheduleOrFailLate(job, reason) ==
    \/ /\ job.attempts <= MaxAttempts
       /\ \E now \in Readings, delay \in Backoff(job.attempts) :
             Reschedule(job.id, reason, delay, now)
    \/ /\ job.attempts > MaxAttempts
       /\ Fail(job.id, reason)

(* rescheduleOrFail decides on the attempts of the copy, not of the row. *)
RescheduleOrFail(job, reason) ==
    \/ /\ job.attempts < MaxAttempts
       /\ \E now \in Readings, delay \in Backoff(job.attempts) :
             Reschedule(job.id, reason, delay, now)
    \/ /\ job.attempts >= MaxAttempts
       /\ Fail(job.id, reason)

(* handleBatchError, for each job of the batch.  Quota errors are delayed  *)
(* for an hour without looking at the attempt budget.                      *)
HandleBatchError(w, job) ==
    LET res == work[w].res
    IN  /\ work[w].pc = "demux"
        /\ \/ /\ res.code = "quota_exceeded"
              /\ Try(\E now \in Readings :
                        Reschedule(job.id, res.reason, QuotaDelay, now))
           \/ /\ res.code = "transient"
              /\ Try(RescheduleOrFail(job, res.reason))
           \/ /\ res.code = "permanent"
              /\ Try(Fail(job.id, res.reason))
        /\ Drop(w, job)
        /\ UNCHANGED <<clock, quotes, fetches>>

(* Mutant: ON CONFLICT DO NOTHING. *)
UpsertBatchKeepsFirst(w, job) ==
    quotes' = [quotes EXCEPT ![PairOf(job)] =
                 IF @ = Null THEN work[w].res.quote ELSE @]

(* repo.UpsertBatch of one quote; it overwrites whatever is there. *)
UpsertBatch(w, job) ==
    quotes' = [quotes EXCEPT ![PairOf(job)] = work[w].res.quote]

(* Mutant: the error of the upsert is ignored. *)
UpsertIgnoresError(w, job) ==
    /\ work[w].pc = "demux"
    /\ work[w].res.code = "ok"
    /\ PairOf(job) \in work[w].res.answered
    /\ UpsertBatch(w, job) \/ UNCHANGED quotes
    /\ work' = [work EXCEPT ![w] =
                   [work[w] EXCEPT !.pc = "complete", !.cur = job]]
    /\ UNCHANGED <<quoteJobs, clock, fetches>>

(* The quote is cached, then Complete is a statement of its own.  If the   *)
(* upsert reports an error, with or without effect, the job is retried.    *)
Upsert(w, job) ==
    /\ work[w].pc = "demux"
    /\ work[w].res.code = "ok"
    /\ PairOf(job) \in work[w].res.answered
    /\ \/ /\ UpsertBatch(w, job)
          /\ work' = [work EXCEPT ![w] =
                         [work[w] EXCEPT !.pc = "complete", !.cur = job]]
       \/ /\ UpsertBatch(w, job) \/ UNCHANGED quotes
          /\ work' = [work EXCEPT ![w] =
                         [work[w] EXCEPT !.pc = "retry", !.cur = job]]
    /\ UNCHANGED <<quoteJobs, clock, fetches>>

CompleteJob(w) ==
    /\ work[w].pc = "complete"
    /\ Try(Complete(work[w].cur.id, work[w].res.quote))
    /\ Drop(w, work[w].cur)
    /\ UNCHANGED <<clock, quotes, fetches>>

(* Mutant: the continue after rescheduleOrFail is missing. *)
RetryJobFallsThrough(w) ==
    /\ work[w].pc = "retry"
    /\ \E reason \in Reasons : Try(RescheduleOrFail(work[w].cur, reason))
    /\ work' = [work EXCEPT ![w].pc = "complete"]
    /\ UNCHANGED <<clock, quotes, fetches>>

RetryJob(w) ==
    /\ work[w].pc = "retry"
    /\ \E reason \in Reasons : Try(RescheduleOrFail(work[w].cur, reason))
    /\ Drop(w, work[w].cur)
    /\ UNCHANGED <<clock, quotes, fetches>>

(* "missing in upstream response": failJob. *)
FailMissing(w, job) ==
    /\ work[w].pc = "demux"
    /\ work[w].res.code = "ok"
    /\ PairOf(job) \notin work[w].res.answered
    /\ Try(Fail(job.id, "short"))
    /\ Drop(w, job)
    /\ UNCHANGED <<clock, quotes, fetches>>

-----------------------------------------------------------------------------
(* The process dies (or its worker panics, which stops the process) and    *)
(* comes back: main.run starts a fresh worker.                             *)
Crash(w) ==
    /\ work[w].pc # "idle"
    /\ work' = [work EXCEPT ![w] = Idle]
    /\ UNCHANGED <<quoteJobs, clock, quotes, fetches>>

(* Timely: time does not pass the lease of a job still in some batch. *)
PassTime ==
    /\ Timely => \A w \in Workers : \A job \in work[w].batch :
                    clock < job.lease
    /\ Tick
    /\ UNCHANGED <<quotes, work, fetches>>

Init ==
    /\ QInit
    /\ quotes = [pair \in Pairs |-> Null]
    /\ work = [w \in Workers |-> Idle]
    /\ fetches = 0

WorkerStep(w) ==
    \/ Poll(w)
    \/ Clean(w)
    \/ FetchOk(w)
    \/ FetchError(w)
    \/ \E job \in work[w].batch :
          HandleBatchError(w, job) \/ Upsert(w, job) \/ FailMissing(w, job)
    \/ CompleteJob(w)
    \/ RetryJob(w)
    \/ Crash(w)

Next ==
    \/ \E id \in JobIds, pair \in Pairs : Submit(id, pair)
    \/ \E w \in Workers : WorkerStep(w)
    \/ PassTime

Spec == Init /\ [][Next]_pipelineVars

-----------------------------------------------------------------------------
(* Properties of any number of workers, however slow. *)

TypeOK ==
    /\ QTypeOK
    /\ quotes \in [Pairs -> Snapshots \cup {Null}]
    /\ work \in [Workers -> Local]
    /\ fetches \in 0..MaxFetches

(* A job is never done before its pair has a cached quote: whoever polled  *)
(* a job to done can read GET /quotes/latest (worker.go:167-172, upsert    *)
(* before Complete).                                                       *)
DoneIsCached ==
    \A id \in JobIds :
        quoteJobs[id].status = "done" => quotes[quoteJobs[id].pair] # Null

(* Coalescing never serves a stale quote as new: the quote of a done job   *)
(* was fetched no earlier than the start of the bucket its clients were    *)
(* coalesced into, also when a lagging worker of an earlier attempt        *)
(* completes it (DedupKey, dispatchBatch, Complete).                       *)
FetchedWithinBucket ==
    \A id \in JobIds : quoteJobs[id].status = "done"
        => quoteJobs[id].quote.at >= quoteJobs[id].key[2]

(* Workers that lost their lease cannot turn one job into two outcomes:    *)
(* the pipeline as a whole implements the abstract queue.                  *)
PipelineImplementsLifecycle == Lifecycle!Spec

-----------------------------------------------------------------------------
(* Properties that need one worker, or batches that end within the lease. *)

(* While a job is in a worker's batch its row is running, under that       *)
(* worker's lease, with the attempts the worker's copy shows: the decision *)
(* of rescheduleOrFail on the copy is a decision on the row.               *)
HolderOwnsRow ==
    \A w \in Workers : \A job \in work[w].batch :
        /\ Running(job.id)
        /\ quoteJobs[job.id].attempts = job.attempts
        /\ quoteJobs[job.id].leaseUntil = job.lease

(* No job is in two batches at once. *)
OneHolder ==
    \A v, w \in Workers : \A a \in work[v].batch, b \in work[w].batch :
        a.id = b.id => v = w /\ a = b

(* Some worker holds the job and an answer that the quota is exceeded. *)
QuotaHit(id) ==
    \E w \in Workers : /\ work[w].res.code = "quota_exceeded"
                       /\ \E job \in work[w].batch : job.id = id

(* The retry budget: no error but an exceeded quota takes a job beyond     *)
(* MaxAttempts (rescheduleOrFail).                                         *)
BudgetKept ==
    [][\A id \in JobIds :
          /\ quoteJobs'[id].attempts > quoteJobs[id].attempts
          /\ quoteJobs'[id].attempts > MaxAttempts
          => QuotaHit(id)]_pipelineVars

(* The cached quote of a pair is only ever replaced by one from a later    *)
(* fetch (pgquoterepo UpsertBatch overwrites without comparing): "always   *)
(* reflecting the latest successful fetch",                                *)
(* docs/discussions/background-mechanism.md:261.                           *)
CacheOnlyAdvances ==
    [][\A pair \in Pairs : quotes[pair] # Null
          => quotes'[pair].no >= quotes[pair].no]_pipelineVars

(* GET /quotes/latest is never behind a job already reported done. *)
CacheCoversDone ==
    \A id \in JobIds : quoteJobs[id].status = "done"
        => /\ quotes[quoteJobs[id].pair] # Null
           /\ quotes[quoteJobs[id].pair].no >= quoteJobs[id].quote.no

-----------------------------------------------------------------------------
(* What documentation and comments say, and the code does not do. *)

(* queue.go:60-62: a reserved job is invisible to other callers until the  *)
(* lease expires or the worker gives it back: two batches never hold one   *)
(* job while both leases are in force.                                     *)
LeaseIsExclusive ==
    \A v, w \in Workers : \A a \in work[v].batch, b \in work[w].batch :
        v # w /\ a.id = b.id => a.lease < clock \/ b.lease < clock

(* background-mechanism.md:266: "If `attempts + 1 < max_attempts`:         *)
(* `Reschedule(...)`", else Fail: a retry never brings the attempts to     *)
(* MaxAttempts.                                                            *)
BudgetAsDocumented ==
    [][\A id \in JobIds :
          /\ quoteJobs'[id].attempts > quoteJobs[id].attempts
          /\ quoteJobs'[id].attempts >= MaxAttempts
          => QuotaHit(id)]_pipelineVars
=============================================================================
