--------------------------- MODULE LoadedService ---------------------------
(***************************************************************************)
(* The service as a load test sees it: the refresh and the latest-quote    *)
(* handlers, the scheduler's tick, the one worker and its provider, the    *)
(* coalescing of jobs by pair and bucket.                                  *)
(*                                                                         *)
(* Coarser than Pipeline: one instance, the statements of a batch in one   *)
(* step, retry delays and leases of any length, an attempt budget that is  *)
(* spent at any time; a batch is never recovered while it is at work,      *)
(* because the one worker also runs the cleaner.  The worker's statements  *)
(* may fail; a tick that fails is left to module Server.  Finer where the  *)
(* load tests look: the requests of FetchPairs and their counter.          *)
(***************************************************************************)
EXTENDS RatesFetch

CONSTANTS Window,     \* COALESCING_WINDOW_SECONDS, in ticks of now
          BatchSize,  \* worker.batchSize
          WarmCount,  \* requests counted ok before the test, when every
                      \*   pair has been fetched
          MaxTime     \* bound on now

ASSUME ServiceAssumption ==
    Window \in Nat \ {0} /\ BatchSize \in Nat \ {0} /\ MaxTime \in Nat

VARIABLES now,
          jobs,     \* jobs[k]: status of the job with coalescing key k
          cached,   \* pairs that have a row in quotes
          batch,    \* keys of the jobs the worker reserved
          faults    \* batches in which a statement of the worker failed

serviceVars == <<fetchVars, now, jobs, cached, batch, faults>>

Bucket(t) == t \div Window

Keys == Pairs \X (0..Bucket(MaxTime))

(* waiting is pending with next_run_at in the future; ended, done or       *)
(* failed.                                                                 *)
JobStatus == {"absent", "pending", "waiting", "running", "ended"}

With(status) == {k \in Keys : jobs[k] = status}

Pending == With("pending") \cup With("waiting")

Outstanding == Pending \cup With("running")

Set(keys, status) ==
    [k \in Keys |-> IF k \in keys THEN status ELSE jobs[k]]

(* Mutant: ON CONFLICT updates a job that is still pending and RETURNING   *)
(* hands it back as a new one.                                             *)
InsertsOverPending(pairs) ==
    {<<pair, Bucket(now)>> : pair \in pairs}
        \cap (With("absent") \cup With("pending"))

(* Rows that Enqueue really inserts for these pairs. *)
Inserts(pairs) ==
    {<<pair, Bucket(now)>> : pair \in pairs} \cap With("absent")

Enqueue(pairs) == jobs' = Set(Inserts(pairs), "pending")

(* The scheduler enqueues every pair; a tick that finds all its keys taken *)
(* changes nothing.                                                        *)
SchedulerTick ==
    /\ Inserts(Pairs) # {}
    /\ Enqueue(Pairs)
    /\ UNCHANGED <<fetchVars, now, cached, batch, faults>>

(* Reserve hands out as many due jobs as there are, up to BatchSize, and   *)
(* dispatchBatch calls FetchPairs for their pairs.                         *)
Poll ==
    /\ \E keys \in (SUBSET With("pending")) \ {{}} :
          /\ Cardinality(keys) <= BatchSize
          /\ Cardinality(keys) < BatchSize => keys = With("pending")
          /\ batch' = keys
          /\ jobs' = Set(keys, "running")
          /\ FetchPairs({k[1] : k \in keys})
    /\ UNCHANGED <<now, cached, faults>>

(* Reserve commits and its reply is lost: the rows are running and the     *)
(* worker, which only logs the error, has nothing.                         *)
PollLost ==
    /\ fetch.pc = "idle"
    /\ \E keys \in (SUBSET With("pending")) \ {{}} :
          /\ Cardinality(keys) <= BatchSize
          /\ Cardinality(keys) < BatchSize => keys = With("pending")
          /\ jobs' = Set(keys, "running")
    /\ UNCHANGED <<fetchVars, now, cached, batch, faults>>

(* The worker's clean tick, between batches: RecoverExpired takes back the *)
(* rows whose lease is over.                                               *)
Recover ==
    /\ fetch.pc = "idle"
    /\ \E keys \in (SUBSET With("running")) \ {{}} :
          jobs' = Set(keys, "pending")
    /\ UNCHANGED <<fetchVars, now, cached, batch, faults>>

Request ==
    /\ RequestOk
    /\ UNCHANGED <<now, jobs, cached, batch, faults>>

RequestError ==
    /\ RequestFails
    /\ UNCHANGED <<now, jobs, cached, batch, faults>>

(* dispatchBatch after FetchPairs, when every statement succeeds: answered *)
(* jobs are cached and done, the missing fail; an error reschedules (all   *)
(* of them, or with a transient error those that have attempts left) or    *)
(* fails them.                                                             *)
Demux ==
    LET answered == {k \in batch : k[1] \in fetch.quotes}
        Retry(keys) ==
            jobs' = [k \in Keys |-> IF k \in keys THEN "waiting"
                                    ELSE IF k \in batch THEN "ended"
                                    ELSE jobs[k]]
    IN  /\ fetch.pc = "returned"
        /\ \/ /\ fetch.code = "ok"
              /\ cached' = cached \cup {k[1] : k \in answered}
              /\ Retry({})
           \/ /\ fetch.code = "quota_exceeded"
              /\ Retry(batch)
              /\ UNCHANGED cached
           \/ /\ fetch.code = "transient"
              /\ \E retried \in SUBSET batch : Retry(retried)
              /\ UNCHANGED cached
           \/ /\ fetch.code = "permanent"
              /\ Retry({})
              /\ UNCHANGED cached
        /\ batch' = {}
        /\ fetch' = NoFetch
        /\ UNCHANGED <<okCount, errCount, now, faults>>

(* What failing statements may make of job k of the batch.  A write that   *)
(* fails leaves it running.  A failed upsert is a transient error, so an   *)
(* answered job may be rescheduled, or failed when its budget is spent; a  *)
(* lost reply hides the effect it should have had.                         *)
LeftAs(k) ==
    {"running"}
        \cup (IF fetch.code \in {"transient", "quota_exceeded"} \/ k[1] \in fetch.quotes
              THEN {"waiting"} ELSE {})
        \cup (IF fetch.code = "quota_exceeded" THEN {} ELSE {"ended"})

(* dispatchBatch when some of its statements fail: each job is left on its *)
(* own, and any of the answered pairs may have reached the cache.          *)
DemuxFails ==
    /\ fetch.pc = "returned"
    /\ \E left \in [batch -> JobStatus] :
          /\ \A k \in batch : left[k] \in LeftAs(k)
          /\ jobs' = [k \in Keys |-> IF k \in batch THEN left[k] ELSE jobs[k]]
    /\ \E upserted \in SUBSET (fetch.quotes \cap {k[1] : k \in batch}) :
          cached' = cached \cup upserted
    /\ faults' = faults + 1
    /\ batch' = {}
    /\ fetch' = NoFetch
    /\ UNCHANGED <<okCount, errCount, now>>

(* The delay of a rescheduled job is over. *)
FallDue ==
    /\ \E k \in With("waiting") : jobs' = Set({k}, "pending")
    /\ UNCHANGED <<fetchVars, now, cached, batch, faults>>

PassTime ==
    /\ now < MaxTime
    /\ now' = now + 1
    /\ UNCHANGED <<fetchVars, jobs, cached, batch, faults>>

(* Requests it takes to fetch every pair once. *)
BaseCount == Cardinality(BasesOf(Pairs))

(* The startup probe's request is counted as well. *)
ASSUME WarmAssumption == WarmCount \in Nat /\ WarmCount > BaseCount

(* The service is cold and has only made the request of its startup probe, *)
(* without which it does not serve; or it has fetched every pair in        *)
(* earlier buckets.  The tick of this bucket has just been made or comes   *)
(* later.                                                                  *)
ServiceInit ==
    /\ fetch = NoFetch
    /\ \/ cached = {} /\ okCount = 1
       \/ cached = Pairs /\ okCount = WarmCount
    /\ errCount = 0
    /\ faults = 0
    /\ now = 0
    /\ \E ticked \in SUBSET {0} :
          jobs = [k \in Keys |-> IF k[2] \in ticked THEN "pending" ELSE "absent"]
    /\ batch = {}

FetchTypes == [pc : {"idle", "asking", "returned"},
               pairs : SUBSET Pairs,
               todo : SUBSET BasesOf(Pairs),
               quotes : SUBSET Pairs,
               code : {"ok"} \cup ErrorCodes]

ServiceTypeOK ==
    /\ fetch \in FetchTypes
    /\ fetch.pc = "asking" => fetch.todo # {}
    /\ okCount \in Nat /\ errCount \in Nat
    /\ now \in 0..MaxTime
    /\ jobs \in [Keys -> JobStatus]
    /\ cached \subseteq Pairs
    /\ batch \subseteq With("running")
    /\ faults \in Nat

(* What the upstream is asked for is bounded by the work: a call that      *)
(* succeeds costs one request per base and ends at least one job, unless a *)
(* statement of its batch failed; a call that fails drops the result of up *)
(* to all but one of its requests, which the retry makes and pays for      *)
(* again (apilayer.go:126, dispatchBatch).  WarmCount is what was counted  *)
(* before the test.                                                        *)
UpstreamBudget ==
    okCount <= Asked + WarmCount
                     + BaseCount * (Cardinality(With("ended")) + faults)
                     + (BaseCount - 1) * errCount
=============================================================================
