------------------------------ MODULE JobQueue ------------------------------
(***************************************************************************)
(* The job queue of internal/queue/pgqueue/pgqueue.go over the table       *)
(* quote_jobs of migrations/: one action per method of queue.JobQueue and  *)
(* queue.Cleaner, each a single SQL statement and therefore atomic.        *)
(*                                                                         *)
(* Kept: every column a statement tests, every WHERE clause, the CHECK and *)
(* UNIQUE constraints, the errors that leave the table alone.              *)
(* Abstracted: price and quote_updated_at, always written together, are    *)
(* one value of Snapshots; completed_at is the Boolean "IS NOT NULL"; a    *)
(* reason is its class in Reasons.  created_at, updated_at, locked_by and  *)
(* source steer no statement and are left out, and with source the early   *)
(* return ErrInvalidSource, which changes nothing.  The SHA-256 of the     *)
(* coalescing key is the tuple it hashes.                                  *)
(*                                                                         *)
(* Every statement carries timestamps the calling process read from its    *)
(* own clock before the statement ran.  clock is the most advanced clock   *)
(* of the deployment; a statement may carry any of Readings, up to MaxSkew *)
(* behind it (skew between instances plus latency).                        *)
(***************************************************************************)
EXTENDS Integers, FiniteSets

CONSTANTS JobIds,      \* job ids; its size bounds the rows ever inserted
          Pairs,       \* currency pairs
          Snapshots,   \* (price, quote_updated_at) values
          Null,        \* SQL NULL
          BucketSize,  \* the coalescing window W
          Lease,       \* worker.leaseTime
          Delays,      \* the delays Reschedule is called with
          BatchSizes,  \* the limits Reserve is called with
          MaxSkew,     \* how far a reading may lag behind clock
          MaxTime,     \* bound on clock
          MaxCharged   \* bound on attempts when the queue runs on its own

ASSUME BucketAssumption == BucketSize \in Nat \ {0}   \* config.go:106
ASSUME LeaseAssumption == Lease \in Nat \ {0}
ASSUME DelaysAssumption == Delays \subseteq Nat
ASSUME BatchAssumption == BatchSizes \subseteq Nat \ {0}   \* worker.go:97
ASSUME TimeAssumption == /\ MaxSkew \in Nat
                         /\ MaxTime \in Nat
                         /\ MaxCharged \in Nat
ASSUME NullAssumption == /\ Null \notin Snapshots
                         /\ Null \notin Nat
                         /\ Null \notin {"short", "long"}

VARIABLES quoteJobs,   \* the table: quoteJobs[id] is row id, or NoRow
          clock        \* the most advanced clock of the deployment

queueVars == <<quoteJobs, clock>>

-----------------------------------------------------------------------------
(* The table. *)

(* A reason whose text exceeds 4096 characters is "long". *)
Reasons == {"short", "long"}

(* CHECK last_error_length *)
Fits(reason) == reason # "long"

(* Mutant: the bucket is rounded to the nearest start, not down. *)
DedupKeyNearest(pair, t) ==
    <<pair, ((t + BucketSize \div 2) \div BucketSize) * BucketSize>>

(* DedupKey: the pair and the start of its epoch-aligned bucket.  Both     *)
(* producers only pass upper-case pairs, so UPPER changes nothing.         *)
DedupKey(pair, t) == <<pair, (t \div BucketSize) * BucketSize>>

Keys == {DedupKey(p, t) : p \in Pairs, t \in 0..MaxTime}

Terminal == {"done", "failed"}

Row == [status : {"absent", "pending", "running"} \cup Terminal,
        pair : Pairs \cup {Null},
        key : Keys \cup {Null},
        attempts : Nat,
        nextRunAt : Nat,
        leaseUntil : Nat \cup {Null},
        lastError : Reasons \cup {Null},
        completed : BOOLEAN,
        quote : Snapshots \cup {Null}]

NoRow == [status |-> "absent", pair |-> Null, key |-> Null, attempts |-> 0,
          nextRunAt |-> 0, leaseUntil |-> Null, lastError |-> Null,
          completed |-> FALSE, quote |-> Null]

Stored == {id \in JobIds : quoteJobs[id].status # "absent"}

Running(id) == quoteJobs[id].status = "running"

Readings == {t \in 0..clock : t + MaxSkew >= clock}

-----------------------------------------------------------------------------
(* The statements. *)

Conflict(key) == \E id \in Stored : quoteJobs[id].key = key

(* Mutant: no unique index, every INSERT succeeds. *)
EnqueueAlways(id, pair, key, nextRunAt) ==
    quoteJobs' = [quoteJobs EXCEPT ![id] =
        [NoRow EXCEPT !.status = "pending", !.pair = pair, !.key = key,
                      !.nextRunAt = nextRunAt]]

(* INSERT ... ON CONFLICT (dedup_key) DO NOTHING.  On a conflict the id of *)
(* the stored job is returned, whatever its status.                        *)
Enqueue(id, pair, key, nextRunAt) ==
    \/ /\ ~Conflict(key)
       /\ quoteJobs' = [quoteJobs EXCEPT ![id] =
             [NoRow EXCEPT !.status = "pending", !.pair = pair, !.key = key,
                           !.nextRunAt = nextRunAt]]
    \/ /\ Conflict(key)
       /\ UNCHANGED quoteJobs

(* Mutant: the test of status is lost. *)
EligibleAnyStatus(now) ==
    {id \in Stored : /\ quoteJobs[id].status \notin Terminal
                     /\ quoteJobs[id].nextRunAt <= now}

Eligible(now) ==
    {id \in Stored : /\ quoteJobs[id].status = "pending"
                     /\ quoteJobs[id].nextRunAt <= now}

(* ORDER BY next_run_at LIMIT n FOR UPDATE SKIP LOCKED: locked are the     *)
(* rows another transaction holds at that moment.                          *)
Selected(ids, n, now, locked) ==
    LET candidates == Eligible(now) \ locked
    IN  /\ ids \subseteq candidates
        /\ Cardinality(ids) <= n
        /\ Cardinality(ids) < n => ids = candidates
        /\ \A id \in ids, other \in candidates \ ids :
              quoteJobs[id].nextRunAt <= quoteJobs[other].nextRunAt

Reserve(ids, n, now, locked) ==
    /\ Selected(ids, n, now, locked)
    /\ quoteJobs' = [id \in JobIds |->
          IF id \in ids
          THEN [quoteJobs[id] EXCEPT !.status = "running",
                                     !.leaseUntil = now + Lease]
          ELSE quoteJobs[id]]

(* Mutant: AND status = 'running' is missing. *)
CompleteAnyStatus(id, quote) ==
    /\ id \in Stored
    /\ quoteJobs' = [quoteJobs EXCEPT ![id] =
          [quoteJobs[id] EXCEPT !.status = "done", !.completed = TRUE,
                                !.quote = quote]]

(* Mutant: the columns of migration 000005 are not written. *)
CompleteWithoutQuote(id, quote) ==
    /\ Running(id)
    /\ quoteJobs' = [quoteJobs EXCEPT ![id] =
          [quoteJobs[id] EXCEPT !.status = "done", !.completed = TRUE]]

(* Complete, Reschedule and Fail name the job by id and status only; on    *)
(* any other row they report ErrNotFound or ErrNotReserved.                *)
Complete(id, quote) ==
    \/ /\ Running(id)
       /\ quoteJobs' = [quoteJobs EXCEPT ![id] =
             [quoteJobs[id] EXCEPT !.status = "done", !.completed = TRUE,
                                   !.quote = quote]]
    \/ /\ ~Running(id)
       /\ UNCHANGED quoteJobs

(* Mutant: lease_until is not reset. *)
RescheduleKeepsLease(id, reason, after, now) ==
    /\ Running(id)
    /\ Fits(reason)
    /\ quoteJobs' = [quoteJobs EXCEPT ![id] =
          [quoteJobs[id] EXCEPT !.status = "pending",
                                !.nextRunAt = now + after,
                                !.attempts = @ + 1, !.lastError = reason]]

Reschedule(id, reason, after, now) ==
    \/ /\ Running(id)
       /\ Fits(reason)
       /\ quoteJobs' = [quoteJobs EXCEPT ![id] =
             [quoteJobs[id] EXCEPT !.status = "pending",
                                   !.nextRunAt = now + after,
                                   !.attempts = @ + 1, !.lastError = reason,
                                   !.leaseUntil = Null]]
    \/ /\ ~Running(id) \/ ~Fits(reason)
       /\ UNCHANGED quoteJobs

(* Mutant: last_error is not written. *)
FailWithoutReason(id, reason) ==
    /\ Running(id)
    /\ quoteJobs' = [quoteJobs EXCEPT ![id] =
          [quoteJobs[id] EXCEPT !.status = "failed", !.completed = TRUE]]

(* Mutant: AND status = 'running' is missing. *)
FailAnyStatus(id, reason) ==
    /\ id \in Stored
    /\ Fits(reason)
    /\ quoteJobs' = [quoteJobs EXCEPT ![id] =
          [quoteJobs[id] EXCEPT !.status = "failed", !.completed = TRUE,
                                !.lastError = reason]]

Fail(id, reason) ==
    \/ /\ Running(id)
       /\ Fits(reason)
       /\ quoteJobs' = [quoteJobs EXCEPT ![id] =
             [quoteJobs[id] EXCEPT !.status = "failed", !.completed = TRUE,
                                   !.lastError = reason]]
    \/ /\ ~Running(id) \/ ~Fits(reason)
       /\ UNCHANGED quoteJobs

(* Mutant: the lease ends one instant early. *)
ExpiredAtLease(id, now) == Running(id) /\ quoteJobs[id].leaseUntil <= now

Expired(id, now) == Running(id) /\ quoteJobs[id].leaseUntil < now

(* Mutant: the interrupted attempt is refunded. *)
RecoverExpiredRefunds(now) ==
    quoteJobs' = [id \in JobIds |->
        IF Expired(id, now)
        THEN [quoteJobs[id] EXCEPT !.status = "pending", !.leaseUntil = Null,
                                   !.attempts = @ - 1]
        ELSE quoteJobs[id]]

RecoverExpired(now) ==
    quoteJobs' = [id \in JobIds |->
        IF Expired(id, now)
        THEN [quoteJobs[id] EXCEPT !.status = "pending", !.leaseUntil = Null]
        ELSE quoteJobs[id]]

(* The read side, JobView: last_error is returned whatever the status. *)
GetByID(id) ==
    [Status |-> quoteJobs[id].status, Attempts |-> quoteJobs[id].attempts,
     CompletedAt |-> quoteJobs[id].completed, Quote |-> quoteJobs[id].quote,
     LastError |-> quoteJobs[id].lastError]

-----------------------------------------------------------------------------
(* The queue on its own: any caller, any order. *)

Tick == clock < MaxTime /\ clock' = clock + 1 /\ UNCHANGED quoteJobs

(* A producer computes key and next_run_at from one reading. *)
Produce(id, pair, t) ==
    id \in JobIds \ Stored /\ Enqueue(id, pair, DedupKey(pair, t), t)

QInit ==
    /\ quoteJobs = [id \in JobIds |-> NoRow]
    /\ clock = 0

Statement(now) ==
    \/ \E id \in JobIds, pair \in Pairs : Produce(id, pair, now)
    \/ \E ids, locked \in SUBSET JobIds, n \in BatchSizes :
          Reserve(ids, n, now, locked)
    \/ \E id \in JobIds, quote \in Snapshots : Complete(id, quote)
    \/ \E id \in JobIds, reason \in Reasons, after \in Delays :
          Reschedule(id, reason, after, now)
    \/ \E id \in JobIds, reason \in Reasons : Fail(id, reason)
    \/ RecoverExpired(now)

QNext ==
    \/ Tick
    \/ /\ \E now \in Readings : Statement(now)
       /\ \A id \in JobIds : quoteJobs'[id].attempts <= MaxCharged
       /\ UNCHANGED clock

QSpec == QInit /\ [][QNext]_queueVars

-----------------------------------------------------------------------------
(* Properties. *)

(* Every column of every row has the type its migration declares. *)
QTypeOK ==
    /\ quoteJobs \in [JobIds -> Row]
    /\ clock \in 0..MaxTime

(* Coalescing: no two stored jobs share a dedup_key, whatever the order in *)
(* which producers, retries and expiries interleave (pgqueue.go Enqueue,   *)
(* the unique index of migration 000002).                                  *)
OneJobPerKey ==
    \A a, b \in Stored : quoteJobs[a].key = quoteJobs[b].key => a = b

(* The CHECK done_has_quote of migration 000005 never has to reject an     *)
(* UPDATE: a row is done exactly when it owns a quote, through retries,    *)
(* recoveries and repeated completions.                                    *)
DoneHasQuote ==
    \A id \in JobIds :
        quoteJobs[id].status = "done" <=> quoteJobs[id].quote # Null

(* A running row always has a lease, so that "lease_until < now" of        *)
(* RecoverExpired can become true of it (it never is of NULL), and a       *)
(* pending one has none: no job is stuck in running outside the cleaner's  *)
(* reach.                                                                  *)
LeaseWhileRunning ==
    \A id \in JobIds :
        /\ Running(id) => quoteJobs[id].leaseUntil # Null
        /\ quoteJobs[id].status \in {"absent", "pending"}
              => quoteJobs[id].leaseUntil = Null

(* What the API's renderers dereference or print is there, whatever order  *)
(* of writes has led to the row (server.go:203 and 227): a done job has    *)
(* its quote, a failed one its completion time and its reason.  Only a     *)
(* done job has a quote and only an ended one a completion time, as        *)
(* queue.go:116-118 say.  A reason is there as well once an attempt has    *)
(* been charged, whatever the status is now: Reschedule writes it, Reserve *)
(* and Complete keep it, so the "empty unless status is failed" of         *)
(* queue.go:119 does not hold.                                             *)
RenderersFindFields ==
    \A id \in Stored :
        LET view == GetByID(id)
        IN  /\ view.Status = "done" <=> view.Quote # Null
            /\ view.Status \in Terminal <=> view.CompletedAt
            /\ view.LastError # Null
                  <=> view.Status = "failed" \/ view.Attempts > 0

QInv ==
    OneJobPerKey /\ DoneHasQuote /\ LeaseWhileRunning /\ RenderersFindFields

(* A done or failed row is never written again, by whichever caller still  *)
(* believes it holds the job: an outcome a client has seen does not        *)
(* change (Complete, Reschedule, Fail and RecoverExpired all test          *)
(* status = 'running').                                                    *)
TerminalIsFinal ==
    [][\A id \in JobIds : quoteJobs[id].status \in Terminal
          => quoteJobs'[id] = quoteJobs[id]]_queueVars

(* A job goes back to pending without being charged an attempt only after  *)
(* its lease has passed on the most advanced clock, however far behind the *)
(* recovering instance's clock is (RecoverExpired).                        *)
NoEarlyRecovery ==
    [][\A id \in JobIds :
          /\ Running(id)
          /\ quoteJobs'[id].status = "pending"
          /\ quoteJobs'[id].attempts = quoteJobs[id].attempts
          => quoteJobs[id].leaseUntil < clock]_queueVars

(* The table implements the abstract queue: a coalescing key owns at most  *)
(* one job for ever, and a job ends at most once, with a quote exactly     *)
(* when it is done.                                                        *)
Lifecycle == INSTANCE JobLifecycle WITH
    Results <- Snapshots,
    None <- Null,
    state <- [id \in JobIds |-> quoteJobs[id].status],
    key <- [id \in JobIds |-> quoteJobs[id].key],
    result <- [id \in JobIds |-> quoteJobs[id].quote]

ImplementsLifecycle == Lifecycle!Spec
=============================================================================
