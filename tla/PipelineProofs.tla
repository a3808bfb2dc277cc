--------------------------- MODULE PipelineProofs ---------------------------
(***************************************************************************)
(* What the pipeline guarantees for every set of workers, jobs and pairs   *)
(* and every value of the delays, limits and bounds.  The queue's lemmas   *)
(* of JobQueueProofs are reused: every step of the pipeline is at most one *)
(* statement of the queue.                                                 *)
(***************************************************************************)
EXTENDS Pipeline, JobQueueProofs

(* What a worker's local state always satisfies: the queue's statements    *)
(* are called with arguments of the right type, on rows that exist.        *)
LocalOK(w) ==
    /\ work[w].pc = "idle" => work[w].batch = {}
    /\ work[w].pc \in {"complete", "retry"}
          => work[w].cur \in work[w].batch /\ work[w].res.code = "ok"
    /\ work[w].res.code = "ok" => work[w].res.quote \in Snapshots
    /\ work[w].res.code \in Codes => work[w].res.reason \in Reasons
    /\ \A job \in work[w].batch : job.id \in Stored

PInv == TypeOK /\ IInv /\ \A w \in Workers : LocalOK(w)

(* There is always a clock reading: the most advanced clock's. *)
LEMMA SomeReading ==
    ASSUME QTypeOK
    PROVE  clock \in Readings
BY TimeAssumption DEF QTypeOK, Readings

(* Backoff only returns delays that Reschedule may be called with. *)
LEMMA BackoffIsDelay ==
    ASSUME NEW a
    PROVE  Backoff(a) \subseteq Delays
BY DEF Backoff

(* rescheduleOrFail is at most one statement of the queue. *)
LEMMA RetryIsStatement ==
    ASSUME QTypeOK, NEW job \in Job, NEW reason \in Reasons,
           RescheduleOrFail(job, reason)
    PROVE  \E now \in Readings : Statement(now)
<1>0. job.id \in JobIds
  BY DEF Job
<1>1. CASE \E now \in Readings, delay \in Backoff(job.attempts) :
              Reschedule(job.id, reason, delay, now)
  BY <1>0, <1>1, BackoffIsDelay DEF Statement
<1>2. CASE Fail(job.id, reason)
  BY <1>0, <1>2, SomeReading DEF Statement
<1> QED
  BY <1>1, <1>2 DEF RescheduleOrFail

(* Every step of a worker is at most one statement of the queue. *)
LEMMA WorkerIsStatement ==
    ASSUME PInv, NEW w \in Workers, WorkerStep(w)
    PROVE  UNCHANGED quoteJobs \/ \E now \in Readings : Statement(now)
<1>0. /\ QTypeOK /\ work[w] \in Local /\ work[w].res \in Result /\ LocalOK(w)
      /\ \A job \in work[w].batch : job \in Job /\ job.id \in JobIds
  BY DEF PInv, TypeOK, Local, Job
<1>1. ASSUME Poll(w) PROVE \E now \in Readings : Statement(now)
  <2>1. PICK ids \in (SUBSET JobIds) \ {{}}, locked \in Locks(w), now \in Readings :
           Reserve(ids, BatchSize, now, locked)
    BY <1>1 DEF Poll
  <2>2. locked \in SUBSET JobIds
    BY DEF Locks
  <2> QED
    BY <2>1, <2>2, BatchSizeAssumption DEF Statement
<1>2. ASSUME Clean(w) PROVE \E now \in Readings : Statement(now)
  BY <1>2 DEF Clean, Statement
<1>3. ASSUME NEW job \in work[w].batch, HandleBatchError(w, job)
      PROVE  UNCHANGED quoteJobs \/ \E now \in Readings : Statement(now)
  <2>1. CASE work[w].res.code = "quota_exceeded"
    <3>1. work[w].res.reason \in Reasons
      BY <1>0, <2>1 DEF LocalOK, Codes
    <3> QED
      BY <1>0, <1>3, <2>1, <3>1, DelayAssumption
         DEF HandleBatchError, Try, Statement
  <2>2. CASE work[w].res.code = "transient"
    <3>1. work[w].res.reason \in Reasons
      BY <1>0, <2>2 DEF LocalOK, Codes
    <3> QED
      BY <1>0, <1>3, <2>2, <3>1, RetryIsStatement DEF HandleBatchError, Try
  <2>3. CASE work[w].res.code = "permanent"
    <3>1. work[w].res.reason \in Reasons
      BY <1>0, <2>3 DEF LocalOK, Codes
    <3> QED
      BY <1>0, <1>3, <2>3, <3>1, SomeReading DEF HandleBatchError, Try, Statement
  <2> QED
    BY <1>3, <2>1, <2>2, <2>3 DEF HandleBatchError
<1>4. ASSUME NEW job \in work[w].batch, FailMissing(w, job)
      PROVE  UNCHANGED quoteJobs \/ \E now \in Readings : Statement(now)
  <2>1. "short" \in Reasons
    BY DEF Reasons
  <2> QED
    BY <1>0, <1>4, <2>1, SomeReading DEF FailMissing, Try, Statement
<1>5. ASSUME CompleteJob(w)
      PROVE  UNCHANGED quoteJobs \/ \E now \in Readings : Statement(now)
  <2>1. work[w].cur.id \in JobIds /\ work[w].res.quote \in Snapshots
    BY <1>0, <1>5 DEF CompleteJob, LocalOK
  <2> QED
    BY <1>0, <1>5, <2>1, SomeReading DEF CompleteJob, Try, Statement
<1>6. ASSUME RetryJob(w)
      PROVE  UNCHANGED quoteJobs \/ \E now \in Readings : Statement(now)
  <2>1. work[w].cur \in Job
    BY <1>0, <1>6 DEF RetryJob, LocalOK
  <2> QED
    BY <1>0, <1>6, <2>1, RetryIsStatement DEF RetryJob, Try
<1>7. ASSUME \/ FetchOk(w) \/ FetchError(w) \/ Crash(w)
             \/ \E job \in work[w].batch : Upsert(w, job)
      PROVE  UNCHANGED quoteJobs
  BY <1>7 DEF FetchOk, FetchError, Crash, Upsert
<1> QED
  BY <1>1, <1>2, <1>3, <1>4, <1>5, <1>6, <1>7 DEF WorkerStep

(* So is every step of the pipeline. *)
LEMMA NextIsStatement ==
    ASSUME PInv, Next
    PROVE  UNCHANGED quoteJobs \/ \E now \in Readings : Statement(now)
<1>1. ASSUME NEW id \in JobIds, NEW pair \in Pairs, Submit(id, pair)
      PROVE  \E now \in Readings : Statement(now)
  BY <1>1 DEF Submit, Statement
<1>2. ASSUME PassTime PROVE UNCHANGED quoteJobs
  BY <1>2 DEF PassTime, Tick
<1> QED
  BY <1>1, <1>2, WorkerIsStatement DEF Next

-----------------------------------------------------------------------------
(* Types. *)

(* Rows are never deleted. *)
LEMMA RowsStay ==
    ASSUME QTypeOK, NEW now \in Readings, Statement(now)
    PROVE  Stored \subseteq Stored'
<1>1. ASSUME NEW r \in JobIds, quoteJobs[r].status # "absent"
      PROVE  quoteJobs'[r].status # "absent"
  BY <1>1, StatementCases, InsertRow, UpdateRow
     DEF RowUpdate, Inserted, Reserved, Returned, Ended
<1> QED
  BY <1>1 DEF Stored

(* What a step of worker w may leave in its local state. *)
LocalStep(w) ==
    /\ work' = [work EXCEPT ![w] = work'[w]]
    /\ work'[w] \in Local
    /\ LocalOK(w)'

(* The idle worker is well typed. *)
LEMMA IdleType == Idle \in Local /\ NoResult \in Result
BY DEF Idle, Local, NoResult, Result

(* Going on to the rest of the batch keeps the local state well formed. *)
LEMMA DropStep ==
    ASSUME PInv, NEW w \in Workers, NEW job, Drop(w, job), Stored \subseteq Stored'
    PROVE  LocalStep(w)
<1>0. work \in [Workers -> Local] /\ work[w] \in Local /\ LocalOK(w)
  BY DEF PInv, TypeOK
<1> DEFINE rest == work[w].batch \ {job}
<1>1. CASE rest = {}
  <2>1. work' = [work EXCEPT ![w] = Idle]
    BY <1>1 DEF Drop
  <2> QED
    BY <1>0, <2>1, IdleType DEF LocalStep, LocalOK, Idle, NoResult, Codes
<1>2. CASE rest # {}
  <2>1. work' = [work EXCEPT ![w] = [work[w] EXCEPT !.pc = "demux", !.cur = Null,
                                                    !.batch = rest]]
    BY <1>2 DEF Drop
  <2>2. work'[w] = [work[w] EXCEPT !.pc = "demux", !.cur = Null, !.batch = rest]
    BY <1>0, <2>1
  <2>3. work'[w] \in Local
    <3>1. rest \in SUBSET Job
      BY <1>0 DEF Local
    <3> HIDE DEF rest
    <3> QED
      BY <1>0, <2>2, <3>1 DEF Local
  <2>4. /\ work'[w].pc = "demux" /\ work'[w].res = work[w].res
        /\ work'[w].batch \subseteq work[w].batch
    BY <1>0, <2>2 DEF Local
  <2>5. LocalOK(w)'
    BY <1>0, <2>4 DEF LocalOK
  <2> QED
    BY <1>0, <2>1, <2>2, <2>3, <2>5 DEF LocalStep
<1> QED
  BY <1>1, <1>2

(* Every step of a worker changes its own local state only, and keeps it   *)
(* well formed.                                                            *)
LEMMA WorkerLocalStep ==
    ASSUME PInv, NEW w \in Workers, WorkerStep(w), Stored \subseteq Stored'
    PROVE  LocalStep(w)
<1>0. /\ QTypeOK /\ work \in [Workers -> Local] /\ work[w] \in Local
      /\ LocalOK(w) /\ fetches \in 0..MaxFetches
  BY DEF PInv, TypeOK
<1>1. ASSUME UNCHANGED work PROVE LocalStep(w)
  BY <1>0, <1>1 DEF LocalStep, LocalOK
<1>2. CASE Poll(w)
  <2>1. PICK ids \in (SUBSET JobIds) \ {{}}, now \in Readings :
           /\ \E locked \in Locks(w) : Reserve(ids, BatchSize, now, locked)
           /\ \/ work' = [work EXCEPT ![w] =
                    [Idle EXCEPT !.pc = "fetch",
                                 !.batch = {[id |-> id,
                                             attempts |-> quoteJobs[id].attempts,
                                             lease |-> now + Lease] : id \in ids}]]
              \/ UNCHANGED work
    BY <1>2 DEF Poll
  <2> DEFINE batch == {[id |-> id, attempts |-> quoteJobs[id].attempts,
                        lease |-> now + Lease] : id \in ids}
  <2>2. now + Lease \in Nat
    BY <1>0, ReadingIsTime, LeaseAssumption
  <2>3. batch \in SUBSET Job /\ \A job \in batch : job.id \in Stored
    <3>1. \A id \in ids : id \in Stored /\ id \in JobIds
      BY <2>1 DEF Reserve, Selected, Eligible
    <3>2. \A id \in JobIds : quoteJobs[id].attempts \in Nat
      BY <1>0 DEF QTypeOK, Row
    <3> QED
      BY <2>2, <3>1, <3>2 DEF Job
  <2> HIDE DEF batch
  <2>4. CASE work' = [work EXCEPT ![w] = [Idle EXCEPT !.pc = "fetch", !.batch = batch]]
    <3>1. /\ work'[w] \in Local
          /\ work'[w].pc = "fetch" /\ work'[w].batch = batch
          /\ work'[w].res.code = "none"
      BY <1>0, <2>3, <2>4, IdleType DEF Idle, Local, NoResult
    <3> QED
      BY <1>0, <2>3, <2>4, <3>1 DEF LocalStep, LocalOK, Codes
  <2> QED
    BY <1>1, <2>1, <2>4 DEF batch
<1>3. CASE Clean(w)
  BY <1>1, <1>3 DEF Clean
<1>4. CASE FetchOk(w)
  <2>1. PICK answered \in SUBSET PairsOf(work[w].batch) :
          work' = [work EXCEPT ![w] =
                     [work[w] EXCEPT !.pc = "demux",
                                     !.res = [code |-> "ok",
                                              answered |-> answered,
                                              quote |-> [no |-> fetches + 1,
                                                         at |-> clock],
                                              reason |-> Null]]]
    BY <1>4 DEF FetchOk
  <2>2. answered \in SUBSET Pairs
    <3>1. \A job \in work[w].batch : PairOf(job) \in Pairs
      BY <1>0 DEF PairOf, PInv, IInv, RowOK, LocalOK, Stored
    <3> QED
      BY <3>1 DEF PairsOf
  <2>3. [no |-> fetches + 1, at |-> clock] \in Snapshots
    BY <1>0, <1>4, SnapshotsAssumption DEF FetchOk, QTypeOK
  <2> QED
    BY <1>0, <2>1, <2>2, <2>3 DEF LocalStep, LocalOK, Local, Result, Codes
<1>5. CASE FetchError(w)
  <2>1. PICK code \in Codes, reason \in Reasons :
          work' = [work EXCEPT ![w] =
                     [work[w] EXCEPT !.pc = "demux",
                                     !.res = [NoResult EXCEPT
                                                !.code = code,
                                                !.reason = reason]]]
    BY <1>5 DEF FetchError
  <2> QED
    BY <1>0, <2>1 DEF LocalStep, LocalOK, Local, Result, NoResult, Codes
<1>6. ASSUME NEW job \in work[w].batch, HandleBatchError(w, job) \/ FailMissing(w, job)
      PROVE  LocalStep(w)
  BY <1>6, DropStep DEF HandleBatchError, FailMissing
<1>7. CASE CompleteJob(w) \/ RetryJob(w)
  BY <1>7, DropStep DEF CompleteJob, RetryJob
<1>8. ASSUME NEW job \in work[w].batch, Upsert(w, job)
      PROVE  LocalStep(w)
  <2>1. PICK pc \in {"complete", "retry"} :
           work' = [work EXCEPT ![w] = [work[w] EXCEPT !.pc = pc, !.cur = job]]
    BY <1>8 DEF Upsert
  <2>2. work'[w] = [work[w] EXCEPT !.pc = pc, !.cur = job] /\ job \in Job
    BY <1>0, <1>8, <2>1 DEF Local
  <2>3. work'[w] \in Local
    BY <1>0, <2>2 DEF Local
  <2>4. /\ work'[w].pc = pc /\ work'[w].cur = job
        /\ work'[w].batch = work[w].batch /\ work'[w].res = work[w].res
    BY <1>0, <2>2 DEF Local
  <2> QED
    BY <1>0, <1>8, <2>1, <2>2, <2>3, <2>4 DEF Upsert, LocalStep, LocalOK
<1>9. CASE Crash(w)
  BY <1>0, <1>9, IdleType DEF Crash, LocalStep, LocalOK, Idle, NoResult, Codes
<1> QED
  BY <1>2, <1>3, <1>4, <1>5, <1>6, <1>7, <1>8, <1>9 DEF WorkerStep

(* Only the worker of a step changes; every other one stays well formed. *)
LEMMA OthersStayOK ==
    ASSUME PInv, NEW w \in Workers, LocalStep(w), Stored \subseteq Stored'
    PROVE  work' \in [Workers -> Local] /\ \A v \in Workers : LocalOK(v)'
<1>1. work \in [Workers -> Local] /\ \A v \in Workers : LocalOK(v)
  BY DEF PInv, TypeOK
<1>2. work' \in [Workers -> Local] /\ \A v \in Workers \ {w} : work'[v] = work[v]
  BY <1>1 DEF LocalStep
<1>3. ASSUME NEW v \in Workers, v # w PROVE LocalOK(v)'
  BY <1>1, <1>2, <1>3 DEF LocalOK
<1> QED
  BY <1>2, <1>3 DEF LocalStep

(* The cache and the fetch counter keep their types. *)
LEMMA CacheType ==
    ASSUME PInv, NEW w \in Workers, WorkerStep(w)
    PROVE  /\ quotes' \in [Pairs -> Snapshots \cup {Null}]
           /\ fetches' \in 0..MaxFetches
           /\ clock' = clock
<1>0. /\ quotes \in [Pairs -> Snapshots \cup {Null}] /\ fetches \in 0..MaxFetches
      /\ LocalOK(w)
  BY DEF PInv, TypeOK
<1>1. CASE \E job \in work[w].batch : Upsert(w, job)
  BY <1>0, <1>1 DEF Upsert, UpsertBatch, LocalOK
<1>2. CASE FetchOk(w)
  BY <1>0, <1>2, SnapshotsAssumption DEF FetchOk
<1>3. CASE ~(\E job \in work[w].batch : Upsert(w, job)) /\ ~FetchOk(w)
  BY <1>0, <1>3 DEF WorkerStep, Poll, Clean, FetchError, HandleBatchError,
                    FailMissing, CompleteJob, RetryJob, Crash
<1> QED
  BY <1>1, <1>2, <1>3

(* A statement of the queue keeps the queue's invariant. *)
LEMMA StatementKeepsIInv ==
    ASSUME QTypeOK, IInv, NEW now \in Readings, Statement(now), UNCHANGED clock
    PROVE  QTypeOK' /\ IInv'
BY StatementType, KeysStayUnique, RowsStayOK DEF IInv

(* A step that leaves the table alone keeps the queue's invariant. *)
LEMMA QueueUnchanged ==
    ASSUME IInv, UNCHANGED quoteJobs
    PROVE  IInv' /\ Stored' = Stored
BY DEF IInv, OneJobPerKey, Stored, RowOK, Running

(* Every step of the pipeline keeps PInv. *)
LEMMA PInvStep ==
    ASSUME PInv, [Next]_pipelineVars
    PROVE  PInv'
<1>0. QTypeOK /\ IInv /\ TypeOK
  BY DEF PInv, TypeOK
<1>1. ASSUME NEW w \in Workers, WorkerStep(w) PROVE PInv'
  <2>1. quotes' \in [Pairs -> Snapshots \cup {Null}]
        /\ fetches' \in 0..MaxFetches /\ clock' = clock
    BY <1>1, CacheType
  <2>2. QTypeOK' /\ IInv' /\ Stored \subseteq Stored'
    <3>1. CASE UNCHANGED quoteJobs
      BY <1>0, <2>1, <3>1, QueueUnchanged DEF QTypeOK
    <3>2. ASSUME NEW now \in Readings, Statement(now)
          PROVE  QTypeOK' /\ IInv' /\ Stored \subseteq Stored'
      BY <1>0, <2>1, <3>2, StatementKeepsIInv, RowsStay
    <3> QED
      BY <1>1, <3>1, <3>2, WorkerIsStatement
  <2>3. LocalStep(w)
    BY <1>1, <2>2, WorkerLocalStep
  <2> QED
    BY <2>1, <2>2, <2>3, OthersStayOK DEF PInv, TypeOK
<1>2. ASSUME NEW id \in JobIds, NEW pair \in Pairs, Submit(id, pair) PROVE PInv'
  <2>1. PICK now \in Readings : Produce(id, pair, now)
    BY <1>2 DEF Submit
  <2>2. Statement(now)
    BY <2>1 DEF Statement
  <2>3. QTypeOK' /\ IInv' /\ Stored \subseteq Stored'
    BY <1>0, <1>2, <2>2, StatementKeepsIInv, RowsStay DEF Submit
  <2> QED
    BY <1>0, <1>2, <2>3 DEF Submit, PInv, TypeOK, LocalOK
<1>3. CASE PassTime
  <2>1. QTypeOK'
    BY <1>0, <1>3, TimeAssumption DEF PassTime, Tick, QTypeOK
  <2> QED
    BY <1>0, <1>3, <2>1, QueueUnchanged DEF PassTime, Tick, PInv, TypeOK, LocalOK
<1>4. CASE UNCHANGED pipelineVars
  BY <1>0, <1>4, QueueUnchanged DEF pipelineVars, PInv, TypeOK, QTypeOK, LocalOK
<1> QED
  BY <1>1, <1>2, <1>3, <1>4 DEF Next

(* PInv holds of the pipeline. *)
LEMMA PInvHolds == Spec => []PInv
<1>1. Init => PInv
  <2> SUFFICES ASSUME Init PROVE PInv
    OBVIOUS
  <2>1. QTypeOK
    BY NoRowType, TimeAssumption DEF Init, QInit, QTypeOK
  <2>2. IInv
    BY DEF Init, QInit, IInv, OneJobPerKey, Stored, RowOK, NoRow, Running, Terminal
  <2>3. TypeOK
    BY <2>1, IdleType, SnapshotsAssumption DEF Init, TypeOK
  <2>4. \A w \in Workers : LocalOK(w)
    BY DEF Init, LocalOK, Idle, NoResult, Codes
  <2> QED
    BY <2>2, <2>3, <2>4 DEF PInv
<1>2. PInv /\ [Next]_pipelineVars => PInv'
  BY PInvStep
<1> QED
  BY <1>1, <1>2, PTL DEF Spec

(* Type correctness of the whole pipeline: table, cache and every worker's *)
(* local state.                                                            *)
THEOREM PipelineTypeCorrect == Spec => []TypeOK
<1>1. PInv => TypeOK
  BY DEF PInv
<1> QED
  BY <1>1, PInvHolds, PTL

(* With any number of slow, crashing workers, without ownership checks in  *)
(* Complete, Reschedule and Fail, the pipeline still implements the        *)
(* abstract queue: one job per key, one outcome per job.                   *)
THEOREM PipelineRefinesLifecycle == Spec => PipelineImplementsLifecycle
<1>1. Init => Lifecycle!Init
  BY DEF Init, QInit, Lifecycle!Init, NoRow
<1>2. PInv /\ [Next]_pipelineVars => [Lifecycle!Next]_Lifecycle!lifecycle
  <2> SUFFICES ASSUME PInv, [Next]_pipelineVars
               PROVE  [Lifecycle!Next]_Lifecycle!lifecycle
    OBVIOUS
  <2>1. QTypeOK /\ IInv
    BY DEF PInv, TypeOK
  <2>2. CASE UNCHANGED quoteJobs
    BY <2>2 DEF Lifecycle!lifecycle
  <2>3. ASSUME NEW now \in Readings, Statement(now)
        PROVE  [Lifecycle!Next]_Lifecycle!lifecycle
    BY <2>1, <2>2, <2>3, StatementImplements
  <2> QED
    BY <2>2, <2>3, NextIsStatement DEF pipelineVars
<1> QED
  BY <1>1, <1>2, PInvHolds, PTL DEF Spec, PipelineImplementsLifecycle, Lifecycle!Spec

-----------------------------------------------------------------------------
(* Ownership of reserved rows: needs one worker, or timely batches. *)

ExclusiveOrTimely == Timely \/ \E w \in Workers : Workers = {w}

OwnInv ==
    /\ HolderOwnsRow
    /\ OneHolder
    /\ Timely => \A w \in Workers : \A job \in work[w].batch : clock <= job.lease

(* Ownership survives a step that adds nothing to a batch and leaves the   *)
(* rows of the remaining jobs alone.                                       *)
LEMMA OwnKept ==
    ASSUME OwnInv, clock' = clock,
           \A v \in Workers : \A job \in work'[v].batch :
              job \in work[v].batch /\ quoteJobs'[job.id] = quoteJobs[job.id]
    PROVE  OwnInv'
<1>1. HolderOwnsRow'
  BY DEF OwnInv, HolderOwnsRow, Running
<1>2. OneHolder'
  BY DEF OwnInv, OneHolder
<1> QED
  BY <1>1, <1>2 DEF OwnInv

(* A worker that writes the row of one of its jobs drops that job. *)
LEMMA OwnDrop ==
    ASSUME PInv, OwnInv, NEW w \in Workers, NEW job \in work[w].batch, Drop(w, job),
           clock' = clock,
           \A r \in JobIds : r # job.id => quoteJobs'[r] = quoteJobs[r]
    PROVE  OwnInv'
<1>0. work \in [Workers -> Local]
  BY DEF PInv, TypeOK
<1>1. /\ work'[w].batch = work[w].batch \ {job}
      /\ \A v \in Workers \ {w} : work'[v] = work[v]
  BY <1>0 DEF Drop, Idle, Local
<1>2. ASSUME NEW v \in Workers, NEW other \in work'[v].batch
      PROVE  other \in work[v].batch /\ quoteJobs'[other.id] = quoteJobs[other.id]
  <2>1. other \in work[v].batch /\ other.id \in JobIds /\ (v = w => other # job)
    BY <1>0, <1>1, <1>2 DEF Local, Job
  <2>2. other.id # job.id
    BY <2>1 DEF OwnInv, OneHolder
  <2> QED
    BY <2>1, <2>2
<1> QED
  BY <1>2, OwnKept

(* Complete, Reschedule and Fail write one row at most. *)
LEMMA OneRowWritten ==
    ASSUME QTypeOK, NEW id \in JobIds, NEW r \in JobIds, r # id,
           \/ \E quote : Complete(id, quote)
           \/ \E reason, after, now : Reschedule(id, reason, after, now)
           \/ \E reason : Fail(id, reason)
    PROVE  quoteJobs'[r] = quoteJobs[r]
BY DEF QTypeOK, Complete, Reschedule, Fail

(* Every step keeps the ownership invariant, action by action. *)
LEMMA OwnStep ==
    ASSUME ExclusiveOrTimely, PInv, OwnInv, [Next]_pipelineVars
    PROVE  OwnInv'
<1>0. /\ QTypeOK /\ work \in [Workers -> Local] /\ clock \in Nat
      /\ \A v \in Workers : \A job \in work[v].batch :
            /\ job \in Job /\ job.id \in JobIds
            /\ Running(job.id) /\ quoteJobs[job.id].leaseUntil = job.lease
  BY TimeAssumption DEF PInv, TypeOK, QTypeOK, Local, Job, OwnInv, HolderOwnsRow
<1>1. ASSUME NEW id \in JobIds, NEW pair \in Pairs, Submit(id, pair) PROVE OwnInv'
  <2>1. PICK now \in Readings : Produce(id, pair, now)
    BY <1>1 DEF Submit
  <2>2. \A r \in JobIds : Running(r) => quoteJobs'[r] = quoteJobs[r]
    BY <1>0, <2>1, InsertRow DEF Inserted, Running
  <2> QED
    BY <1>0, <1>1, <2>2, OwnKept DEF Submit
<1>2. ASSUME NEW w \in Workers, Poll(w) PROVE OwnInv'
  <2>1. PICK ids \in (SUBSET JobIds) \ {{}}, locked \in Locks(w), now \in Readings :
           /\ Reserve(ids, BatchSize, now, locked)
           /\ \/ work' = [work EXCEPT ![w] =
                    [Idle EXCEPT !.pc = "fetch",
                                 !.batch = {[id |-> id,
                                             attempts |-> quoteJobs[id].attempts,
                                             lease |-> now + Lease] : id \in ids}]]
              \/ UNCHANGED work
    BY <1>2 DEF Poll
  <2> DEFINE batch == {[id |-> id, attempts |-> quoteJobs[id].attempts,
                        lease |-> now + Lease] : id \in ids}
  <2>2. /\ \A r \in JobIds \ ids : quoteJobs'[r] = quoteJobs[r]
        /\ \A r \in ids : /\ quoteJobs[r].status = "pending"
                          /\ quoteJobs'[r].status = "running"
                          /\ quoteJobs'[r].attempts = quoteJobs[r].attempts
                          /\ quoteJobs'[r].leaseUntil = now + Lease
    <3>1. \A r \in ids : quoteJobs[r].status = "pending"
      BY <2>1 DEF Reserve, Selected, Eligible
    <3>2. \A r \in JobIds : quoteJobs'[r] =
             IF r \in ids
             THEN [quoteJobs[r] EXCEPT !.status = "running",
                                       !.leaseUntil = now + Lease]
             ELSE quoteJobs[r]
      BY <2>1 DEF Reserve
    <3>3. \A r \in JobIds : quoteJobs[r] \in Row
      BY <1>0 DEF QTypeOK
    <3>4. ASSUME NEW r \in ids
          PROVE  /\ quoteJobs'[r].status = "running"
                 /\ quoteJobs'[r].attempts = quoteJobs[r].attempts
                 /\ quoteJobs'[r].leaseUntil = now + Lease
      <4>1. /\ quoteJobs'[r] = [quoteJobs[r] EXCEPT !.status = "running",
                                                   !.leaseUntil = now + Lease]
            /\ quoteJobs[r] \in Row
        BY <3>2, <3>3, <3>4
      <4> QED
        BY <4>1 DEF Row
    <3> QED
      BY <3>1, <3>2, <3>4
  <2>3. \A v \in Workers : \A job \in work[v].batch :
           job.id \notin ids /\ quoteJobs'[job.id] = quoteJobs[job.id]
    BY <1>0, <2>2 DEF Running
  <2>4. CASE UNCHANGED work
    BY <1>2, <2>3, <2>4, OwnKept DEF Poll
  <2>5. CASE work' = [work EXCEPT ![w] = [Idle EXCEPT !.pc = "fetch", !.batch = batch]]
    <3>1. /\ work'[w].batch = batch
          /\ \A v \in Workers \ {w} : work'[v].batch = work[v].batch
      BY <1>0, <2>5 DEF Idle
    <3>2. \A job \in batch : /\ job.id \in ids
                             /\ job.attempts = quoteJobs[job.id].attempts
                             /\ job.lease = now + Lease
      OBVIOUS
    <3>3. \A a, b \in batch : a.id = b.id => a = b
      OBVIOUS
    <3> HIDE DEF batch
    <3>4. HolderOwnsRow'
      BY <2>2, <2>3, <3>1, <3>2 DEF OwnInv, HolderOwnsRow, Running
    <3>5. OneHolder'
      BY <2>3, <3>1, <3>2, <3>3 DEF OwnInv, OneHolder
    <3>6. Timely => clock <= now + Lease
      BY <1>0, TimelyAssumption, LeaseAssumption, TimeAssumption DEF Readings
    <3> QED
      BY <1>2, <3>1, <3>2, <3>4, <3>5, <3>6 DEF OwnInv, Poll
  <2> QED
    BY <2>1, <2>4, <2>5
<1>3. ASSUME NEW w \in Workers, Clean(w) PROVE OwnInv'
  <2>1. PICK now \in Readings : RecoverExpired(now)
    BY <1>3 DEF Clean
  <2>2. work[w].batch = {}
    BY <1>3 DEF Clean, PInv, LocalOK
  <2>3. ASSUME NEW v \in Workers, NEW job \in work[v].batch
        PROVE  quoteJobs'[job.id] = quoteJobs[job.id]
    <3>1. Timely
      BY <2>2, <2>3 DEF ExclusiveOrTimely
    <3>2. clock <= job.lease /\ job.lease \in Nat
      BY <1>0, <2>3, <3>1 DEF OwnInv, Job
    <3>3. ~Expired(job.id, now)
      BY <1>0, <2>3, <3>2, ReadingIsTime DEF Expired
    <3> QED
      BY <1>0, <2>1, <2>3, <3>3 DEF RecoverExpired
  <2> QED
    BY <1>3, <2>3, OwnKept DEF Clean
<1>4. ASSUME NEW w \in Workers, NEW job \in work[w].batch, HandleBatchError(w, job)
      PROVE  OwnInv'
  <2>1. \A r \in JobIds : r # job.id => quoteJobs'[r] = quoteJobs[r]
    BY <1>0, <1>4, OneRowWritten DEF HandleBatchError, Try, RescheduleOrFail
  <2> QED
    BY <1>4, <2>1, OwnDrop DEF HandleBatchError
<1>5. ASSUME NEW w \in Workers, NEW job \in work[w].batch, FailMissing(w, job)
      PROVE  OwnInv'
  <2>1. \A r \in JobIds : r # job.id => quoteJobs'[r] = quoteJobs[r]
    BY <1>0, <1>5, OneRowWritten DEF FailMissing, Try
  <2> QED
    BY <1>5, <2>1, OwnDrop DEF FailMissing
<1>6. ASSUME NEW w \in Workers, CompleteJob(w) \/ RetryJob(w) PROVE OwnInv'
  <2>1. work[w].cur \in work[w].batch
    BY <1>6 DEF CompleteJob, RetryJob, PInv, LocalOK
  <2>2. \A r \in JobIds : r # work[w].cur.id => quoteJobs'[r] = quoteJobs[r]
    BY <1>0, <1>6, <2>1, OneRowWritten
       DEF CompleteJob, RetryJob, Try, RescheduleOrFail
  <2> QED
    BY <1>6, <2>1, <2>2, OwnDrop DEF CompleteJob, RetryJob
<1>7. ASSUME NEW w \in Workers,
             FetchOk(w) \/ FetchError(w) \/ \E job \in work[w].batch : Upsert(w, job)
      PROVE  OwnInv'
  <2>1. \A v \in Workers : work'[v].batch = work[v].batch
    <3>1. CASE FetchOk(w)
      BY <1>0, <3>1 DEF FetchOk, Local
    <3>2. CASE FetchError(w)
      BY <1>0, <3>2 DEF FetchError, Local
    <3>3. CASE \E job \in work[w].batch : Upsert(w, job)
      <4>1. PICK job \in work[w].batch, pc \in {"complete", "retry"} :
               work' = [work EXCEPT ![w] = [work[w] EXCEPT !.pc = pc, !.cur = job]]
        BY <3>3 DEF Upsert
      <4> QED
        BY <1>0, <4>1 DEF Local
    <3> QED
      BY <1>7, <3>1, <3>2, <3>3
  <2>2. UNCHANGED <<quoteJobs, clock>>
    BY <1>7 DEF FetchOk, FetchError, Upsert
  <2> QED
    BY <2>1, <2>2, OwnKept
<1>8. ASSUME NEW w \in Workers, Crash(w) PROVE OwnInv'
  <2>1. \A v \in Workers : work'[v].batch \subseteq work[v].batch
    BY <1>0, <1>8 DEF Crash, Idle
  <2> QED
    BY <1>8, <2>1, OwnKept DEF Crash
<1>9. CASE PassTime
  <2>1. HolderOwnsRow' /\ OneHolder'
    BY <1>9 DEF PassTime, Tick, OwnInv, HolderOwnsRow, OneHolder, Running
  <2>2. Timely => \A w \in Workers : \A job \in work'[w].batch : clock' <= job.lease
    BY <1>0, <1>9 DEF PassTime, Tick, Job
  <2> QED
    BY <2>1, <2>2 DEF OwnInv
<1>10. CASE UNCHANGED pipelineVars
  BY <1>10, OwnKept DEF pipelineVars
<1> QED
  BY <1>1, <1>2, <1>3, <1>4, <1>5, <1>6, <1>7, <1>8, <1>9, <1>10
     DEF Next, WorkerStep

(* The ownership invariant holds of one worker or of timely ones. *)
LEMMA OwnInvHolds ==
    ASSUME ExclusiveOrTimely
    PROVE  Spec => []OwnInv
<1>1. Init => OwnInv
  BY DEF Init, Idle, OwnInv, HolderOwnsRow, OneHolder
<1>2. PInv /\ OwnInv /\ [Next]_pipelineVars => OwnInv'
  BY OwnStep
<1> QED
  BY <1>1, <1>2, PInvHolds, PTL DEF Spec

(* Ownership without fencing: the queue checks no owner, yet with a single *)
(* worker, however slow, or with any number of workers whose batches end   *)
(* within the lease, a job in a worker's batch is running under that       *)
(* worker's lease and is in no other batch, through crashes, lost replies  *)
(* and failed statements.                                                  *)
THEOREM HoldersOwnTheirRows ==
    ASSUME ExclusiveOrTimely
    PROVE  Spec => [](HolderOwnsRow /\ OneHolder)
<1>1. OwnInv => HolderOwnsRow /\ OneHolder
  BY DEF OwnInv
<1> QED
  BY <1>1, OwnInvHolds, PTL

(* Only Reschedule charges an attempt, and it charges one. *)
LEMMA OnlyRescheduleCharges ==
    ASSUME QTypeOK, NEW r \in JobIds,
           \/ \E id \in JobIds, pair \in Pairs, now \in Readings : Produce(id, pair, now)
           \/ \E ids, n, now, locked : Reserve(ids, n, now, locked)
           \/ \E id \in JobIds : \E quote : Complete(id, quote)
           \/ \E id \in JobIds : \E reason : Fail(id, reason)
           \/ \E now : RecoverExpired(now)
    PROVE  ~(quoteJobs'[r].attempts > quoteJobs[r].attempts)
<1>0. quoteJobs \in [JobIds -> Row] /\ quoteJobs[r] \in Row /\ quoteJobs[r].attempts \in Nat
  BY DEF QTypeOK, Row
<1>1. ASSUME NEW id \in JobIds, NEW pair \in Pairs, NEW now \in Readings,
             Produce(id, pair, now)
      PROVE  quoteJobs'[r].attempts \in {0, quoteJobs[r].attempts}
  BY <1>0, <1>1 DEF Produce, Enqueue, NoRow
<1>2. ASSUME NEW ids, NEW n, NEW now, NEW locked, Reserve(ids, n, now, locked)
      PROVE  quoteJobs'[r].attempts = quoteJobs[r].attempts
  BY <1>0, <1>2 DEF Reserve, Row
<1>3. ASSUME NEW id \in JobIds, NEW quote, Complete(id, quote)
      PROVE  quoteJobs'[r].attempts = quoteJobs[r].attempts
  <2>1. CASE r = id /\ Running(id)
    <3>1. quoteJobs'[r] = [quoteJobs[r] EXCEPT !.status = "done",
                              !.completed = TRUE, !.quote = quote]
      BY <1>0, <1>3, <2>1 DEF Complete
    <3> QED
      BY <1>0, <3>1 DEF Row
  <2>2. CASE ~(r = id /\ Running(id))
    BY <1>0, <1>3, <2>2 DEF Complete
  <2> QED
    BY <2>1, <2>2
<1>4. ASSUME NEW id \in JobIds, NEW reason, Fail(id, reason)
      PROVE  quoteJobs'[r].attempts = quoteJobs[r].attempts
  <2>1. CASE r = id /\ Running(id) /\ Fits(reason)
    <3>1. quoteJobs'[r] = [quoteJobs[r] EXCEPT !.status = "failed",
                              !.completed = TRUE, !.lastError = reason]
      BY <1>0, <1>4, <2>1 DEF Fail
    <3> QED
      BY <1>0, <3>1 DEF Row
  <2>2. CASE ~(r = id /\ Running(id) /\ Fits(reason))
    BY <1>0, <1>4, <2>2 DEF Fail
  <2> QED
    BY <2>1, <2>2
<1>5. ASSUME NEW now, RecoverExpired(now)
      PROVE  quoteJobs'[r].attempts = quoteJobs[r].attempts
  BY <1>0, <1>5 DEF RecoverExpired, Row
<1>6. quoteJobs'[r].attempts \in {0, quoteJobs[r].attempts}
  BY <1>1, <1>2, <1>3, <1>4, <1>5
<1> QED
  BY <1>0, <1>6

(* What Reschedule does to the attempts of the row it names. *)
LEMMA RescheduleCharges ==
    ASSUME QTypeOK, NEW id \in JobIds, NEW reason, NEW after, NEW now,
           Reschedule(id, reason, after, now), NEW r \in JobIds
    PROVE  \/ quoteJobs'[r].attempts = quoteJobs[r].attempts
           \/ r = id /\ quoteJobs'[r].attempts = quoteJobs[r].attempts + 1
<1>0. quoteJobs \in [JobIds -> Row] /\ quoteJobs[r] \in Row
  BY DEF QTypeOK
<1>1. CASE r = id /\ Running(id) /\ Fits(reason)
  <2>1. quoteJobs'[r] = [quoteJobs[r] EXCEPT !.status = "pending",
                            !.nextRunAt = now + after, !.attempts = @ + 1,
                            !.lastError = reason, !.leaseUntil = Null]
    BY <1>0, <1>1 DEF Reschedule
  <2> QED
    BY <1>0, <1>1, <2>1 DEF Row
<1>2. CASE ~(r = id /\ Running(id) /\ Fits(reason))
  BY <1>0, <1>2 DEF Reschedule
<1> QED
  BY <1>1, <1>2

(* rescheduleOrFail on a copy that agrees with the row keeps the budget. *)
LEMMA RetryKeepsBudget ==
    ASSUME QTypeOK, NEW job \in Job, quoteJobs[job.id].attempts = job.attempts,
           NEW reason, Try(RescheduleOrFail(job, reason)), NEW r \in JobIds,
           quoteJobs'[r].attempts > quoteJobs[r].attempts
    PROVE  quoteJobs'[r].attempts <= MaxAttempts
<1>0. /\ job.id \in JobIds /\ job.attempts \in Nat
      /\ quoteJobs[r].attempts \in Nat
  BY DEF Job, QTypeOK, Row
<1>1. CASE UNCHANGED quoteJobs
  BY <1>0, <1>1
<1>2. CASE Fail(job.id, reason)
  BY <1>0, <1>2, OnlyRescheduleCharges
<1>3. ASSUME NEW now, NEW delay, job.attempts < MaxAttempts,
             Reschedule(job.id, reason, delay, now)
      PROVE  quoteJobs'[r].attempts <= MaxAttempts
  BY <1>0, <1>3, RescheduleCharges, AttemptsAssumption
<1> QED
  BY <1>1, <1>2, <1>3 DEF Try, RescheduleOrFail

(* A step that charges beyond the budget handles an exceeded quota. *)
LEMMA BudgetStep ==
    ASSUME PInv, OwnInv, [Next]_pipelineVars, NEW r \in JobIds,
           quoteJobs'[r].attempts > quoteJobs[r].attempts,
           quoteJobs'[r].attempts > MaxAttempts
    PROVE  QuotaHit(r)
<1>0. /\ QTypeOK /\ quoteJobs[r].attempts \in Nat
      /\ quoteJobs'[r].attempts \in Nat
      /\ \A w \in Workers : \A job \in work[w].batch :
            /\ job \in Job /\ job.id \in JobIds
            /\ quoteJobs[job.id].attempts = job.attempts
  <2>1. QTypeOK'
    BY PInvStep DEF PInv, TypeOK
  <2> QED
    BY <2>1 DEF PInv, TypeOK, QTypeOK, Row, Local, Job, OwnInv, HolderOwnsRow
<1>1. ~UNCHANGED quoteJobs
  BY <1>0
<1>2. ASSUME NEW id \in JobIds, NEW pair \in Pairs, Submit(id, pair) PROVE FALSE
  BY <1>0, <1>2, OnlyRescheduleCharges DEF Submit
<1>3. ASSUME NEW w \in Workers, Poll(w) \/ Clean(w) PROVE FALSE
  BY <1>0, <1>3, OnlyRescheduleCharges DEF Poll, Clean
<1>4. ASSUME NEW w \in Workers, NEW job \in work[w].batch, HandleBatchError(w, job)
      PROVE  QuotaHit(r)
  <2>1. CASE Try(RescheduleOrFail(job, work[w].res.reason))
    BY <1>0, <2>1, RetryKeepsBudget, AttemptsAssumption
  <2>2. CASE Try(Fail(job.id, work[w].res.reason))
    BY <1>0, <1>1, <2>2, OnlyRescheduleCharges DEF Try
  <2>3. ASSUME work[w].res.code = "quota_exceeded", NEW now \in Readings,
               Reschedule(job.id, work[w].res.reason, QuotaDelay, now)
        PROVE  QuotaHit(r)
    <3>1. r = job.id
      BY <1>0, <2>3, RescheduleCharges
    <3> QED
      BY <2>3, <3>1 DEF QuotaHit
  <2> QED
    BY <1>1, <1>4, <2>1, <2>2, <2>3 DEF HandleBatchError, Try
<1>5. ASSUME NEW w \in Workers, NEW job \in work[w].batch, FailMissing(w, job)
      PROVE  FALSE
  BY <1>0, <1>1, <1>5, OnlyRescheduleCharges DEF FailMissing, Try
<1>6. ASSUME NEW w \in Workers, CompleteJob(w) PROVE FALSE
  <2>1. work[w].cur.id \in JobIds
    BY <1>0, <1>6 DEF CompleteJob, PInv, LocalOK
  <2> QED
    BY <1>0, <1>1, <1>6, <2>1, OnlyRescheduleCharges DEF CompleteJob, Try
<1>7. ASSUME NEW w \in Workers, RetryJob(w) PROVE FALSE
  <2>1. work[w].cur \in work[w].batch
    BY <1>7 DEF RetryJob, PInv, LocalOK
  <2>2. PICK reason \in Reasons : Try(RescheduleOrFail(work[w].cur, reason))
    BY <1>7 DEF RetryJob
  <2> QED
    BY <1>0, <2>1, <2>2, RetryKeepsBudget, AttemptsAssumption
<1>8. ASSUME NEW w \in Workers,
             \/ FetchOk(w) \/ FetchError(w) \/ Crash(w)
             \/ \E job \in work[w].batch : Upsert(w, job)
      PROVE  FALSE
  BY <1>1, <1>8 DEF FetchOk, FetchError, Crash, Upsert
<1>9. ~PassTime /\ ~UNCHANGED pipelineVars
  BY <1>1 DEF PassTime, Tick, pipelineVars
<1> QED
  BY <1>2, <1>3, <1>4, <1>5, <1>6, <1>7, <1>8, <1>9 DEF Next, WorkerStep

(* The retry budget: under the same condition as ownership, no error but   *)
(* an exceeded quota ever takes a job beyond MaxAttempts; the decision of  *)
(* rescheduleOrFail on the worker's copy is sound.                         *)
THEOREM BudgetIsKept ==
    ASSUME ExclusiveOrTimely
    PROVE  Spec => BudgetKept
<1>1. PInv /\ OwnInv /\ [Next]_pipelineVars
        => [\A id \in JobIds :
              /\ quoteJobs'[id].attempts > quoteJobs[id].attempts
              /\ quoteJobs'[id].attempts > MaxAttempts
              => QuotaHit(id)]_pipelineVars
  BY BudgetStep
<1> QED
  BY <1>1, PInvHolds, OwnInvHolds, PTL DEF Spec, BudgetKept

-----------------------------------------------------------------------------
(* Results: for any number of workers, however slow. *)

ResultInv ==
    /\ \A id \in Stored : quoteJobs[id].key[2] \in Nat /\ quoteJobs[id].key[2] <= clock
    /\ \A w \in Workers : work[w].res.code = "ok"
          => \A job \in work[w].batch :
                work[w].res.quote.at >= quoteJobs[job.id].key[2]
    /\ \A w \in Workers : work[w].pc = "complete" => quotes[PairOf(work[w].cur)] # Null
    /\ FetchedWithinBucket
    /\ DoneIsCached

(* A bucket starts no later than any time in it. *)
LEMMA BucketStart ==
    ASSUME NEW t \in Nat
    PROVE  (t \div BucketSize) * BucketSize \in Nat /\ (t \div BucketSize) * BucketSize <= t
<1>1. t \div BucketSize \in Nat
  BY BucketAssumption
<1>2. t = BucketSize * (t \div BucketSize) + (t % BucketSize)
      /\ t % BucketSize \in 0..(BucketSize - 1)
  BY BucketAssumption
<1> QED
  BY <1>1, <1>2, BucketAssumption

(* The key of a new row is of a bucket that has begun. *)
LEMMA InsertedKey ==
    ASSUME QTypeOK, NEW now \in Readings, NEW id \in JobIds, NEW pair \in Pairs,
           Produce(id, pair, now), NEW r \in JobIds
    PROVE  \/ quoteJobs'[r] = quoteJobs[r]
           \/ /\ quoteJobs[r].status = "absent"
              /\ quoteJobs'[r].status = "pending"
              /\ quoteJobs'[r].key[2] \in Nat
              /\ quoteJobs'[r].key[2] <= clock
<1>0. now \in Nat /\ now <= clock /\ clock \in Nat
  BY ReadingIsTime, TimeAssumption DEF QTypeOK
<1>1. CASE r = id /\ ~Conflict(DedupKey(pair, now))
  <2>1. /\ quoteJobs[r].status = "absent"
        /\ quoteJobs'[r] = [NoRow EXCEPT !.status = "pending", !.pair = pair,
                !.key = DedupKey(pair, now), !.nextRunAt = now]
    BY <1>1 DEF QTypeOK, Produce, Enqueue, Stored
  <2>2. quoteJobs'[r].key = <<pair, (now \div BucketSize) * BucketSize>>
        /\ quoteJobs'[r].status = "pending"
    BY <2>1 DEF NoRow, DedupKey
  <2> DEFINE bucket == (now \div BucketSize) * BucketSize
  <2>3. bucket \in Nat /\ bucket <= now
    BY <1>0, BucketStart
  <2> HIDE DEF bucket
  <2>4. quoteJobs'[r].key[2] = bucket
    BY <2>2 DEF bucket
  <2> QED
    BY <1>0, <2>1, <2>2, <2>3, <2>4
<1>2. CASE ~(r = id /\ ~Conflict(DedupKey(pair, now)))
  BY <1>2 DEF QTypeOK, Produce, Enqueue
<1> QED
  BY <1>1, <1>2

(* A stored row keeps its pair and key. *)
LEMMA IdentityKept ==
    ASSUME QTypeOK, NEW now \in Readings, Statement(now), NEW r \in Stored
    PROVE  SameIdentity(r)
BY StatementCases, InsertRow, UpdateRow
   DEF RowUpdate, Inserted, Reserved, Returned, Ended, SameIdentity, Stored

(* Only Complete makes a row done. *)
LEMMA OnlyCompleteDelivers ==
    ASSUME QTypeOK, NEW r \in JobIds, quoteJobs'[r].status = "done",
           \/ \E id \in JobIds, pair \in Pairs, now \in Readings : Produce(id, pair, now)
           \/ \E ids, n, now, locked : Reserve(ids, n, now, locked)
           \/ \E id \in JobIds : \E reason, after, now : Reschedule(id, reason, after, now)
           \/ \E id \in JobIds : \E reason : Fail(id, reason)
           \/ \E now : RecoverExpired(now)
    PROVE  quoteJobs'[r] = quoteJobs[r]
<1>0. quoteJobs \in [JobIds -> Row] /\ quoteJobs[r] \in Row
  BY DEF QTypeOK
<1>1. ASSUME NEW id \in JobIds, NEW pair \in Pairs, NEW now \in Readings,
             Produce(id, pair, now)
      PROVE  quoteJobs'[r] = quoteJobs[r]
  BY <1>0, <1>1, InsertedKey
<1>2. ASSUME NEW ids, NEW n, NEW now, NEW locked, Reserve(ids, n, now, locked)
      PROVE  quoteJobs'[r] = quoteJobs[r]
  BY <1>0, <1>2 DEF Reserve, Row
<1>3. ASSUME NEW id \in JobIds, NEW reason, NEW after, NEW now,
             Reschedule(id, reason, after, now)
      PROVE  quoteJobs'[r] = quoteJobs[r]
  <2>1. CASE r = id /\ Running(id) /\ Fits(reason)
    <3>1. quoteJobs'[r] = [quoteJobs[r] EXCEPT !.status = "pending",
                              !.nextRunAt = now + after, !.attempts = @ + 1,
                              !.lastError = reason, !.leaseUntil = Null]
      BY <1>0, <1>3, <2>1 DEF Reschedule
    <3> QED
      BY <1>0, <3>1 DEF Row
  <2>2. CASE ~(r = id /\ Running(id) /\ Fits(reason))
    BY <1>0, <1>3, <2>2 DEF Reschedule
  <2> QED
    BY <2>1, <2>2
<1>4. ASSUME NEW id \in JobIds, NEW reason, Fail(id, reason)
      PROVE  quoteJobs'[r] = quoteJobs[r]
  <2>1. CASE r = id /\ Running(id) /\ Fits(reason)
    <3>1. quoteJobs'[r] = [quoteJobs[r] EXCEPT !.status = "failed",
                              !.completed = TRUE, !.lastError = reason]
      BY <1>0, <1>4, <2>1 DEF Fail
    <3> QED
      BY <1>0, <3>1 DEF Row
  <2>2. CASE ~(r = id /\ Running(id) /\ Fits(reason))
    BY <1>0, <1>4, <2>2 DEF Fail
  <2> QED
    BY <2>1, <2>2
<1>5. ASSUME NEW now, RecoverExpired(now)
      PROVE  quoteJobs'[r] = quoteJobs[r]
  BY <1>0, <1>5 DEF RecoverExpired, Row
<1> QED
  BY <1>1, <1>2, <1>3, <1>4, <1>5

(* A row becomes done only when the worker that upserted the quote of its  *)
(* pair completes it, with that quote.                                     *)
LEMMA NewlyDone ==
    ASSUME PInv, [Next]_pipelineVars, NEW r \in JobIds, quoteJobs'[r].status = "done",
           quoteJobs'[r] # quoteJobs[r]
    PROVE  \E w \in Workers :
              /\ work[w].pc = "complete" /\ r = work[w].cur.id
              /\ quotes' = quotes
              /\ quoteJobs'[r].quote = work[w].res.quote
              /\ quoteJobs'[r].key = quoteJobs[r].key
              /\ quoteJobs'[r].pair = quoteJobs[r].pair
<1>0. /\ QTypeOK /\ quoteJobs \in [JobIds -> Row]
      /\ \A w \in Workers : /\ \A job \in work[w].batch : job.id \in JobIds
                            /\ work[w].pc = "retry" => work[w].cur.id \in JobIds
  BY DEF PInv, TypeOK, QTypeOK, LocalOK, Stored
<1>1. ASSUME NEW w \in Workers, CompleteJob(w)
      PROVE  /\ work[w].pc = "complete" /\ r = work[w].cur.id
             /\ quotes' = quotes
             /\ quoteJobs'[r].quote = work[w].res.quote
             /\ quoteJobs'[r].key = quoteJobs[r].key
             /\ quoteJobs'[r].pair = quoteJobs[r].pair
  <2>1. work[w].pc = "complete" /\ quotes' = quotes
    BY <1>1 DEF CompleteJob
  <2>2. Complete(work[w].cur.id, work[w].res.quote) /\ Running(work[w].cur.id)
    BY <1>1 DEF CompleteJob, Try, Complete
  <2>3. r = work[w].cur.id
    BY <1>0, <2>2 DEF Complete
  <2>4. quoteJobs'[r] = [quoteJobs[r] EXCEPT !.status = "done",
                            !.completed = TRUE, !.quote = work[w].res.quote]
    BY <1>0, <2>2, <2>3 DEF Complete
  <2>5. quoteJobs[r] \in Row
    BY <1>0
  <2> QED
    BY <2>1, <2>3, <2>4, <2>5 DEF Row
<1>2. ASSUME NEW w \in Workers, NEW job \in work[w].batch,
             HandleBatchError(w, job) \/ FailMissing(w, job)
      PROVE  quoteJobs'[r] = quoteJobs[r]
  <2>0. job.id \in JobIds
    BY <1>0, <1>2
  <2>1. \/ UNCHANGED quoteJobs
        \/ \E reason, after, now : Reschedule(job.id, reason, after, now)
        \/ \E reason : Fail(job.id, reason)
    BY <1>2 DEF HandleBatchError, FailMissing, Try, RescheduleOrFail
  <2> QED
    BY <1>0, <2>0, <2>1, OnlyCompleteDelivers
<1>3. ASSUME NEW w \in Workers, RetryJob(w)
      PROVE  quoteJobs'[r] = quoteJobs[r]
  BY <1>0, <1>3, OnlyCompleteDelivers DEF RetryJob, Try, RescheduleOrFail
<1>4. ASSUME NEW w \in Workers, Poll(w) \/ Clean(w)
      PROVE  quoteJobs'[r] = quoteJobs[r]
  BY <1>0, <1>4, OnlyCompleteDelivers DEF Poll, Clean
<1>5. ASSUME NEW id \in JobIds, NEW pair \in Pairs, Submit(id, pair)
      PROVE  quoteJobs'[r] = quoteJobs[r]
  BY <1>0, <1>5, OnlyCompleteDelivers DEF Submit
<1>6. ASSUME NEW w \in Workers,
             \/ FetchOk(w) \/ FetchError(w) \/ Crash(w)
             \/ \E job \in work[w].batch : Upsert(w, job)
      PROVE  quoteJobs'[r] = quoteJobs[r]
  BY <1>6 DEF FetchOk, FetchError, Crash, Upsert
<1>7. ~PassTime /\ ~UNCHANGED pipelineVars
  BY DEF PassTime, Tick, pipelineVars
<1> QED
  BY <1>1, <1>2, <1>3, <1>4, <1>5, <1>6, <1>7 DEF Next, WorkerStep

(* How a worker's step changes its local state, as far as results go: it   *)
(* loses its result, goes on with it, has just got it, or has upserted it. *)
Advance(w) ==
    \/ work'[w] = work[w]
    \/ work'[w].res.code # "ok" /\ work'[w].pc # "complete"
    \/ /\ work'[w].pc = "demux"
       /\ work'[w].batch \subseteq work[w].batch
       /\ \/ work'[w].res = work[w].res
          \/ work'[w].res.quote = [no |-> fetches', at |-> clock]
    \/ /\ work'[w].batch = work[w].batch
       /\ work'[w].res = work[w].res
       /\ work'[w].cur \in work[w].batch
       /\ work[w].res.code = "ok"
       /\ work'[w].pc = "complete"
             => quotes' = [quotes EXCEPT ![PairOf(work'[w].cur)] = work[w].res.quote]

(* How one step of a worker moves its local state. *)
LEMMA WorkerAdvances ==
    ASSUME PInv, NEW w \in Workers, WorkerStep(w)
    PROVE  Advance(w) /\ \A v \in Workers \ {w} : work'[v] = work[v]
<1>0. work \in [Workers -> Local] /\ work[w] \in Local
  BY DEF PInv, TypeOK
<1>1. CASE UNCHANGED work
  BY <1>1 DEF Advance
<1>2. ASSUME NEW job, Drop(w, job)
      PROVE  Advance(w) /\ \A v \in Workers \ {w} : work'[v] = work[v]
  <2>1. CASE work[w].batch \ {job} = {}
    BY <1>0, <1>2, <2>1 DEF Drop, Advance, Idle, NoResult
  <2>2. CASE work[w].batch \ {job} # {}
    <3>1. work' = [work EXCEPT ![w] =
                     [work[w] EXCEPT !.pc = "demux", !.cur = Null,
                                     !.batch = work[w].batch \ {job}]]
      BY <1>2, <2>2 DEF Drop
    <3> QED
      BY <1>0, <3>1 DEF Advance, Local
  <2> QED
    BY <2>1, <2>2
<1>3. CASE Poll(w)
  <2>1. CASE ~UNCHANGED work
    <3>1. PICK batch : work' = [work EXCEPT ![w] =
                                  [Idle EXCEPT !.pc = "fetch", !.batch = batch]]
      BY <1>3, <2>1 DEF Poll
    <3> QED
      BY <1>0, <3>1 DEF Advance, Idle, NoResult
  <2> QED
    BY <1>1, <2>1
<1>4. CASE FetchOk(w)
  BY <1>0, <1>4 DEF FetchOk, Advance, Local
<1>5. CASE FetchError(w)
  <2>1. PICK code \in Codes, reason \in Reasons :
          work' = [work EXCEPT ![w] =
                     [work[w] EXCEPT !.pc = "demux",
                                     !.res = [NoResult EXCEPT
                                                !.code = code,
                                                !.reason = reason]]]
    BY <1>5 DEF FetchError
  <2> QED
    BY <1>0, <2>1 DEF Advance, Local, NoResult, Codes
<1>6. ASSUME NEW job \in work[w].batch, Upsert(w, job)
      PROVE  Advance(w) /\ \A v \in Workers \ {w} : work'[v] = work[v]
  <2>1. PICK pc \in {"complete", "retry"} :
           /\ work' = [work EXCEPT ![w] = [work[w] EXCEPT !.pc = pc, !.cur = job]]
           /\ pc = "complete" => UpsertBatch(w, job)
    BY <1>6 DEF Upsert
  <2>2. /\ work'[w].pc = pc /\ work'[w].cur = job
        /\ work'[w].batch = work[w].batch /\ work'[w].res = work[w].res
        /\ \A v \in Workers \ {w} : work'[v] = work[v]
    BY <1>0, <2>1 DEF Local
  <2> QED
    BY <1>6, <2>1, <2>2 DEF Advance, Upsert, UpsertBatch
<1>7. CASE Crash(w)
  BY <1>0, <1>7 DEF Crash, Advance, Idle, NoResult
<1> QED
  BY <1>1, <1>2, <1>3, <1>4, <1>5, <1>6, <1>7
     DEF WorkerStep, Clean, HandleBatchError, FailMissing, CompleteJob, RetryJob

(* A cached quote is replaced, never removed. *)
LEMMA CacheStays ==
    ASSUME PInv, [Next]_pipelineVars, NEW p \in Pairs, quotes[p] # Null
    PROVE  quotes'[p] # Null
<1>0. quotes \in [Pairs -> Snapshots \cup {Null}] /\ \A w \in Workers : LocalOK(w)
  BY DEF PInv, TypeOK
<1>1. ASSUME NEW w \in Workers, NEW job \in work[w].batch, Upsert(w, job)
      PROVE  quotes'[p] # Null
  BY <1>0, <1>1, NullAssumption DEF Upsert, UpsertBatch, LocalOK
<1>2. CASE ~(\E w \in Workers : \E job \in work[w].batch : Upsert(w, job))
  BY <1>2 DEF Next, WorkerStep, Submit, PassTime, Poll, Clean, FetchOk, FetchError,
              HandleBatchError, FailMissing, CompleteJob, RetryJob, Crash, pipelineVars
<1> QED
  BY <1>1, <1>2

(* Every step keeps the invariant on fetched and cached quotes. *)
LEMMA ResultStep ==
    ASSUME PInv, ResultInv, [Next]_pipelineVars
    PROVE  ResultInv'
<1>0. /\ QTypeOK /\ IInv /\ QTypeOK' /\ clock \in Nat /\ clock' \in Nat
      /\ \A w \in Workers : LocalOK(w)
      /\ quotes \in [Pairs -> Snapshots \cup {Null}]
  BY PInvStep, TimeAssumption DEF PInv, TypeOK, QTypeOK
<1>1. clock <= clock'
  <2>1. clock' = clock \/ clock' = clock + 1
    BY DEF Next, WorkerStep, Submit, PassTime, Tick, Poll, Clean, FetchOk, FetchError,
              HandleBatchError, FailMissing, CompleteJob, RetryJob, Crash, Upsert,
              pipelineVars
  <2> QED
    BY <1>0, <2>1
<1>2. \A r \in Stored : /\ quoteJobs'[r].key = quoteJobs[r].key
                        /\ quoteJobs'[r].pair = quoteJobs[r].pair
  BY <1>0, NextIsStatement, IdentityKept DEF SameIdentity, pipelineVars
<1>3. \A r \in Stored' : quoteJobs'[r].key[2] \in Nat /\ quoteJobs'[r].key[2] <= clock'
  <2>1. ASSUME NEW now \in Readings, Statement(now), NEW r \in Stored'
        PROVE  quoteJobs'[r].key[2] \in Nat /\ quoteJobs'[r].key[2] <= clock'
    <3>1. CASE r \in Stored
      BY <1>0, <1>1, <1>2, <3>1 DEF ResultInv
    <3>2. CASE r \notin Stored
      <4>1. ~Update(now)
        BY <1>0, <2>1, <3>2, UpdateRow
           DEF Stored, RowUpdate, Reserved, Returned, Ended, Running
      <4>2. PICK id \in JobIds, pair \in Pairs : Produce(id, pair, now)
        BY <2>1, <4>1, StatementCases
      <4> QED
        BY <1>0, <1>1, <2>1, <3>2, <4>2, InsertedKey DEF Stored
    <3> QED
      BY <3>1, <3>2
  <2>2. CASE UNCHANGED quoteJobs
    BY <1>0, <1>1, <2>2 DEF ResultInv, Stored
  <2> QED
    BY <2>1, <2>2, NextIsStatement DEF pipelineVars
<1>4. ASSUME NEW v \in Workers
      PROVE  /\ work'[v].res.code = "ok"
                   => \A job \in work'[v].batch :
                         work'[v].res.quote.at >= quoteJobs'[job.id].key[2]
             /\ work'[v].pc = "complete" => quotes'[quoteJobs'[work'[v].cur.id].pair] # Null
  <2>0. \A job \in work[v].batch :
           /\ job.id \in Stored
           /\ quoteJobs'[job.id].key = quoteJobs[job.id].key
           /\ quoteJobs[job.id].key[2] \in Nat
           /\ quoteJobs[job.id].key[2] <= clock
           /\ quoteJobs'[job.id].pair = PairOf(job)
           /\ PairOf(job) \in Pairs
    BY <1>0, <1>2 DEF LocalOK, ResultInv, PairOf, IInv, RowOK, Stored
  <2>1. work'[v] = work[v] \/ Advance(v)
    BY WorkerAdvances DEF Next, Submit, PassTime, pipelineVars
  <2>2. CASE work'[v] = work[v]
    <3>1. work[v].pc = "complete" => work[v].cur \in work[v].batch
      BY <1>0 DEF LocalOK
    <3> QED
      BY <2>0, <2>2, <3>1, CacheStays DEF ResultInv, PairOf
  <2>3. CASE work'[v].res.code # "ok" /\ work'[v].pc # "complete"
    BY <2>3
  <2>4. CASE /\ work'[v].pc = "demux"
             /\ work'[v].batch \subseteq work[v].batch
             /\ \/ work'[v].res = work[v].res
                \/ work'[v].res.quote = [no |-> fetches', at |-> clock]
    BY <1>0, <2>0, <2>4 DEF ResultInv
  <2>5. CASE /\ work'[v].batch = work[v].batch
             /\ work'[v].res = work[v].res
             /\ work'[v].cur \in work[v].batch
             /\ work[v].res.code = "ok"
             /\ work'[v].pc = "complete"
                   => quotes' = [quotes EXCEPT ![PairOf(work'[v].cur)] = work[v].res.quote]
    <3>1. work'[v].pc = "complete" => quotes'[PairOf(work'[v].cur)] # Null
      BY <1>0, <2>0, <2>5, NullAssumption DEF LocalOK
    <3> QED
      BY <2>0, <2>5, <3>1 DEF ResultInv, PairOf
  <2> QED
    BY <2>1, <2>2, <2>3, <2>4, <2>5 DEF Advance
<1>5. ASSUME NEW r \in JobIds, quoteJobs'[r].status = "done"
      PROVE  /\ quoteJobs'[r].quote.at >= quoteJobs'[r].key[2]
             /\ quotes'[quoteJobs'[r].pair] # Null
  <2>1. CASE quoteJobs'[r] = quoteJobs[r]
    <3>1. quoteJobs[r].status = "done" /\ quoteJobs[r].pair \in Pairs
      BY <1>0, <1>5, <2>1 DEF IInv, RowOK
    <3> QED
      BY <2>1, <3>1, CacheStays DEF ResultInv, FetchedWithinBucket, DoneIsCached
  <2>2. CASE quoteJobs'[r] # quoteJobs[r]
    <3>1. PICK w \in Workers :
             /\ work[w].pc = "complete" /\ r = work[w].cur.id
             /\ quotes' = quotes
             /\ quoteJobs'[r].quote = work[w].res.quote
             /\ quoteJobs'[r].key = quoteJobs[r].key
             /\ quoteJobs'[r].pair = quoteJobs[r].pair
      BY <1>5, <2>2, NewlyDone
    <3>2. /\ quotes[PairOf(work[w].cur)] # Null
          /\ work[w].res.quote.at >= quoteJobs[work[w].cur.id].key[2]
      BY <1>0, <3>1 DEF LocalOK, ResultInv
    <3> QED
      BY <3>1, <3>2 DEF PairOf
  <2> QED
    BY <2>1, <2>2
<1> QED
  BY <1>3, <1>4, <1>5 DEF ResultInv, FetchedWithinBucket, DoneIsCached, PairOf

(* Freshness and visibility of results, for any number of slow, crashing   *)
(* workers: the quote of a done job was fetched no earlier than the start  *)
(* of its clients' bucket, and its pair can be read from the cache.        *)
THEOREM ResultsAreFreshAndCached == Spec => [](FetchedWithinBucket /\ DoneIsCached)
<1>1. Init => ResultInv
  BY DEF Init, QInit, NoRow, Idle, NoResult, ResultInv, Stored, FetchedWithinBucket,
         DoneIsCached
<1>2. PInv /\ ResultInv /\ [Next]_pipelineVars => ResultInv'
  BY ResultStep
<1>3. ResultInv => FetchedWithinBucket /\ DoneIsCached
  BY DEF ResultInv
<1> QED
  BY <1>1, <1>2, <1>3, PInvHolds, PTL DEF Spec
=============================================================================
