--------------------------- MODULE ProgressProofs ---------------------------
(***************************************************************************)
(* Pipeline implements JobProgress, for every set of jobs, pairs and       *)
(* workers: each step of the pipeline is, seen from any one job, a step of *)
(* that job's life or no step at all.  What TLC checks of JobProgress is   *)
(* therefore about jobs of the pipeline.                                   *)
(***************************************************************************)
EXTENDS PipelineProgress, PipelineProofs

(* What the mapping needs beyond PInv: a row that was never inserted has   *)
(* no attempts, a running one was due, and no batch holds a job twice.     *)
ViewInv ==
    /\ \A id \in JobIds : quoteJobs[id].status = "absent" => quoteJobs[id].attempts = 0
    /\ \A id \in JobIds : Running(id) => quoteJobs[id].nextRunAt <= clock
    /\ \A w \in Workers : \A a, b \in work[w].batch : a.id = b.id => a = b

(* Only Reserve makes a row running, and it was due. *)
LEMMA RunningWasDue ==
    ASSUME QTypeOK, NEW now \in Readings, Statement(now), NEW r \in JobIds,
           quoteJobs'[r].status = "running", quoteJobs'[r] # quoteJobs[r]
    PROVE  quoteJobs'[r].nextRunAt <= now
<1>0. quoteJobs \in [JobIds -> Row] /\ quoteJobs[r] \in Row
  BY DEF QTypeOK
<1>1. ASSUME NEW id \in JobIds, NEW pair \in Pairs, Produce(id, pair, now) PROVE FALSE
  BY <1>0, <1>1, InsertRow DEF Inserted
<1>2. ASSUME NEW ids \in SUBSET JobIds, NEW locked \in SUBSET JobIds, NEW n \in BatchSizes,
             Reserve(ids, n, now, locked)
      PROVE  quoteJobs'[r].nextRunAt <= now
  <2>1. r \in ids
    BY <1>2 DEF Reserve
  <2>2. quoteJobs[r].nextRunAt <= now
    BY <1>2, <2>1 DEF Reserve, Selected, Eligible
  <2>3. quoteJobs'[r] = [quoteJobs[r] EXCEPT !.status = "running",
                                             !.leaseUntil = now + Lease]
    BY <1>2, <2>1 DEF Reserve
  <2>4. quoteJobs'[r].nextRunAt = quoteJobs[r].nextRunAt
    BY <1>0, <2>3 DEF Row
  <2> QED
    BY <2>2, <2>4
<1>3. ASSUME NEW id \in JobIds, NEW quote \in Snapshots, Complete(id, quote) PROVE FALSE
  BY <1>0, <1>3 DEF Complete, Row
<1>4. ASSUME NEW id \in JobIds, NEW reason \in Reasons, NEW after \in Delays,
             Reschedule(id, reason, after, now)
      PROVE FALSE
  BY <1>0, <1>4 DEF Reschedule, Row
<1>5. ASSUME NEW id \in JobIds, NEW reason \in Reasons, Fail(id, reason) PROVE FALSE
  BY <1>0, <1>5 DEF Fail, Row
<1>6. CASE RecoverExpired(now)
  BY <1>0, <1>6 DEF RecoverExpired, Row
<1> QED
  BY <1>1, <1>2, <1>3, <1>4, <1>5, <1>6 DEF Statement

(* A batch only ever shrinks, except in Poll. *)
LEMMA OnlyPollFills ==
    ASSUME PInv, [Next]_pipelineVars, NEW v \in Workers,
           ~(work'[v].batch \subseteq work[v].batch)
    PROVE  Poll(v)
<1>0. work \in [Workers -> Local]
  BY DEF PInv, TypeOK
<1>1. PICK w \in Workers : WorkerStep(w)
  BY DEF Next, Submit, PassTime, pipelineVars
<1>2. v = w
  BY <1>1, WorkerAdvances
<1>3. ASSUME NEW job, Drop(w, job) PROVE FALSE
  BY <1>0, <1>2, <1>3 DEF Drop, Idle, Local
<1>4. ~FetchOk(w) /\ ~FetchError(w)
  BY <1>0, <1>2 DEF FetchOk, FetchError, Local
<1>5. ASSUME NEW job \in work[w].batch, Upsert(w, job) PROVE FALSE
  <2>1. PICK pc \in {"complete", "retry"} :
           work' = [work EXCEPT ![w] = [work[w] EXCEPT !.pc = pc, !.cur = job]]
    BY <1>5 DEF Upsert
  <2> QED
    BY <1>0, <1>2, <2>1 DEF Local
<1>6. ~Crash(w) /\ ~Clean(w)
  BY <1>0, <1>2 DEF Crash, Clean, Idle
<1> QED
  BY <1>1, <1>2, <1>3, <1>4, <1>5, <1>6
     DEF WorkerStep, HandleBatchError, FailMissing, CompleteJob, RetryJob

(* Every step keeps what the mapping needs. *)
LEMMA ViewStep ==
    ASSUME PInv, ViewInv, [Next]_pipelineVars
    PROVE  ViewInv'
<1>0. /\ QTypeOK /\ QTypeOK' /\ clock \in Nat /\ clock' \in Nat
      /\ work \in [Workers -> Local]
  BY PInvStep, TimeAssumption DEF PInv, TypeOK, QTypeOK
<1>1. clock <= clock'
  <2>1. clock' = clock \/ clock' = clock + 1
    BY DEF Next, WorkerStep, Submit, PassTime, Tick, Poll, Clean, FetchOk, FetchError,
              HandleBatchError, FailMissing, CompleteJob, RetryJob, Crash, Upsert,
              pipelineVars
  <2> QED
    BY <1>0, <2>1
<1>2. ASSUME NEW r \in JobIds, quoteJobs'[r].status = "absent"
      PROVE  quoteJobs'[r].attempts = 0
  <2>1. ASSUME NEW now \in Readings, Statement(now)
        PROVE  quoteJobs'[r] = quoteJobs[r]
    BY <1>0, <1>2, <2>1, StatementCases, InsertRow, UpdateRow
       DEF RowUpdate, Inserted, Reserved, Returned, Ended
  <2> QED
    BY <1>2, <2>1, NextIsStatement DEF ViewInv, pipelineVars
<1>3. ASSUME NEW r \in JobIds, quoteJobs'[r].status = "running"
      PROVE  quoteJobs'[r].nextRunAt <= clock'
  <2>0. quoteJobs'[r].nextRunAt \in Nat
    BY <1>0 DEF QTypeOK, Row
  <2>1. CASE quoteJobs'[r] = quoteJobs[r]
    BY <1>0, <1>1, <1>3, <2>0, <2>1 DEF ViewInv, Running
  <2>2. CASE quoteJobs'[r] # quoteJobs[r]
    <3>1. PICK now \in Readings : Statement(now)
      BY <2>2, NextIsStatement DEF pipelineVars
    <3>2. quoteJobs'[r].nextRunAt <= now
      BY <1>0, <1>3, <2>2, <3>1, RunningWasDue
    <3>3. now \in Nat /\ now <= clock
      BY <1>0, ReadingIsTime
    <3> QED
      BY <1>0, <1>1, <2>0, <3>2, <3>3
  <2> QED
    BY <2>1, <2>2
<1>4. ASSUME NEW w \in Workers, NEW a \in work'[w].batch, NEW b \in work'[w].batch,
             a.id = b.id
      PROVE  a = b
  <2>1. CASE work'[w].batch \subseteq work[w].batch
    BY <1>4, <2>1 DEF ViewInv
  <2>2. CASE ~(work'[w].batch \subseteq work[w].batch)
    <3>1. Poll(w)
      BY <1>0, <2>2, OnlyPollFills
    <3>2. PICK ids \in (SUBSET JobIds) \ {{}}, now \in Readings :
             work' = [work EXCEPT ![w] =
                 [Idle EXCEPT !.pc = "fetch",
                              !.batch = {[id |-> id,
                                          attempts |-> quoteJobs[id].attempts,
                                          lease |-> now + Lease] : id \in ids}]]
      BY <2>2, <3>1 DEF Poll
    <3> DEFINE batch == {[id |-> id, attempts |-> quoteJobs[id].attempts,
                          lease |-> now + Lease] : id \in ids}
    <3>3. \A x, y \in batch : x.id = y.id => x = y
      OBVIOUS
    <3> HIDE DEF batch
    <3>4. work' = [work EXCEPT ![w] = [Idle EXCEPT !.pc = "fetch", !.batch = batch]]
      BY <3>2 DEF batch
    <3>5. work'[w].batch = batch
      BY <1>0, <3>4 DEF Idle
    <3> QED
      BY <1>4, <3>3, <3>5
  <2> QED
    BY <2>1, <2>2
<1> QED
  BY <1>2, <1>3, <1>4 DEF ViewInv, Running

-----------------------------------------------------------------------------
(* The worker's side of the mapping. *)

FreeView == [pc |-> "free", outcome |-> "none", attempts |-> 0]

(* A view is known by its fields. *)
LEMMA ViewFields ==
    ASSUME NEW p, NEW o, NEW a, NEW r \in [pc : {p}, outcome : {o}, attempts : {a}]
    PROVE  r = [pc |-> p, outcome |-> o, attempts |-> a]
OBVIOUS

(* A worker without the job looks free. *)
LEMMA ViewFree ==
    ASSUME NEW id, NEW local, NEW pair, \A job \in local.batch : job.id # id
    PROVE  View(id, local, pair) = FreeView
BY DEF View, FreeView

(* A worker with the job shows its one copy of it. *)
LEMMA ViewBusy ==
    ASSUME NEW local, NEW pair, NEW job \in local.batch,
           \A a, b \in local.batch : a.id = b.id => a = b
    PROVE  View(job.id, local, pair) =
              [pc |-> IF local.pc = "fetch" THEN "fetch"
                      ELSE IF local.cur = job THEN local.pc ELSE "demux",
               outcome |-> IF local.pc = "fetch" THEN "none"
                           ELSE Outcome(local.res, pair),
               attempts |-> Capped(job.attempts)]
<1> DEFINE mine == {j \in local.batch : j.id = job.id}
<1>1. mine = {job}
  OBVIOUS
<1>2. (CHOOSE j \in mine : TRUE) = job
  BY <1>1
<1> QED
  BY <1>1, <1>2 DEF View

(* The abstract work, before and after a step of worker w. *)
LEMMA WorkMapped ==
    ASSUME NEW id \in JobIds, NEW w \in Workers,
           \A v \in Workers \ {w} : SeenFrom(id, v)' = SeenFrom(id, v)
    PROVE  [v \in Workers |-> SeenFrom(id, v)']
              = [[v \in Workers |-> SeenFrom(id, v)] EXCEPT ![w] = SeenFrom(id, w)']
OBVIOUS

(* A worker that does not move looks the same from every stored job, as a  *)
(* stored job keeps its pair; from a job without a row every worker looks  *)
(* free.                                                                   *)
LEMMA StillSeen ==
    ASSUME PInv, [Next]_pipelineVars, NEW id \in JobIds, NEW v \in Workers,
           work'[v] = work[v]
    PROVE  SeenFrom(id, v)' = SeenFrom(id, v)
<1>0. QTypeOK /\ LocalOK(v)
  BY DEF PInv, TypeOK
<1>1. CASE id \in Stored
  <2>1. quoteJobs'[id].pair = quoteJobs[id].pair
    BY <1>0, <1>1, NextIsStatement, IdentityKept DEF SameIdentity, pipelineVars
  <2> QED
    BY <2>1 DEF SeenFrom
<1>2. CASE id \notin Stored
  <2>1. \A job \in work[v].batch : job.id # id
    BY <1>0, <1>2 DEF LocalOK
  <2> QED
    BY <2>1, ViewFree DEF SeenFrom
<1> QED
  BY <1>1, <1>2

(* Dropping a job frees the worker of that job, and of no other one. *)
LEMMA DropSeen ==
    ASSUME PInv, ViewInv, [Next]_pipelineVars, NEW w \in Workers,
           NEW job \in work[w].batch, Drop(w, job), NEW id \in JobIds,
           work[w].pc # "demux" => work[w].pc \in {"complete", "retry"} /\ job = work[w].cur
    PROVE  SeenFrom(id, w)' = IF id = job.id THEN FreeView ELSE SeenFrom(id, w)
<1>0. /\ QTypeOK /\ LocalOK(w) /\ work \in [Workers -> Local] /\ work[w] \in Local
      /\ \A a, b \in work[w].batch : a.id = b.id => a = b
  BY DEF PInv, TypeOK, ViewInv
<1> DEFINE rest == work[w].batch \ {job}
<1>1. /\ work'[w].batch = rest
      /\ rest # {} => /\ work'[w].pc = "demux"
                      /\ work'[w].res = work[w].res
  <2>1. CASE rest = {}
    BY <1>0, <2>1 DEF Drop, Idle
  <2>2. CASE rest # {}
    <3>1. work'[w] = [work[w] EXCEPT !.pc = "demux", !.cur = Null, !.batch = rest]
      BY <1>0, <2>2 DEF Drop
    <3> HIDE DEF rest
    <3> QED
      BY <1>0, <3>1 DEF Local
  <2> QED
    BY <2>1, <2>2
<1>2. CASE id = job.id
  <2>1. \A j \in work'[w].batch : j.id # id
    BY <1>0, <1>1, <1>2
  <2> QED
    BY <1>2, <2>1, ViewFree DEF SeenFrom
<1>3. CASE id # job.id /\ \A j \in work[w].batch : j.id # id
  <2>1. \A j \in work'[w].batch : j.id # id
    BY <1>1, <1>3
  <2> QED
    BY <1>3, <2>1, ViewFree DEF SeenFrom
<1>4. ASSUME id # job.id, NEW other \in work[w].batch, other.id = id
      PROVE  SeenFrom(id, w)' = SeenFrom(id, w)
  <2>1. other \in work'[w].batch /\ other # job /\ work'[w].pc = "demux"
        /\ work'[w].res = work[w].res
    BY <1>1, <1>4
  <2>2. quoteJobs'[id].pair = quoteJobs[id].pair
    <3>1. id \in Stored
      BY <1>0, <1>4 DEF LocalOK
    <3> QED
      BY <1>0, <3>1, NextIsStatement, IdentityKept DEF SameIdentity, pipelineVars
  <2> DEFINE seen == [pc |-> "demux",
                      outcome |-> Outcome(work[w].res, quoteJobs[id].pair),
                      attempts |-> Capped(other.attempts)]
  <2>3. View(id, work[w], quoteJobs[id].pair) = seen
    BY <1>0, <1>4, <2>1, ViewBusy
  <2>4. View(id, work'[w], quoteJobs'[id].pair) = seen
    <3>1. \A a, b \in work'[w].batch : a.id = b.id => a = b
      BY <1>0, <1>1
    <3> QED
      BY <1>4, <2>1, <2>2, <3>1, ViewBusy
  <2> QED
    BY <2>3, <2>4 DEF SeenFrom
<1> QED
  BY <1>2, <1>3, <1>4

-----------------------------------------------------------------------------
(* The row's side of the mapping: every statement, on the row of one job. *)

(* Charging an attempt and capping commute. *)
LEMMA ChargedCapped ==
    ASSUME NEW n \in Nat, NEW id
    PROVE  /\ Progress(id)!Charged(Capped(n)) = Capped(n + 1)
           /\ Capped(n) < MaxAttempts <=> n < MaxAttempts
           /\ Capped(n) >= MaxAttempts <=> n >= MaxAttempts
BY AttemptsAssumption DEF Capped, Progress!Charged

(* A row that is not written stays, unless time passes. *)
LEMMA RowStays ==
    ASSUME NEW id \in JobIds, quoteJobs'[id] = quoteJobs[id], clock' = clock
    PROVE  UNCHANGED Progress(id)!rowVars
BY DEF Progress!rowVars, Running

(* Complete finishes the job, or finds it not running. *)
LEMMA CompleteFinishes ==
    ASSUME QTypeOK, NEW id \in JobIds, NEW quote, Complete(id, quote), clock' = clock
    PROVE  Progress(id)!Finish("done")
<1>1. CASE Running(id)
  <2>1. quoteJobs'[id] = [quoteJobs[id] EXCEPT !.status = "done",
                             !.completed = TRUE, !.quote = quote]
        /\ quoteJobs[id] \in Row
    BY <1>1 DEF Complete, QTypeOK
  <2>2. quoteJobs'[id].status = "done" /\ quoteJobs'[id].attempts = quoteJobs[id].attempts
    BY <2>1 DEF Row
  <2> QED
    BY <1>1, <2>2 DEF Progress!Finish, Running
<1>2. CASE ~Running(id)
  BY <1>2, RowStays DEF Complete, Progress!Finish, Running
<1> QED
  BY <1>1, <1>2

(* Fail finishes the job, finds it not running, or fails itself. *)
LEMMA FailFinishes ==
    ASSUME QTypeOK, NEW id \in JobIds, NEW reason, Fail(id, reason), clock' = clock
    PROVE  Progress(id)!Finish("failed") \/ quoteJobs'[id] = quoteJobs[id]
<1>1. CASE Running(id) /\ Fits(reason)
  <2>1. quoteJobs'[id] = [quoteJobs[id] EXCEPT !.status = "failed",
                             !.completed = TRUE, !.lastError = reason]
        /\ quoteJobs[id] \in Row
    BY <1>1 DEF Fail, QTypeOK
  <2>2. quoteJobs'[id].status = "failed" /\ quoteJobs'[id].attempts = quoteJobs[id].attempts
    BY <2>1 DEF Row
  <2> QED
    BY <1>1, <2>2 DEF Progress!Finish, Running
<1>2. CASE ~(Running(id) /\ Fits(reason))
  BY <1>2 DEF Fail
<1> QED
  BY <1>1, <1>2

(* Reschedule gives the job back, finds it not running, or fails. *)
LEMMA RescheduleReschedules ==
    ASSUME QTypeOK, NEW id \in JobIds, NEW reason, NEW after, NEW now,
           Reschedule(id, reason, after, now), clock' = clock
    PROVE  Progress(id)!Reschedule \/ quoteJobs'[id] = quoteJobs[id]
<1>1. CASE Running(id) /\ Fits(reason)
  <2>1. quoteJobs'[id] = [quoteJobs[id] EXCEPT !.status = "pending",
                             !.nextRunAt = now + after, !.attempts = @ + 1,
                             !.lastError = reason, !.leaseUntil = Null]
        /\ quoteJobs[id] \in Row
    BY <1>1 DEF Reschedule, QTypeOK
  <2>2. /\ quoteJobs'[id].status = "pending" /\ quoteJobs[id].attempts \in Nat
        /\ quoteJobs'[id].attempts = quoteJobs[id].attempts + 1
    BY <2>1 DEF Row
  <2>3. Capped(quoteJobs'[id].attempts) = Progress(id)!Charged(Capped(quoteJobs[id].attempts))
    BY <2>2, ChargedCapped
  <2> QED
    BY <1>1, <2>2, <2>3 DEF Progress!Reschedule, Running
<1>2. CASE ~(Running(id) /\ Fits(reason))
  BY <1>2 DEF Reschedule
<1> QED
  BY <1>1, <1>2

(* The decision on the worker's copy is the one on its capped attempts. *)
LEMMA RetryRetries ==
    ASSUME QTypeOK, NEW w \in Workers, NEW job \in Job, NEW reason,
           RescheduleOrFail(job, reason), clock' = clock,
           SeenFrom(job.id, w).attempts = Capped(job.attempts)
    PROVE  Progress(job.id)!RescheduleOrFail(w) \/ quoteJobs'[job.id] = quoteJobs[job.id]
<1>0. job.id \in JobIds /\ job.attempts \in Nat
  BY DEF Job
<1>1. ASSUME job.attempts < MaxAttempts, NEW now, NEW delay,
             Reschedule(job.id, reason, delay, now)
      PROVE  Progress(job.id)!RescheduleOrFail(w) \/ quoteJobs'[job.id] = quoteJobs[job.id]
  BY <1>0, <1>1, RescheduleReschedules, ChargedCapped DEF Progress!RescheduleOrFail
<1>2. ASSUME job.attempts >= MaxAttempts, Fail(job.id, reason)
      PROVE  Progress(job.id)!RescheduleOrFail(w) \/ quoteJobs'[job.id] = quoteJobs[job.id]
  BY <1>0, <1>2, FailFinishes, ChargedCapped DEF Progress!RescheduleOrFail
<1> QED
  BY <1>1, <1>2 DEF RescheduleOrFail

(* A reading behind by at most a lease: a lease written with it runs now. *)
LEMMA LagWithinLease ==
    ASSUME QTypeOK, MaxSkew <= Lease, NEW now \in Readings
    PROVE  now \in Nat /\ clock \in Nat /\ now <= clock /\ ~(now + Lease < clock)
BY TimeAssumption, LeaseAssumption DEF QTypeOK, Readings

(* Reserve takes the job if it is among the selected. *)
LEMMA ReserveTakes ==
    ASSUME QTypeOK, MaxSkew <= Lease, NEW ids \in SUBSET JobIds, NEW n, NEW locked,
           NEW now \in Readings, Reserve(ids, n, now, locked), clock' = clock,
           NEW id \in ids
    PROVE  Progress(id)!Take
<1>0. now \in Nat /\ clock \in Nat /\ now <= clock /\ ~(now + Lease < clock)
  BY LagWithinLease
<1>1. quoteJobs'[id] = [quoteJobs[id] EXCEPT !.status = "running",
                                             !.leaseUntil = now + Lease]
      /\ quoteJobs[id] \in Row
  BY DEF Reserve, QTypeOK
<1>2. quoteJobs[id].status = "pending" /\ quoteJobs[id].nextRunAt <= clock
  <2>1. quoteJobs[id].status = "pending" /\ quoteJobs[id].nextRunAt <= now
    BY DEF Reserve, Selected, Eligible
  <2>2. quoteJobs[id].nextRunAt \in Nat
    BY <1>1 DEF Row
  <2> QED
    BY <1>0, <2>1, <2>2
<1>3. /\ quoteJobs'[id].status = "running"
      /\ quoteJobs'[id].attempts = quoteJobs[id].attempts
      /\ ~(quoteJobs'[id].leaseUntil < clock')
  BY <1>0, <1>1, LeaseAssumption DEF Row
<1> QED
  BY <1>2, <1>3 DEF Progress!Take, Running

-----------------------------------------------------------------------------
(* Every step of the pipeline, seen from one job. *)

JobStep(id) ==
    \/ UNCHANGED Progress(id)!progressVars
    \/ Progress(id)!Next

(* Nothing happened to the job. *)
LEMMA NothingSeen ==
    ASSUME NEW id \in JobIds, quoteJobs'[id] = quoteJobs[id], clock' = clock,
           \A v \in Workers : SeenFrom(id, v)' = SeenFrom(id, v)
    PROVE  JobStep(id)
<1>1. UNCHANGED Progress(id)!rowVars
  BY RowStays
<1> QED
  BY <1>1 DEF JobStep, Progress!progressVars, Progress!rowVars

(* The other workers look the same during a worker's step. *)
LEMMA OthersSeen ==
    ASSUME PInv, NEW w \in Workers, WorkerStep(w), NEW id \in JobIds
    PROVE  /\ \A v \in Workers \ {w} : SeenFrom(id, v)' = SeenFrom(id, v)
           /\ [v \in Workers |-> SeenFrom(id, v)']
                = [[v \in Workers |-> SeenFrom(id, v)] EXCEPT ![w] = SeenFrom(id, w)']
<1>1. Next
  BY DEF Next
<1>2. \A v \in Workers \ {w} : SeenFrom(id, v)' = SeenFrom(id, v)
  BY <1>1, StillSeen, WorkerAdvances
<1> QED
  BY <1>2, WorkMapped

(* A worker with an empty batch looks free. *)
LEMMA IdleSeen ==
    ASSUME PInv, NEW w \in Workers, work[w].pc = "idle", NEW id \in JobIds
    PROVE  SeenFrom(id, w) = FreeView
BY ViewFree DEF PInv, LocalOK, SeenFrom

(* A job in a batch is one that Reserve returned, and has a row. *)
LEMMA HolderTyped ==
    ASSUME PInv, NEW w \in Workers, NEW job \in work[w].batch
    PROVE  job \in Job /\ job.id \in JobIds /\ job.id \in Stored
BY DEF PInv, TypeOK, Local, LocalOK, Job

(* What a worker that holds the job looks like, before the step. *)
LEMMA HolderSeen ==
    ASSUME PInv, ViewInv, NEW w \in Workers, NEW job \in work[w].batch,
           NEW id, id = job.id
    PROVE  SeenFrom(id, w) =
              [pc |-> IF work[w].pc = "fetch" THEN "fetch"
                      ELSE IF work[w].cur = job THEN work[w].pc ELSE "demux",
               outcome |-> IF work[w].pc = "fetch" THEN "none"
                           ELSE Outcome(work[w].res, quoteJobs[id].pair),
               attempts |-> Capped(job.attempts)]
<1>1. \A a, b \in work[w].batch : a.id = b.id => a = b
  BY DEF ViewInv
<1> QED
  BY <1>1, ViewBusy DEF SeenFrom

(* Poll: the job is reserved, with or without a reply, or passed over. *)
LEMMA PollSeen ==
    ASSUME MaxSkew <= Lease, PInv, ViewInv, NEW w \in Workers, Poll(w), NEW id \in JobIds
    PROVE  JobStep(id)
<1>0. /\ QTypeOK /\ work \in [Workers -> Local] /\ WorkerStep(w) /\ clock' = clock
      /\ Next
  BY DEF PInv, TypeOK, WorkerStep, Poll, Next
<1>1. PICK ids \in (SUBSET JobIds) \ {{}}, locked \in Locks(w), now \in Readings :
         /\ Reserve(ids, BatchSize, now, locked)
         /\ \/ work' = [work EXCEPT ![w] =
                  [Idle EXCEPT !.pc = "fetch",
                               !.batch = {[id |-> i,
                                           attempts |-> quoteJobs[i].attempts,
                                           lease |-> now + Lease] : i \in ids}]]
            \/ UNCHANGED work
  BY DEF Poll
<1>2. id \in ids => Progress(id)!Take
  BY <1>0, <1>1, ReserveTakes
<1>3. SeenFrom(id, w) = FreeView
  BY IdleSeen DEF Poll
<1>4. id \notin ids => quoteJobs'[id] = quoteJobs[id]
  BY <1>1 DEF Reserve
<1>5. CASE UNCHANGED work
  <2>1. \A v \in Workers : SeenFrom(id, v)' = SeenFrom(id, v)
    BY <1>0, <1>5, StillSeen
  <2>2. CASE id \in ids
    <3>1. Progress(id)!ReserveLost(w)
      BY <1>2, <1>3, <2>1, <2>2 DEF Progress!ReserveLost, Progress!Free, FreeView
    <3> QED
      BY <3>1 DEF JobStep, Progress!Next, Progress!Uncharged
  <2>3. CASE id \notin ids
    BY <1>0, <1>4, <2>1, <2>3, NothingSeen
  <2> QED
    BY <2>2, <2>3
<1>6. CASE ~UNCHANGED work
  <2> DEFINE batch == {[id |-> i, attempts |-> quoteJobs[i].attempts,
                        lease |-> now + Lease] : i \in ids}
  <2>1. /\ \A job \in batch : job.id \in ids
        /\ \A a, b \in batch : a.id = b.id => a = b
        /\ id \in ids => [id |-> id, attempts |-> quoteJobs[id].attempts,
                          lease |-> now + Lease] \in batch
    OBVIOUS
  <2> HIDE DEF batch
  <2>2. work' = [work EXCEPT ![w] = [Idle EXCEPT !.pc = "fetch", !.batch = batch]]
    BY <1>1, <1>6 DEF batch
  <2>3. work'[w].batch = batch /\ work'[w].pc = "fetch"
    BY <1>0, <2>2 DEF Idle
  <2>4. /\ \A v \in Workers \ {w} : SeenFrom(id, v)' = SeenFrom(id, v)
        /\ [v \in Workers |-> SeenFrom(id, v)']
             = [[v \in Workers |-> SeenFrom(id, v)] EXCEPT ![w] = SeenFrom(id, w)']
    BY <1>0, OthersSeen
  <2>5. CASE id \in ids
    <3>1. PICK job \in batch : job.id = id /\ job.attempts = quoteJobs[id].attempts
      BY <2>1, <2>5
    <3>2. View(id, work'[w], quoteJobs'[id].pair)
             = [pc |-> "fetch", outcome |-> "none", attempts |-> Capped(quoteJobs[id].attempts)]
      BY <2>1, <2>3, <3>1, ViewBusy
    <3>3. SeenFrom(id, w)' = [Progress(id)!Free EXCEPT
                                !.pc = "fetch", !.attempts = Capped(quoteJobs[id].attempts)]
      <4> DEFINE a == Capped(quoteJobs[id].attempts)
      <4> HIDE DEF a
      <4> DEFINE r == [Progress(id)!Free EXCEPT !.pc = "fetch", !.attempts = a]
      <4>1. r \in [pc : {"fetch"}, outcome : {"none"}, attempts : {a}]
        BY DEF Progress!Free
      <4> HIDE DEF r
      <4>2. r = [pc |-> "fetch", outcome |-> "none", attempts |-> a]
        BY <4>1, ViewFields
      <4> QED
        BY <3>2, <4>2 DEF SeenFrom, a, r
    <3>4. Progress(id)!Reserve(w)
      BY <1>2, <1>3, <2>4, <2>5, <3>3 DEF Progress!Reserve, Progress!Free, FreeView
    <3> QED
      BY <3>4 DEF JobStep, Progress!Next, Progress!Good
  <2>6. CASE id \notin ids
    <3>1. SeenFrom(id, w)' = SeenFrom(id, w)
      BY <1>3, <2>1, <2>3, <2>6, ViewFree DEF SeenFrom
    <3> QED
      BY <1>0, <1>4, <2>4, <2>6, <3>1, NothingSeen
  <2> QED
    BY <2>5, <2>6
<1> QED
  BY <1>5, <1>6

(* Clean: the job is recovered if its lease is over. *)
LEMMA CleanSeen ==
    ASSUME MaxSkew <= Lease, PInv, ViewInv, NEW w \in Workers, Clean(w), NEW id \in JobIds
    PROVE  JobStep(id)
<1>0. /\ QTypeOK /\ clock' = clock /\ work' = work /\ Next
      /\ quoteJobs \in [JobIds -> Row]
  BY DEF PInv, TypeOK, QTypeOK, WorkerStep, Clean, Next
<1>1. PICK now \in Readings : RecoverExpired(now)
  BY DEF Clean
<1>2. \A v \in Workers : SeenFrom(id, v)' = SeenFrom(id, v)
  BY <1>0, StillSeen
<1>3. CASE Expired(id, now)
  <2>1. quoteJobs'[id] = [quoteJobs[id] EXCEPT !.status = "pending", !.leaseUntil = Null]
        /\ quoteJobs[id] \in Row
    BY <1>0, <1>1, <1>3 DEF RecoverExpired
  <2>2. /\ quoteJobs'[id].status = "pending"
        /\ quoteJobs'[id].attempts = quoteJobs[id].attempts
        /\ quoteJobs'[id].nextRunAt = quoteJobs[id].nextRunAt
    BY <2>1 DEF Row
  <2>3. quoteJobs[id].nextRunAt <= clock
    BY <1>3 DEF Expired, ViewInv
  <2>4. SeenFrom(id, w) = FreeView
    BY IdleSeen DEF Clean
  <2>5. quoteJobs[id].status = "running" /\ quoteJobs[id].leaseUntil < clock
    <3>1. now \in Nat /\ clock \in Nat /\ now <= clock
      BY <1>0, <1>1, LagWithinLease
    <3>2. quoteJobs[id].status = "running" /\ quoteJobs[id].leaseUntil < now
      BY <1>3 DEF Expired, Running
    <3>3. quoteJobs[id].leaseUntil # Null
      BY <3>2 DEF PInv, IInv, RowOK, Running
    <3>4. quoteJobs[id].leaseUntil \in Nat
      BY <2>1, <3>3 DEF Row
    <3> QED
      BY <3>1, <3>2, <3>4
  <2>6. Progress(id)!Recover(w)
    BY <1>0, <1>2, <2>2, <2>3, <2>4, <2>5
       DEF Progress!Recover, Progress!Free, FreeView, Running
  <2> QED
    BY <2>6 DEF JobStep, Progress!Next, Progress!Good
<1>4. CASE ~Expired(id, now)
  BY <1>0, <1>1, <1>2, <1>4, NothingSeen DEF RecoverExpired
<1> QED
  BY <1>3, <1>4

(* A fetch returns: what it said about the job's pair. *)
LEMMA FetchSeen ==
    ASSUME PInv, ViewInv, NEW w \in Workers, FetchOk(w) \/ FetchError(w), NEW id \in JobIds
    PROVE  JobStep(id)
<1>0. /\ work \in [Workers -> Local] /\ work[w] \in Local /\ WorkerStep(w)
      /\ UNCHANGED <<quoteJobs, clock>> /\ work[w].pc = "fetch"
  BY DEF PInv, TypeOK, WorkerStep, FetchOk, FetchError
<1>1. work'[w].pc = "demux" /\ work'[w].batch = work[w].batch
      /\ work'[w].res.code \in {"ok"} \cup Codes
  <2>1. CASE FetchOk(w)
    <3>1. PICK answered \in SUBSET PairsOf(work[w].batch) :
            work' = [work EXCEPT ![w] =
                       [work[w] EXCEPT !.pc = "demux",
                                       !.res = [code |-> "ok",
                                                answered |-> answered,
                                                quote |-> [no |-> fetches + 1,
                                                           at |-> clock],
                                                reason |-> Null]]]
      BY <2>1 DEF FetchOk
    <3> QED
      BY <1>0, <3>1 DEF Local
  <2>2. CASE FetchError(w)
    <3>1. PICK code \in Codes, reason \in Reasons :
            work' = [work EXCEPT ![w] =
                       [work[w] EXCEPT !.pc = "demux",
                                       !.res = [NoResult EXCEPT
                                                  !.code = code,
                                                  !.reason = reason]]]
      BY <2>2 DEF FetchError
    <3> QED
      BY <1>0, <3>1 DEF Local, NoResult
  <2> QED
    BY <2>1, <2>2
<1> DEFINE seen == [v \in Workers |-> SeenFrom(id, v)]
           out == Outcome(work'[w].res, quoteJobs[id].pair)
<1>2. /\ \A v \in Workers \ {w} : SeenFrom(id, v)' = SeenFrom(id, v)
      /\ [v \in Workers |-> SeenFrom(id, v)'] = [seen EXCEPT ![w] = SeenFrom(id, w)']
  BY <1>0, OthersSeen
<1>3. CASE \A job \in work[w].batch : job.id # id
  <2>1. SeenFrom(id, w)' = SeenFrom(id, w)
    BY <1>1, <1>3, ViewFree DEF SeenFrom
  <2> QED
    BY <1>0, <1>2, <2>1, NothingSeen
<1>4. ASSUME NEW job \in work[w].batch, job.id = id PROVE JobStep(id)
  <2>1. SeenFrom(id, w) = [pc |-> "fetch", outcome |-> "none",
                           attempts |-> Capped(job.attempts)]
    BY <1>0, <1>4, HolderSeen
  <2>2. SeenFrom(id, w)' = [pc |-> "demux", outcome |-> out,
                            attempts |-> Capped(job.attempts)]
    <3>1. \A a, b \in work'[w].batch : a.id = b.id => a = b
      BY <1>1 DEF ViewInv
    <3> QED
      BY <1>0, <1>1, <1>4, <3>1, ViewBusy DEF SeenFrom
  <2>3. out \in {"ok", "missing", "transient", "permanent", "quota_exceeded"}
    BY <1>1 DEF Outcome, Codes
  <2>4. [v \in Workers |-> SeenFrom(id, v)']
           = [seen EXCEPT ![w].pc = "demux", ![w].outcome = out]
    <3>1. seen = [v \in Workers |-> seen[v]] /\ seen[w] = SeenFrom(id, w)
      OBVIOUS
    <3> HIDE DEF seen, out
    <3>2. PICK r : r = seen[w]
      OBVIOUS
    <3>3. r = [pc |-> "fetch", outcome |-> "none", attempts |-> Capped(job.attempts)]
      BY <2>1, <3>1, <3>2
    <3>4. [r EXCEPT !.pc = "demux", !.outcome = out]
             \in [pc : {"demux"}, outcome : {out}, attempts : {Capped(job.attempts)}]
      BY <3>3
    <3>5. [seen[w] EXCEPT !.pc = "demux", !.outcome = out] = SeenFrom(id, w)'
      BY <2>2, <3>2, <3>4, ViewFields
    <3>6. [seen EXCEPT ![w].pc = "demux", ![w].outcome = out]
             = [seen EXCEPT ![w] = [seen[w] EXCEPT !.pc = "demux", !.outcome = out]]
      BY <3>1
    <3> QED
      BY <1>2, <3>5, <3>6
  <2>5. UNCHANGED Progress(id)!rowVars
    BY <1>0, RowStays
  <2>6. CASE out = "quota_exceeded"
    <3>1. Progress(id)!QuotaExceeded(w)
      BY <2>1, <2>4, <2>5, <2>6 DEF Progress!QuotaExceeded
    <3> QED
      BY <3>1 DEF JobStep, Progress!Next, Progress!Uncharged
  <2>7. CASE out # "quota_exceeded"
    <3>0. out \in Progress(id)!Outcomes \ {"quota_exceeded"}
      BY <2>3, <2>7 DEF Progress!Outcomes
    <3> HIDE DEF out
    <3>1. [v \in Workers |-> SeenFrom(id, v)][w].pc = "fetch"
      BY <2>1
    <3>2. Progress(id)!FetchReturns(w)
      BY <2>4, <2>5, <3>0, <3>1, Zenon DEF Progress!FetchReturns
    <3> QED
      BY <3>2 DEF JobStep, Progress!Next, Progress!Good
  <2> QED
    BY <2>6, <2>7
<1> QED
  BY <1>3, <1>4

(* The quote is cached, or the upsert fails. *)
LEMMA UpsertSeen ==
    ASSUME PInv, ViewInv, NEW w \in Workers, NEW job \in work[w].batch, Upsert(w, job),
           NEW id \in JobIds
    PROVE  JobStep(id)
<1>0. /\ work \in [Workers -> Local] /\ work[w] \in Local /\ WorkerStep(w)
      /\ UNCHANGED <<quoteJobs, clock>> /\ work[w].pc = "demux"
  BY DEF PInv, TypeOK, WorkerStep, Upsert
<1>1. PICK pc \in {"complete", "retry"} :
         work' = [work EXCEPT ![w] = [work[w] EXCEPT !.pc = pc, !.cur = job]]
  BY DEF Upsert
<1>2. /\ work'[w].pc = pc /\ work'[w].cur = job
      /\ work'[w].batch = work[w].batch /\ work'[w].res = work[w].res
  BY <1>0, <1>1 DEF Local
<1> DEFINE seen == [v \in Workers |-> SeenFrom(id, v)]
<1>3. /\ \A v \in Workers \ {w} : SeenFrom(id, v)' = SeenFrom(id, v)
      /\ [v \in Workers |-> SeenFrom(id, v)'] = [seen EXCEPT ![w] = SeenFrom(id, w)']
  BY <1>0, OthersSeen
<1>4. \A a, b \in work'[w].batch : a.id = b.id => a = b
  BY <1>2 DEF ViewInv
<1>5. CASE \A j \in work[w].batch : j.id # id
  <2>1. SeenFrom(id, w)' = SeenFrom(id, w)
    BY <1>2, <1>5, ViewFree DEF SeenFrom
  <2> QED
    BY <1>0, <1>3, <2>1, NothingSeen
<1>6. ASSUME NEW other \in work[w].batch, other.id = id, other # job PROVE JobStep(id)
  <2>1. SeenFrom(id, w) = [pc |-> "demux",
                           outcome |-> Outcome(work[w].res, quoteJobs[id].pair),
                           attempts |-> Capped(other.attempts)]
    BY <1>0, <1>6, HolderSeen DEF PairOf
  <2>2. SeenFrom(id, w)' = [pc |-> "demux",
                            outcome |-> Outcome(work[w].res, quoteJobs[id].pair),
                            attempts |-> Capped(other.attempts)]
    BY <1>0, <1>2, <1>4, <1>6, ViewBusy DEF SeenFrom
  <2>3. SeenFrom(id, w)' = SeenFrom(id, w)
    BY <2>1, <2>2
  <2> QED
    BY <1>0, <1>3, <2>3, NothingSeen
<1>7. CASE id = job.id
  <2>0. Outcome(work[w].res, quoteJobs[id].pair) = "ok"
    BY <1>7 DEF Upsert, Outcome, PairOf
  <2>1. SeenFrom(id, w) = [pc |-> "demux", outcome |-> "ok",
                           attempts |-> Capped(job.attempts)]
    BY <1>0, <1>7, <2>0, HolderSeen DEF PairOf
  <2>2. SeenFrom(id, w)' = [pc |-> pc, outcome |-> "ok",
                            attempts |-> Capped(job.attempts)]
    BY <1>0, <1>2, <1>4, <1>7, <2>0, ViewBusy DEF SeenFrom
  <2>3. [v \in Workers |-> SeenFrom(id, v)'] = [seen EXCEPT ![w].pc = pc]
    <3>1. seen = [v \in Workers |-> seen[v]] /\ seen[w] = SeenFrom(id, w)
      OBVIOUS
    <3> HIDE DEF seen
    <3>2. [seen[w] EXCEPT !.pc = pc]
             \in [pc : {pc}, outcome : {"ok"}, attempts : {Capped(job.attempts)}]
      BY <2>1, <3>1
    <3>3. [seen[w] EXCEPT !.pc = pc] = SeenFrom(id, w)'
      BY <2>2, <3>2, ViewFields
    <3>4. [seen EXCEPT ![w].pc = pc] = [seen EXCEPT ![w] = [seen[w] EXCEPT !.pc = pc]]
      BY <3>1
    <3> QED
      BY <1>3, <3>3, <3>4
  <2>4. UNCHANGED Progress(id)!rowVars
    BY <1>0, RowStays
  <2>5. Progress(id)!Upsert(w)
    <3>1. /\ [v \in Workers |-> SeenFrom(id, v)][w].pc = "demux"
          /\ [v \in Workers |-> SeenFrom(id, v)][w].outcome = "ok"
      BY <2>1
    <3>2. Progress(id)!Goto(w, pc)
      BY <2>3, Zenon DEF Progress!Goto
    <3>3. Progress(id)!Goto(w, "complete") \/ Progress(id)!Goto(w, "retry")
      BY <3>2
    <3> QED
      BY <2>4, <3>1, <3>3 DEF Progress!Upsert
  <2> QED
    BY <2>5 DEF JobStep, Progress!Next, Progress!Good
<1> QED
  BY <1>5, <1>6, <1>7

(* The worker's process dies. *)
LEMMA CrashSeen ==
    ASSUME PInv, ViewInv, NEW w \in Workers, Crash(w), NEW id \in JobIds
    PROVE  JobStep(id)
<1>0. /\ work \in [Workers -> Local] /\ WorkerStep(w) /\ UNCHANGED <<quoteJobs, clock>>
      /\ work'[w].batch = {}
  BY DEF PInv, TypeOK, WorkerStep, Crash, Idle
<1>1. /\ \A v \in Workers \ {w} : SeenFrom(id, v)' = SeenFrom(id, v)
      /\ [v \in Workers |-> SeenFrom(id, v)']
           = [[v \in Workers |-> SeenFrom(id, v)] EXCEPT ![w] = SeenFrom(id, w)']
  BY <1>0, OthersSeen
<1>2. SeenFrom(id, w)' = FreeView
  BY <1>0, ViewFree DEF SeenFrom
<1>3. CASE SeenFrom(id, w) = FreeView
  BY <1>0, <1>1, <1>2, <1>3, NothingSeen
<1>4. CASE SeenFrom(id, w) # FreeView
  <2>1. UNCHANGED Progress(id)!rowVars
    BY <1>0, RowStays
  <2>2. Progress(id)!Fails(w)
    BY <1>1, <1>2, <1>4, <2>1 DEF Progress!Fails, Progress!LetGo, Progress!Free, FreeView
  <2> QED
    BY <2>2 DEF JobStep, Progress!Next, Progress!Uncharged
<1> QED
  BY <1>3, <1>4

(* A worker ends its dealings with one job of the batch: it lets go of it, *)
(* and the other jobs see nothing.  If the statement did not take effect,  *)
(* the job was let go of with its row as it was.                           *)
LEMMA DropSeenByAll ==
    ASSUME PInv, ViewInv, NEW w \in Workers, WorkerStep(w), NEW job \in work[w].batch,
           Drop(w, job), clock' = clock,
           work[w].pc # "demux" => work[w].pc \in {"complete", "retry"} /\ job = work[w].cur,
           \A r \in JobIds : r # job.id => quoteJobs'[r] = quoteJobs[r]
    PROVE  /\ \A id \in JobIds \ {job.id} : JobStep(id)
           /\ Progress(job.id)!LetGo(w)
           /\ quoteJobs'[job.id] = quoteJobs[job.id] => JobStep(job.id)
<1>0. Next /\ job.id \in JobIds
  BY HolderTyped DEF Next
<1>1. ASSUME NEW id \in JobIds, id # job.id PROVE JobStep(id)
  <2>1. \A v \in Workers \ {w} : SeenFrom(id, v)' = SeenFrom(id, v)
    BY OthersSeen
  <2>2. SeenFrom(id, w)' = SeenFrom(id, w)
    BY <1>0, <1>1, DropSeen
  <2> QED
    BY <1>1, <2>1, <2>2, NothingSeen
<1>2. SeenFrom(job.id, w)' = FreeView
  BY <1>0, DropSeen
<1>3. Progress(job.id)!LetGo(w)
  BY <1>0, <1>2, OthersSeen DEF Progress!LetGo, Progress!Free, FreeView
<1>4. ASSUME quoteJobs'[job.id] = quoteJobs[job.id] PROVE JobStep(job.id)
  <2>0. UNCHANGED Progress(job.id)!rowVars
    BY <1>0, <1>4, RowStays
  <2>1. [v \in Workers |-> SeenFrom(job.id, v)][w] # Progress(job.id)!Free
    BY HolderSeen DEF Progress!Free
  <2>2. Progress(job.id)!Fails(w)
    BY <1>3, <2>0, <2>1 DEF Progress!Fails
  <2> QED
    BY <2>2 DEF JobStep, Progress!Next, Progress!Uncharged
<1> QED
  BY <1>1, <1>3, <1>4

(* handleBatchError. *)
LEMMA HandleBatchErrorSeen ==
    ASSUME PInv, ViewInv, NEW w \in Workers, NEW job \in work[w].batch,
           HandleBatchError(w, job), NEW id \in JobIds
    PROVE  JobStep(id)
<1>0. /\ QTypeOK /\ WorkerStep(w) /\ Drop(w, job) /\ clock' = clock
      /\ work[w].pc = "demux" /\ job \in work[w].batch
      /\ job \in Job /\ job.id \in JobIds
  BY HolderTyped DEF PInv, TypeOK, WorkerStep, HandleBatchError
<1>1. \A r \in JobIds : r # job.id => quoteJobs'[r] = quoteJobs[r]
  BY <1>0, OneRowWritten DEF HandleBatchError, Try, RescheduleOrFail
<1>2. /\ \A i \in JobIds \ {job.id} : JobStep(i)
      /\ Progress(job.id)!LetGo(w)
      /\ quoteJobs'[job.id] = quoteJobs[job.id] => JobStep(job.id)
  BY <1>0, <1>1, DropSeenByAll
<1>3. CASE quoteJobs'[job.id] = quoteJobs[job.id]
  BY <1>2, <1>3
<1>4. CASE quoteJobs'[job.id] # quoteJobs[job.id]
  <2>0. ~UNCHANGED quoteJobs
    BY <1>4
  <2>1. /\ SeenFrom(job.id, w).pc = "demux"
        /\ SeenFrom(job.id, w).attempts = Capped(job.attempts)
        /\ work[w].res.code # "ok" => SeenFrom(job.id, w).outcome = work[w].res.code
    BY <1>0, HolderSeen DEF Outcome
  <2>2. CASE work[w].res.code = "quota_exceeded"
    <3>1. Progress(job.id)!Reschedule
      BY <1>0, <1>4, <2>0, <2>2, RescheduleReschedules DEF HandleBatchError, Try
    <3> QED
      BY <1>2, <2>1, <2>2, <3>1 DEF JobStep, Progress!Next, Progress!Good, Progress!Write
  <2>3. CASE work[w].res.code = "transient"
    <3>1. Progress(job.id)!RescheduleOrFail(w)
      BY <1>0, <1>4, <2>0, <2>1, <2>3, RetryRetries DEF HandleBatchError, Try
    <3> QED
      BY <1>2, <2>1, <2>3, <3>1 DEF JobStep, Progress!Next, Progress!Good, Progress!Write
  <2>4. CASE work[w].res.code = "permanent"
    <3>1. Progress(job.id)!Finish("failed")
      BY <1>0, <1>4, <2>0, <2>4, FailFinishes DEF HandleBatchError, Try
    <3> QED
      BY <1>2, <2>1, <2>4, <3>1 DEF JobStep, Progress!Next, Progress!Good, Progress!Write
  <2> QED
    BY <2>2, <2>3, <2>4 DEF HandleBatchError
<1> QED
  BY <1>2, <1>3, <1>4

(* failJob for a pair the answer does not have. *)
LEMMA FailMissingSeen ==
    ASSUME PInv, ViewInv, NEW w \in Workers, NEW job \in work[w].batch,
           FailMissing(w, job), NEW id \in JobIds
    PROVE  JobStep(id)
<1>0. /\ QTypeOK /\ WorkerStep(w) /\ Drop(w, job) /\ clock' = clock
      /\ work[w].pc = "demux" /\ job \in work[w].batch
      /\ job \in Job /\ job.id \in JobIds
  BY HolderTyped DEF PInv, TypeOK, WorkerStep, FailMissing
<1>1. \A r \in JobIds : r # job.id => quoteJobs'[r] = quoteJobs[r]
  BY <1>0, OneRowWritten DEF FailMissing, Try
<1>2. /\ \A i \in JobIds \ {job.id} : JobStep(i)
      /\ Progress(job.id)!LetGo(w)
      /\ quoteJobs'[job.id] = quoteJobs[job.id] => JobStep(job.id)
  BY <1>0, <1>1, DropSeenByAll
<1>3. CASE quoteJobs'[job.id] # quoteJobs[job.id]
  <2>1. SeenFrom(job.id, w).pc = "demux" /\ SeenFrom(job.id, w).outcome = "missing"
    BY <1>0, HolderSeen DEF Outcome, FailMissing, PairOf
  <2>2. Progress(job.id)!Finish("failed")
    BY <1>0, <1>3, FailFinishes DEF FailMissing, Try
  <2> QED
    BY <1>2, <2>1, <2>2 DEF JobStep, Progress!Next, Progress!Good, Progress!Write
<1> QED
  BY <1>2, <1>3

(* Complete, or the retry after a failed upsert. *)
LEMMA CurrentJobSeen ==
    ASSUME PInv, ViewInv, NEW w \in Workers, CompleteJob(w) \/ RetryJob(w), NEW id \in JobIds
    PROVE  JobStep(id)
<1>. PICK job \in work[w].batch : job = work[w].cur
  BY DEF PInv, LocalOK, CompleteJob, RetryJob
<1>0. /\ QTypeOK /\ WorkerStep(w) /\ Drop(w, job) /\ clock' = clock
      /\ work[w].pc \in {"complete", "retry"} /\ job \in work[w].batch
  BY DEF PInv, TypeOK, WorkerStep, CompleteJob, RetryJob
<1>1. /\ job \in Job /\ job.id \in JobIds
      /\ SeenFrom(job.id, w).pc = work[w].pc
      /\ SeenFrom(job.id, w).attempts = Capped(job.attempts)
  BY <1>0, HolderTyped, HolderSeen
<1>2. \A r \in JobIds : r # job.id => quoteJobs'[r] = quoteJobs[r]
  BY <1>0, <1>1, OneRowWritten DEF CompleteJob, RetryJob, Try, RescheduleOrFail
<1>3. /\ \A i \in JobIds \ {job.id} : JobStep(i)
      /\ Progress(job.id)!LetGo(w)
      /\ quoteJobs'[job.id] = quoteJobs[job.id] => JobStep(job.id)
  BY <1>0, <1>1, <1>2, DropSeenByAll
<1>4. CASE quoteJobs'[job.id] # quoteJobs[job.id] /\ CompleteJob(w)
  <2>1. Progress(job.id)!Finish("done") /\ work[w].pc = "complete"
    BY <1>0, <1>1, <1>4, CompleteFinishes DEF CompleteJob, Try
  <2> QED
    BY <1>1, <1>3, <2>1 DEF JobStep, Progress!Next, Progress!Good, Progress!Write
<1>5. CASE quoteJobs'[job.id] # quoteJobs[job.id] /\ RetryJob(w)
  <2>1. Progress(job.id)!RescheduleOrFail(w) /\ work[w].pc = "retry"
    BY <1>0, <1>1, <1>5, RetryRetries DEF RetryJob, Try
  <2> QED
    BY <1>1, <1>3, <2>1 DEF JobStep, Progress!Next, Progress!Good, Progress!Write
<1> QED
  BY <1>3, <1>4, <1>5

(* A producer's INSERT. *)
LEMMA SubmitSeen ==
    ASSUME MaxSkew <= Lease, PInv, ViewInv, NEW new \in JobIds, NEW pair \in Pairs,
           Submit(new, pair), NEW id \in JobIds
    PROVE  JobStep(id)
<1>0. /\ QTypeOK /\ work' = work /\ clock' = clock /\ Next
      /\ quoteJobs \in [JobIds -> Row] /\ clock \in Nat
  BY TimeAssumption DEF PInv, TypeOK, QTypeOK, Submit, Next
<1>1. PICK now \in Readings : Produce(new, pair, now)
  BY DEF Submit
<1>2. \A v \in Workers : SeenFrom(id, v)' = SeenFrom(id, v)
  BY <1>0, StillSeen
<1>3. CASE quoteJobs'[id] = quoteJobs[id]
  BY <1>0, <1>2, <1>3, NothingSeen
<1>4. CASE quoteJobs'[id] # quoteJobs[id]
  <2>1. /\ quoteJobs[id].status = "absent"
        /\ quoteJobs'[id] = [NoRow EXCEPT !.status = "pending", !.pair = pair,
                !.key = DedupKey(pair, now), !.nextRunAt = now]
    BY <1>0, <1>1, <1>4 DEF Produce, Enqueue, Stored
  <2>2. /\ quoteJobs'[id].status = "pending" /\ quoteJobs'[id].attempts = 0
        /\ quoteJobs'[id].nextRunAt <= clock'
    BY <1>0, <1>1, <2>1, LagWithinLease DEF NoRow
  <2>3. quoteJobs[id].attempts = 0
    BY <2>1 DEF ViewInv
  <2>4. Progress(id)!Enqueue
    BY <1>2, <2>1, <2>2, <2>3 DEF Progress!Enqueue, Running
  <2> QED
    BY <2>4 DEF JobStep, Progress!Next, Progress!Good
<1> QED
  BY <1>3, <1>4

(* Time passes: the job falls due, its lease ends, or neither. *)
LEMMA PassTimeSeen ==
    ASSUME PInv, ViewInv, PassTime, NEW id \in JobIds
    PROVE  JobStep(id)
<1>0. /\ work' = work /\ quoteJobs' = quoteJobs /\ Next /\ clock' = clock + 1
      /\ clock \in Nat /\ quoteJobs[id] \in Row /\ RowOK(id)
  BY TimeAssumption DEF PInv, TypeOK, QTypeOK, IInv, PassTime, Tick, Next
<1>1. \A v \in Workers : SeenFrom(id, v)' = SeenFrom(id, v)
  BY <1>0, StillSeen
<1>2. /\ quoteJobs[id].nextRunAt \in Nat
      /\ Running(id) => quoteJobs[id].leaseUntil \in Nat
  BY <1>0 DEF Row, RowOK
<1>3. CASE quoteJobs[id].status = "pending" /\ ~(quoteJobs[id].nextRunAt <= clock)
           /\ quoteJobs[id].nextRunAt <= clock + 1
  <2>1. Progress(id)!FallDue
    BY <1>0, <1>1, <1>3 DEF Progress!FallDue, Running
  <2> QED
    BY <2>1 DEF JobStep, Progress!Next, Progress!Good
<1>4. CASE Running(id) /\ ~(quoteJobs[id].leaseUntil < clock)
           /\ quoteJobs[id].leaseUntil < clock + 1
  <2>1. Progress(id)!LeaseEnds
    BY <1>0, <1>1, <1>4 DEF Progress!LeaseEnds, Running
  <2>2. Progress(id)!Expire \/ Progress(id)!Overrun
    BY <2>1 DEF Progress!Expire, Progress!Overrun
  <2> QED
    BY <2>2 DEF JobStep, Progress!Next, Progress!Good, Progress!Uncharged
<1>5. CASE /\ quoteJobs[id].status = "pending"
              => (quoteJobs[id].nextRunAt <= clock <=> quoteJobs[id].nextRunAt <= clock + 1)
           /\ Running(id)
              => (quoteJobs[id].leaseUntil < clock <=> quoteJobs[id].leaseUntil < clock + 1)
  <2>1. UNCHANGED Progress(id)!progressVars
    BY <1>0, <1>1, <1>5 DEF Progress!progressVars, Running
  <2> QED
    BY <2>1 DEF JobStep
<1> QED
  BY <1>0, <1>2, <1>3, <1>4, <1>5 DEF Running

(* Every step of the pipeline is, for every job, a step of its life. *)
LEMMA EveryStepSeen ==
    ASSUME MaxSkew <= Lease, PInv, ViewInv, Next, NEW id \in JobIds
    PROVE  JobStep(id)
<1>1. ASSUME NEW w \in Workers, WorkerStep(w) PROVE JobStep(id)
  BY <1>1, PollSeen, CleanSeen, FetchSeen, HandleBatchErrorSeen, UpsertSeen,
     FailMissingSeen, CurrentJobSeen, CrashSeen DEF WorkerStep
<1> QED
  BY <1>1, SubmitSeen, PassTimeSeen DEF Next

(* What the mapping needs holds of the pipeline. *)
LEMMA ViewInvHolds == Spec => []ViewInv
<1>1. Init => ViewInv
  BY DEF Init, QInit, NoRow, Idle, ViewInv, Running
<1>2. PInv /\ ViewInv /\ [Next]_pipelineVars => ViewInv'
  BY ViewStep
<1> QED
  BY <1>1, <1>2, PInvHolds, PTL DEF Spec

(* Every job starts its life where JobProgress does. *)
LEMMA StartsLife ==
    ASSUME Init, NEW id \in JobIds
    PROVE  Progress(id)!Init
BY AttemptsAssumption, ViewFree
   DEF Init, QInit, NoRow, Progress!Init, Progress!Free, FreeView, Capped, Running,
       SeenFrom, Idle

(* The pipeline implements the life of each of its jobs, whatever the      *)
(* number of workers and however they hang, crash, lose replies or write   *)
(* rows they no longer hold: reducing clocks to "due" and "lease over",    *)
(* and the batch to one job, loses no behaviour.  A statement's reading    *)
(* of the clock may lag, by at most a lease: Reserve would otherwise write *)
(* a lease that is over when it starts.                                    *)
THEOREM PipelineRefinesProgress ==
    ASSUME MaxSkew <= Lease
    PROVE  Spec => PipelineImplementsProgress
<1>1. Init => \A id \in JobIds : Progress(id)!Init
  BY StartsLife
<1>2. PInv /\ ViewInv /\ [Next]_pipelineVars
        => [\A id \in JobIds :
               \/ UNCHANGED <<quoteJobs[id], clock, work>>
               \/ UNCHANGED Progress(id)!progressVars
               \/ Progress(id)!Next]_pipelineVars
  BY EveryStepSeen DEF JobStep
<1> QED
  BY <1>1, <1>2, PInvHolds, ViewInvHolds, PTL DEF Spec, PipelineImplementsProgress
=============================================================================
