--------------------------- MODULE JobQueueProofs ---------------------------
(***************************************************************************)
(* The queue keeps its invariants, never rewrites an outcome, never        *)
(* recovers a job early and implements JobLifecycle, for any jobs, pairs,  *)
(* bucket, lease, delays, batch limits, clock skew and bounds.             *)
(***************************************************************************)
EXTENDS JobQueue, TLAPS

(* A clock reading is a time within the bound. *)
LEMMA ReadingIsTime ==
    ASSUME QTypeOK, NEW now \in Readings
    PROVE  now \in 0..MaxTime /\ now <= clock /\ now \in Nat
BY TimeAssumption DEF QTypeOK, Readings

(* The missing row has the type of a row. *)
LEMMA NoRowType == NoRow \in Row
BY DEF NoRow, Row, Terminal

(* What Enqueue inserts has the type of a row. *)
LEMMA InsertedRowType ==
    ASSUME NEW pair \in Pairs, NEW t \in 0..MaxTime
    PROVE  [NoRow EXCEPT !.status = "pending", !.pair = pair,
               !.key = DedupKey(pair, t), !.nextRunAt = t] \in Row
<1>1. DedupKey(pair, t) \in Keys
  BY DEF Keys
<1>2. t \in Nat
  BY TimeAssumption
<1> QED
  BY <1>1, <1>2 DEF NoRow, Row, Terminal

(* What Complete, Reschedule and Fail write in a row keeps its type. *)
LEMMA CompletedRowType ==
    ASSUME NEW row \in Row, NEW quote \in Snapshots
    PROVE  [row EXCEPT !.status = "done", !.completed = TRUE,
                       !.quote = quote] \in Row
BY DEF Row, Terminal

(* What Reschedule writes keeps the type of a row. *)
LEMMA RescheduledRowType ==
    ASSUME NEW row \in Row, NEW reason \in Reasons, NEW t \in Nat
    PROVE  [row EXCEPT !.status = "pending", !.nextRunAt = t,
                       !.attempts = @ + 1, !.lastError = reason,
                       !.leaseUntil = Null] \in Row
<1>1. row.attempts + 1 \in Nat
  BY DEF Row
<1> QED
  BY <1>1 DEF Row, Terminal

(* What Fail writes keeps the type of a row. *)
LEMMA FailedRowType ==
    ASSUME NEW row \in Row, NEW reason \in Reasons
    PROVE  [row EXCEPT !.status = "failed", !.completed = TRUE,
                       !.lastError = reason] \in Row
BY DEF Row, Terminal

(* The table keeps its type: every statement writes values of its columns' *)
(* types.                                                                  *)
LEMMA StatementType ==
    ASSUME QTypeOK, NEW now \in Readings, Statement(now), UNCHANGED clock
    PROVE  QTypeOK'
<1> USE ReadingIsTime
<1>0. /\ \A id \in JobIds : quoteJobs[id] \in Row
      /\ now \in Nat /\ now + Lease \in Nat
  BY LeaseAssumption DEF QTypeOK
<1>1. ASSUME NEW id \in JobIds, NEW pair \in Pairs, Produce(id, pair, now)
      PROVE  quoteJobs' \in [JobIds -> Row]
  BY <1>1, InsertedRowType DEF QTypeOK, Produce, Enqueue
<1>2. ASSUME NEW ids \in SUBSET JobIds, NEW locked \in SUBSET JobIds,
             NEW n \in BatchSizes, Reserve(ids, n, now, locked)
      PROVE  quoteJobs' \in [JobIds -> Row]
  BY <1>0, <1>2 DEF QTypeOK, Reserve, Row, Terminal
<1>3. ASSUME NEW id \in JobIds, NEW quote \in Snapshots, Complete(id, quote)
      PROVE  quoteJobs' \in [JobIds -> Row]
  <2>1. [quoteJobs[id] EXCEPT !.status = "done", !.completed = TRUE,
                              !.quote = quote] \in Row
    BY <1>0, CompletedRowType
  <2> QED
    BY <1>3, <2>1 DEF QTypeOK, Complete
<1>4. ASSUME NEW id \in JobIds, NEW reason \in Reasons, NEW after \in Delays,
             Reschedule(id, reason, after, now)
      PROVE  quoteJobs' \in [JobIds -> Row]
  <2>1. now + after \in Nat
    BY <1>0, DelaysAssumption
  <2>2. [quoteJobs[id] EXCEPT !.status = "pending", !.nextRunAt = now + after,
                              !.attempts = @ + 1, !.lastError = reason,
                              !.leaseUntil = Null] \in Row
    BY <1>0, <2>1, RescheduledRowType
  <2> QED
    BY <1>4, <2>2 DEF QTypeOK, Reschedule
<1>5. ASSUME NEW id \in JobIds, NEW reason \in Reasons, Fail(id, reason)
      PROVE  quoteJobs' \in [JobIds -> Row]
  <2>1. [quoteJobs[id] EXCEPT !.status = "failed", !.completed = TRUE,
                              !.lastError = reason] \in Row
    BY <1>0, FailedRowType
  <2> QED
    BY <1>5, <2>1 DEF QTypeOK, Fail
<1>6. ASSUME RecoverExpired(now)
      PROVE  quoteJobs' \in [JobIds -> Row]
  BY <1>0, <1>6 DEF QTypeOK, RecoverExpired, Row, Terminal
<1> QED
  BY <1>1, <1>2, <1>3, <1>4, <1>5, <1>6 DEF QTypeOK, Statement

(* Type correctness: whatever is called, in whatever order, every row of   *)
(* quote_jobs keeps the types its migration declares.                      *)
THEOREM QueueTypeCorrect == QSpec => []QTypeOK
<1>1. QInit => QTypeOK
  BY NoRowType, TimeAssumption DEF QInit, QTypeOK
<1>2. QTypeOK /\ [QNext]_queueVars => QTypeOK'
  <2> SUFFICES ASSUME QTypeOK, [QNext]_queueVars PROVE QTypeOK'
    OBVIOUS
  <2>1. CASE Tick
    BY <2>1, TimeAssumption DEF QTypeOK, Tick
  <2>2. ASSUME NEW now \in Readings, Statement(now), UNCHANGED clock
        PROVE  QTypeOK'
    BY <2>2, StatementType
  <2>3. CASE UNCHANGED queueVars
    BY <2>3 DEF QTypeOK, queueVars
  <2> QED
    BY <2>1, <2>2, <2>3 DEF QNext
<1> QED
  BY <1>1, <1>2, PTL DEF QSpec

-----------------------------------------------------------------------------
(* What one statement can do to one row. *)

Inserted(id) ==
    /\ quoteJobs[id].status = "absent"
    /\ quoteJobs'[id].pair \in Pairs
    /\ quoteJobs'[id].key \in Keys
    /\ quoteJobs'[id].status = "pending"
    /\ quoteJobs'[id].leaseUntil = Null
    /\ quoteJobs'[id].quote = Null
    /\ quoteJobs'[id].completed = FALSE
    /\ quoteJobs'[id].attempts = 0
    /\ quoteJobs'[id].lastError = Null

SameIdentity(id) ==
    /\ quoteJobs'[id].key = quoteJobs[id].key
    /\ quoteJobs'[id].pair = quoteJobs[id].pair

SameCharges(id) ==
    /\ quoteJobs'[id].attempts = quoteJobs[id].attempts
    /\ quoteJobs'[id].lastError = quoteJobs[id].lastError

Reserved(id, now) ==
    /\ SameIdentity(id)
    /\ quoteJobs[id].status = "pending"
    /\ quoteJobs'[id].status = "running"
    /\ quoteJobs'[id].leaseUntil = now + Lease
    /\ quoteJobs'[id].quote = quoteJobs[id].quote
    /\ quoteJobs'[id].completed = quoteJobs[id].completed
    /\ SameCharges(id)

Returned(id, now) ==
    /\ SameIdentity(id)
    /\ Running(id)
    /\ quoteJobs'[id].status = "pending"
    /\ quoteJobs'[id].leaseUntil = Null
    /\ quoteJobs'[id].quote = quoteJobs[id].quote
    /\ quoteJobs'[id].completed = quoteJobs[id].completed
    /\ \/ /\ quoteJobs'[id].attempts = quoteJobs[id].attempts + 1
          /\ quoteJobs'[id].lastError \in Reasons
       \/ /\ quoteJobs[id].leaseUntil < now
          /\ SameCharges(id)

Ended(id) ==
    /\ SameIdentity(id)
    /\ Running(id)
    /\ quoteJobs'[id].completed = TRUE
    /\ \/ /\ quoteJobs'[id].status = "done"
          /\ quoteJobs'[id].quote \in Snapshots
          /\ SameCharges(id)
       \/ /\ quoteJobs'[id].status = "failed"
          /\ quoteJobs'[id].quote = quoteJobs[id].quote
          /\ quoteJobs'[id].lastError \in Reasons

RowUpdate(id, now) ==
    \/ quoteJobs'[id] = quoteJobs[id]
    \/ Reserved(id, now)
    \/ Returned(id, now)
    \/ Ended(id)

(* The statements other than INSERT. *)
Update(now) ==
    \/ \E ids, locked \in SUBSET JobIds, n \in BatchSizes :
          Reserve(ids, n, now, locked)
    \/ \E id \in JobIds, quote \in Snapshots : Complete(id, quote)
    \/ \E id \in JobIds, reason \in Reasons, after \in Delays :
          Reschedule(id, reason, after, now)
    \/ \E id \in JobIds, reason \in Reasons : Fail(id, reason)
    \/ RecoverExpired(now)

(* A statement other than an INSERT changes each row as RowUpdate says. *)
LEMMA UpdateRow ==
    ASSUME QTypeOK, NEW now \in Readings, Update(now), NEW r \in JobIds
    PROVE  RowUpdate(r, now)
<1>0. quoteJobs[r] \in Row /\ quoteJobs \in [JobIds -> Row]
  BY DEF QTypeOK
<1>2. ASSUME NEW ids \in SUBSET JobIds, NEW locked \in SUBSET JobIds,
             NEW n \in BatchSizes, Reserve(ids, n, now, locked)
      PROVE  RowUpdate(r, now)
  <2>1. r \in ids => quoteJobs[r].status = "pending"
    BY <1>2 DEF Reserve, Selected, Eligible
  <2> QED
    BY <1>0, <1>2, <2>1 DEF Reserve, RowUpdate, Reserved, SameIdentity,
                            SameCharges, Row
<1>3. ASSUME NEW id \in JobIds, NEW quote \in Snapshots, Complete(id, quote)
      PROVE  RowUpdate(r, now)
  <2>1. CASE r = id /\ Running(id)
    <3>1. quoteJobs'[r] = [quoteJobs[r] EXCEPT !.status = "done",
                              !.completed = TRUE, !.quote = quote]
      BY <1>0, <1>3, <2>1 DEF Complete
    <3> QED
      BY <1>0, <2>1, <3>1 DEF RowUpdate, Ended, SameIdentity, SameCharges, Row
  <2>2. CASE ~(r = id /\ Running(id))
    BY <1>0, <1>3, <2>2 DEF Complete, RowUpdate
  <2> QED
    BY <2>1, <2>2
<1>4. ASSUME NEW id \in JobIds, NEW reason \in Reasons, NEW after \in Delays,
             Reschedule(id, reason, after, now)
      PROVE  RowUpdate(r, now)
  <2>1. CASE r = id /\ Running(id) /\ Fits(reason)
    <3>1. quoteJobs'[r] = [quoteJobs[r] EXCEPT !.status = "pending",
                              !.nextRunAt = now + after, !.attempts = @ + 1,
                              !.lastError = reason, !.leaseUntil = Null]
      BY <1>0, <1>4, <2>1 DEF Reschedule
    <3> QED
      BY <1>0, <2>1, <3>1 DEF RowUpdate, Returned, SameIdentity, SameCharges, Row
  <2>2. CASE ~(r = id /\ Running(id) /\ Fits(reason))
    BY <1>0, <1>4, <2>2 DEF Reschedule, RowUpdate
  <2> QED
    BY <2>1, <2>2
<1>5. ASSUME NEW id \in JobIds, NEW reason \in Reasons, Fail(id, reason)
      PROVE  RowUpdate(r, now)
  <2>1. CASE r = id /\ Running(id) /\ Fits(reason)
    <3>1. quoteJobs'[r] = [quoteJobs[r] EXCEPT !.status = "failed",
                              !.completed = TRUE, !.lastError = reason]
      BY <1>0, <1>5, <2>1 DEF Fail
    <3> QED
      BY <1>0, <2>1, <3>1 DEF RowUpdate, Ended, SameIdentity, SameCharges, Row
  <2>2. CASE ~(r = id /\ Running(id) /\ Fits(reason))
    BY <1>0, <1>5, <2>2 DEF Fail, RowUpdate
  <2> QED
    BY <2>1, <2>2
<1>6. ASSUME RecoverExpired(now)
      PROVE  RowUpdate(r, now)
  BY <1>0, <1>6 DEF RecoverExpired, Expired, RowUpdate, Returned,
                    SameIdentity, SameCharges, Row
<1> QED
  BY <1>2, <1>3, <1>4, <1>5, <1>6 DEF Update

(* An INSERT adds one row under a key no other row has, or nothing. *)
LEMMA InsertRow ==
    ASSUME QTypeOK, NEW now \in Readings, NEW id \in JobIds, NEW pair \in Pairs,
           Produce(id, pair, now)
    PROVE  \/ quoteJobs' = quoteJobs
           \/ /\ Inserted(id)
              /\ ~Conflict(quoteJobs'[id].key)
              /\ \A other \in JobIds \ {id} : quoteJobs'[other] = quoteJobs[other]
<1>1. DedupKey(pair, now) \in Keys
  BY ReadingIsTime DEF Keys
<1>2. CASE ~Conflict(DedupKey(pair, now))
  <2>1. /\ quoteJobs[id].status = "absent"
        /\ quoteJobs'[id] = [NoRow EXCEPT !.status = "pending", !.pair = pair,
                !.key = DedupKey(pair, now), !.nextRunAt = now]
        /\ \A other \in JobIds \ {id} : quoteJobs'[other] = quoteJobs[other]
    BY <1>2 DEF QTypeOK, Produce, Enqueue, Stored
  <2>2. Inserted(id) /\ quoteJobs'[id].key = DedupKey(pair, now)
    BY <1>1, <2>1 DEF Inserted, NoRow
  <2> QED
    BY <1>1, <1>2, <2>1, <2>2
<1> QED
  BY <1>2 DEF Produce, Enqueue

(* A statement is an INSERT or an UPDATE. *)
LEMMA StatementCases ==
    ASSUME NEW now, Statement(now)
    PROVE  \/ \E id \in JobIds, pair \in Pairs : Produce(id, pair, now)
           \/ Update(now)
BY DEF Statement, Update

-----------------------------------------------------------------------------
(* The invariant.  OneJobPerKey is inductive by itself; the other parts    *)
(* constrain one row each.                                                 *)

LEMMA KeysStayUnique ==
    ASSUME QTypeOK, OneJobPerKey, NEW now \in Readings, Statement(now)
    PROVE  OneJobPerKey'
<1>1. ASSUME NEW id \in JobIds, NEW pair \in Pairs, Produce(id, pair, now)
      PROVE  OneJobPerKey'
  <2>1. CASE quoteJobs' = quoteJobs
    BY <2>1 DEF OneJobPerKey, Stored
  <2>2. CASE /\ Inserted(id)
             /\ ~Conflict(quoteJobs'[id].key)
             /\ \A other \in JobIds \ {id} : quoteJobs'[other] = quoteJobs[other]
    BY <2>2 DEF OneJobPerKey, Stored, Conflict, Inserted
  <2> QED
    BY <1>1, <2>1, <2>2, InsertRow
<1>2. CASE Update(now)
  <2>1. ASSUME NEW r \in JobIds
        PROVE  /\ quoteJobs'[r].key = quoteJobs[r].key
               /\ quoteJobs[r].status = "absent"
                     => quoteJobs'[r].status = "absent"
    BY <1>2, UpdateRow
       DEF RowUpdate, Reserved, Returned, Ended, SameIdentity, Running
  <2> QED
    BY <2>1 DEF OneJobPerKey, Stored
<1> QED
  BY <1>1, <1>2, StatementCases

(* The parts of the invariant that speak of one row. *)
RowOK(id) ==
    /\ quoteJobs[id].status # "absent"
          => quoteJobs[id].pair \in Pairs /\ quoteJobs[id].key \in Keys
    /\ quoteJobs[id].status = "done" <=> quoteJobs[id].quote # Null
    /\ Running(id) => quoteJobs[id].leaseUntil # Null
    /\ quoteJobs[id].status \in {"absent", "pending"}
          => quoteJobs[id].leaseUntil = Null
    /\ quoteJobs[id].completed <=> quoteJobs[id].status \in Terminal
    /\ quoteJobs[id].lastError # Null
          <=> quoteJobs[id].status = "failed" \/ quoteJobs[id].attempts > 0

IInv == OneJobPerKey /\ \A id \in JobIds : RowOK(id)

(* The inductive invariant is at least the safety invariant. *)
LEMMA InvFromRows == IInv => QInv
BY DEF IInv, RowOK, QInv, DoneHasQuote, LeaseWhileRunning,
       RenderersFindFields, GetByID, Stored

(* A statement keeps every single row well formed. *)
LEMMA RowsStayOK ==
    ASSUME QTypeOK, QTypeOK', NEW now \in Readings, Statement(now),
           NEW r \in JobIds, RowOK(r)
    PROVE  RowOK(r)'
<1>0. /\ quoteJobs[r].completed \in BOOLEAN
      /\ quoteJobs'[r].completed \in BOOLEAN
      /\ quoteJobs[r].attempts \in Nat
  BY DEF QTypeOK, Row
<1>1. CASE quoteJobs'[r] = quoteJobs[r]
  BY <1>1 DEF RowOK, Running
<1>2. CASE Inserted(r)
  BY <1>2 DEF RowOK, Running, Inserted, Terminal
<1>3. CASE Reserved(r, now)
  <2>1. now + Lease # Null
    BY ReadingIsTime, LeaseAssumption, NullAssumption
  <2> QED
    BY <1>3, <2>1 DEF RowOK, Running, Reserved, SameIdentity, SameCharges, Terminal
<1>4. CASE Returned(r, now)
  BY <1>0, <1>4, NullAssumption
     DEF RowOK, Running, Returned, SameIdentity, SameCharges, Terminal, Reasons
<1>5. CASE Ended(r)
  BY <1>5, NullAssumption
     DEF RowOK, Running, Ended, SameIdentity, SameCharges, Terminal, Reasons
<1> QED
  BY <1>1, <1>2, <1>3, <1>4, <1>5, StatementCases, InsertRow, UpdateRow
     DEF RowUpdate

(* The inductive invariant holds of the queue. *)
LEMMA QueueRowsOK == QSpec => []IInv
<1>1. QInit => IInv
  BY DEF QInit, IInv, OneJobPerKey, Stored, RowOK, NoRow, Running, Terminal
<1>2. QTypeOK /\ QTypeOK' /\ IInv /\ [QNext]_queueVars => IInv'
  <2> SUFFICES ASSUME QTypeOK, QTypeOK', IInv, [QNext]_queueVars PROVE IInv'
    OBVIOUS
  <2>1. CASE UNCHANGED quoteJobs
    BY <2>1 DEF IInv, OneJobPerKey, Stored, RowOK, Running
  <2>2. ASSUME NEW now \in Readings, Statement(now) PROVE IInv'
    BY <2>2, KeysStayUnique, RowsStayOK DEF IInv
  <2> QED
    BY <2>1, <2>2 DEF QNext, Tick, queueVars
<1> QED
  BY <1>1, <1>2, QueueTypeCorrect, PTL DEF QSpec

(* The queue's safety: for every job set, bucket, lease, skew and sequence *)
(* of calls, a coalescing key owns one job, a row is done exactly when it  *)
(* has a quote, a running row always has a lease the cleaner can see       *)
(* expire, and the view a client gets has what the renderers dereference.  *)
THEOREM QueueInvariant ==
    QSpec => [](/\ OneJobPerKey /\ DoneHasQuote
                /\ LeaseWhileRunning /\ RenderersFindFields)
<1>1. QInv => /\ OneJobPerKey /\ DoneHasQuote
              /\ LeaseWhileRunning /\ RenderersFindFields
  BY DEF QInv
<1> QED
  BY <1>1, QueueRowsOK, InvFromRows, PTL

(* Outcomes are final: no call, by whichever worker, changes a done or     *)
(* failed row again.                                                       *)
THEOREM OutcomesAreFinal == QSpec => TerminalIsFinal
<1>1. ASSUME QTypeOK, [QNext]_queueVars, NEW id \in JobIds,
             quoteJobs[id].status \in Terminal
      PROVE  quoteJobs'[id] = quoteJobs[id]
  <2>1. CASE UNCHANGED quoteJobs
    BY <2>1
  <2>2. ASSUME NEW now \in Readings, Statement(now)
        PROVE  quoteJobs'[id] = quoteJobs[id]
    BY <1>1, <2>2, StatementCases, InsertRow, UpdateRow
       DEF RowUpdate, Inserted, Reserved, Returned, Ended, Running, Terminal
  <2> QED
    BY <1>1, <2>1, <2>2 DEF QNext, Tick, queueVars
<1>2. QTypeOK /\ [QNext]_queueVars
        => [\A id \in JobIds : quoteJobs[id].status \in Terminal
               => quoteJobs'[id] = quoteJobs[id]]_queueVars
  BY <1>1
<1> QED
  BY <1>2, QueueTypeCorrect, PTL DEF QSpec, TerminalIsFinal

(* No early recovery: a running job is taken back uncharged only when its  *)
(* lease has passed on the most advanced clock, for any clock skew.        *)
THEOREM RecoveryWaitsForLease == QSpec => NoEarlyRecovery
<1>1. ASSUME QTypeOK, IInv, [QNext]_queueVars, NEW id \in JobIds, Running(id),
             quoteJobs'[id].status = "pending",
             quoteJobs'[id].attempts = quoteJobs[id].attempts
      PROVE  quoteJobs[id].leaseUntil < clock
  <2>1. ~UNCHANGED quoteJobs
    BY <1>1 DEF Running
  <2>2. PICK now \in Readings : Statement(now)
    BY <1>1, <2>1 DEF QNext, Tick, queueVars
  <2>3. Returned(id, now)
    BY <1>1, <2>2, StatementCases, InsertRow, UpdateRow
       DEF RowUpdate, Inserted, Reserved, Ended, Running
  <2>4. quoteJobs[id].attempts \in Nat /\ quoteJobs[id].leaseUntil \in Nat
    BY <1>1 DEF QTypeOK, Row, IInv, RowOK
  <2>5. quoteJobs[id].leaseUntil < now
    BY <1>1, <2>3, <2>4 DEF Returned
  <2> QED
    BY <1>1, <2>4, <2>5, ReadingIsTime, TimeAssumption DEF QTypeOK
<1>2. QTypeOK /\ IInv /\ [QNext]_queueVars
        => [\A id \in JobIds :
              /\ Running(id)
              /\ quoteJobs'[id].status = "pending"
              /\ quoteJobs'[id].attempts = quoteJobs[id].attempts
              => quoteJobs[id].leaseUntil < clock]_queueVars
  BY <1>1
<1> QED
  BY <1>2, QueueTypeCorrect, QueueRowsOK, PTL DEF QSpec, NoEarlyRecovery

-----------------------------------------------------------------------------
(* Each statement is one step of the abstract queue. *)

LEMMA InsertIsAccept ==
    ASSUME QTypeOK, IInv, NEW now \in Readings, NEW id \in JobIds,
           NEW pair \in Pairs, Produce(id, pair, now)
    PROVE  UNCHANGED quoteJobs \/ \E k \in Keys : Lifecycle!Accept(id, k)
<1> DEFINE k == quoteJobs'[id].key
<1>1. CASE /\ Inserted(id) /\ ~Conflict(k)
           /\ \A other \in JobIds \ {id} : quoteJobs'[other] = quoteJobs[other]
  <2>1. quoteJobs[id].quote = Null
    BY <1>1 DEF IInv, RowOK, Inserted
  <2>2. /\ [r \in JobIds |-> quoteJobs[r].status][id] = "absent"
        /\ \A other \in Lifecycle!Known :
              [r \in JobIds |-> quoteJobs[r].key][other] # k
    BY <1>1 DEF Lifecycle!Known, Conflict, Stored, Inserted
  <2>3. /\ [r \in JobIds |-> quoteJobs'[r].status]
              = [[r \in JobIds |-> quoteJobs[r].status] EXCEPT ![id] = "pending"]
        /\ [r \in JobIds |-> quoteJobs'[r].key]
              = [[r \in JobIds |-> quoteJobs[r].key] EXCEPT ![id] = k]
        /\ [r \in JobIds |-> quoteJobs'[r].quote]
              = [r \in JobIds |-> quoteJobs[r].quote]
    BY <1>1, <2>1 DEF Inserted
  <2> QED
    BY <1>1, <2>2, <2>3 DEF Lifecycle!Accept, Inserted
<1> QED
  BY <1>1, InsertRow

(* Reserve starts the jobs it returns. *)
LEMMA ReserveIsStart ==
    ASSUME QTypeOK, NEW now \in Readings, NEW ids \in SUBSET JobIds, NEW n,
           NEW locked, Reserve(ids, n, now, locked)
    PROVE  Lifecycle!Start(ids)
<1>1. \A id \in ids : quoteJobs[id].status = "pending"
  BY DEF Reserve, Selected, Eligible
<1>2. \A r \in JobIds :
        /\ quoteJobs'[r].status = IF r \in ids THEN "running" ELSE quoteJobs[r].status
        /\ quoteJobs'[r].key = quoteJobs[r].key
        /\ quoteJobs'[r].quote = quoteJobs[r].quote
  BY DEF QTypeOK, Reserve, Row
<1> QED
  BY <1>1, <1>2 DEF Lifecycle!Start, Lifecycle!Move

(* Complete delivers the quote of a running job, or does nothing. *)
LEMMA CompleteIsDeliver ==
    ASSUME QTypeOK, NEW id \in JobIds, NEW quote \in Snapshots,
           Complete(id, quote)
    PROVE  UNCHANGED quoteJobs \/ Lifecycle!Deliver(id, quote)
<1>1. CASE Running(id)
  <2>1. quoteJobs'[id] = [quoteJobs[id] EXCEPT !.status = "done",
                              !.completed = TRUE, !.quote = quote]
    BY <1>1 DEF QTypeOK, Complete
  <2>2. \A r \in JobIds \ {id} : quoteJobs'[r] = quoteJobs[r]
    BY <1>1 DEF QTypeOK, Complete
  <2>3. /\ quoteJobs'[id].status = "done"
        /\ quoteJobs'[id].key = quoteJobs[id].key
        /\ quoteJobs'[id].quote = quote
    BY <2>1 DEF QTypeOK, Row
  <2> QED
    BY <1>1, <2>2, <2>3 DEF Lifecycle!Deliver, Running
<1> QED
  BY <1>1 DEF Complete

(* Reschedule gives a running job back, or does nothing. *)
LEMMA RescheduleIsGiveBack ==
    ASSUME QTypeOK, NEW now \in Readings, NEW id \in JobIds, NEW reason \in Reasons,
           NEW after \in Delays, Reschedule(id, reason, after, now)
    PROVE  UNCHANGED quoteJobs \/ Lifecycle!GiveBack({id})
<1>1. CASE Running(id) /\ Fits(reason)
  <2>1. quoteJobs'[id] = [quoteJobs[id] EXCEPT !.status = "pending",
                              !.nextRunAt = now + after, !.attempts = @ + 1,
                              !.lastError = reason, !.leaseUntil = Null]
    BY <1>1 DEF QTypeOK, Reschedule
  <2>2. \A r \in JobIds \ {id} : quoteJobs'[r] = quoteJobs[r]
    BY <1>1 DEF QTypeOK, Reschedule
  <2>3. /\ quoteJobs'[id].status = "pending"
        /\ quoteJobs'[id].key = quoteJobs[id].key
        /\ quoteJobs'[id].quote = quoteJobs[id].quote
    BY <2>1 DEF QTypeOK, Row
  <2> QED
    BY <1>1, <2>2, <2>3 DEF Lifecycle!GiveBack, Lifecycle!Move, Running
<1> QED
  BY <1>1 DEF Reschedule

(* Fail abandons a running job, or does nothing. *)
LEMMA FailIsAbandon ==
    ASSUME QTypeOK, NEW id \in JobIds, NEW reason \in Reasons, Fail(id, reason)
    PROVE  UNCHANGED quoteJobs \/ Lifecycle!Abandon(id)
<1>1. CASE Running(id) /\ Fits(reason)
  <2>1. quoteJobs'[id] = [quoteJobs[id] EXCEPT !.status = "failed",
                              !.completed = TRUE, !.lastError = reason]
    BY <1>1 DEF QTypeOK, Fail
  <2>2. \A r \in JobIds \ {id} : quoteJobs'[r] = quoteJobs[r]
    BY <1>1 DEF QTypeOK, Fail
  <2>3. /\ quoteJobs'[id].status = "failed"
        /\ quoteJobs'[id].key = quoteJobs[id].key
        /\ quoteJobs'[id].quote = quoteJobs[id].quote
    BY <2>1 DEF QTypeOK, Row
  <2> QED
    BY <1>1, <2>2, <2>3 DEF Lifecycle!Abandon, Lifecycle!Move, Running
<1> QED
  BY <1>1 DEF Fail

(* RecoverExpired gives the expired jobs back, all in one step. *)
LEMMA RecoverIsGiveBack ==
    ASSUME QTypeOK, NEW now \in Readings, RecoverExpired(now)
    PROVE  \E ids \in SUBSET JobIds : Lifecycle!GiveBack(ids)
<1> DEFINE ids == {id \in JobIds : Expired(id, now)}
<1>1. \A r \in JobIds :
        /\ quoteJobs'[r].status = IF r \in ids THEN "pending" ELSE quoteJobs[r].status
        /\ quoteJobs'[r].key = quoteJobs[r].key
        /\ quoteJobs'[r].quote = quoteJobs[r].quote
  BY DEF QTypeOK, RecoverExpired, Row
<1>2. \A id \in ids : quoteJobs[id].status = "running"
  BY DEF Expired, Running
<1>3. ids \in SUBSET JobIds
  OBVIOUS
<1> HIDE DEF ids
<1> QED
  BY <1>1, <1>2, <1>3 DEF Lifecycle!GiveBack, Lifecycle!Move

(* So each statement is a step of the abstract queue or a stutter. *)
LEMMA StatementImplements ==
    ASSUME QTypeOK, IInv, NEW now \in Readings, Statement(now)
    PROVE  UNCHANGED quoteJobs \/ Lifecycle!Next
<1>1. ASSUME NEW id \in JobIds, NEW pair \in Pairs, Produce(id, pair, now)
      PROVE  UNCHANGED quoteJobs \/ Lifecycle!Next
  BY <1>1, InsertIsAccept DEF Lifecycle!Next
<1>2. ASSUME NEW ids \in SUBSET JobIds, NEW locked \in SUBSET JobIds,
             NEW n \in BatchSizes, Reserve(ids, n, now, locked)
      PROVE  Lifecycle!Next
  BY <1>2, ReserveIsStart DEF Lifecycle!Next
<1>3. ASSUME NEW id \in JobIds, NEW quote \in Snapshots, Complete(id, quote)
      PROVE  UNCHANGED quoteJobs \/ Lifecycle!Next
  BY <1>3, CompleteIsDeliver DEF Lifecycle!Next
<1>4. ASSUME NEW id \in JobIds, NEW reason \in Reasons, NEW after \in Delays,
             Reschedule(id, reason, after, now)
      PROVE  UNCHANGED quoteJobs \/ Lifecycle!Next
  BY <1>4, RescheduleIsGiveBack DEF Lifecycle!Next
<1>5. ASSUME NEW id \in JobIds, NEW reason \in Reasons, Fail(id, reason)
      PROVE  UNCHANGED quoteJobs \/ Lifecycle!Next
  BY <1>5, FailIsAbandon DEF Lifecycle!Next
<1>6. ASSUME RecoverExpired(now)
      PROVE  Lifecycle!Next
  BY <1>6, RecoverIsGiveBack DEF Lifecycle!Next
<1> QED
  BY <1>1, <1>2, <1>3, <1>4, <1>5, <1>6 DEF Statement

(* The Postgres queue implements the abstract one: every statement is one  *)
(* step of JobLifecycle on the jobs' status, key and quote, or none.       *)
THEOREM QueueImplementsLifecycle == QSpec => ImplementsLifecycle
<1>1. QInit => Lifecycle!Init
  BY DEF QInit, Lifecycle!Init, NoRow
<1>2. QTypeOK /\ QTypeOK' /\ IInv /\ [QNext]_queueVars
        => [Lifecycle!Next]_Lifecycle!lifecycle
  <2> SUFFICES ASSUME QTypeOK, QTypeOK', IInv, [QNext]_queueVars
               PROVE  [Lifecycle!Next]_Lifecycle!lifecycle
    OBVIOUS
  <2>1. CASE UNCHANGED quoteJobs
    BY <2>1 DEF Lifecycle!lifecycle
  <2>2. ASSUME NEW now \in Readings, Statement(now)
        PROVE  [Lifecycle!Next]_Lifecycle!lifecycle
    BY <2>1, <2>2, StatementImplements
  <2> QED
    BY <2>1, <2>2 DEF QNext, Tick, queueVars
<1> QED
  BY <1>1, <1>2, QueueTypeCorrect, QueueRowsOK, PTL
     DEF QSpec, ImplementsLifecycle, Lifecycle!Spec
=============================================================================
