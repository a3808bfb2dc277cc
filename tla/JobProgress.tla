---------------------------- MODULE JobProgress ----------------------------
(***************************************************************************)
(* The life of one job until it ends, without absolute time: what Pipeline *)
(* does to one row of quote_jobs, with clocks reduced to whether the job   *)
(* is due and whether its lease is over.  Time never runs out here, so     *)
(* that one can ask whether the job ends.                                  *)
(*                                                                         *)
(* attempts is capped at MaxAttempts: rescheduleOrFail only compares it.   *)
(* Module PipelineProgress shows that Pipeline implements this one.        *)
(***************************************************************************)
EXTENDS Naturals

CONSTANTS Workers,
          Steady,       \* workers whose provider calls and statements return
          MaxAttempts   \* worker.maxAttempts

ASSUME SteadyAssumption == Steady \subseteq Workers /\ Steady # {}
ASSUME BudgetAssumption == MaxAttempts \in Nat

VARIABLES status,     \* the row's status
          attempts,   \* its attempts, at most MaxAttempts
          due,        \* it is pending and next_run_at has come
          leaseOver,  \* it is running and lease_until has passed
          work        \* work[w]: what worker w does with the job

progressVars == <<status, attempts, due, leaseOver, work>>
rowVars == <<status, attempts, due, leaseOver>>

(* What FetchPairs said about the job's pair. *)
Outcomes == {"ok", "missing", "transient", "permanent", "quota_exceeded"}

Free == [pc |-> "free", outcome |-> "none", attempts |-> 0]

Ended == status \in {"done", "failed"}

(* Worker w goes on to at, or lets go of the job. *)
Goto(w, at) == work' = [work EXCEPT ![w].pc = at]
LetGo(w) == work' = [work EXCEPT ![w] = Free]

-----------------------------------------------------------------------------
(* The statements, on this row. *)

Charged(n) == IF n < MaxAttempts THEN n + 1 ELSE n

Finish(how) ==
    \/ /\ status = "running"
       /\ status' = how
       /\ leaseOver' = FALSE
       /\ UNCHANGED <<attempts, due>>
    \/ /\ status # "running"
       /\ UNCHANGED rowVars

(* Mutant: attempts is not incremented. *)
RescheduleUncharged ==
    /\ status = "running"
    /\ status' = "pending"
    /\ due' \in BOOLEAN
    /\ leaseOver' = FALSE
    /\ UNCHANGED attempts

(* Mutant: lease_until is not reset. *)
RescheduleKeepsLease ==
    /\ status = "running"
    /\ status' = "pending"
    /\ due' \in BOOLEAN
    /\ attempts' = Charged(attempts)
    /\ UNCHANGED leaseOver

(* With a delay that may be 0. *)
Reschedule ==
    \/ /\ status = "running"
       /\ status' = "pending"
       /\ due' \in BOOLEAN
       /\ leaseOver' = FALSE
       /\ attempts' = Charged(attempts)
    \/ /\ status # "running"
       /\ UNCHANGED rowVars

(* On the attempts the worker read when it reserved the job. *)
RescheduleOrFail(w) ==
    \/ work[w].attempts < MaxAttempts /\ Reschedule
    \/ work[w].attempts >= MaxAttempts /\ Finish("failed")

Take ==
    /\ status = "pending"
    /\ due
    /\ status' = "running"
    /\ due' = FALSE
    /\ leaseOver' = FALSE
    /\ UNCHANGED attempts

-----------------------------------------------------------------------------
(* Steps that go as they should, the errors of the upstream included. *)

Enqueue ==
    /\ status = "absent"
    /\ status' = "pending"
    /\ due' = TRUE
    /\ UNCHANGED <<attempts, leaseOver, work>>

Reserve(w) ==
    /\ work[w] = Free
    /\ Take
    /\ work' = [work EXCEPT ![w] =
                  [Free EXCEPT !.pc = "fetch", !.attempts = attempts]]

(* Mutant: a job is recovered only once its worker has let go of it. *)
RecoverReleased(w) ==
    /\ work[w] = Free
    /\ \A v \in Workers : work[v] = Free
    /\ status = "running" /\ leaseOver
    /\ status' = "pending"
    /\ due' = TRUE
    /\ leaseOver' = FALSE
    /\ UNCHANGED <<attempts, work>>

Recover(w) ==
    /\ work[w] = Free
    /\ status = "running" /\ leaseOver
    /\ status' = "pending"
    /\ due' = TRUE
    /\ leaseOver' = FALSE
    /\ UNCHANGED <<attempts, work>>

FetchReturns(w) ==
    /\ work[w].pc = "fetch"
    /\ \E outcome \in Outcomes \ {"quota_exceeded"} :
          work' = [work EXCEPT ![w].pc = "demux", ![w].outcome = outcome]
    /\ UNCHANGED rowVars

(* The upsert of the quote, or its failure. *)
Upsert(w) ==
    /\ work[w].pc = "demux" /\ work[w].outcome = "ok"
    /\ Goto(w, "complete") \/ Goto(w, "retry")
    /\ UNCHANGED rowVars

(* The statement that ends the worker's dealings with the job. *)
Write(w) ==
    /\ \/ work[w].pc = "complete" /\ Finish("done")
       \/ work[w].pc = "retry" /\ RescheduleOrFail(w)
       \/ /\ work[w].pc = "demux"
          /\ \/ work[w].outcome \in {"missing", "permanent"} /\ Finish("failed")
             \/ work[w].outcome = "transient" /\ RescheduleOrFail(w)
             \/ work[w].outcome = "quota_exceeded" /\ Reschedule
    /\ LetGo(w)

FallDue ==
    /\ status = "pending" /\ ~due
    /\ due' = TRUE
    /\ UNCHANGED <<status, attempts, leaseOver, work>>

LeaseEnds ==
    /\ status = "running" /\ ~leaseOver
    /\ leaseOver' = TRUE
    /\ UNCHANGED <<status, attempts, due, work>>

(* The lease ends while no worker is at work on the job. *)
Expire == (\A w \in Workers : work[w] = Free) /\ LeaseEnds

Good ==
    \/ Enqueue \/ FallDue \/ Expire
    \/ \E w \in Workers : \/ Reserve(w) \/ Recover(w) \/ FetchReturns(w)
                          \/ Upsert(w) \/ Write(w)

-----------------------------------------------------------------------------
(* Failures that are not held against the attempt budget. *)

(* Reserve takes effect and its reply is lost. *)
ReserveLost(w) == work[w] = Free /\ Take /\ UNCHANGED work

(* The quota is exceeded: rescheduled whatever the attempts. *)
QuotaExceeded(w) ==
    /\ work[w].pc = "fetch"
    /\ work' = [work EXCEPT ![w].pc = "demux",
                            ![w].outcome = "quota_exceeded"]
    /\ UNCHANGED rowVars

(* The process dies; or the last statement fails, because the database     *)
(* does or because the reason exceeds last_error_length.                   *)
Fails(w) ==
    /\ work[w] # Free
    /\ LetGo(w)
    /\ UNCHANGED rowVars

(* A worker takes longer than the lease. *)
Overrun == (\E w \in Workers : work[w] # Free) /\ LeaseEnds

Uncharged ==
    \/ Overrun
    \/ \E w \in Workers : ReserveLost(w) \/ QuotaExceeded(w) \/ Fails(w)

-----------------------------------------------------------------------------
Init ==
    /\ status = "absent"
    /\ attempts = 0
    /\ due = FALSE
    /\ leaseOver = FALSE
    /\ work = [w \in Workers |-> Free]

Over == Ended /\ (\A w \in Workers : work[w] = Free) /\ UNCHANGED progressVars

Next == Good \/ Uncharged \/ Over

Safety == Init /\ [][Next]_progressVars

(* Time passes.  A steady worker's select is fair to both of its tickers,  *)
(* ORDER BY next_run_at brings every due job to the front, and its calls   *)
(* return.  The other workers may stop at any point for ever, as nothing   *)
(* bounds the time a provider call takes.                                  *)
Fairness ==
    /\ WF_progressVars(FallDue)
    /\ WF_progressVars(LeaseEnds)
    /\ \A w \in Steady :
          /\ WF_progressVars(Reserve(w))
          /\ WF_progressVars(Recover(w))
          /\ WF_progressVars(FetchReturns(w))
          /\ WF_progressVars(Upsert(w))
          /\ WF_progressVars(Write(w))

Spec == Safety /\ Fairness

-----------------------------------------------------------------------------
(* Properties. *)

TypeOK ==
    /\ status \in {"absent", "pending", "running", "done", "failed"}
    /\ attempts \in 0..MaxAttempts
    /\ due \in BOOLEAN /\ (due => status = "pending")
    /\ leaseOver \in BOOLEAN /\ (leaseOver => status = "running")
    /\ work \in [Workers -> [pc : {"free", "fetch", "demux", "complete", "retry"},
                             outcome : {"none"} \cup Outcomes,
                             attempts : 0..MaxAttempts]]

(* No job stays running for ever, however often workers die, hang with it  *)
(* in a call without a deadline, or cannot write its outcome: the clean-up *)
(* of a steady worker takes it back (worker.go:153, RecoverExpired).       *)
NeverStuckRunning == status = "running" ~> status # "running"

(* Every accepted job ends, done or failed, once no more of the failures   *)
(* happen that cost no attempt (quota, crash, lost reply, a reason that is *)
(* too long, a worker slower than its lease); stale copies, a worker that  *)
(* hangs with the job for ever and any number of upstream errors do not    *)
(* keep it going (rescheduleOrFail, RecoverExpired).                       *)
JobEnds == <>[][Good]_progressVars => (status = "pending" ~> Ended)
=============================================================================
