-------------------------- MODULE JobProgressProofs --------------------------
(* Types of the life of one job, for every set of workers and every budget. *)
EXTENDS JobProgress, TLAPS

Local == [pc : {"free", "fetch", "demux", "complete", "retry"},
          outcome : {"none"} \cup Outcomes,
          attempts : 0..MaxAttempts]

(* A worker that lets go of the job, or goes on with it, is well typed. *)
LEMMA LocalTypes ==
    ASSUME work \in [Workers -> Local], NEW w \in Workers
    PROVE  /\ Free \in Local
           /\ LetGo(w) => work' \in [Workers -> Local]
           /\ \A pc \in {"demux", "complete", "retry"} :
                 Goto(w, pc) => work' \in [Workers -> Local]
           /\ \A outcome \in Outcomes :
                 work' = [work EXCEPT ![w].pc = "demux", ![w].outcome = outcome]
                    => work' \in [Workers -> Local]
<1>1. Free \in Local
  BY BudgetAssumption DEF Free, Local
<1>2. work[w] \in Local
  OBVIOUS
<1>3. ASSUME NEW pc \in {"demux", "complete", "retry"}, Goto(w, pc)
      PROVE  work' \in [Workers -> Local]
  <2>1. [work[w] EXCEPT !.pc = pc] \in Local
    BY <1>2, <1>3 DEF Local
  <2> QED
    BY <1>3, <2>1 DEF Goto
<1>4. ASSUME NEW outcome \in Outcomes,
             work' = [work EXCEPT ![w].pc = "demux", ![w].outcome = outcome]
      PROVE  work' \in [Workers -> Local]
  <2>1. [work[w] EXCEPT !.pc = "demux", !.outcome = outcome] \in Local
    BY <1>2, <1>4 DEF Local
  <2>2. work' = [work EXCEPT ![w] = [work[w] EXCEPT !.pc = "demux", !.outcome = outcome]]
    BY <1>4
  <2> QED
    BY <2>1, <2>2
<1> QED
  BY <1>1, <1>3, <1>4 DEF LetGo

(* The columns of the row: what every statement may leave in it. *)
RowType ==
    /\ status \in {"absent", "pending", "running", "done", "failed"}
    /\ attempts \in 0..MaxAttempts
    /\ due \in BOOLEAN /\ (due => status = "pending")
    /\ leaseOver \in BOOLEAN /\ (leaseOver => status = "running")

(* The statements keep the row's type. *)
LEMMA StatementTypes ==
    ASSUME RowType,
           \/ \E how \in {"done", "failed"} : Finish(how)
           \/ Reschedule
           \/ Take
           \/ UNCHANGED rowVars
    PROVE  RowType'
<1>1. Charged(attempts) \in 0..MaxAttempts
  BY BudgetAssumption DEF RowType, Charged
<1>2. ASSUME NEW how \in {"done", "failed"}, Finish(how) PROVE RowType'
  <2>1. CASE /\ status = "running"
             /\ status' = how
             /\ leaseOver' = FALSE
             /\ UNCHANGED <<attempts, due>>
    <3>1. ~due
      BY <2>1 DEF RowType
    <3> QED
      BY <1>2, <2>1, <3>1, Zenon DEF RowType
  <2>2. CASE UNCHANGED rowVars
    BY <2>2 DEF RowType, rowVars
  <2> QED
    BY <1>2, <2>1, <2>2 DEF Finish
<1>3. CASE Reschedule
  <2>1. CASE /\ status' = "pending"
             /\ due' \in BOOLEAN
             /\ leaseOver' = FALSE
             /\ attempts' = Charged(attempts)
    BY <1>1, <2>1, Zenon DEF RowType
  <2>2. CASE UNCHANGED rowVars
    BY <2>2 DEF RowType, rowVars
  <2> QED
    BY <1>3, <2>1, <2>2 DEF Reschedule
<1>4. CASE Take
  BY <1>4 DEF RowType, Take
<1>5. CASE UNCHANGED rowVars
  BY <1>5 DEF RowType, rowVars
<1> QED
  BY <1>2, <1>3, <1>4, <1>5

(* One step of the job's life keeps the types of its row and of the        *)
(* workers that hold a copy of it.                                         *)
LEMMA TypeStep ==
    ASSUME RowType, work \in [Workers -> Local], [Next]_progressVars
    PROVE  RowType' /\ work' \in [Workers -> Local]
<1>1. CASE Enqueue \/ FallDue \/ Expire \/ Overrun
  <2>1. CASE Enqueue
    BY <2>1, Zenon DEF Enqueue, RowType
  <2>2. CASE FallDue
    BY <2>2, Zenon DEF FallDue, RowType
  <2>3. CASE LeaseEnds
    BY <2>3, Zenon DEF LeaseEnds, RowType
  <2> QED
    BY <1>1, <2>1, <2>2, <2>3 DEF Expire, Overrun
<1>2. ASSUME NEW w \in Workers, Reserve(w) PROVE RowType' /\ work' \in [Workers -> Local]
  <2>1. RowType'
    BY <1>2, StatementTypes DEF Reserve
  <2>2. [Free EXCEPT !.pc = "fetch", !.attempts = attempts] \in Local
    BY DEF Free, Local, RowType
  <2> QED
    BY <1>2, <2>1, <2>2 DEF Reserve
<1>3. ASSUME NEW w \in Workers, Recover(w) PROVE RowType' /\ work' \in [Workers -> Local]
  BY <1>3 DEF Recover, RowType
<1>4. ASSUME NEW w \in Workers, FetchReturns(w) \/ QuotaExceeded(w)
      PROVE  RowType' /\ work' \in [Workers -> Local]
  <2>1. RowType'
    BY <1>4, StatementTypes DEF FetchReturns, QuotaExceeded
  <2>2. PICK outcome \in Outcomes :
           work' = [work EXCEPT ![w].pc = "demux", ![w].outcome = outcome]
    BY <1>4 DEF FetchReturns, QuotaExceeded, Outcomes
  <2> QED
    BY <1>4, <2>1, <2>2, LocalTypes
<1>5. ASSUME NEW w \in Workers, Upsert(w) PROVE RowType' /\ work' \in [Workers -> Local]
  BY <1>5, StatementTypes, LocalTypes DEF Upsert
<1>6. ASSUME NEW w \in Workers, Write(w) PROVE RowType' /\ work' \in [Workers -> Local]
  <2>1. (\E how \in {"done", "failed"} : Finish(how)) \/ Reschedule
    BY <1>6 DEF Write, RescheduleOrFail
  <2> QED
    BY <1>6, <2>1, StatementTypes, LocalTypes DEF Write
<1>7. ASSUME NEW w \in Workers, ReserveLost(w) \/ Fails(w)
      PROVE  RowType' /\ work' \in [Workers -> Local]
  BY <1>7, StatementTypes, LocalTypes DEF ReserveLost, Fails
<1>8. CASE Over \/ UNCHANGED progressVars
  BY <1>8 DEF Over, progressVars, RowType
<1> QED
  BY <1>1, <1>2, <1>3, <1>4, <1>5, <1>6, <1>7, <1>8 DEF Next, Good, Uncharged

(* Type correctness of one job's life, with the two facts its clocks were  *)
(* reduced to: only a pending job is due, only a running one's lease can   *)
(* be over; the copies that slow workers keep stay within the budget.      *)
THEOREM ProgressTypeCorrect == Safety => []TypeOK
<1>1. TypeOK <=> RowType /\ work \in [Workers -> Local]
  BY DEF TypeOK, RowType, Local
<1>2. Init => TypeOK
  <2>1. 0 \in 0..MaxAttempts /\ Free \in Local
    BY BudgetAssumption DEF Free, Local
  <2> QED
    BY <1>1, <2>1, Zenon DEF Init, RowType
<1>3. TypeOK /\ [Next]_progressVars => TypeOK'
  <2>1. TypeOK' <=> RowType' /\ work' \in [Workers -> Local]
    BY DEF TypeOK, RowType, Local
  <2> QED
    BY <1>1, <2>1, TypeStep
<1> QED
  BY <1>2, <1>3, PTL DEF Safety
=============================================================================
