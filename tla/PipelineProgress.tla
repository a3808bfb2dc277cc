-------------------------- MODULE PipelineProgress --------------------------
(***************************************************************************)
(* Pipeline implements JobProgress for each of its jobs, so what is shown  *)
(* there about the end of a job is about the pipeline.  Readings of the    *)
(* clock may lag by at most a lease: behind by more, Reserve would write a *)
(* lease that is over when it starts, which is no step of JobProgress.     *)
(***************************************************************************)
EXTENDS Pipeline

Capped(n) == IF n < MaxAttempts THEN n ELSE MaxAttempts

(* What a fetch says about one pair. *)
Outcome(res, pair) ==
    IF res.code # "ok" THEN res.code
    ELSE IF pair \in res.answered THEN "ok" ELSE "missing"

(* The local state of a worker as seen from job id, which is for pair:     *)
(* free unless the batch holds the job.                                    *)
View(id, local, pair) ==
    LET mine == {job \in local.batch : job.id = id}
    IN  IF mine = {} THEN [pc |-> "free", outcome |-> "none", attempts |-> 0]
        ELSE LET job == CHOOSE j \in mine : TRUE
             IN  [pc |-> IF local.pc = "fetch" THEN "fetch"
                         ELSE IF local.cur = job THEN local.pc ELSE "demux",
                  outcome |-> IF local.pc = "fetch" THEN "none"
                              ELSE Outcome(local.res, pair),
                  attempts |-> Capped(job.attempts)]

SeenFrom(id, w) == View(id, work[w], quoteJobs[id].pair)

Progress(id) == INSTANCE JobProgress WITH
    Steady <- Workers,
    status <- quoteJobs[id].status,
    attempts <- Capped(quoteJobs[id].attempts),
    due <- quoteJobs[id].status = "pending" /\ quoteJobs[id].nextRunAt <= clock,
    leaseOver <- Running(id) /\ quoteJobs[id].leaseUntil < clock,
    work <- [w \in Workers |-> SeenFrom(id, w)]

(* Whatever workers, crashes, lost replies and time do to a row is one of  *)
(* the steps of JobProgress: Progress(id)!Safety for each job, with the    *)
(* quantifier inside [] (the whole of worker.go seen from one job).        *)
PipelineImplementsProgress ==
    /\ \A id \in JobIds : Progress(id)!Init
    /\ [][\A id \in JobIds :
             \/ UNCHANGED <<quoteJobs[id], clock, work>>
             \/ UNCHANGED Progress(id)!progressVars
             \/ Progress(id)!Next]_pipelineVars
=============================================================================
