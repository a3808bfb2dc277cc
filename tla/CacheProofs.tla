----------------------------- MODULE CacheProofs -----------------------------
(***************************************************************************)
(* The cache read by GET /quotes/latest, in a deployment with one worker:  *)
(* it only moves to later fetches and is never behind a delivered result.  *)
(* With two workers neither holds, as nothing orders their upserts.        *)
(***************************************************************************)
EXTENDS PipelineProofs

OneWorker == \E w \in Workers : Workers = {w}

(* The worker's result is of the latest fetch, the cache of none later,    *)
(* and between its upsert and its Complete the worker finds what it wrote. *)
CacheInv ==
    /\ \A pair \in Pairs : quotes[pair] # Null => quotes[pair].no <= fetches
    /\ \A w \in Workers : work[w].res.code = "ok" => work[w].res.quote.no = fetches
    /\ \A w \in Workers : work[w].pc = "complete"
          => quotes[PairOf(work[w].cur)] = work[w].res.quote
    /\ CacheCoversDone

(* A step writes the cache only by upserting the result of a worker. *)
LEMMA CacheWrite ==
    ASSUME PInv, [Next]_pipelineVars, NEW p \in Pairs, quotes'[p] # quotes[p]
    PROVE  \E w \in Workers : \E job \in work[w].batch :
              /\ Upsert(w, job)
              /\ work[w].res.code = "ok"
              /\ quotes'[p] = work[w].res.quote
<1>0. quotes \in [Pairs -> Snapshots \cup {Null}]
  BY DEF PInv, TypeOK
<1>1. PICK w \in Workers : \E job \in work[w].batch : Upsert(w, job)
  BY DEF Next, WorkerStep, Submit, PassTime, Poll, Clean, FetchOk, FetchError,
         HandleBatchError, FailMissing, CompleteJob, RetryJob, Crash, pipelineVars
<1>2. PICK job \in work[w].batch : Upsert(w, job)
  BY <1>1
<1> QED
  BY <1>0, <1>2 DEF Upsert, UpsertBatch

(* An upsert of the one worker moves no pair to an earlier fetch. *)
LEMMA CacheAdvances ==
    ASSUME PInv, CacheInv, [Next]_pipelineVars, NEW p \in Pairs, quotes[p] # Null
    PROVE  quotes'[p].no >= quotes[p].no
<1>0. quotes[p].no \in Nat /\ fetches \in Nat
  BY SnapshotsAssumption DEF PInv, TypeOK
<1>1. CASE quotes'[p] = quotes[p]
  BY <1>0, <1>1
<1>2. CASE quotes'[p] # quotes[p]
  BY <1>0, <1>2, CacheWrite DEF CacheInv
<1> QED
  BY <1>1, <1>2

(* Every step of a deployment with one worker keeps the cache's order. *)
LEMMA CacheStep ==
    ASSUME OneWorker, PInv, CacheInv, [Next]_pipelineVars
    PROVE  CacheInv'
<1>0. /\ QTypeOK /\ IInv /\ TypeOK /\ fetches \in Nat /\ PInv'
      /\ quotes \in [Pairs -> Snapshots \cup {Null}]
      /\ \A w \in Workers : LocalOK(w)
      /\ \A s \in Snapshots : s.no \in Nat
  BY PInvStep, SnapshotsAssumption DEF PInv, TypeOK
<1>1. \/ fetches' = fetches
      \/ fetches' = fetches + 1 /\ UNCHANGED <<quoteJobs, quotes>>
         /\ \E w \in Workers : FetchOk(w)
  BY DEF Next, WorkerStep, Submit, PassTime, Poll, Clean, FetchOk, FetchError, Upsert,
         HandleBatchError, FailMissing, CompleteJob, RetryJob, Crash, pipelineVars
<1>2. ASSUME NEW p \in Pairs, quotes'[p] # Null PROVE quotes'[p].no <= fetches'
  <2>1. quotes'[p].no \in Nat /\ quotes'[p].no <= fetches
    <3>1. CASE quotes'[p] = quotes[p]
      BY <1>0, <1>2, <3>1 DEF CacheInv
    <3>2. CASE quotes'[p] # quotes[p]
      BY <1>0, <3>2, CacheWrite DEF CacheInv, LocalOK
    <3> QED
      BY <3>1, <3>2
  <2> QED
    BY <1>0, <1>1, <2>1
<1>3. ASSUME NEW w \in Workers
      PROVE  fetches' = fetches \/ FetchOk(w)
  BY <1>1 DEF OneWorker
<1>4. ASSUME NEW w \in Workers
      PROVE  /\ work'[w].res.code = "ok" => work'[w].res.quote.no = fetches'
             /\ work'[w].pc = "complete"
                   => quotes'[quoteJobs'[work'[w].cur.id].pair] = work'[w].res.quote
  <2>0. /\ work \in [Workers -> Local] /\ work[w] \in Local
        /\ \A job \in work[w].batch : PairOf(job) \in Pairs /\ PairOf(job)' = PairOf(job)
    <3>1. \A job \in work[w].batch : job.id \in Stored /\ job.id \in JobIds
      BY <1>0 DEF LocalOK, Stored
    <3>2. \A r \in Stored : quoteJobs'[r].pair = quoteJobs[r].pair
      BY <1>0, NextIsStatement, IdentityKept DEF SameIdentity, pipelineVars
    <3> QED
      BY <1>0, <3>1, <3>2 DEF TypeOK, PairOf, IInv, RowOK, Stored
  <2>1. CASE FetchOk(w)
    <3>1. work'[w].res.quote = [no |-> fetches', at |-> clock] /\ work'[w].pc = "demux"
      BY <2>0, <2>1 DEF FetchOk, Local
    <3> QED
      BY <3>1
  <2>2. CASE ~FetchOk(w)
    <3>0. fetches' = fetches
      BY <1>3, <2>2
    <3>1. work'[w] = work[w] \/ Advance(w)
      BY WorkerAdvances DEF Next, Submit, PassTime, pipelineVars
    <3>2. CASE work'[w] = work[w]
      <4>1. ASSUME work[w].pc = "complete" PROVE UNCHANGED quotes
        <5>1. ~(\E v \in Workers : \E job \in work[v].batch : Upsert(v, job))
          BY <4>1 DEF OneWorker, Upsert
        <5> QED
          BY <5>1 DEF Next, WorkerStep, Submit, PassTime, Poll, Clean, FetchOk,
                FetchError, HandleBatchError, FailMissing, CompleteJob, RetryJob, Crash,
                pipelineVars
      <4>2. work[w].pc = "complete" => work[w].cur \in work[w].batch
        BY <1>0 DEF LocalOK
      <4> QED
        BY <2>0, <3>0, <3>2, <4>1, <4>2 DEF CacheInv, PairOf
    <3>3. CASE work'[w].res.code # "ok" /\ work'[w].pc # "complete"
      BY <3>3
    <3>4. CASE /\ work'[w].pc = "demux"
               /\ \/ work'[w].res = work[w].res
                  \/ work'[w].res.quote = [no |-> fetches', at |-> clock]
      BY <3>0, <3>4 DEF CacheInv
    <3>5. CASE /\ work'[w].batch = work[w].batch
               /\ work'[w].res = work[w].res
               /\ work'[w].cur \in work[w].batch
               /\ work'[w].pc = "complete"
                     => quotes' = [quotes EXCEPT ![PairOf(work'[w].cur)] = work[w].res.quote]
      BY <1>0, <2>0, <3>0, <3>5 DEF CacheInv, PairOf
    <3> QED
      BY <3>1, <3>2, <3>3, <3>4, <3>5 DEF Advance
  <2> QED
    BY <2>1, <2>2
<1>5. ASSUME NEW r \in JobIds, quoteJobs'[r].status = "done"
      PROVE  /\ quotes'[quoteJobs'[r].pair] # Null
             /\ quotes'[quoteJobs'[r].pair].no >= quoteJobs'[r].quote.no
  <2>0. quoteJobs'[r].pair \in Pairs /\ quoteJobs'[r].quote \in Snapshots
    <3>1. RowOK(r)' /\ quoteJobs'[r] \in Row
      BY <1>0 DEF PInv, TypeOK, QTypeOK, IInv
    <3> QED
      BY <1>5, <3>1 DEF RowOK, Row
  <2>1. CASE quoteJobs'[r] = quoteJobs[r]
    <3> DEFINE p == quoteJobs[r].pair
    <3>1. quotes[p] # Null /\ quotes[p].no >= quoteJobs[r].quote.no
      BY <1>5, <2>1 DEF CacheInv, CacheCoversDone
    <3>2. quotes'[p] # Null /\ quotes'[p].no >= quotes[p].no
      BY <2>0, <2>1, <3>1, CacheStays, CacheAdvances
    <3>3. quotes[p].no \in Nat /\ quotes'[p].no \in Nat /\ quoteJobs[r].quote.no \in Nat
      BY <1>0, <2>0, <2>1, <3>1, <3>2 DEF PInv, TypeOK
    <3> QED
      BY <2>1, <3>1, <3>2, <3>3
  <2>2. CASE quoteJobs'[r] # quoteJobs[r]
    <3>1. PICK w \in Workers :
             /\ work[w].pc = "complete" /\ r = work[w].cur.id
             /\ quotes' = quotes
             /\ quoteJobs'[r].quote = work[w].res.quote
             /\ quoteJobs'[r].pair = quoteJobs[r].pair
      BY <1>5, <2>2, NewlyDone
    <3>2. quotes[quoteJobs[r].pair] = work[w].res.quote
      BY <3>1 DEF CacheInv, PairOf
    <3> QED
      BY <1>0, <2>0, <3>1, <3>2, NullAssumption
  <2> QED
    BY <2>1, <2>2
<1> QED
  BY <1>2, <1>4, <1>5 DEF CacheInv, CacheCoversDone, PairOf

(* The invariant on the cache's order holds of one worker. *)
LEMMA CacheInvHolds ==
    ASSUME OneWorker
    PROVE  Spec => []CacheInv
<1>1. Init => CacheInv
  BY DEF Init, QInit, NoRow, Idle, NoResult, CacheInv, CacheCoversDone
<1>2. PInv /\ CacheInv /\ [Next]_pipelineVars => CacheInv'
  BY CacheStep
<1> QED
  BY <1>1, <1>2, PInvHolds, PTL DEF Spec

(* With one worker, through crashes, lost replies, expired leases and      *)
(* retried upserts, GET /quotes/latest is never behind a job reported      *)
(* done.                                                                   *)
THEOREM CacheIsNeverBehind ==
    ASSUME OneWorker
    PROVE  Spec => []CacheCoversDone
<1>1. CacheInv => CacheCoversDone
  BY DEF CacheInv
<1> QED
  BY <1>1, CacheInvHolds, PTL

(* With one worker the unconditional upsert keeps what                     *)
(* docs/discussions/background-mechanism.md says of the cache: it is only  *)
(* ever replaced by a later fetch.  (Two workers break it.)                *)
THEOREM OneWorkerAdvancesCache ==
    ASSUME OneWorker
    PROVE  Spec => CacheOnlyAdvances
<1>1. PInv /\ CacheInv /\ [Next]_pipelineVars
        => [\A pair \in Pairs : quotes[pair] # Null
              => quotes'[pair].no >= quotes[pair].no]_pipelineVars
  BY CacheAdvances
<1> QED
  BY <1>1, PInvHolds, CacheInvHolds, PTL DEF Spec, CacheOnlyAdvances
=============================================================================
