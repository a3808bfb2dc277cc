------------------------ MODULE LoadedServiceProofs ------------------------
(***************************************************************************)
(* What every step of the service under load preserves: its types, how the *)
(* worker and its call agree and the bound on upstream requests.  The      *)
(* steps are those of LoadedService, and a refresh request, which is an    *)
(* Enqueue.                                                                *)
(***************************************************************************)
EXTENDS LoadedService, FiniteSetTheorems, TLAPS

EnqueueStep ==
    /\ \E pairs \in SUBSET Pairs : Enqueue(pairs)
    /\ UNCHANGED <<fetchVars, now, cached, batch, faults>>

ServiceNext ==
    \/ EnqueueStep \/ FallDue \/ PassTime
    \/ Poll \/ PollLost \/ Recover
    \/ Request \/ RequestError
    \/ Demux \/ DemuxFails

(* The worker and the call of FetchPairs it is in agree: there is a batch  *)
(* exactly while there is a call, the call is for its pairs, bases are     *)
(* left to be asked for only while it asks, and until then it has not      *)
(* failed.                                                                 *)
FetchInv ==
    /\ fetch.pc = "idle" => fetch = NoFetch /\ batch = {}
    /\ fetch.pc # "idle" => batch # {}
    /\ fetch.pc # "asking" => fetch.todo = {}
    /\ fetch.pc = "asking" => fetch.code = "ok"
    /\ fetch.pairs = {k[1] : k \in batch}
    /\ fetch.todo \subseteq BasesOf(fetch.pairs)

(* The jobs there are. *)
Present == {k \in Keys : jobs[k] # "absent"}

ServiceInv == ServiceTypeOK /\ FetchInv /\ UpstreamBudget

-----------------------------------------------------------------------------
(* Finite sets of the model. *)

(* The bases of finitely many pairs are finite in number. *)
LEMMA BasesFinite ==
    /\ IsFiniteSet(BasesOf(Pairs))
    /\ BaseCount \in Nat
<1>1. IsFiniteSet(BasesOf(Pairs))
  <2> DEFINE f == [pair \in Pairs |-> pair[1]]
  <2>1. f \in Surjection(Pairs, BasesOf(Pairs))
    BY DEF Surjection, BasesOf
  <2>2. QED  BY <2>1, PairsFinite, FS_Surjection
<1>2. QED  BY <1>1, FS_CardinalityType DEF BaseCount

(* Times have buckets, later times no earlier ones. *)
LEMMA BucketType ==
    ASSUME NEW t \in 0..MaxTime
    PROVE  Bucket(t) \in 0..Bucket(MaxTime)
BY ServiceAssumption DEF Bucket

(* There are finitely many coalescing keys. *)
LEMMA KeysFinite == IsFiniteSet(Keys)
<1>1. Bucket(MaxTime) \in Nat  BY ServiceAssumption DEF Bucket
<1>2. IsFiniteSet(0..Bucket(MaxTime))  BY <1>1, FS_Interval
<1>3. QED  BY <1>2, PairsFinite, FS_Product DEF Keys

(* The ended jobs can be counted. *)
LEMMA EndedCounted == Cardinality(With("ended")) \in Nat
BY KeysFinite, FS_Subset, FS_CardinalityType DEF With

(* The first component of a key is a pair. *)
LEMMA KeyPair ==
    ASSUME NEW k \in Keys
    PROVE  k[1] \in Pairs
BY DEF Keys

(* What has been asked for in a call is counted by a natural number that   *)
(* does not exceed the number of bases, and stays below it while there is  *)
(* a base left to ask for.                                                 *)
LEMMA AskedBound ==
    ASSUME ServiceTypeOK
    PROVE  /\ Asked \in Nat
           /\ Asked <= BaseCount
           /\ fetch.pc = "asking" => Asked <= BaseCount - 1
<1>1. fetch \in FetchTypes  BY DEF ServiceTypeOK
<1>2. BasesOf(fetch.pairs) \subseteq BasesOf(Pairs)
  BY <1>1 DEF BasesOf, FetchTypes
<1>3. BasesOf(fetch.pairs) \ fetch.todo \in SUBSET BasesOf(Pairs)
  BY <1>2
<1>4. /\ Cardinality(BasesOf(fetch.pairs) \ fetch.todo) \in Nat
      /\ Cardinality(BasesOf(fetch.pairs) \ fetch.todo) <= BaseCount
  BY <1>3, BasesFinite, FS_Subset, FS_CardinalityType DEF BaseCount
<1>5. ASSUME fetch.pc = "asking"
      PROVE  /\ Cardinality(BasesOf(fetch.pairs) \ fetch.todo) <= BaseCount - 1
             /\ BaseCount >= 1
  <2>1. PICK base \in fetch.todo : base \in BasesOf(Pairs)
    BY <1>1, <1>5 DEF ServiceTypeOK, FetchTypes
  <2>2. BasesOf(fetch.pairs) \ fetch.todo \in SUBSET (BasesOf(Pairs) \ {base})
    BY <1>3, <2>1
  <2>3. /\ IsFiniteSet(BasesOf(Pairs) \ {base})
        /\ Cardinality(BasesOf(Pairs) \ {base}) = BaseCount - 1
    BY <2>1, BasesFinite, FS_RemoveElement DEF BaseCount
  <2>4. Cardinality(BasesOf(Pairs) \ {base}) \in Nat
    BY <2>3, FS_CardinalityType
  <2>5. QED  BY <2>2, <2>3, <2>4, BasesFinite, FS_Subset
<1>6. QED  BY <1>4, <1>5, BasesFinite DEF Asked

-----------------------------------------------------------------------------
(* The steps. *)

(* Steps that leave the call, the batch and the ended jobs alone. *)
LEMMA CallUntouched ==
    ASSUME ServiceInv, UNCHANGED <<fetchVars, batch, faults>>,
           With("ended")' = With("ended")
    PROVE  FetchInv' /\ UpstreamBudget'
<1>1. /\ fetch' = fetch /\ batch' = batch /\ faults' = faults
      /\ okCount' = okCount /\ errCount' = errCount
  BY DEF fetchVars
<1>2. FetchInv'  BY <1>1 DEF ServiceInv, FetchInv
<1>3. Asked' = Asked  BY <1>1 DEF Asked
<1>4. UpstreamBudget'
  BY <1>1, <1>3 DEF ServiceInv, UpstreamBudget, BaseCount
<1>5. QED  BY <1>2, <1>4

(* Refresh requests and scheduler ticks insert pending jobs. *)
LEMMA EnqueueKeeps ==
    ASSUME ServiceInv, EnqueueStep
    PROVE  ServiceInv' /\ Present \subseteq Present'
<1>1. PICK pairs \in SUBSET Pairs : jobs' = Set(Inserts(pairs), "pending")
  BY DEF EnqueueStep, Enqueue
<1>2. UNCHANGED <<fetchVars, now, cached, batch, faults>>  BY DEF EnqueueStep
<1>3. \A k \in Keys : /\ jobs[k] # "absent" => jobs'[k] = jobs[k]
                      /\ jobs[k] = "absent" => jobs'[k] \in {"absent", "pending"}
  BY <1>1 DEF Set, Inserts, With
<1>4. jobs' \in [Keys -> JobStatus]
  BY <1>1 DEF ServiceInv, ServiceTypeOK, Set, JobStatus
<1>5. With("ended")' = With("ended") /\ With("running")' = With("running")
  BY <1>3 DEF With
<1>6. ServiceTypeOK'
  BY <1>2, <1>4, <1>5 DEF ServiceInv, ServiceTypeOK, fetchVars
<1>7. Present \subseteq Present'  BY <1>3 DEF Present
<1>8. QED  BY <1>2, <1>5, <1>6, <1>7, CallUntouched DEF ServiceInv

(* A rescheduled job falls due. *)
LEMMA FallDueKeeps ==
    ASSUME ServiceInv, FallDue
    PROVE  /\ ServiceInv' /\ Present' = Present
           /\ With("ended")' = With("ended")
<1>1. PICK due \in With("waiting") : jobs' = Set({due}, "pending")
  BY DEF FallDue
<1>2. UNCHANGED <<fetchVars, now, cached, batch, faults>>  BY DEF FallDue
<1>3. \A k \in Keys : \/ jobs'[k] = jobs[k]
                      \/ jobs[k] = "waiting" /\ jobs'[k] = "pending"
  BY <1>1 DEF Set, With
<1>4. jobs' \in [Keys -> JobStatus]
  BY <1>1 DEF ServiceInv, ServiceTypeOK, Set, JobStatus
<1>5. With("ended")' = With("ended") /\ With("running")' = With("running")
  BY <1>3 DEF With
<1>6. ServiceTypeOK'
  BY <1>2, <1>4, <1>5 DEF ServiceInv, ServiceTypeOK, fetchVars
<1>7. Present' = Present  BY <1>3 DEF Present
<1>8. QED  BY <1>2, <1>5, <1>6, <1>7, CallUntouched DEF ServiceInv

(* Time passes. *)
LEMMA PassTimeKeeps ==
    ASSUME ServiceInv, PassTime
    PROVE  /\ ServiceInv' /\ Present' = Present
           /\ With("ended")' = With("ended")
<1>1. UNCHANGED <<fetchVars, jobs, cached, batch, faults>>  BY DEF PassTime
<1>2. With("ended")' = With("ended") /\ With("running")' = With("running")
  BY <1>1 DEF With
<1>3. now' \in 0..MaxTime
  BY ServiceAssumption DEF PassTime, ServiceInv, ServiceTypeOK
<1>4. ServiceTypeOK'
  BY <1>1, <1>2, <1>3 DEF ServiceInv, ServiceTypeOK, fetchVars
<1>5. Present' = Present  BY <1>1 DEF Present
<1>6. QED  BY <1>1, <1>2, <1>4, <1>5, CallUntouched DEF ServiceInv

(* The worker reserves a batch and calls FetchPairs: nothing is asked yet. *)
LEMMA PollKeeps ==
    ASSUME ServiceInv, Poll
    PROVE  /\ ServiceInv' /\ Present' = Present
           /\ With("ended")' = With("ended")
           /\ Asked' = Asked /\ fetch'.code = "ok"
<1>1. PICK keys \in (SUBSET With("pending")) \ {{}} :
          /\ batch' = keys
          /\ jobs' = Set(keys, "running")
          /\ FetchPairs({k[1] : k \in keys})
  BY DEF Poll
<1>2. UNCHANGED <<now, cached, okCount, errCount, faults>>
  BY <1>1 DEF Poll, FetchPairs
<1> DEFINE asked == {k[1] : k \in keys}
<1>3. keys \subseteq Keys /\ keys # {}  BY <1>1 DEF With
<1>4. asked \in SUBSET Pairs /\ asked # {}  BY <1>3, KeyPair
<1>5. BasesOf(asked) \subseteq BasesOf(Pairs) /\ BasesOf(asked) # {}
  BY <1>4 DEF BasesOf
<1>6. /\ fetch.pc = "idle" /\ batch = {}
      /\ fetch' = [NoFetch EXCEPT !.pc = "asking", !.pairs = asked,
                                  !.todo = BasesOf(asked)]
  BY <1>1 DEF FetchPairs, ServiceInv, FetchInv
<1>7. /\ fetch'.pc = "asking" /\ fetch'.pairs = asked
      /\ fetch'.todo = BasesOf(asked) /\ fetch'.quotes = {}
      /\ fetch'.code = "ok"
      /\ fetch' \in FetchTypes
  BY <1>4, <1>5, <1>6 DEF NoFetch, FetchTypes, ErrorCodes
<1>8. jobs' \in [Keys -> JobStatus]
  BY <1>1 DEF ServiceInv, ServiceTypeOK, Set, JobStatus
<1>9. With("ended")' = With("ended") /\ keys \subseteq With("running")'
  BY <1>1, <1>3 DEF With, Set
<1>10. ServiceTypeOK'
  BY <1>1, <1>2, <1>5, <1>7, <1>8, <1>9 DEF ServiceInv, ServiceTypeOK
<1>11. FetchInv'  BY <1>1, <1>3, <1>7 DEF FetchInv
<1>12. Asked = 0 /\ Asked' = 0
  <2>1. fetch = NoFetch  BY <1>6 DEF ServiceInv, FetchInv
  <2>2. BasesOf(fetch.pairs) \ fetch.todo = {} /\ fetch.code = "ok"
    BY <2>1 DEF NoFetch, BasesOf
  <2>3. BasesOf(fetch'.pairs) \ fetch'.todo = {}  BY <1>7
  <2>4. QED  BY <1>7, <2>2, <2>3, FS_EmptySet DEF Asked
<1>13. UpstreamBudget'
  BY <1>2, <1>9, <1>12 DEF ServiceInv, UpstreamBudget, BaseCount
<1>14. Present' = Present
  BY <1>1, <1>3 DEF Present, With, Set
<1>15. QED
  BY <1>7, <1>9, <1>10, <1>11, <1>12, <1>13, <1>14 DEF ServiceInv

(* While the worker has no batch its call does not see what becomes of the *)
(* rows.                                                                   *)
LEMMA IdleUntouched ==
    ASSUME ServiceInv, fetch.pc = "idle",
           UNCHANGED <<fetchVars, now, cached, batch, faults>>,
           jobs' \in [Keys -> JobStatus], With("ended")' = With("ended")
    PROVE  ServiceInv'
<1>1. batch = {}  BY DEF ServiceInv, FetchInv
<1>2. ServiceTypeOK'  BY <1>1 DEF ServiceInv, ServiceTypeOK, fetchVars
<1>3. QED  BY <1>2, CallUntouched DEF ServiceInv

(* Rows go to running, or back, while the worker has no batch. *)
LEMMA IdleKeeps ==
    ASSUME ServiceInv, PollLost \/ Recover
    PROVE  /\ ServiceInv' /\ Present' = Present
           /\ With("ended")' = With("ended")
<1>1. /\ fetch.pc = "idle"
      /\ UNCHANGED <<fetchVars, now, cached, batch, faults>>
  BY DEF PollLost, Recover
<1>2. CASE PollLost
  <2>1. PICK keys \in SUBSET With("pending") : jobs' = Set(keys, "running")
    BY <1>2 DEF PollLost
  <2>2. \A k \in Keys : \/ jobs'[k] = jobs[k]
                        \/ jobs[k] = "pending" /\ jobs'[k] = "running"
    BY <2>1 DEF Set, With
  <2>3. jobs' \in [Keys -> JobStatus]
    BY <2>1 DEF ServiceInv, ServiceTypeOK, Set, JobStatus
  <2>4. With("ended")' = With("ended") /\ Present' = Present
    BY <2>2 DEF With, Present
  <2>5. QED  BY <1>1, <2>3, <2>4, IdleUntouched
<1>3. CASE Recover
  <2>1. PICK keys \in SUBSET With("running") : jobs' = Set(keys, "pending")
    BY <1>3 DEF Recover
  <2>2. \A k \in Keys : \/ jobs'[k] = jobs[k]
                        \/ jobs[k] = "running" /\ jobs'[k] = "pending"
    BY <2>1 DEF Set, With
  <2>3. jobs' \in [Keys -> JobStatus]
    BY <2>1 DEF ServiceInv, ServiceTypeOK, Set, JobStatus
  <2>4. With("ended")' = With("ended") /\ Present' = Present
    BY <2>2 DEF With, Present
  <2>5. QED  BY <1>1, <2>3, <2>4, IdleUntouched
<1>4. QED  BY <1>2, <1>3

(* A response to the next base: one more request is asked for. *)
LEMMA RequestKeeps ==
    ASSUME ServiceInv, Request
    PROVE  /\ ServiceInv' /\ Present' = Present
           /\ With("ended")' = With("ended")
           /\ Asked' = Asked + 1 /\ fetch'.code = "ok"
<1>1. PICK base \in fetch.todo, response \in Responses :
          fetch' = [fetch EXCEPT
             !.todo = @ \ {base},
             !.quotes = @ \cup Accepted(base, response),
             !.pc = IF fetch.todo = {base} THEN "returned" ELSE "asking"]
  BY DEF Request, RequestOk
<1>2. /\ fetch.pc = "asking" /\ okCount' = okCount + 1
      /\ UNCHANGED <<errCount, now, jobs, cached, batch, faults>>
  BY DEF Request, RequestOk
<1>3. fetch \in FetchTypes /\ fetch.code = "ok" /\ batch # {}
  BY <1>2 DEF ServiceInv, ServiceTypeOK, FetchInv
<1>4. Accepted(base, response) \in SUBSET Pairs
  BY ResponsesAssumption DEF Accepted
<1>5. /\ fetch'.todo = fetch.todo \ {base}
      /\ fetch'.quotes = fetch.quotes \cup Accepted(base, response)
      /\ fetch'.pc = IF fetch.todo = {base} THEN "returned" ELSE "asking"
      /\ fetch'.pairs = fetch.pairs /\ fetch'.code = "ok"
      /\ fetch' \in FetchTypes
  BY <1>1, <1>3, <1>4 DEF FetchTypes
<1>6. With("ended")' = With("ended") /\ With("running")' = With("running")
  BY <1>2 DEF With
<1>7. ServiceTypeOK'
  BY <1>1, <1>2, <1>5, <1>6 DEF ServiceInv, ServiceTypeOK
<1>8. FetchInv'
  BY <1>1, <1>2, <1>3, <1>5 DEF ServiceInv, FetchInv
<1>9. base \in BasesOf(fetch.pairs)
  BY <1>1 DEF ServiceInv, FetchInv
<1>10. Asked' = Asked + 1
  <2> DEFINE before == BasesOf(fetch.pairs) \ fetch.todo
  <2>1. BasesOf(fetch'.pairs) \ fetch'.todo = before \cup {base}
    BY <1>5, <1>9
  <2>2. base \notin before  BY <1>1
  <2>3. before \in SUBSET BasesOf(Pairs)  BY <1>3 DEF BasesOf, FetchTypes
  <2>4. IsFiniteSet(before)  BY <2>3, BasesFinite, FS_Subset
  <2>5. Cardinality(before \cup {base}) = Cardinality(before) + 1
    BY <2>2, <2>4, FS_AddElement
  <2>6. QED  BY <1>3, <1>5, <2>1, <2>5 DEF Asked
<1>11. UpstreamBudget'
  <2> DEFINE a == BaseCount * (Cardinality(With("ended")) + faults)
             b == (BaseCount - 1) * errCount
  <2>1. a \in Int /\ b \in Int
    BY EndedCounted, BasesFinite DEF ServiceInv, ServiceTypeOK
  <2>2. okCount <= Asked + WarmCount + a + b
    BY DEF ServiceInv, UpstreamBudget
  <2>3. Asked \in Nat /\ okCount \in Nat
    BY AskedBound DEF ServiceInv, ServiceTypeOK
  <2>4. BaseCount' = BaseCount  BY DEF BaseCount
  <2>5. okCount' <= Asked' + WarmCount + a + b
    <3> HIDE DEF a, b
    <3> QED  BY <1>2, <1>10, <2>1, <2>2, <2>3, WarmAssumption
  <2>6. a' = a /\ b' = b  BY <1>2, <1>6, <2>4
  <2>7. QED  BY <2>5, <2>6 DEF UpstreamBudget
<1>12. Present' = Present  BY <1>2 DEF Present
<1>13. QED
  BY <1>5, <1>6, <1>7, <1>8, <1>10, <1>11, <1>12 DEF ServiceInv

(* A failed request ends the call, whose earlier answers are lost: at most *)
(* all but one of the bases had been asked for.                            *)
LEMMA RequestErrorKeeps ==
    ASSUME ServiceInv, RequestError
    PROVE  ServiceInv'
<1>1. PICK code \in ErrorCodes :
          fetch' = [NoFetch EXCEPT !.pc = "returned", !.pairs = fetch.pairs,
                                   !.code = code]
  BY DEF RequestError, RequestFails
<1>2. /\ fetch.pc = "asking" /\ errCount' = errCount + 1
      /\ UNCHANGED <<okCount, now, jobs, cached, batch, faults>>
  BY DEF RequestError, RequestFails
<1>3. fetch \in FetchTypes /\ batch # {}
  BY <1>2 DEF ServiceInv, ServiceTypeOK, FetchInv
<1>4. /\ fetch'.pc = "returned" /\ fetch'.todo = {} /\ fetch'.quotes = {}
      /\ fetch'.pairs = fetch.pairs /\ fetch'.code = code
      /\ fetch' \in FetchTypes
  BY <1>1, <1>3 DEF NoFetch, FetchTypes
<1>5. code # "ok"  BY DEF ErrorCodes
<1>6. With("ended")' = With("ended") /\ With("running")' = With("running")
  BY <1>2 DEF With
<1>7. ServiceTypeOK'
  BY <1>2, <1>4, <1>6 DEF ServiceInv, ServiceTypeOK
<1>8. FetchInv'
  BY <1>2, <1>3, <1>4 DEF ServiceInv, FetchInv
<1>9. UpstreamBudget'
  <2>1. Asked' = 0  BY <1>4, <1>5 DEF Asked
  <2>2. Asked \in Nat /\ Asked <= BaseCount - 1
    BY <1>2, AskedBound DEF ServiceInv
  <2> DEFINE a == BaseCount * (Cardinality(With("ended")) + faults)
             b == (BaseCount - 1) * errCount
  <2>3. okCount <= Asked + WarmCount + a + b
    BY DEF ServiceInv, UpstreamBudget
  <2>4. okCount \in Nat /\ errCount \in Nat /\ faults \in Nat
    BY DEF ServiceInv, ServiceTypeOK
  <2>5. a \in Int /\ b \in Int  BY <2>4, EndedCounted, BasesFinite
  <2>6. b' = b + (BaseCount - 1)
    BY <1>2, <2>4, BasesFinite DEF BaseCount
  <2>7. a' = a  BY <1>2, <1>6 DEF BaseCount
  <2>8. okCount' <= 0 + WarmCount + a + (b + (BaseCount - 1))
    <3> HIDE DEF a, b
    <3> QED  BY <1>2, <2>2, <2>3, <2>4, <2>5, BasesFinite, WarmAssumption
  <2>9. QED  BY <2>1, <2>6, <2>7, <2>8 DEF UpstreamBudget
<1>10. QED  BY <1>7, <1>8, <1>9 DEF ServiceInv

(* The end of a batch moves no job outside it and none of its jobs out of  *)
(* the table; when the call and every statement succeeded, all of the      *)
(* batch has ended.                                                        *)
LEMMA BatchMoves ==
    ASSUME ServiceInv, Demux \/ DemuxFails
    PROVE  /\ jobs' \in [Keys -> JobStatus]
           /\ \A k \in Keys \ batch : jobs'[k] = jobs[k]
           /\ \A k \in batch : jobs'[k] \in {"running", "waiting", "ended"}
           /\ Demux /\ fetch.code = "ok" => \A k \in batch : jobs'[k] = "ended"
<1>1. batch \subseteq Keys  BY DEF ServiceInv, ServiceTypeOK, With
<1>2. jobs \in [Keys -> JobStatus]  BY DEF ServiceInv, ServiceTypeOK
<1>3. ASSUME Demux
      PROVE  /\ jobs' \in [Keys -> JobStatus]
             /\ \A k \in Keys \ batch : jobs'[k] = jobs[k]
             /\ \A k \in batch : jobs'[k] \in {"waiting", "ended"}
             /\ fetch.code = "ok" => \A k \in batch : jobs'[k] = "ended"
  <2>1. PICK keys \in SUBSET batch :
            /\ jobs' = [k \in Keys |-> IF k \in keys THEN "waiting"
                                       ELSE IF k \in batch THEN "ended"
                                       ELSE jobs[k]]
            /\ fetch.code = "ok" => keys = {}
    BY <1>3 DEF Demux
  <2>2. QED  BY <1>1, <1>2, <2>1 DEF JobStatus
<1>4. ASSUME DemuxFails
      PROVE  /\ jobs' \in [Keys -> JobStatus]
             /\ \A k \in Keys \ batch : jobs'[k] = jobs[k]
             /\ \A k \in batch : jobs'[k] \in {"running", "waiting", "ended"}
  <2>1. PICK left \in [batch -> JobStatus] :
            /\ \A k \in batch : left[k] \in LeftAs(k)
            /\ jobs' = [k \in Keys |-> IF k \in batch THEN left[k] ELSE jobs[k]]
    BY <1>4 DEF DemuxFails
  <2>2. \A k \in batch : left[k] \in {"running", "waiting", "ended"}
    BY <2>1 DEF LeftAs
  <2>3. QED  BY <1>1, <1>2, <2>1, <2>2 DEF JobStatus
<1>5. CASE Demux
  <2>1. \A k \in batch : jobs'[k] \in {"running", "waiting", "ended"}
    BY <1>3, <1>5
  <2>2. QED  BY <1>3, <1>5, <2>1
<1>6. CASE ~Demux  BY <1>4, <1>6
<1>7. QED  BY <1>5, <1>6

(* The end of a batch never takes back a job that has ended, and a call    *)
(* whose statements all succeed ends at least one more.                    *)
LEMMA EndedGrow ==
    ASSUME ServiceInv, Demux \/ DemuxFails
    PROVE  /\ Cardinality(With("ended")') \in Nat
           /\ Cardinality(With("ended")) <= Cardinality(With("ended")')
           /\ Demux /\ fetch.code = "ok"
                => Cardinality(With("ended")) + 1 <= Cardinality(With("ended")')
<1> DEFINE E == Cardinality(With("ended"))
           F == Cardinality(With("ended")')
<1>1. batch \subseteq With("running") /\ batch \subseteq Keys /\ batch # {}
  BY DEF Demux, DemuxFails, ServiceInv, ServiceTypeOK, FetchInv, With
<1>2. With("ended") \subseteq With("ended")'
  BY <1>1, BatchMoves DEF With
<1>3. IsFiniteSet(With("ended")) /\ IsFiniteSet(With("ended")')
  BY KeysFinite, FS_Subset DEF With
<1>4. E \in Nat /\ F \in Nat /\ E <= F
  BY <1>2, <1>3, FS_CardinalityType, FS_Subset
<1>5. ASSUME Demux, fetch.code = "ok"
      PROVE  E + 1 <= F
  <2>1. PICK k \in batch : k \in With("ended")' /\ k \notin With("ended")
    BY <1>1, <1>5, BatchMoves DEF With
  <2>2. With("ended") \cup {k} \in SUBSET With("ended")'
    BY <1>2, <2>1
  <2>3. Cardinality(With("ended") \cup {k}) = E + 1
    BY <1>3, <2>1, FS_AddElement
  <2>4. QED  BY <1>3, <2>2, <2>3, FS_Subset
<1>6. QED  BY <1>4, <1>5

(* The batch is over: the requests of a call that succeeded are paid for   *)
(* by a job that ended or by the batch's failing statement.                *)
LEMMA DemuxKeeps ==
    ASSUME ServiceInv, Demux \/ DemuxFails
    PROVE  /\ ServiceInv' /\ Present' = Present
           /\ Asked' = 0 /\ fetch'.code = "ok"
<1>1. /\ fetch.pc = "returned" /\ batch' = {} /\ fetch' = NoFetch
      /\ UNCHANGED <<okCount, errCount, now>>
  BY DEF Demux, DemuxFails
<1>2. batch \subseteq With("running") /\ batch \subseteq Keys
  BY DEF ServiceInv, ServiceTypeOK, With
<1>3. cached' \subseteq Pairs
  BY <1>2, KeyPair DEF Demux, DemuxFails, ServiceInv, ServiceTypeOK
<1>4. /\ faults \in Nat /\ faults' \in Nat /\ faults <= faults'
      /\ DemuxFails => faults' = faults + 1
  <2>1. faults \in Nat  BY DEF ServiceInv, ServiceTypeOK
  <2>2. CASE DemuxFails  BY <2>1, <2>2 DEF DemuxFails
  <2>3. CASE ~DemuxFails  BY <2>1, <2>3 DEF Demux
  <2>4. QED  BY <2>2, <2>3
<1>5. fetch' \in FetchTypes  BY <1>1 DEF NoFetch, FetchTypes, BasesOf
<1>6. ServiceTypeOK'
  BY <1>1, <1>3, <1>4, <1>5, BatchMoves DEF ServiceInv, ServiceTypeOK, NoFetch
<1>7. FetchInv'  BY <1>1 DEF FetchInv, NoFetch, BasesOf
<1>8. Asked' = 0
  BY <1>1, FS_EmptySet DEF Asked, NoFetch, BasesOf
<1> DEFINE m == Cardinality(With("ended")) + faults
           n == Cardinality(With("ended")') + faults'
<1>9. /\ m \in Nat /\ n \in Nat /\ m <= n
      /\ fetch.code = "ok" => m + 1 <= n
  <2>1. CASE Demux  BY <1>4, <2>1, EndedCounted, EndedGrow
  <2>2. CASE DemuxFails  BY <1>4, <2>2, EndedCounted, EndedGrow
  <2>3. QED  BY <2>1, <2>2
<1>10. UpstreamBudget'
  <2> DEFINE a == BaseCount * m
             c == BaseCount * n
             b == (BaseCount - 1) * errCount
  <2>1. okCount <= Asked + WarmCount + a + b
    BY DEF ServiceInv, UpstreamBudget
  <2>2. okCount \in Nat /\ errCount \in Nat /\ BaseCount \in Nat
    BY BasesFinite DEF ServiceInv, ServiceTypeOK
  <2> HIDE DEF m, n
  <2>3. a \in Int /\ b \in Int /\ c \in Int  BY <1>9, <2>2
  <2>4. Asked \in Nat /\ Asked <= BaseCount
    BY AskedBound DEF ServiceInv
  <2>5. \A i, j \in Nat : i <= j => BaseCount * i <= BaseCount * j
    BY <2>2
  <2>6. Asked + a <= c
    <3>1. CASE fetch.code = "ok"
      <4>1. BaseCount * (m + 1) = a + BaseCount  BY <1>9, <2>2
      <4>2. BaseCount * (m + 1) <= c  BY <1>9, <2>5, <3>1
      <4> HIDE DEF a, c
      <4>3. QED  BY <2>2, <2>3, <2>4, <4>1, <4>2
    <3>2. CASE fetch.code # "ok"
      <4>1. Asked = 0  BY <3>2 DEF Asked
      <4>2. a <= c  BY <1>9, <2>5
      <4> HIDE DEF a, c
      <4>3. QED  BY <2>3, <4>1, <4>2
    <3>3. QED  BY <3>1, <3>2
  <2>7. okCount <= 0 + WarmCount + c + b
    <3> HIDE DEF a, b, c
    <3> QED  BY <2>1, <2>2, <2>3, <2>4, <2>6, WarmAssumption
  <2>8. QED  BY <1>1, <1>8, <2>7 DEF UpstreamBudget, BaseCount, n
<1>11. Present' = Present
  BY <1>2, BatchMoves DEF Present, With
<1>12. fetch'.code = "ok"  BY <1>1 DEF NoFetch
<1>13. QED
  BY <1>6, <1>7, <1>8, <1>10, <1>11, <1>12 DEF ServiceInv

-----------------------------------------------------------------------------
(* The service as a whole. *)

(* Every service starts with an idle worker and no more requests counted   *)
(* than a warm one.                                                        *)
LEMMA ServiceStarts ==
    ASSUME ServiceInit
    PROVE  ServiceInv
<1>1. fetch = NoFetch /\ batch = {} /\ errCount = 0 /\ now = 0 /\ faults = 0
  BY DEF ServiceInit
<1>2. PICK ticked \in SUBSET {0} :
          jobs = [k \in Keys |-> IF k[2] \in ticked THEN "pending" ELSE "absent"]
  BY DEF ServiceInit
<1>3. jobs \in [Keys -> JobStatus] /\ With("ended") = {}
  BY <1>2 DEF With, JobStatus
<1>4. okCount \in Nat /\ okCount <= WarmCount /\ cached \subseteq Pairs
  BY BasesFinite, WarmAssumption DEF ServiceInit
<1>5. fetch \in FetchTypes  BY <1>1 DEF NoFetch, FetchTypes, BasesOf
<1>6. ServiceTypeOK
  BY <1>1, <1>3, <1>4, <1>5, ServiceAssumption DEF ServiceTypeOK, NoFetch
<1>7. FetchInv  BY <1>1 DEF FetchInv, NoFetch, BasesOf
<1>8. Asked = 0 /\ Cardinality(With("ended")) = 0
  BY <1>1, <1>3, FS_EmptySet DEF Asked, NoFetch, BasesOf
<1>9. UpstreamBudget
  BY <1>1, <1>4, <1>8, BasesFinite, WarmAssumption DEF UpstreamBudget
<1>10. QED  BY <1>6, <1>7, <1>9 DEF ServiceInv

(* Whatever runs against it, the service keeps its invariant. *)
LEMMA ServiceKeeps ==
    ASSUME ServiceInv, [ServiceNext]_serviceVars
    PROVE  ServiceInv'
<1>1. CASE UNCHANGED serviceVars
  <2>1. /\ UNCHANGED <<fetchVars, batch, faults>>
        /\ With("ended")' = With("ended") /\ With("running")' = With("running")
    BY <1>1 DEF serviceVars, With
  <2>2. ServiceTypeOK'
    BY <1>1, <2>1 DEF ServiceInv, ServiceTypeOK, serviceVars, fetchVars
  <2>3. QED  BY <2>1, <2>2, CallUntouched DEF ServiceInv
<1>2. QED
  BY <1>1, EnqueueKeeps, FallDueKeeps, PassTimeKeeps, PollKeeps, IdleKeeps,
     RequestKeeps, RequestErrorKeeps, DemuxKeeps DEF ServiceNext
=============================================================================
