------------------------------ MODULE LoadTest ------------------------------
(***************************************************************************)
(* The k6 load tests of loadtest/: five profiles run against the service   *)
(* of module LoadedService.                                                *)
(*                                                                         *)
(* Kept: options (executor, pool of virtual users, thresholds on checks    *)
(* and failed requests), the default function of each profile, setup and   *)
(* teardown with what they parse out of /metrics, every check.             *)
(* Abstracted: random choices are any choice; latencies, and with them the *)
(* thresholds on p(99), are left out; the thresholds that remain are exact *)
(* fractions.  k6 itself (executors, pool, thresholds) is external.        *)
(*                                                                         *)
(* Virtual users differ only in __ITER, so the pool is kept as counts:     *)
(* idle[i] of them have run i iterations and are free.                     *)
(***************************************************************************)
EXTENDS LoadedService, Integers, Bags

CONSTANTS PAIRS,         \* common.js: the whitelisted pairs, a sequence
          BurstPair,     \* profile 4's pair, USD/EUR
          Profiles,      \* the profiles under test, of 1..5
          LOADTEST_VUS,  \* the environment variable; 0 when not set
          Arrivals,      \* per profile, rate times duration: the iterations
                         \*   k6 wants to start
          BurstVUs,      \* vus of profile 4 (100)
          BurstTime,     \* bound on the time the burst's handlers take
          Ticks,         \* TRUE: the scheduler ticks during the load
          Faulty,        \* TRUE: handlers, /metrics and Reserve may fail
          MaxErrors,     \* per profile, bound on failed upstream requests
          MaxFaults      \*   and on batches whose statements fail

(* The list names every pair once. *)
ASSUME PairsAssumption ==
    /\ PAIRS \in Seq(Pairs)
    /\ \A i, j \in DOMAIN PAIRS : PAIRS[i] = PAIRS[j] => i = j
    /\ Pairs = {PAIRS[i] : i \in DOMAIN PAIRS}
    /\ BurstPair \in Pairs
ASSUME ProfilesAssumption == Profiles \subseteq 1..5
ASSUME LoadAssumption ==
    /\ LOADTEST_VUS \in Nat
    /\ Arrivals \in [1..5 -> Nat]
    /\ BurstVUs \in Nat \ {0}
    /\ Ticks \in BOOLEAN /\ Faulty \in BOOLEAN
    /\ MaxErrors \in [1..5 -> Nat] /\ MaxFaults \in [1..5 -> Nat]
(* "this test assumes COALESCING_WINDOW_SECONDS >= 10 [...]. The burst     *)
(* takes ~5 s", profile4.js:8-9.                                           *)
ASSUME BurstAssumption == BurstTime \in 0..Window

VARIABLES profile,    \* the script that runs
          phase,      \* setup, load, stop (gracefulStop), done; aborted:
                      \*   a script error
          arrivals,   \* iterations due so far; in profile 4, VUs started
          idle,       \* idle[i]: free VUs whose __ITER is i
          unplanned,  \* VUs that may still be allocated
          allocating, \* one is being allocated
          busy,       \* bag of the requests in flight
          sends,      \* sends[p]: refresh requests sent for pair p
          created,    \* created[p]: jobs the refresh handler inserted
          startedAt,  \* now when the load began
          checks,     \* the metric checks
          reqs,       \* the metric http_reqs, failed: http_req_failed
          baseline,   \* data.baselineOk of profile 4
          reading,    \* what the teardown's check compares
          quiet       \* so far no job but the requests' own, no error of
                      \*   the upstream or of a batch's statements, and
                      \*   the setup could read /metrics

loadVars == <<profile, phase, arrivals, idle, unplanned, allocating, busy,
              sends, created, startedAt, checks, reqs, baseline, reading,
              quiet>>
vars == <<serviceVars, loadVars>>

poolVars == <<arrivals, idle, unplanned, allocating, sends>>
resultVars == <<checks, reqs>>
dataVars == <<startedAt, baseline, reading>>

-----------------------------------------------------------------------------
(* options. *)

Larger(a, b) == IF a > b THEN a ELSE b

(* parseInt(LOADTEST_VUS) || dflt, and MAX_VUS. *)
ArrivalRate(dflt, floor) ==
    LET pre == IF LOADTEST_VUS = 0 THEN dflt ELSE LOADTEST_VUS
    IN  [executor |-> "constant-arrival-rate", vus |-> pre,
         maxVUs |-> Larger(pre * 2, floor),
         thresholds |-> {"http_req_failed", "checks"}]

options1 == ArrivalRate(50, 100)
options2 == ArrivalRate(100, 200)
options3 == ArrivalRate(50, 100)
options4 == [executor |-> "per-vu-iterations", vus |-> BurstVUs,
             maxVUs |-> BurstVUs, thresholds |-> {"checks"}]
options5 == ArrivalRate(50, 100)

Options(p) == <<options1, options2, options3, options4, options5>>[p]

-----------------------------------------------------------------------------
(* The default functions: what an iteration may request. *)

pickRandom(seq) == {seq[i] : i \in DOMAIN seq}

Get(pair) == [kind |-> "GET", pair |-> pair]
Post(pair) == [kind |-> "POST", pair |-> pair]

default1(iter) ==
    {Get(pair) : pair \in pickRandom(PAIRS)}
        \cup {Post(pair) : pair \in pickRandom(PAIRS)}

default2(iter) == {Get(pair) : pair \in pickRandom(PAIRS)}

(* Mutant: a random pair, as in the other profiles. *)
default3Random(iter) == {Post(pair) : pair \in pickRandom(PAIRS)}

default3(iter) == {Post(PAIRS[(iter % Len(PAIRS)) + 1])}

default4(iter) == {Post(BurstPair)}

default5(iter) ==
    {Get(pair) : pair \in pickRandom(PAIRS)}
        \cup {Post(pair) : pair \in pickRandom(PAIRS)}

Default(p, iter) ==
    CASE p = 1 -> default1(iter)
      [] p = 2 -> default2(iter)
      [] p = 3 -> default3(iter)
      [] p = 4 -> default4(iter)
      [] p = 5 -> default5(iter)

-----------------------------------------------------------------------------
(* Responses and checks. *)

Response(status, headers) == [status |-> status, headers |-> headers]

(* The headers the profiles look at: Cache-Control, by its first word, and *)
(* Etag.  writeError sets no-store.                                        *)
Error(status) == Response(status, {"no-store"})

GetLatestQuote(pair) ==
    IF pair \in cached THEN Response(200, {"public", "Etag"}) ELSE Error(404)

(* RefreshQuote: a new job and a coalesced one are answered alike. *)
RefreshQuote == Response(202, {})

(* A 500 of the handler, or no response within k6's timeout. *)
Broken == {Error(500), Response(0, {})}

(* Mutant: any status but a server error will do. *)
StatusCheckLoose(req, res) == <<res.status < 500>>

(* check of profiles 1, 3, 4 and 5: one status. *)
StatusCheck(req, res) == <<res.status = IF req.kind = "GET" THEN 200 ELSE 202>>

(* check of profile 2. *)
ReadCheck(res) ==
    <<res.status = 200, "public" \in res.headers, "Etag" \in res.headers>>

Check(req, res) == IF profile = 2 THEN ReadCheck(res) ELSE StatusCheck(req, res)

Count(results, value) ==
    Cardinality({i \in DOMAIN results : results[i] = value})

AddChecks(results) ==
    checks' = [passed |-> checks.passed + Count(results, TRUE),
               failed |-> checks.failed + Count(results, FALSE)]

(* k6 counts a request as failed unless its status is 200 to 399. *)
AddRequest(status) ==
    reqs' = [sent |-> reqs.sent + 1,
             failed |-> reqs.failed + IF status \in 200..399 THEN 0 ELSE 1]

(* Over no sample at all a threshold passes. *)
Green ==
    /\ 100 * checks.passed > 99 * (checks.passed + checks.failed)
       \/ checks.passed + checks.failed = 0
    /\ "http_req_failed" \in Options(profile).thresholds
          => 100 * reqs.failed < reqs.sent \/ reqs.sent = 0

-----------------------------------------------------------------------------
(* GET /metrics. *)

(* The body: the exposition, an error text, or none at all. *)
Bodies == {"exposition", "text", "none"}

Metrics(body) ==
    /\ body # "exposition" => Faulty
    /\ AddRequest(CASE body = "exposition" -> 200
                    [] body = "text" -> 500
                    [] body = "none" -> 0)

(* The gauge quote_jobs_pending_count is registered and never set. *)
QuoteJobsPendingCount == 0

(* 0 when no line matches. *)
parseProviderOkCount(body) == IF body = "exposition" THEN okCount ELSE 0

parsePendingCount(body) ==
    IF body = "exposition" THEN QuoteJobsPendingCount ELSE -1

-----------------------------------------------------------------------------
(* setup.  Without a body the parser throws and k6 gives up. *)

setup4 ==
    \E body \in Bodies :
        /\ Metrics(body)
        /\ baseline' = parseProviderOkCount(body)
        /\ quiet' = (quiet /\ body = "exposition")
        /\ phase' = IF body = "none" THEN "aborted" ELSE "load"

Setup ==
    /\ phase = "setup"
    /\ \/ profile = 4 /\ setup4
       \/ /\ profile # 4
          /\ phase' = "load"
          /\ UNCHANGED <<reqs, baseline, quiet>>
    /\ startedAt' = now
    /\ UNCHANGED <<serviceVars, profile, poolVars, busy, created, checks,
                   reading>>

-----------------------------------------------------------------------------
(* The executors. *)

One(x) == SetToBag({x})

Move(from, by) == [idle EXCEPT ![from] = @ + by]

(* An iteration starts on a free VU. *)
StartIteration(iter) ==
    /\ idle[iter] > 0
    /\ idle' = Move(iter, -1)
    /\ \E req \in Default(profile, iter) :
          /\ busy' = busy (+) One([iter |-> iter, req |-> req])
          /\ sends' = [sends EXCEPT ![req.pair] =
                          @ + IF req.kind = "POST" THEN 1 ELSE 0]

(* No VU is free: the iteration is dropped, and unless one is on its way   *)
(* or the pool is at maxVUs, another VU is allocated in the background.    *)
Drop ==
    /\ \A iter \in DOMAIN idle : idle[iter] = 0
    /\ \/ /\ unplanned > 0 /\ ~allocating
          /\ allocating' = TRUE
          /\ unplanned' = unplanned - 1
       \/ /\ unplanned = 0 \/ allocating
          /\ UNCHANGED <<unplanned, allocating>>

(* constant-arrival-rate *)
Arrive ==
    /\ phase = "load"
    /\ profile # 4
    /\ arrivals < Arrivals[profile]
    /\ arrivals' = arrivals + 1
    /\ \/ /\ \E iter \in DOMAIN idle : StartIteration(iter)
          /\ UNCHANGED <<unplanned, allocating>>
       \/ Drop /\ UNCHANGED <<idle, busy, sends>>
    /\ UNCHANGED <<serviceVars, profile, phase, created, dataVars, resultVars,
                   quiet>>

Allocate ==
    /\ allocating
    /\ allocating' = FALSE
    /\ idle' = Move(0, 1)
    /\ UNCHANGED <<serviceVars, profile, phase, arrivals, unplanned, busy, sends,
                   created, dataVars, resultVars, quiet>>

(* per-vu-iterations: every VU starts its one iteration at once. *)
Burst ==
    /\ phase = "load"
    /\ profile = 4
    /\ idle[0] > 0
    /\ arrivals' = idle[0]
    /\ idle' = Move(0, -idle[0])
    /\ \E req \in Default(profile, 0) :
          /\ busy' = [x \in {[iter |-> 0, req |-> req]} |-> idle[0]]
          /\ sends' = [sends EXCEPT ![req.pair] = @ + idle[0]]
    /\ startedAt' = now
    /\ UNCHANGED <<serviceVars, profile, phase, unplanned, allocating, created,
                   baseline, reading, resultVars, quiet>>

-----------------------------------------------------------------------------
(* A request is handled and its response checked. *)

(* What the handler of these refresh requests does. *)
Refresh(pairs) ==
    /\ Enqueue(pairs)
    /\ created' = [pair \in Pairs |->
          created[pair] + Cardinality({k \in Inserts(pairs) : k[1] = pair})]
    /\ UNCHANGED <<fetchVars, now, cached, batch, faults>>

(* The effect of a request whose response is lost or an error. *)
MaybeHandled(req) ==
    \/ req.kind = "POST" /\ Refresh({req.pair})
    \/ UNCHANGED <<serviceVars, created>>

Handle(req, res) ==
    \/ /\ req.kind = "POST"
       /\ Refresh({req.pair})
       /\ res = RefreshQuote
    \/ /\ req.kind = "GET"
       /\ res = GetLatestQuote(req.pair)
       /\ UNCHANGED <<serviceVars, created>>
    \/ /\ Faulty
       /\ res \in Broken
       /\ MaybeHandled(req)

Respond ==
    /\ phase \in {"load", "stop"}
    /\ \E x \in BagToSet(busy), res \in
             Broken \cup {RefreshQuote} \cup {GetLatestQuote(p) : p \in Pairs} :
          /\ Handle(x.req, res)
          /\ AddChecks(Check(x.req, res))
          /\ AddRequest(res.status)
          /\ busy' = busy (-) One(x)
          /\ idle' = Move(x.iter + 1, 1)
    /\ UNCHANGED <<profile, phase, arrivals, unplanned, allocating, sends,
                   dataVars, quiet>>

-----------------------------------------------------------------------------
(* The end. *)

(* The duration is over; iterations in progress may still end. *)
EndLoad ==
    /\ phase = "load"
    /\ arrivals = IF profile = 4 THEN BurstVUs ELSE Arrivals[profile]
    /\ phase' = "stop"
    /\ UNCHANGED <<serviceVars, profile, poolVars, busy, created, dataVars,
                   resultVars, quiet>>

(* gracefulStop is over: a request still in flight is interrupted and not  *)
(* checked, whether or not the service has handled it.                     *)
Interrupt ==
    /\ phase = "stop"
    /\ \E x \in BagToSet(busy) :
          /\ MaybeHandled(x.req)
          /\ busy' = busy (-) One(x)
          /\ idle' = Move(x.iter + 1, 1)
    /\ UNCHANGED <<profile, phase, arrivals, unplanned, allocating, sends,
                   dataVars, resultVars, quiet>>

(* Without a body the parsers throw: no check is made. *)
teardown3 ==
    \E body \in Bodies :
        /\ Metrics(body)
        /\ \/ /\ body = "none"
              /\ phase' = "aborted"
              /\ UNCHANGED <<checks, reading>>
           \/ /\ body # "none"
              /\ phase' = "done"
              /\ reading' = parsePendingCount(body)
              /\ AddChecks(<<reading' < 50>>)

(* Mutant: the counter itself is compared. *)
teardown4NoBaseline ==
    /\ Metrics("exposition")
    /\ phase' = "done"
    /\ reading' = okCount
    /\ AddChecks(<<reading' <= 2>>)

teardown4 ==
    \E body \in Bodies :
        /\ Metrics(body)
        /\ \/ /\ body = "none"
              /\ phase' = "aborted"
              /\ UNCHANGED <<checks, reading>>
           \/ /\ body # "none"
              /\ phase' = "done"
              /\ reading' = parseProviderOkCount(body) - baseline
              /\ AddChecks(<<reading' <= 2>>)

(* When no iteration is left k6 runs teardown, if there is one. *)
Teardown ==
    /\ phase = "stop"
    /\ busy = EmptyBag
    /\ \/ profile = 3 /\ teardown3
       \/ profile = 4 /\ teardown4
       \/ /\ profile \notin {3, 4}
          /\ phase' = "done"
          /\ UNCHANGED <<checks, reqs, reading>>
    /\ UNCHANGED <<serviceVars, profile, poolVars, busy, created, startedAt,
                   baseline, quiet>>

-----------------------------------------------------------------------------
(* The service goes on meanwhile. *)

Running == phase \notin {"done", "aborted"}

(* The handlers of a burst take no longer than BurstTime. *)
WithinBurst == busy = EmptyBag \/ profile # 4 \/ now < startedAt + BurstTime

Service ==
    /\ phase \in {"load", "stop"}
    /\ \/ Ticks /\ SchedulerTick /\ quiet' = FALSE
       \/ errCount < MaxErrors[profile] /\ RequestError /\ quiet' = FALSE
       \/ faults < MaxFaults[profile] /\ DemuxFails /\ quiet' = FALSE
       \/ Faulty /\ PollLost /\ UNCHANGED quiet
       \/ Recover /\ UNCHANGED quiet
       \/ Poll /\ UNCHANGED quiet
       \/ Request /\ UNCHANGED quiet
       \/ Demux /\ UNCHANGED quiet
       \/ FallDue /\ UNCHANGED quiet
       \/ WithinBurst /\ PassTime /\ UNCHANGED quiet
    /\ UNCHANGED <<profile, phase, poolVars, busy, created, dataVars, resultVars>>

Init ==
    /\ ServiceInit
    /\ quiet = (Outstanding = {})
    /\ profile \in Profiles
    /\ phase = "setup"
    /\ arrivals = 0
    /\ idle = [i \in 0..(Arrivals[profile] + 1) |->
                  IF i = 0 THEN Options(profile).vus ELSE 0]
    /\ unplanned = Options(profile).maxVUs - Options(profile).vus
    /\ allocating = FALSE
    /\ busy = EmptyBag
    /\ sends = [pair \in Pairs |-> 0]
    /\ created = [pair \in Pairs |-> 0]
    /\ startedAt = 0
    /\ checks = [passed |-> 0, failed |-> 0]
    /\ reqs = [sent |-> 0, failed |-> 0]
    /\ baseline = 0
    /\ reading = 0

K6 == Setup \/ Arrive \/ Allocate \/ Burst \/ EndLoad \/ Interrupt \/ Teardown

Over == ~Running /\ UNCHANGED vars

Next == K6 \/ Respond \/ Service \/ Over

Spec == Init /\ [][Next]_vars

-----------------------------------------------------------------------------
(* Properties. *)

TypeOK ==
    /\ ServiceTypeOK
    /\ profile \in Profiles
    /\ phase \in {"setup", "load", "stop", "done", "aborted"}
    /\ arrivals \in 0..Larger(Arrivals[profile], BurstVUs)
    /\ idle \in [0..(Arrivals[profile] + 1) -> Nat]
    /\ unplanned \in Nat
    /\ allocating \in BOOLEAN
    /\ IsABag(busy)
    /\ sends \in [Pairs -> Nat]
    /\ created \in [Pairs -> Nat]
    /\ startedAt \in 0..now
    /\ checks \in [passed : Nat, failed : Nat]
    /\ reqs \in [sent : Nat, failed : Nat]
    /\ baseline \in Nat
    /\ reading \in Int
    /\ quiet \in BOOLEAN

(* What f counts, one by one: <<e, 1>> to <<e, f[e]>> for every e. *)
Copies(f) == UNION {{e} \X (1..f[e]) : e \in DOMAIN f}

(* The VUs of the pool. *)
VUs == Cardinality(Copies(idle)) + Cardinality(Copies(busy))

(* "approximately round-robin", profile3.js:37: __ITER is per VU, so the   *)
(* pairs at the front are ahead, but by at most one request per VU.        *)
PairsSpread ==
    profile = 3 =>
        \A i, j \in DOMAIN PAIRS : i < j
            => sends[PAIRS[i]] - sends[PAIRS[j]] \in 0..VUs

(* However many refresh requests are sent, they insert one job per pair    *)
(* and bucket; a burst on one pair that ends within a window inserts at    *)
(* most two ("one extra allowed for a bucket-boundary cross",              *)
(* profile4.js:6), retries, failed jobs and scheduler ticks included.      *)
RefreshesCoalesce ==
    /\ \A pair \in Pairs : created[pair] <= Bucket(now) - Bucket(startedAt) + 1
    /\ profile = 4 => created[BurstPair] <= 2

(* Profile 4's "provider delta <= 2" (profile4.js:79) holds for a burst on *)
(* an idle service that no scheduler tick, no error of the upstream and no *)
(* batch with a failing statement falls into; failing handlers, a lost     *)
(* reply to Reserve and the recovery after it do no harm.                  *)
QuietBurstPasses ==
    profile = 4 /\ phase = "done" /\ quiet => reading <= 2

(* In the profiles that only look at responses (1, 2 and 5) the thresholds *)
(* on http_req_failed and on checks always agree: no check passes on a     *)
(* failed request or fails on a good one.                                  *)
ThresholdsAgree ==
    profile \in {1, 2, 5} =>
        (100 * reqs.failed < reqs.sent
            <=> 100 * checks.passed > 99 * (checks.passed + checks.failed))

-----------------------------------------------------------------------------
(* What documentation says, and the scripts do not do. *)

(* loadtest/README.md:101: the threshold on checks "covers both the 202    *)
(* status check and the delta assertion".                                  *)
ThresholdCoversDelta ==
    profile = 4 /\ phase = "done" /\ Green => reading <= 2
=============================================================================
