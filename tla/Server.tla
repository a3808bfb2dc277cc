------------------------------- MODULE Server -------------------------------
(***************************************************************************)
(* The life of one service process: run and gracefulShutdown of            *)
(* cmd/server/main.go, the scheduler goroutine of internal/scheduler, the  *)
(* worker goroutine and the HTTP handlers as users of the connection pool. *)
(*                                                                         *)
(* Kept: the start order and its failures, which goroutine's end stops the *)
(* process, contexts and their cancellation, the bounded stages of the     *)
(* shutdown, who holds a connection while doing what.  Abstracted: what    *)
(* the statements do (modules JobQueue and Pipeline).  The statements the  *)
(* worker makes for one job of its batch are one call.                     *)
(***************************************************************************)
EXTENDS Naturals, FiniteSets

CONSTANTS Requests,   \* HTTP requests in flight at once
          NPairs,     \* pairs of the whitelist
          BatchSize,  \* jobs a poll may reserve
          MaxConns    \* DB_POOL_MAX_CONNS

ASSUME RequestsAssumption ==
    IsFiniteSet(Requests) /\ Requests \cap {"sched", "worker"} = {}
ASSUME SizesAssumption ==   \* config.go checks these
    NPairs \in Nat \ {0} /\ BatchSize \in Nat \ {0} /\ MaxConns \in Nat \ {0}

VARIABLES main,       \* where run() is
          exit,       \* what run() returns
          root,       \* rootCtx is done: a signal, or stop() was called
          pool,       \* the connection pool
          http,       \* the listener
          pc,         \* pc[u]: what each user of the pool is doing
          conn,       \* conn[u]: its connection
          cancelled,  \* goroutines whose context is cancelled
          timedOut,   \* stages of the shutdown that ran into their timeout
          covered,    \* number of pairs enqueued in the scheduler's tick
          booting,    \* the scheduler is in its bootstrap tick
          beat,       \* LastTick is the time of the latest tick
          left,       \* jobs of the worker's batch still to be written
          abandoned   \* a job was left running because of a cancelled context

serverVars == <<main, exit, root, pool, http, pc, conn, cancelled, timedOut,
                covered, booting, beat, left, abandoned>>

schedVars == <<covered, booting, beat>>
workerVars == <<left, abandoned>>
mainVars == <<main, exit, pool, http, cancelled, timedOut>>

Goroutines == {"sched", "worker"}
Users == Requests \cup Goroutines

Calls == {"insert", "lookup", "reserve", "write", "clean"}

Drained == \A r \in Requests : pc[r] = "none"

-----------------------------------------------------------------------------
(* The pool. *)

Held == {u \in Users : conn[u] \notin {"none", "wanted"}}

(* u starts a statement: it needs a connection. *)
Call(u, what) ==
    /\ pc' = [pc EXCEPT ![u] = what]
    /\ conn' = [conn EXCEPT ![u] = "wanted"]

(* u is not in a statement any more. *)
Leave(u, what) ==
    /\ pc' = [pc EXCEPT ![u] = what]
    /\ conn' = [conn EXCEPT ![u] = "none"]

(* Connections are handed out while the pool is open; it never holds more  *)
(* than MaxConns.                                                          *)
Acquire(u) ==
    /\ conn[u] = "wanted"
    /\ pool = "open"
    /\ u \notin cancelled
    /\ Cardinality(Held) < MaxConns
    /\ conn' = [conn EXCEPT ![u] = "held"]
    /\ UNCHANGED <<mainVars, root, pc, schedVars, workerVars>>

(* How a call can end. *)
Succeeds(u) == conn[u] = "held"

Errs(u) ==
    \/ conn[u] = "held"
    \/ conn[u] = "wanted" /\ (u \in cancelled \/ pool # "open")

-----------------------------------------------------------------------------
(* HTTP handlers: RefreshQuote, through Enqueue. *)

Request(r) ==
    /\ http = "up"
    /\ pc[r] = "none"
    /\ Call(r, "insert")
    /\ UNCHANGED <<mainVars, root, schedVars, workerVars>>

(* Mutant: the rows of the INSERT are still open, its connection too. *)
ConflictsHolding(u) ==
    /\ pc[u] = "insert"
    /\ Succeeds(u)
    /\ pc' = [pc EXCEPT ![u] = "lookup"]
    /\ conn' = [conn EXCEPT ![u] = "held, wants another"]

(* On a conflict Enqueue has released the connection of the INSERT before  *)
(* it asks for another one to look the job up.                             *)
Conflicts(u) == pc[u] = "insert" /\ Succeeds(u) /\ Call(u, "lookup")

Answer(r) ==
    /\ pc[r] \in Calls
    /\ Succeeds(r) \/ Errs(r)
    /\ Leave(r, "none")

HandlerStep(r) ==
    /\ Answer(r) \/ Conflicts(r)
    /\ UNCHANGED <<mainVars, root, schedVars, workerVars>>

(* The client goes away while its request waits for a connection. *)
Disconnect(r) ==
    /\ conn[r] = "wanted"
    /\ Leave(r, "none")
    /\ UNCHANGED <<mainVars, root, schedVars, workerVars>>

-----------------------------------------------------------------------------
(* The scheduler: Run and Tick. *)

StartTick ==
    /\ Call("sched", "insert")
    /\ covered' = 0
    /\ beat' = FALSE

SchedTick ==
    /\ pc["sched"] = "select"
    /\ StartTick
    /\ UNCHANGED <<mainVars, root, booting, workerVars>>

(* The pair's job is there: on to the next pair, or LastTick is set. *)
PairDone ==
    /\ Succeeds("sched")
    /\ covered' = covered + 1
    /\ \/ /\ covered' < NPairs
          /\ Call("sched", "insert")
          /\ UNCHANGED <<booting, beat>>
       \/ /\ covered' = NPairs
          /\ Leave("sched", "select")
          /\ beat' = TRUE
          /\ booting' = FALSE
    /\ UNCHANGED root

(* Mutant: the error is only logged. *)
StopNothing(u) == UNCHANGED root

(* The goroutine of main.run calls stop() unless the error is that its own *)
(* context was cancelled.                                                  *)
Stop(u) == root' = TRUE \/ (u \in cancelled /\ UNCHANGED root)

(* The tick ends at the first error.  In the bootstrap tick Run returns it. *)
TickFails ==
    /\ Errs("sched")
    /\ \/ booting /\ Leave("sched", "exited") /\ Stop("sched")
       \/ ~booting /\ Leave("sched", "select") /\ UNCHANGED root
    /\ UNCHANGED schedVars

SchedStep ==
    /\ pc["sched"] \in Calls
    /\ \/ PairDone
       \/ TickFails
       \/ Conflicts("sched") /\ UNCHANGED <<root, schedVars>>
    /\ UNCHANGED <<mainVars, workerVars>>

-----------------------------------------------------------------------------
(* The worker: Run and dispatchBatch. *)

WorkerTick ==
    /\ pc["worker"] = "select"
    /\ Call("worker", "reserve") \/ Call("worker", "clean")
    /\ UNCHANGED <<mainVars, root, schedVars, workerVars>>

Reserved ==
    /\ pc["worker"] = "reserve"
    /\ \/ Succeeds("worker") /\ Leave("worker", "fetch") /\ left' \in 1..BatchSize
       \/ Succeeds("worker") /\ Leave("worker", "select") /\ UNCHANGED left
       \/ Errs("worker") /\ Leave("worker", "select") /\ UNCHANGED left
    /\ UNCHANGED abandoned

Cleaned ==
    /\ pc["worker"] = "clean"
    /\ Succeeds("worker") \/ Errs("worker")
    /\ Leave("worker", "select")
    /\ UNCHANGED workerVars

(* Mutant: one iteration too many. *)
WrittenOneTooMany ==
    /\ pc["worker"] = "write"
    /\ Succeeds("worker") \/ Errs("worker")
    /\ UNCHANGED abandoned
    /\ left' = left - 1
    /\ IF left = 0 THEN Leave("worker", "select") ELSE Call("worker", "write")

(* The next job of the batch; with a cancelled context its statements fail *)
(* and the row stays running.                                              *)
Written ==
    /\ pc["worker"] = "write"
    /\ \/ Succeeds("worker") /\ UNCHANGED abandoned
       \/ Errs("worker") /\ abandoned' = (abandoned \/ "worker" \in cancelled)
    /\ left' = left - 1
    /\ IF left' = 0 THEN Leave("worker", "select") ELSE Call("worker", "write")

WorkerStep ==
    /\ Reserved \/ Cleaned \/ Written
    /\ UNCHANGED <<mainVars, root, schedVars>>

(* FetchPairs returns, with quotes or an error. *)
Fetched ==
    /\ pc["worker"] = "fetch"
    /\ Call("worker", "write")
    /\ UNCHANGED <<mainVars, root, schedVars, workerVars>>

(* It returns once its context is cancelled; it has no deadline of its own. *)
FetchCancelled == "worker" \in cancelled /\ Fetched

-----------------------------------------------------------------------------
(* How goroutines end. *)

(* case <-ctx.Done() of the select in Run. *)
Return(u) ==
    /\ pc[u] = "select"
    /\ u \in cancelled
    /\ Leave(u, "exited")
    /\ UNCHANGED <<mainVars, root, schedVars, workerVars>>

(* A panic, between two statements or inside one, whose connection pgx     *)
(* releases while unwinding, is recovered by the goroutine's deferred      *)
(* function, which calls stop().                                           *)
Panic(u) ==
    /\ pc[u] \in Calls \cup {"select", "fetch"}
    /\ Leave(u, "exited")
    /\ root' = TRUE
    /\ UNCHANGED <<mainVars, schedVars, workerVars>>

(* ListenAndServe returns an error. *)
ListenFails ==
    /\ http = "up"
    /\ http' = "failed"
    /\ UNCHANGED <<main, exit, pool, cancelled, timedOut, root, pc, conn,
                   schedVars, workerVars>>

Signal ==
    /\ ~root
    /\ root' = TRUE
    /\ UNCHANGED <<mainVars, pc, conn, schedVars, workerVars>>

-----------------------------------------------------------------------------
(* run(): start. *)

(* Load, the embedded API spec, the pool: a failure returns before there   *)
(* is a pool to close.                                                     *)
LoadConfig ==
    /\ main = "load"
    /\ \/ main' = "ping" /\ pool' = "open" /\ UNCHANGED exit
       \/ main' = "done" /\ exit' = "error" /\ UNCHANGED pool
    /\ UNCHANGED <<pc, conn, schedVars>>

(* A failing step returns an error; the deferred pool.Close runs. *)
StartStep(at, next) ==
    /\ main = at
    /\ \/ main' = next /\ UNCHANGED exit
       \/ main' = "close" /\ exit' = "error"
    /\ UNCHANGED <<pc, conn, schedVars>>

(* With a cancelled rootCtx ping and probe fail. *)
Ping == ~root /\ StartStep("ping", "probe") /\ UNCHANGED pool

Probe == ~root /\ StartStep("probe", "startWorker") /\ UNCHANGED pool

StartCancelled ==
    /\ root
    /\ main \in {"ping", "probe"}
    /\ main' = "close"
    /\ exit' = "error"
    /\ UNCHANGED <<pool, pc, conn, schedVars>>

StartWorker ==
    /\ main = "startWorker"
    /\ main' = "startSched"
    /\ Leave("worker", "select")
    /\ UNCHANGED <<exit, pool, schedVars>>

StartSched ==
    /\ main = "startSched"
    /\ main' = "startHttp"
    /\ StartTick
    /\ booting' = TRUE
    /\ UNCHANGED <<exit, pool>>

StartHttp ==
    /\ main = "startHttp"
    /\ main' = "wait"
    /\ http' = "up"
    /\ UNCHANGED <<exit, pool, pc, conn, schedVars>>

Start ==
    /\ \/ /\ \/ LoadConfig \/ Ping \/ Probe \/ StartCancelled
             \/ StartWorker \/ StartSched
          /\ UNCHANGED http
       \/ StartHttp
    /\ UNCHANGED <<root, cancelled, timedOut, workerVars>>

-----------------------------------------------------------------------------
(* run(): shutdown. *)

(* Mutant: only serverErr is waited for. *)
WaitForListener ==
    /\ main = "wait"
    /\ http = "failed"
    /\ exit' = "error"
    /\ main' = "http"
    /\ http' = "closed"
    /\ UNCHANGED <<pool, cancelled, timedOut>>

(* select on rootCtx.Done() and serverErr; then srv.Shutdown closes the    *)
(* listener.                                                               *)
Wait ==
    /\ main = "wait"
    /\ \/ root /\ exit' = "ok"
       \/ http = "failed" /\ exit' = "error"
    /\ main' = "http"
    /\ http' = "closed"
    /\ UNCHANGED <<pool, cancelled, timedOut>>

(* One stage: wait for its users, or for the timeout; then cancel what the *)
(* next stage waits for.                                                   *)
Stage(at, over, next, cancels) ==
    /\ main = at
    /\ \/ over /\ UNCHANGED timedOut
       \/ ~over /\ timedOut' = timedOut \cup {at}
    /\ main' = next
    /\ cancelled' = cancelled \cup cancels
    /\ UNCHANGED <<exit, http, pool>>

(* Mutant: nothing waits for workerDone. *)
GracefulShutdownNoDrain ==
    \/ Stage("http", Drained, "sched", {"sched"})
    \/ Stage("sched", pc["sched"] = "exited", "worker", {"worker"})
    \/ Stage("worker", TRUE, "close", {})

GracefulShutdown ==
    \/ Stage("http", Drained, "sched", {"sched"})
    \/ Stage("sched", pc["sched"] = "exited", "worker", {"worker"})
    \/ Stage("worker", pc["worker"] = "exited", "close", {})

(* The deferred pool.Close: it hands out no more connections and waits for *)
(* those in use.                                                           *)
ClosePool ==
    /\ main = "close"
    /\ \/ pool = "open" /\ pool' = "closing" /\ UNCHANGED main
       \/ pool = "closing" /\ Held = {} /\ pool' = "closed" /\ main' = "done"
    /\ UNCHANGED <<exit, http, cancelled, timedOut>>

Shutdown ==
    /\ Wait \/ GracefulShutdown \/ ClosePool
    /\ UNCHANGED <<root, pc, conn, schedVars, workerVars>>

(* The process is gone. *)
Exited == main = "done" /\ UNCHANGED serverVars

-----------------------------------------------------------------------------
Init ==
    /\ main = "load"
    /\ exit = "none"
    /\ root = FALSE
    /\ pool = "none"
    /\ http = "off"
    /\ pc = [u \in Users |-> IF u \in Requests THEN "none" ELSE "off"]
    /\ conn = [u \in Users |-> "none"]
    /\ cancelled = {}
    /\ timedOut = {}
    /\ covered = 0
    /\ booting = FALSE
    /\ beat = FALSE
    /\ left = 0
    /\ abandoned = FALSE

Alive(step) == main # "done" /\ step

Next ==
    \/ Alive(Start)
    \/ Alive(Shutdown)
    \/ Alive(\E r \in Requests : Request(r))
    \/ Alive(\E r \in Requests : HandlerStep(r))
    \/ Alive(\E r \in Requests : Disconnect(r))
    \/ Alive(\E u \in Users : Acquire(u))
    \/ Alive(SchedTick)
    \/ Alive(SchedStep)
    \/ Alive(WorkerTick)
    \/ Alive(WorkerStep)
    \/ Alive(Fetched)
    \/ Alive(\E u \in Goroutines : Return(u))
    \/ Alive(\E u \in Goroutines : Panic(u))
    \/ Alive(ListenFails)
    \/ Alive(Signal)
    \/ Exited

(* Go's select chooses at random among the ready cases, so a goroutine     *)
(* whose context is done leaves its loop.  pgxpool hands connections out   *)
(* in the order they were asked for.  Timers of the stages fire.  Every    *)
(* statement ends, and FetchPairs does once its context is cancelled.      *)
(* Nothing obliges clients, tickers, signals or the upstream to act.       *)
Fairness ==
    /\ WF_serverVars(Alive(Start))
    /\ WF_serverVars(Alive(Shutdown))
    /\ \A u \in Users : SF_serverVars(Alive(Acquire(u)))
    /\ WF_serverVars(Alive(SchedStep))
    /\ WF_serverVars(Alive(WorkerStep))
    /\ WF_serverVars(Alive(FetchCancelled))
    /\ \A u \in Goroutines : SF_serverVars(Alive(Return(u)))

(* The statements of HTTP handlers end.  Neither the handlers nor the pool *)
(* set a timeout and Shutdown cancels no request, so this is left to the   *)
(* database; without it the deferred pool.Close may wait for ever.         *)
HandlerFairness == \A r \in Requests : WF_serverVars(Alive(HandlerStep(r)))

Spec == Init /\ [][Next]_serverVars /\ Fairness /\ HandlerFairness

-----------------------------------------------------------------------------
(* Properties. *)

TypeOK ==
    /\ main \in {"load", "ping", "probe", "startWorker", "startSched",
                 "startHttp", "wait", "http", "sched", "worker", "close", "done"}
    /\ exit \in {"none", "ok", "error"}
    /\ root \in BOOLEAN
    /\ pool \in {"none", "open", "closing", "closed"}
    /\ http \in {"off", "up", "failed", "closed"}
    /\ pc \in [Users -> Calls \cup {"none", "off", "select", "fetch", "exited"}]
    /\ conn \in [Users -> {"none", "wanted", "held"}]
    /\ cancelled \subseteq Goroutines
    /\ timedOut \subseteq {"http", "sched", "worker"}
    /\ covered \in 0..NPairs
    /\ booting \in BOOLEAN
    /\ beat \in BOOLEAN
    /\ left \in 0..BatchSize
    /\ abandoned \in BOOLEAN

(* The order of the shutdown, main.go:14-18: the scheduler is cancelled    *)
(* only when no request is left, the worker only after the scheduler, the  *)
(* pool is closed after both; an exception is only what ran into the       *)
(* timeout of its own stage.                                               *)
ShutdownOrder ==
    /\ "sched" \in cancelled => Drained \/ "http" \in timedOut
    /\ "worker" \in cancelled => pc["sched"] = "exited" \/ "sched" \in timedOut
    /\ pool \in {"closing", "closed"} => \A u \in Goroutines :
          pc[u] \in {"off", "exited"} \/ u \in timedOut

(* No half-dead service: while requests are accepted and no shutdown is    *)
(* under way, worker and scheduler are alive (the goroutines of run() call *)
(* stop() whenever they end on their own).                                 *)
NoHalfDeadService ==
    main = "wait" /\ ~root => \A u \in Goroutines : pc[u] # "exited"

(* A signal, or a goroutine that ends on its own, leads to an exit of the  *)
(* process, even if the upstream never answers (gracefulShutdown).         *)
StopLeadsToExit == root ~> main = "done"

(* Nobody waits for ever: with any number of users and even one connection *)
(* every request, tick, poll and clean-up gets through its statements,     *)
(* because no code path asks for a connection while it holds one.          *)
NobodyWaitsForever ==
    \A u \in Users : pc[u] \in Calls ~> pc[u] \notin Calls \/ main = "done"

-----------------------------------------------------------------------------
(* What documentation says, and the process does not do. *)

(* resilience.md:303 says "Stop worker `Reserve` loop (workers finish      *)
(* current jobs)": unless the stage times out, no job of the batch in      *)
(* progress is given up.                                                   *)
WorkersFinishCurrentJobs ==
    main = "done" /\ "worker" \notin timedOut => ~abandoned
=============================================================================
