---------------------------- MODULE ServerProofs ----------------------------
(***************************************************************************)
(* Proofs about module Server: for any number of requests, pairs, jobs and *)
(* connections the shutdown keeps its order and the service is never half  *)
(* dead.                                                                   *)
(***************************************************************************)
EXTENDS Server, TLAPS

(* What is true at each point of run(). *)
Phases ==
    /\ main \in {"load", "ping", "probe", "startWorker"}
          => pc["worker"] = "off" /\ pc["sched"] = "off"
    /\ main = "startSched" => pc["sched"] = "off"
    /\ main \in {"load", "ping", "probe", "startWorker", "startSched",
                 "startHttp", "wait", "http"} => cancelled = {}
    /\ main \in {"http", "sched", "worker"} \/ cancelled # {} => http = "closed"
    /\ main = "worker" => pc["sched"] = "exited" \/ "sched" \in timedOut
    /\ main \in {"close", "done"} => \A u \in Goroutines :
          pc[u] \in {"off", "exited"} \/ u \in timedOut
    /\ pool \in {"closing", "closed"} => main \in {"close", "done"}

(* What is true of each goroutine. *)
Loops ==
    /\ \A u \in Goroutines : pc[u] = "exited" => root \/ u \in cancelled
    /\ pc["sched"] \in Calls => covered < NPairs
    /\ pc["worker"] \in {"fetch", "write"} => left > 0

ServerInv == TypeOK /\ ShutdownOrder /\ Phases /\ Loops

(* The initial state satisfies the invariant. *)
LEMMA InitInv == Init => ServerInv
<1> SUFFICES ASSUME Init PROVE ServerInv
  OBVIOUS
<1>1. pc["worker"] = "off" /\ pc["sched"] = "off"
  BY RequestsAssumption DEF Init, Users, Goroutines
<1>2. TypeOK
  <2>1. left \in 0..BatchSize /\ covered \in 0..NPairs
    BY SizesAssumption DEF Init
  <2>2. /\ pc \in [Users -> Calls \cup {"none", "off", "select", "fetch", "exited"}]
        /\ conn \in [Users -> {"none", "wanted", "held"}]
    BY DEF Init
  <2> QED
    BY <2>1, <2>2 DEF Init, TypeOK
<1>3. ShutdownOrder
  BY DEF Init, ShutdownOrder
<1>4. Phases
  BY <1>1 DEF Init, Phases
<1>5. Loops
  BY <1>1 DEF Init, Loops, Goroutines, Calls
<1> QED
  BY <1>2, <1>3, <1>4, <1>5 DEF ServerInv

(* Steps of handlers, which are not goroutines of run(), keep it. *)
LEMMA HandlerInv ==
    ASSUME ServerInv, NEW r \in Requests,
           Request(r) \/ HandlerStep(r) \/ Disconnect(r)
    PROVE  ServerInv'
<1>1. r \in Users /\ r # "sched" /\ r # "worker"
  BY RequestsAssumption DEF Users
<1>2. UNCHANGED <<mainVars, root, schedVars, workerVars>>
  BY DEF Request, HandlerStep, Disconnect
<1>3. \E what \in {"insert", "lookup", "none"} : Call(r, what) \/ Leave(r, what)
  BY DEF Request, HandlerStep, Disconnect, Answer, Conflicts
<1>4. /\ pc' \in [Users -> Calls \cup {"none", "off", "select", "fetch", "exited"}]
      /\ conn' \in [Users -> {"none", "wanted", "held"}]
      /\ \A u \in Goroutines : pc'[u] = pc[u]
  BY <1>1, <1>3 DEF Call, Leave, ServerInv, TypeOK, Users, Goroutines, Calls
<1>5. "sched" \in cancelled /\ Drained => Drained'
  BY <1>1 DEF Request, HandlerStep, Disconnect, Answer, Conflicts, Leave, Drained,
     ServerInv, Phases, TypeOK, Calls, Users
<1> QED
  BY <1>2, <1>4, <1>5
     DEF mainVars, schedVars, workerVars, ServerInv, TypeOK, ShutdownOrder,
         Phases, Loops, Goroutines

(* What a statement begun or left by a goroutine changes. *)
LEMMA GoroutineMoves ==
    ASSUME ServerInv, NEW u \in Goroutines,
           NEW what \in Calls \cup {"select", "fetch", "exited"},
           Call(u, what) \/ Leave(u, what)
    PROVE  /\ pc' \in [Users -> Calls \cup {"none", "off", "select", "fetch", "exited"}]
           /\ conn' \in [Users -> {"none", "wanted", "held"}]
           /\ pc'[u] = what
           /\ \A v \in Users : v # u => pc'[v] = pc[v]
           /\ Drained' = Drained
<1>1. u \in Users /\ u \notin Requests
  BY RequestsAssumption DEF Users, Goroutines
<1>2. /\ pc' \in [Users -> Calls \cup {"none", "off", "select", "fetch", "exited"}]
      /\ conn' \in [Users -> {"none", "wanted", "held"}]
      /\ pc'[u] = what
      /\ \A v \in Users : v # u => pc'[v] = pc[v]
  BY <1>1 DEF Call, Leave, ServerInv, TypeOK
<1>3. \A r \in Requests : pc'[r] = pc[r]
  BY <1>1, <1>2 DEF Users
<1> QED
  BY <1>2, <1>3 DEF Drained

(* A goroutine that is running and moves on keeps the shutdown's order and *)
(* the phases: they constrain goroutines that are off or have exited.      *)
LEMMA RunningMoves ==
    ASSUME ServerInv, NEW u \in Goroutines,
           NEW what \in Calls \cup {"select", "fetch", "exited"},
           pc[u] \in Calls \cup {"select", "fetch"},
           Call(u, what) \/ Leave(u, what),
           UNCHANGED mainVars
    PROVE  ShutdownOrder' /\ Phases'
<1>1. /\ pc'[u] = what
      /\ \A v \in Goroutines : v # u => pc'[v] = pc[v]
      /\ Drained' = Drained
  BY GoroutineMoves DEF Users
<1>2. pc[u] # "off" /\ pc[u] # "exited"
  BY DEF Calls
<1> QED
  BY <1>1, <1>2
     DEF ServerInv, ShutdownOrder, Phases, mainVars, Goroutines

(* Getting a connection changes no more than conn. *)
LEMMA AcquireInv ==
    ASSUME ServerInv, NEW u \in Users, Acquire(u)
    PROVE  ServerInv'
<1>1. conn' \in [Users -> {"none", "wanted", "held"}]
  BY DEF Acquire, ServerInv, TypeOK
<1>2. UNCHANGED <<mainVars, root, pc, schedVars, workerVars>>
  BY DEF Acquire
<1> QED
  BY <1>1, <1>2
     DEF mainVars, schedVars, workerVars, ServerInv, TypeOK, ShutdownOrder,
         Drained, Phases, Loops

(* The scheduler's tick begins. *)
LEMMA SchedTickInv ==
    ASSUME ServerInv, SchedTick
    PROVE  ServerInv'
<1>1. /\ pc["sched"] = "select" /\ Call("sched", "insert")
      /\ covered' = 0 /\ beat' = FALSE
      /\ UNCHANGED <<mainVars, root, booting, workerVars>>
  BY DEF SchedTick, StartTick
<1>2. "sched" \in Goroutines /\ "insert" \in Calls
  BY DEF Goroutines, Calls
<1>3. ShutdownOrder' /\ Phases'
  BY <1>1, <1>2, RunningMoves
<1>4. /\ pc' \in [Users -> Calls \cup {"none", "off", "select", "fetch", "exited"}]
      /\ conn' \in [Users -> {"none", "wanted", "held"}]
      /\ pc'["sched"] = "insert" /\ pc'["worker"] = pc["worker"]
  BY <1>1, <1>2, GoroutineMoves DEF Users, Goroutines
<1>5. TypeOK'
  <2>1. covered' \in 0..NPairs
    BY <1>1, SizesAssumption
  <2>2. beat' \in BOOLEAN
    BY <1>1
  <2> QED
    BY <1>1, <1>4, <2>1, <2>2 DEF ServerInv, TypeOK, mainVars, workerVars
<1>6. Loops'
  BY <1>1, <1>4, SizesAssumption DEF ServerInv, Loops, Goroutines, mainVars, workerVars
<1> QED
  BY <1>1, <1>3, <1>5, <1>6 DEF ServerInv

(* A statement of the scheduler's tick ends. *)
LEMMA SchedStepInv ==
    ASSUME ServerInv, SchedStep
    PROVE  ServerInv'
<1>1. pc["sched"] \in Calls /\ UNCHANGED <<mainVars, workerVars>>
  BY DEF SchedStep
<1>2. "sched" \in Goroutines /\ {"insert", "lookup"} \subseteq Calls
  BY DEF Goroutines, Calls
<1>3. covered \in Nat /\ NPairs \in Nat /\ covered < NPairs
  BY <1>1, SizesAssumption DEF ServerInv, TypeOK, Loops
<1>4. PICK what \in {"insert", "lookup", "select", "exited"} :
        /\ Call("sched", what) \/ Leave("sched", what)
        /\ what \in Calls => covered' < NPairs
        /\ what = "exited" => root' \/ "sched" \in cancelled
        /\ covered' \in 0..NPairs
        /\ beat' \in BOOLEAN /\ booting' \in BOOLEAN
        /\ root' = root \/ root' = TRUE
  <2>1. CASE PairDone
    <3>1. covered' = covered + 1 /\ root' = root
      BY <2>1 DEF PairDone
    <3>2. covered' \in 0..NPairs
      BY <3>1, <1>3
    <3>3. CASE covered' < NPairs /\ Call("sched", "insert") /\ UNCHANGED <<booting, beat>>
      <4>1. beat \in BOOLEAN /\ booting \in BOOLEAN
        BY DEF ServerInv, TypeOK
      <4> QED
        BY <3>1, <3>2, <3>3, <4>1
    <3>4. CASE covered' = NPairs /\ Leave("sched", "select") /\ beat' = TRUE /\ booting' = FALSE
      BY <3>1, <3>2, <3>4 DEF Calls
    <3> QED
      BY <2>1, <3>3, <3>4 DEF PairDone
  <2>2. CASE TickFails
    <3>1. UNCHANGED schedVars
      BY <2>2 DEF TickFails
    <3>2. /\ covered' \in 0..NPairs /\ beat' \in BOOLEAN /\ booting' \in BOOLEAN
        BY <3>1 DEF schedVars, ServerInv, TypeOK
    <3>3. CASE Leave("sched", "exited") /\ Stop("sched")
      BY <3>2, <3>3 DEF Stop, Calls
    <3>4. CASE Leave("sched", "select") /\ UNCHANGED root
      BY <3>2, <3>4 DEF Calls
    <3> QED
      BY <2>2, <3>3, <3>4 DEF TickFails
  <2>3. CASE Conflicts("sched") /\ UNCHANGED <<root, schedVars>>
    <3>1. /\ covered' \in 0..NPairs /\ beat' \in BOOLEAN /\ booting' \in BOOLEAN
            /\ covered' < NPairs
      BY <2>3, <1>3 DEF schedVars, ServerInv, TypeOK
    <3>2. Call("sched", "lookup") /\ root' = root
      BY <2>3 DEF Conflicts
    <3> QED
      BY <3>1, <3>2
  <2> QED
    BY <2>1, <2>2, <2>3 DEF SchedStep
<1>5. ShutdownOrder' /\ Phases'
  BY <1>1, <1>2, <1>4, RunningMoves
<1>6. /\ pc' \in [Users -> Calls \cup {"none", "off", "select", "fetch", "exited"}]
      /\ conn' \in [Users -> {"none", "wanted", "held"}]
      /\ pc'["sched"] = what /\ pc'["worker"] = pc["worker"]
  BY <1>2, <1>4, GoroutineMoves DEF Users, Goroutines
<1>7. TypeOK'
  BY <1>1, <1>4, <1>6 DEF ServerInv, TypeOK, mainVars, workerVars
<1>8. Loops'
  BY <1>1, <1>4, <1>6 DEF ServerInv, Loops, TypeOK, Goroutines, mainVars, workerVars
<1> QED
  BY <1>4, <1>5, <1>7, <1>8 DEF ServerInv

(* The worker moves on, with or without finishing a job of its batch. *)
LEMMA WorkerInv ==
    ASSUME ServerInv, WorkerTick \/ WorkerStep \/ Fetched
    PROVE  ServerInv'
<1>1. /\ UNCHANGED <<mainVars, root, schedVars>>
      /\ pc["worker"] \in Calls \cup {"select", "fetch"}
  BY DEF WorkerTick, WorkerStep, Fetched, Reserved, Cleaned, Written, workerVars, Calls
<1>2. "worker" \in Goroutines /\ "sched" \in Goroutines
      /\ {"reserve", "clean", "write"} \subseteq Calls
  BY DEF Goroutines, Calls
<1>3. left \in Nat /\ BatchSize \in Nat /\ left \in 0..BatchSize
  BY SizesAssumption DEF ServerInv, TypeOK
<1>4. PICK what \in {"reserve", "clean", "write", "select", "fetch"} :
        /\ Call("worker", what) \/ Leave("worker", what)
        /\ left' \in 0..BatchSize
        /\ what \in {"fetch", "write"} => left' > 0
  <2>1. CASE WorkerTick
    BY <2>1, <1>3 DEF WorkerTick, workerVars
  <2>2. CASE Reserved
    BY <2>2, <1>3 DEF Reserved
  <2>3. CASE Cleaned
    BY <2>3, <1>3 DEF Cleaned, workerVars
  <2>4. CASE Written
    <3>1. left > 0 /\ left' = left - 1
      BY <2>4 DEF Written, ServerInv, Loops
    <3>2. left' \in 0..BatchSize /\ (left' # 0 => left' > 0)
      BY <3>1, <1>3
    <3>3. CASE left' = 0 /\ Leave("worker", "select")
      BY <3>2, <3>3
    <3>4. CASE left' # 0 /\ Call("worker", "write")
      BY <3>2, <3>4
    <3> QED
      BY <2>4, <3>3, <3>4 DEF Written
  <2>5. CASE Fetched
    BY <2>5, <1>3 DEF Fetched, workerVars, ServerInv, Loops
  <2> QED
    BY <2>1, <2>2, <2>3, <2>4, <2>5 DEF WorkerStep
<1>5. abandoned' \in BOOLEAN
  <2>1. abandoned \in BOOLEAN
    BY DEF ServerInv, TypeOK
  <2> QED
    BY <2>1, Zenon DEF WorkerTick, WorkerStep, Fetched, Reserved, Cleaned, Written, workerVars
<1>6. ShutdownOrder' /\ Phases'
  BY <1>1, <1>2, <1>4, RunningMoves
<1>7. /\ pc' \in [Users -> Calls \cup {"none", "off", "select", "fetch", "exited"}]
      /\ conn' \in [Users -> {"none", "wanted", "held"}]
      /\ pc'["worker"] = what /\ pc'["sched"] = pc["sched"]
  BY <1>2, <1>4, GoroutineMoves DEF Users, Goroutines
<1>8. TypeOK'
  BY <1>1, <1>4, <1>5, <1>7 DEF ServerInv, TypeOK, mainVars, schedVars
<1>9. Loops'
  BY <1>1, <1>4, <1>7 DEF ServerInv, Loops, Goroutines, mainVars, schedVars
<1> QED
  BY <1>1, <1>6, <1>8, <1>9 DEF ServerInv, schedVars

(* A goroutine that ends was cancelled or stops the process. *)
LEMMA ExitInv ==
    ASSUME ServerInv, NEW u \in Goroutines, Return(u) \/ Panic(u)
    PROVE  ServerInv'
<1>1. /\ pc[u] \in Calls \cup {"select", "fetch"} /\ Leave(u, "exited")
      /\ UNCHANGED <<mainVars, schedVars, workerVars>>
      /\ (root' = root /\ u \in cancelled) \/ root' = TRUE
  BY DEF Return, Panic
<1>2. ShutdownOrder' /\ Phases'
  BY <1>1, RunningMoves
<1>3. /\ pc' \in [Users -> Calls \cup {"none", "off", "select", "fetch", "exited"}]
      /\ conn' \in [Users -> {"none", "wanted", "held"}]
      /\ pc'[u] = "exited"
      /\ \A v \in Goroutines : v # u => pc'[v] = pc[v]
  BY <1>1, GoroutineMoves DEF Users
<1>4. root' \in BOOLEAN /\ (root => root')
  <2>1. root \in BOOLEAN
    BY DEF ServerInv, TypeOK
  <2>2. CASE root' = root
    BY <2>1, <2>2
  <2>3. CASE root' = TRUE
    BY <2>3
  <2> QED
    BY <1>1, <2>2, <2>3
<1>5. TypeOK'
  BY <1>1, <1>3, <1>4 DEF ServerInv, TypeOK, mainVars, schedVars, workerVars
<1>6. Loops'
  BY <1>1, <1>3, <1>4
     DEF ServerInv, Loops, Goroutines, Calls, mainVars, schedVars, workerVars
<1> QED
  BY <1>1, <1>2, <1>5, <1>6 DEF ServerInv, schedVars

(* The listener fails, or a signal arrives: no goroutine moves. *)
LEMMA OutsideInv ==
    ASSUME ServerInv, ListenFails \/ Signal
    PROVE  ServerInv'
<1>1. /\ UNCHANGED <<main, exit, pool, cancelled, timedOut, pc, conn>>
      /\ UNCHANGED <<schedVars, workerVars>>
      /\ http' = http \/ (http = "up" /\ http' = "failed")
      /\ root' = root \/ root' = TRUE
  BY DEF ListenFails, Signal, mainVars
<1>2. root' \in BOOLEAN /\ (root => root')
  <2>1. root \in BOOLEAN
    BY DEF ServerInv, TypeOK
  <2>2. CASE root' = root
    BY <2>1, <2>2
  <2>3. CASE root' = TRUE
    BY <2>3
  <2> QED
    BY <1>1, <2>2, <2>3
<1>3. TypeOK'
  BY <1>1, <1>2 DEF ServerInv, TypeOK, schedVars, workerVars
<1>4. ShutdownOrder' /\ Phases'
  BY <1>1 DEF ServerInv, ShutdownOrder, Drained, Phases
<1>5. Loops'
  BY <1>1, <1>2 DEF ServerInv, Loops, schedVars, workerVars
<1> QED
  BY <1>3, <1>4, <1>5 DEF ServerInv

(* The steps of run() up to the listener: each goroutine is started once,  *)
(* from "off", while nothing is cancelled.                                 *)
LEMMA StartInv ==
    ASSUME ServerInv, Start
    PROVE  ServerInv'
<1>1. /\ main \in {"load", "ping", "probe", "startWorker", "startSched", "startHttp"}
      /\ UNCHANGED <<root, cancelled, timedOut, workerVars>>
  BY DEF Start, LoadConfig, Ping, Probe, StartStep, StartCancelled, StartWorker,
     StartSched, StartHttp
<1>2. cancelled = {} /\ pool \notin {"closing", "closed"}
  BY <1>1 DEF ServerInv, Phases
<1>3. "sched" \in Goroutines /\ "worker" \in Goroutines /\ "insert" \in Calls
  BY DEF Goroutines, Calls
<1>4. CASE UNCHANGED <<pc, conn, schedVars>> /\ main # "startWorker" /\ main # "startSched"
  <2>1. /\ main' \in {"ping", "probe", "startWorker", "wait", "close", "done"}
        /\ exit' \in {"none", "ok", "error"}
        /\ pool' \in {"none", "open"}
        /\ http' \in {"off", "up", "failed", "closed"}
        /\ main' \in {"ping", "probe", "startWorker", "close", "done"}
              => main \in {"load", "ping", "probe"}
    BY <1>1, <1>2, <1>4 DEF Start, LoadConfig, Ping, Probe, StartStep, StartCancelled,
       StartWorker, StartSched, StartHttp, ServerInv, TypeOK
  <2>2. TypeOK'
    BY <1>1, <1>4, <2>1
       DEF ServerInv, TypeOK, schedVars, workerVars
  <2>3. ShutdownOrder' /\ Loops'
    BY <1>1, <1>2, <1>4, <2>1
       DEF ServerInv, ShutdownOrder, Loops, schedVars, workerVars
  <2>4. Phases'
    BY <1>1, <1>2, <1>4, <2>1 DEF ServerInv, Phases, Goroutines
  <2> QED
    BY <2>2, <2>3, <2>4 DEF ServerInv
<1>5. CASE StartWorker /\ UNCHANGED http
  <2>1. /\ main = "startWorker" /\ main' = "startSched"
        /\ Leave("worker", "select")
        /\ UNCHANGED <<exit, pool, schedVars>>
    BY <1>5 DEF StartWorker
  <2>2. /\ pc' \in [Users -> Calls \cup {"none", "off", "select", "fetch", "exited"}]
        /\ conn' \in [Users -> {"none", "wanted", "held"}]
        /\ pc'["worker"] = "select" /\ pc'["sched"] = pc["sched"]
    BY <1>3, <2>1, GoroutineMoves DEF Users, Goroutines
  <2>3. TypeOK'
    BY <1>1, <1>5, <2>1, <2>2
       DEF ServerInv, TypeOK, schedVars, workerVars
  <2>4. ShutdownOrder' /\ Phases'
    BY <1>1, <1>2, <1>5, <2>1, <2>2 DEF ServerInv, ShutdownOrder, Phases
  <2>5. Loops'
    BY <1>1, <2>1, <2>2 DEF ServerInv, Loops, Goroutines, Calls, schedVars, workerVars
  <2> QED
    BY <2>3, <2>4, <2>5 DEF ServerInv
<1>6. CASE StartSched /\ UNCHANGED http
  <2>1. /\ main = "startSched" /\ main' = "startHttp"
        /\ Call("sched", "insert")
        /\ covered' = 0 /\ beat' = FALSE /\ booting' = TRUE
        /\ UNCHANGED <<exit, pool>>
    BY <1>6 DEF StartSched, StartTick
  <2>2. /\ pc' \in [Users -> Calls \cup {"none", "off", "select", "fetch", "exited"}]
        /\ conn' \in [Users -> {"none", "wanted", "held"}]
        /\ pc'["sched"] = "insert" /\ pc'["worker"] = pc["worker"]
    BY <1>3, <2>1, GoroutineMoves DEF Users, Goroutines
  <2>3. covered' \in 0..NPairs /\ covered' < NPairs
    BY <2>1, SizesAssumption
  <2>4. beat' \in BOOLEAN /\ booting' \in BOOLEAN
    BY <2>1
  <2>5. TypeOK'
    BY <1>1, <1>6, <2>1, <2>2, <2>3, <2>4
       DEF ServerInv, TypeOK, workerVars
  <2>6. ShutdownOrder' /\ Phases'
    BY <1>1, <1>2, <1>6, <2>1, <2>2 DEF ServerInv, ShutdownOrder, Phases
  <2>7. Loops'
    BY <1>1, <2>2, <2>3 DEF ServerInv, Loops, Goroutines, workerVars
  <2> QED
    BY <2>5, <2>6, <2>7 DEF ServerInv
<1> QED
  BY <1>1, <1>4, <1>5, <1>6
     DEF Start, LoadConfig, Ping, Probe, StartStep, StartCancelled, StartHttp

(* The steps of run() after it: cancelled grows stage by stage, and each   *)
(* stage has waited for its users or recorded its timeout.                 *)
LEMMA ShutdownInv ==
    ASSUME ServerInv, Shutdown
    PROVE  ServerInv'
<1>1. UNCHANGED <<root, pc, conn, schedVars, workerVars>>
  BY DEF Shutdown
<1>2. Drained' = Drained
  BY <1>1 DEF Drained
<1>3. CASE Wait
  <2>1. TypeOK'
    BY <1>1, <1>3
       DEF Wait, ServerInv, TypeOK, schedVars, workerVars
  <2>2. ShutdownOrder' /\ Phases' /\ Loops'
    BY <1>1, <1>2, <1>3
       DEF Wait, ServerInv, ShutdownOrder, Phases, Loops, schedVars, workerVars
  <2> QED
    BY <2>1, <2>2 DEF ServerInv
<1>4. CASE GracefulShutdown
  <2>1. /\ main \in {"http", "sched", "worker"} /\ main' \in {"sched", "worker", "close"}
        /\ UNCHANGED <<exit, http, pool>>
        /\ cancelled \subseteq cancelled' /\ cancelled' \subseteq Goroutines
        /\ timedOut \subseteq timedOut' /\ timedOut' \subseteq {"http", "sched", "worker"}
    BY <1>4 DEF GracefulShutdown, Stage, ServerInv, TypeOK, Goroutines
  <2>2. TypeOK' /\ Loops'
    BY <1>1, <2>1 DEF ServerInv, TypeOK, Loops, schedVars, workerVars
  <2>3. pool \notin {"closing", "closed"}
    BY <2>1 DEF ServerInv, Phases
  <2>4. ASSUME Stage("http", Drained, "sched", {"sched"})
       PROVE  ShutdownOrder' /\ Phases'
    <3>1. /\ main = "http" /\ main' = "sched" /\ cancelled' = {"sched"}
          /\ Drained \/ "http" \in timedOut'
      BY <2>4 DEF Stage, ServerInv, Phases
    <3>2. http = "closed"
      BY <3>1 DEF ServerInv, Phases
    <3> QED
      BY <1>1, <1>2, <2>1, <2>3, <3>1, <3>2 DEF ServerInv, ShutdownOrder, Phases
  <2>5. ASSUME Stage("sched", pc["sched"] = "exited", "worker", {"worker"})
       PROVE  ShutdownOrder' /\ Phases'
    <3>1. /\ main = "sched" /\ main' = "worker" /\ cancelled' = cancelled \cup {"worker"}
          /\ pc["sched"] = "exited" \/ "sched" \in timedOut'
      BY <2>5 DEF Stage
    <3>2. http = "closed"
      BY <3>1 DEF ServerInv, Phases
    <3> QED
      BY <1>1, <1>2, <2>1, <2>3, <3>1, <3>2 DEF ServerInv, ShutdownOrder, Phases
  <2>6. ASSUME Stage("worker", pc["worker"] = "exited", "close", {})
       PROVE  ShutdownOrder' /\ Phases'
    BY <1>1, <1>2, <2>1, <2>3, <2>6 DEF Stage, ServerInv, ShutdownOrder, Phases, Goroutines
  <2> QED
    BY <1>4, <2>2, <2>4, <2>5, <2>6 DEF GracefulShutdown, ServerInv
<1>5. CASE ClosePool
  <2>1. TypeOK'
    BY <1>1, <1>5
       DEF ClosePool, ServerInv, TypeOK, schedVars, workerVars
  <2>2. ShutdownOrder' /\ Phases' /\ Loops'
    BY <1>1, <1>2, <1>5
       DEF ClosePool, ServerInv, ShutdownOrder, Phases, Loops, schedVars, workerVars
  <2> QED
    BY <2>1, <2>2 DEF ServerInv
<1> QED
  BY <1>3, <1>4, <1>5 DEF Shutdown

(* Every step keeps the invariant. *)
LEMMA NextInv == ServerInv /\ [Next]_serverVars => ServerInv'
<1> SUFFICES ASSUME ServerInv, [Next]_serverVars PROVE ServerInv'
  OBVIOUS
<1>1. CASE \E r \in Requests : Request(r) \/ HandlerStep(r) \/ Disconnect(r)
  BY <1>1, HandlerInv
<1>2. CASE \E u \in Users : Acquire(u)
  BY <1>2, AcquireInv
<1>3. CASE SchedTick \/ SchedStep
  BY <1>3, SchedTickInv, SchedStepInv
<1>4. CASE WorkerTick \/ WorkerStep \/ Fetched
  BY <1>4, WorkerInv
<1>5. CASE \E u \in Goroutines : Return(u) \/ Panic(u)
  BY <1>5, ExitInv
<1>6. CASE ListenFails \/ Signal
  BY <1>6, OutsideInv
<1>7. CASE Start \/ Shutdown
  BY <1>7, StartInv, ShutdownInv
<1>8. CASE UNCHANGED serverVars
  BY <1>8 DEF serverVars, ServerInv, TypeOK, ShutdownOrder, Drained,
     Phases, Loops
<1> QED
  BY <1>1, <1>2, <1>3, <1>4, <1>5, <1>6, <1>7, <1>8 DEF Next, Alive, Exited

(* The invariant holds in every behaviour, fair or not. *)
THEOREM ServerInvariant == Init /\ [][Next]_serverVars => []ServerInv
BY InitInv, NextInv, PTL

(* Types of the process's state; covered and left stay within the tick and *)
(* the batch.                                                              *)
THEOREM ServerTypeCorrect == Spec => []TypeOK
<1>1. ServerInv => TypeOK
  BY DEF ServerInv
<1> QED
  BY <1>1, ServerInvariant, PTL DEF Spec

(* gracefulShutdown and the deferred pool.Close keep the order HTTP,       *)
(* scheduler, worker, pool for any number of requests in flight; only what *)
(* ran into the timeout of its own stage is left behind.                   *)
THEOREM ShutdownIsOrdered == Spec => []ShutdownOrder
<1>1. ServerInv => ShutdownOrder
  BY DEF ServerInv
<1> QED
  BY <1>1, ServerInvariant, PTL DEF Spec

(* While run() serves and no shutdown is under way, worker and scheduler   *)
(* are alive: nothing is cancelled before the shutdown, and a goroutine    *)
(* that ends uncancelled calls stop().                                     *)
THEOREM ServiceIsWhole == Spec => []NoHalfDeadService
<1>1. ServerInv => NoHalfDeadService
  BY DEF ServerInv, Phases, Loops, NoHalfDeadService
<1> QED
  BY <1>1, ServerInvariant, PTL DEF Spec
=============================================================================
