---------------------------- MODULE JobLifecycle ----------------------------
(***************************************************************************)
(* What the job queue promises its callers, with no table, clock or lease: *)
(* every job is accepted under one coalescing key, is worked on any number *)
(* of times, and ends at most once, delivering a quote or being abandoned. *)
(* This is the interface queue.JobQueue of internal/queue/queue.go; the    *)
(* Postgres table of module JobQueue is shown to implement it.             *)
(***************************************************************************)
CONSTANTS JobIds,   \* identifiers the producers generate
          Keys,     \* coalescing keys, one per pair and time bucket
          Results,  \* quotes a job can deliver
          None      \* "no key yet", "no result yet"

VARIABLES state,    \* state[id]: where job id is in its life
          key,      \* key[id]: the coalescing key id was accepted under
          result    \* result[id]: the quote id delivered

lifecycle == <<state, key, result>>

Known == {id \in JobIds : state[id] # "absent"}

Init ==
    /\ state = [id \in JobIds |-> "absent"]
    /\ key = [id \in JobIds |-> None]
    /\ result = [id \in JobIds |-> None]

(* A producer's job is accepted: no known job has its key. *)
Accept(id, k) ==
    /\ state[id] = "absent"
    /\ \A other \in Known : key[other] # k
    /\ state' = [state EXCEPT ![id] = "pending"]
    /\ key' = [key EXCEPT ![id] = k]
    /\ UNCHANGED result

(* All of ids go from one state to another in one step. *)
Move(ids, from, to) ==
    /\ \A id \in ids : state[id] = from
    /\ state' = [id \in JobIds |-> IF id \in ids THEN to ELSE state[id]]
    /\ UNCHANGED <<key, result>>

Start(ids) == Move(ids, "pending", "running")

GiveBack(ids) == Move(ids, "running", "pending")

Abandon(id) == Move({id}, "running", "failed")

Deliver(id, r) ==
    /\ state[id] = "running"
    /\ state' = [state EXCEPT ![id] = "done"]
    /\ result' = [result EXCEPT ![id] = r]
    /\ UNCHANGED key

Next ==
    \/ \E id \in JobIds, k \in Keys : Accept(id, k)
    \/ \E ids \in SUBSET JobIds : Start(ids) \/ GiveBack(ids)
    \/ \E id \in JobIds : Abandon(id)
    \/ \E id \in JobIds, r \in Results : Deliver(id, r)

Spec == Init /\ [][Next]_lifecycle
=============================================================================
