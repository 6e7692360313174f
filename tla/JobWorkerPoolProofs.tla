------------------------- MODULE JobWorkerPoolProofs --------------------------
(***************************************************************************)
(* The worker pool for any number of lanes, requests and sessions: its     *)
(* types, the inductive invariant Inv every other proof rests on, and from *)
(* it that no wake-up is lost, no queued request is stranded, and every    *)
(* request has one place.                                                  *)
(***************************************************************************)
EXTENDS JobWorkerPool, TLAPS

USE SMTT(20), ZenonT(20)

LEMMA JobCountRaised ==
  ASSUME NEW f \in [Job -> Nat], NEW j \in Job, NEW n \in Nat
  PROVE  [f EXCEPT ![j] = @ + n] \in [Job -> Nat]
OBVIOUS

LEMMA OtherwiseLess == ASSUME NEW a \in Int, NEW b \in Int, ~(a >= b) PROVE a < b
OBVIOUS

LEMMA RestLeft == ASSUME NEW a \in Nat, NEW b \in Nat, a < b PROVE b - a \in Nat
OBVIOUS

(* The three parts of TypeOK, proved one at a time. *)
CoordinatorType ==
    /\ queue \in SUBSET Job
    /\ watermark \in [Session -> Nat \cup {Unset}]
    /\ phase \in {"rest", "cancel", "handoff", "poll", "dispatch", "scan", "stop", "stopped"}
    /\ k \in 0 .. NumLanes
    /\ target \in Session \cup {Unset}
    /\ repump \in BOOLEAN
    /\ dispatch_cursor \in Lane
    /\ ready_cursor \in Lane
    /\ ready_index \in Lane \cup {NoLane}
    /\ now \in Nat

AssignmentType ==
    /\ state \in [Lane -> LaneState]
    /\ request \in [Lane -> Job \cup {NoJob}]
    /\ tag \in [Lane -> Job \cup {NoJob}]
    /\ drain_requested \in [Lane -> BOOLEAN]
    /\ quarantined \in [Lane -> BOOLEAN]
    /\ consecutive_failures \in [Lane -> Nat]
    /\ migrate_requested \in [Lane -> BOOLEAN]
    /\ stop_requested \in [Lane -> BOOLEAN]

ExecutionType ==
    /\ cancel_generation \in [Lane -> Nat]
    /\ remaining_work_units \in [Lane -> Nat]
    /\ migration_storage \in [Lane -> [job : Job \cup {NoJob}, completed : Nat]]
    /\ migration_source \in [Lane -> Lane \cup {NoLane}]
    /\ resume_bytes \in [Lane -> BOOLEAN]
    /\ result \in [Lane -> ResultCode \cup {"None"}]
    /\ execution_failed \in [Lane -> BOOLEAN]
    /\ events_published \in [Lane -> BOOLEAN]
    /\ pc \in [Lane -> {"loop", "load", "asleep", "run", "publish", "exited"}]
    /\ completed \in [Lane -> Nat]

HistoryType ==
    /\ outcome \in [Job -> {"new", "accepted"} \cup RejectCode \cup ResultCode]
    /\ event \in [Job -> {"None", "Admitted", "Dispatched", "Preempted"}
                             \cup RejectCode \cup ResultCode]
    /\ executed \in [Job -> Nat]
    /\ handoffs \in [Job -> Nat]

Types == CoordinatorType /\ AssignmentType /\ ExecutionType /\ HistoryType

(* The fields of a lane that WorkLeft and LaneStates speak of. *)
CoreType ==
    /\ state \in [Lane -> LaneState]
    /\ request \in [Lane -> Job \cup {NoJob}]
    /\ tag \in [Lane -> Job \cup {NoJob}]
    /\ migration_storage \in [Lane -> [job : Job \cup {NoJob}, completed : Nat]]
    /\ result \in [Lane -> ResultCode \cup {"None"}]
    /\ pc \in [Lane -> {"loop", "load", "asleep", "run", "publish", "exited"}]
    /\ completed \in [Lane -> Nat]

(* A thread inside run_slot's inner loop has work left to do, and a capsule  *)
(* never says that none is: remaining_work_units cannot wrap below zero.     *)
WorkLeft ==
    \A l \in Lane :
        /\ pc[l] = "run" => request[l] \in Job /\ completed[l] < Request[request[l]].total
        /\ pc[l] = "publish" => result[l] \in ResultCode
        /\ migration_storage[l].job # NoJob =>
              migration_storage[l].completed < Request[migration_storage[l].job].total

(* Until the pool is stopped, a lane's state says where its thread is, a lane *)
(* that holds a job holds one it is tagged with, a finished lane has a result *)
(* and the view handed out by ready_result is of such a lane.                 *)
LaneStates ==
    ~Stopping =>
        /\ \A l \in Lane :
              /\ pc[l] = "run" => state[l] = "Running"
              /\ pc[l] = "publish" => state[l] \in {"Requested", "Running"}
              /\ state[l] = "Ready" => result[l] \in ResultCode
              /\ Held(l) => request[l] \in Job /\ tag[l] = request[l]
        /\ ready_index # NoLane => state[ready_index] = "Ready"

Inv == TypeOK /\ WorkLeft /\ LaneStates

---------------------------------------------------------------------------
(* Facts about the constants and the helpers. *)

(* The round-robin successor of a lane is a lane. *)
LEMMA NextLaneType == \A l \in Lane : NextLane(l) \in Lane
  BY PoolAssumption DEF NextLane, Lane

(* The markers for "none" are not values of what they stand in for. *)
LEMMA Markers == NoJob \notin Job /\ NoLane \notin Lane /\ Unset \notin Nat
  BY PoolAssumption, RequestAssumption DEF Lane, NoJob, NoLane, Unset

(* A request asks for some work. *)
LEMMA TotalType == \A j \in Job : Request[j].total \in Nat /\ 0 < Request[j].total
  BY RequestAssumption

(* The step past a lane is a value of the loop index. *)
LEMMA IndexType == \A l \in Lane : l + 1 \in 0 .. NumLanes
  BY PoolAssumption DEF Lane

(* TypeOK is the conjunction of its parts. *)
LEMMA TypeParts == TypeOK <=> Types
  BY DEF TypeOK, Types, CoordinatorType, AssignmentType, ExecutionType, HistoryType

(* The same after a step. *)
LEMMA TypePartsPrime == TypeOK' <=> Types'
  BY DEF TypeOK, Types, CoordinatorType, AssignmentType, ExecutionType, HistoryType

(* What the invariant says, part by part: a proof step cites the parts it    *)
(* needs and leaves the others folded.                                       *)
LEMMA InvParts ==
  Inv => CoordinatorType /\ AssignmentType /\ ExecutionType /\ HistoryType /\ CoreType
         /\ WorkLeft /\ LaneStates
<1>1. Types => CoreType
  BY DEF Types, AssignmentType, ExecutionType, CoreType
<1> QED
  BY <1>1, TypeParts DEF Inv, Types

(* Notified wakes threads and moves none otherwise. *)
LEMMA NotifiedType ==
  ASSUME Inv, NEW S
  PROVE  /\ Notified(S) \in [Lane -> {"loop", "load", "asleep", "run", "publish", "exited"}]
         /\ \A l \in Lane : Notified(S)[l] = pc[l] \/ (pc[l] = "asleep" /\ Notified(S)[l] = "loop")
         /\ \A l \in S : l \in Lane => Notified(S)[l] # "asleep"
  BY InvParts DEF CoreType, Notified

---------------------------------------------------------------------------
(* create() establishes the invariant. *)
LEMMA InvInit == Init => Inv
<1> SUFFICES ASSUME Init PROVE Inv
  OBVIOUS
<1>1. CoordinatorType
  <2>1. 0 \in Lane /\ 0 \in 0 .. NumLanes
    BY PoolAssumption DEF Lane
  <2> QED
    BY <2>1, Zenon DEF Init, CoordinatorType
<1>2. AssignmentType
  BY DEF Init, AssignmentType, LaneState
<1>3. ExecutionType
  <2>1. migration_storage \in [Lane -> [job : Job \cup {NoJob}, completed : Nat]]
    BY DEF Init, NoCapsule
  <2> QED
    BY <2>1 DEF Init, ExecutionType
<1>4. HistoryType
  BY DEF Init, HistoryType
<1>5. WorkLeft
  BY DEF Init, WorkLeft, NoCapsule
<1>6. LaneStates
  BY DEF Init, LaneStates, Held
<1> QED
  BY <1>1, <1>2, <1>3, <1>4, <1>5, <1>6, TypeParts DEF Types, Inv

---------------------------------------------------------------------------
(* The coordinator's steps that leave the lanes alone. *)

(* What holds of the lanes still holds when no lane changes. *)
LEMMA LanesUntouched ==
  ASSUME Inv, UNCHANGED lanes, Stopping => Stopping', ready_index' \in {ready_index, NoLane}
  PROVE  AssignmentType' /\ ExecutionType' /\ WorkLeft' /\ LaneStates'
<1>1. AssignmentType'
  BY InvParts DEF AssignmentType, lanes, assignment, supervision, signals
<1>2. ExecutionType'
  BY InvParts DEF ExecutionType, lanes, assignment, signals, capsules, execution
<1>3. WorkLeft'
  BY InvParts DEF WorkLeft, lanes, assignment, capsules, execution
<1>4. LaneStates'
  BY InvParts DEF LaneStates, Held, lanes, assignment, execution
<1> QED
  BY <1>1, <1>2, <1>3, <1>4

(* submit() rejects with a code of its own. *)
LEMMA VerdictType ==
  ASSUME NEW j, NEW t PROVE SubmitVerdict(j, t) \in RejectCode \cup {"Accepted"}
  BY DEF SubmitVerdict, RejectCode

(* A rejected submit() keeps the invariant. *)
LEMMA InvSubmitRejected ==
  ASSUME Inv, NEW j \in Job, NEW t, SubmitRejected(j, t)
  PROVE  Inv'
<1>1. CoordinatorType'
  BY InvParts DEF CoordinatorType, SubmitRejected, coordinator, cursors
<1>2. HistoryType'
  BY VerdictType, InvParts DEF HistoryType, SubmitRejected
<1>3. UNCHANGED lanes /\ (Stopping => Stopping') /\ ready_index' = ready_index
  BY DEF SubmitRejected, coordinator, cursors, Stopping
<1> QED
  BY <1>1, <1>2, <1>3, LanesUntouched, TypePartsPrime DEF Types, Inv

(* So does an accepted one, whether or not it raises the watermark. *)
LEMMA InvSubmitAccepted ==
  ASSUME Inv, NEW j \in Job, NEW t, SubmitAccepted(j, t)
  PROVE  Inv'
<1>1. CoordinatorType'
  <2>1. Request[j].session \in Session /\ Request[j].generation \in Nat
    BY RequestAssumption
  <2>2. watermark' \in [Session -> Nat \cup {Unset}]
    BY <2>1, InvParts DEF CoordinatorType, SubmitAccepted
  <2>3. k' \in 0 .. NumLanes
    BY PoolAssumption DEF SubmitAccepted, EnterPump
  <2>4. phase' \in {"cancel", "handoff", "dispatch"} /\ target' \in Session \cup {Unset}
    BY <2>1 DEF SubmitAccepted, EnterPump, PumpStart
  <2>5. repump' \in BOOLEAN
    BY DEF SubmitAccepted
  <2> QED
    BY <2>2, <2>3, <2>4, <2>5, InvParts DEF CoordinatorType, SubmitAccepted, cursors
<1>2. HistoryType'
  BY InvParts DEF HistoryType, SubmitAccepted
<1>3. UNCHANGED lanes /\ (Stopping => Stopping') /\ ready_index' = ready_index
  BY DEF SubmitAccepted, cursors, Stopping
<1> QED
  BY <1>1, <1>2, <1>3, LanesUntouched, TypePartsPrime DEF Types, Inv

(* So does the start of cancel_before. *)
LEMMA InvCancelBefore ==
  ASSUME Inv, NEW s \in Session, NEW g \in CancelGenerations, cancel_before(s, g)
  PROVE  Inv'
<1>1. CoordinatorType'
  <2>1. watermark' \in [Session -> Nat \cup {Unset}]
    BY PoolAssumption, InvParts DEF CoordinatorType, cancel_before
  <2>2. k' \in 0 .. NumLanes
    BY PoolAssumption DEF cancel_before
  <2> QED
    BY <2>1, <2>2, InvParts DEF CoordinatorType, cancel_before, cursors
<1>2. HistoryType'
  BY InvParts DEF HistoryType, cancel_before, history
<1>3. UNCHANGED lanes /\ (Stopping => Stopping') /\ ready_index' = ready_index
  BY DEF cancel_before, cursors, Stopping
<1> QED
  BY <1>1, <1>2, <1>3, LanesUntouched, TypePartsPrime DEF Types, Inv

(* The steps that only move the coordinator from one loop to the next. *)
LEMMA InvMoves ==
  ASSUME Inv,
         \/ \E s \in Session : release_session(s)
         \/ CancelEnd \/ HandoffEnd \/ DispatchEnd \/ ready_result \/ ScanKeeps
         \/ stop \/ StopJoin \/ Tick
  PROVE  Inv'
<1>0. 0 \in 0 .. NumLanes
  BY PoolAssumption
<1>1. ASSUME NEW s \in Session, release_session(s)
      PROVE  CoordinatorType' /\ UNCHANGED <<lanes, history, phase, ready_index>>
  BY <1>1, InvParts DEF CoordinatorType, release_session, coordinator, cursors
<1>2. ASSUME CancelEnd
      PROVE  CoordinatorType' /\ UNCHANGED <<lanes, history, ready_index>> /\ ~Stopping
  BY <1>0, <1>2, InvParts DEF CoordinatorType, CancelEnd, EnterPump, PumpStart, cursors, Stopping
<1>3. ASSUME HandoffEnd
      PROVE  CoordinatorType' /\ UNCHANGED <<lanes, history, ready_index>> /\ ~Stopping
  BY <1>0, <1>3, InvParts DEF CoordinatorType, HandoffEnd, cursors, Stopping
<1>4. ASSUME DispatchEnd
      PROVE  CoordinatorType' /\ UNCHANGED <<lanes, history, ready_index>> /\ ~Stopping
  BY <1>0, <1>4, InvParts, Zenon DEF CoordinatorType, DispatchEnd, PumpStart, cursors, Stopping
<1>5. ASSUME ready_result
      PROVE  CoordinatorType' /\ UNCHANGED <<lanes, history, ready_index>> /\ ~Stopping
  BY <1>0, <1>5, InvParts DEF CoordinatorType, ready_result, cursors, Stopping
<1>6. ASSUME ScanKeeps
      PROVE  CoordinatorType' /\ UNCHANGED <<lanes, history, ready_index>> /\ ~Stopping
  BY <1>6, InvParts DEF CoordinatorType, ScanKeeps, cursors, Stopping
<1>7. ASSUME stop
      PROVE  CoordinatorType' /\ UNCHANGED <<lanes, history, ready_index>> /\ ~Stopping
  BY <1>0, <1>7, InvParts DEF CoordinatorType, stop, cursors, Stopping
<1>8. ASSUME StopJoin
      PROVE  CoordinatorType' /\ UNCHANGED <<lanes, history>> /\ ready_index' = NoLane /\ Stopping'
  BY <1>8, InvParts DEF CoordinatorType, StopJoin, Stopping
<1>9. ASSUME Tick
      PROVE  CoordinatorType' /\ UNCHANGED <<lanes, history, phase, ready_index>>
  BY <1>9, InvParts DEF CoordinatorType, Tick, coordinator, cursors
<1>10. /\ CoordinatorType' /\ UNCHANGED <<lanes, history>>
       /\ Stopping => Stopping'
       /\ ready_index' \in {ready_index, NoLane}
  BY <1>1, <1>2, <1>3, <1>4, <1>5, <1>6, <1>7, <1>8, <1>9 DEF Stopping
<1>11. HistoryType'
  BY <1>10, InvParts DEF HistoryType, history
<1> QED
  BY <1>10, <1>11, LanesUntouched, TypePartsPrime DEF Types, Inv

---------------------------------------------------------------------------
(* The coordinator's steps that change lanes. *)

(* Threads are at most woken. *)
Woken ==
    /\ pc' \in [Lane -> {"loop", "load", "asleep", "run", "publish", "exited"}]
    /\ \A m \in Lane : pc'[m] \in {"run", "publish"} => pc'[m] = pc[m]

(* A notify does no more than that. *)
LEMMA NotifyWakes ==
  ASSUME Inv, NEW S, pc' = pc \/ pc' = Notified(S)
  PROVE  Woken
<1>1. CASE pc' = pc
  BY <1>1, InvParts DEF CoreType, Woken
<1>2. CASE pc' = Notified(S)
  BY <1>2, NotifiedType DEF Woken
<1> QED
  BY <1>1, <1>2

(* What the coordinator may do to lane m: a run in progress is left alone,   *)
(* and a lane that holds a job holds one it is tagged with.                  *)
LaneMoved(m) ==
    /\ pc[m] \in {"run", "publish"} =>
          /\ request'[m] = request[m] /\ completed'[m] = completed[m]
          /\ state'[m] = state[m] /\ result'[m] = result[m]
    /\ migration_storage'[m].job # NoJob =>
          migration_storage'[m].completed < Request[migration_storage'[m].job].total
    /\ state'[m] = "Ready" => result'[m] \in ResultCode
    /\ Held(m)' => request'[m] \in Job /\ tag'[m] = request'[m]

(* Lanes so treated keep the invariant. *)
LEMMA MovedLanes ==
  ASSUME Inv, ~Stopping, Woken, \A m \in Lane : LaneMoved(m),
         \/ ready_index' = NoLane
         \/ /\ ready_index' = ready_index
            /\ \A m \in Lane : state[m] = "Ready" => state'[m] = "Ready"
  PROVE  WorkLeft' /\ LaneStates'
<1>1. WorkLeft /\ LaneStates
  BY InvParts
<1>2. ASSUME NEW m \in Lane, pc'[m] = "run"
      PROVE  /\ request'[m] \in Job /\ completed'[m] < Request[request'[m]].total
             /\ state'[m] = "Running"
  <2>1. pc[m] = "run" /\ LaneMoved(m)
    BY <1>2, Zenon DEF Woken
  <2>2. request'[m] = request[m] /\ completed'[m] = completed[m] /\ state'[m] = state[m]
    BY <2>1 DEF LaneMoved
  <2> QED
    BY <1>1, <2>1, <2>2 DEF WorkLeft, LaneStates
<1>3. ASSUME NEW m \in Lane, pc'[m] = "publish"
      PROVE  result'[m] \in ResultCode /\ state'[m] \in {"Requested", "Running"}
  <2>1. pc[m] = "publish" /\ LaneMoved(m)
    BY <1>3, Zenon DEF Woken
  <2>2. result'[m] = result[m] /\ state'[m] = state[m]
    BY <2>1 DEF LaneMoved
  <2> QED
    BY <1>1, <2>1, <2>2 DEF WorkLeft, LaneStates
<1>4. WorkLeft'
  BY <1>2, <1>3 DEF WorkLeft, LaneMoved
<1>5. ready_index' # NoLane => state'[ready_index'] = "Ready"
  <2>1. ready_index # NoLane => ready_index \in Lane /\ state[ready_index] = "Ready"
    BY <1>1, InvParts DEF LaneStates, CoordinatorType
  <2> QED
    BY <2>1
<1>6. LaneStates'
  BY <1>2, <1>3, <1>5, Zenon DEF LaneStates, LaneMoved
<1> QED
  BY <1>4, <1>6

(* What is known of a lane before the coordinator touches it. *)
LEMMA LaneFacts ==
  ASSUME Inv, ~Stopping, NEW m \in Lane
  PROVE  /\ pc[m] = "run" => state[m] = "Running"
         /\ pc[m] = "publish" => state[m] \in {"Requested", "Running"}
         /\ state[m] = "Ready" => result[m] \in ResultCode
         /\ Held(m) => request[m] \in Job /\ tag[m] = request[m]
         /\ migration_storage[m].job # NoJob =>
                migration_storage[m].completed < Request[migration_storage[m].job].total
<1>1. WorkLeft /\ LaneStates
  BY InvParts
<1> QED
  BY <1>1 DEF WorkLeft, LaneStates

(* request_worker_drain: an idle lane is drained at once. *)
LEMMA InvDrain ==
  ASSUME Inv, NEW l \in Lane, request_worker_drain(l)
  PROVE  Inv'
<1>1. CoordinatorType' /\ HistoryType'
  <2>1. 0 \in 0 .. NumLanes
    BY PoolAssumption
  <2>2. k' \in 0 .. NumLanes /\ phase' \in {"rest", "handoff", "dispatch"}
    BY <2>1, InvParts, Zenon DEF CoordinatorType, request_worker_drain, EnterPump, PumpStart
  <2> QED
    BY <2>2, InvParts DEF CoordinatorType, HistoryType, request_worker_drain, cursors, history
<1>2. Woken
  <2>1. pc' = pc \/ pc' = Notified({l})
    BY Zenon DEF request_worker_drain
  <2> QED
    BY <2>1, NotifyWakes, Zenon
<1>3. AssignmentType'
  <2>1. migrate_requested' \in [Lane -> BOOLEAN]
    BY InvParts, Zenon DEF AssignmentType, request_worker_drain
  <2> QED
    BY <2>1, InvParts DEF AssignmentType, request_worker_drain, LaneState
<1>4. ExecutionType'
  BY <1>2, InvParts DEF Woken, ExecutionType, request_worker_drain, capsules, execution
<1>5. /\ ~Stopping
      /\ UNCHANGED <<ready_index, request, result, completed, migration_storage>>
      /\ \/ UNCHANGED <<state, tag>>
         \/ /\ state[l] = "Idle" /\ state' = [state EXCEPT ![l] = "Drained"]
            /\ tag' = [tag EXCEPT ![l] = NoJob]
  BY Zenon DEF request_worker_drain, Stopping, cursors, execution, capsules
<1>6. ASSUME NEW m \in Lane
      PROVE  LaneMoved(m) /\ (state[m] = "Ready" => state'[m] = "Ready")
  <2>1. \/ state'[m] = state[m] /\ tag'[m] = tag[m]
        \/ state[m] = "Idle" /\ state'[m] = "Drained"
    BY <1>5, InvParts DEF CoreType
  <2> QED
    BY <1>5, <2>1, LaneFacts DEF LaneMoved, Held
<1> QED
  BY <1>1, <1>2, <1>3, <1>4, <1>5, <1>6, MovedLanes, TypePartsPrime, Zenon DEF Types, Inv

(* resume_worker and recover_worker put a drained lane back in service. *)
LEMMA InvReturn ==
  ASSUME Inv, NEW l \in Lane, resume_worker(l) \/ recover_worker(l)
  PROVE  Inv'
<1>0. /\ ReturnToService(l) /\ phase = "rest" /\ state[l] = "Drained"
      /\ quarantined' \in [Lane -> BOOLEAN] /\ consecutive_failures' \in [Lane -> Nat]
  <2>1. CASE resume_worker(l)
    BY <2>1, InvParts DEF AssignmentType, resume_worker
  <2>2. CASE recover_worker(l)
    BY <2>2, InvParts DEF AssignmentType, recover_worker
  <2> QED
    BY <2>1, <2>2
<1>1. CoordinatorType' /\ HistoryType'
  <2>1. k' \in 0 .. NumLanes
    BY <1>0, PoolAssumption DEF ReturnToService, EnterPump
  <2> QED
    BY <1>0, <2>1, InvParts DEF CoordinatorType, HistoryType, ReturnToService,
                                EnterPump, PumpStart, cursors, history
<1>2. AssignmentType'
  BY <1>0, InvParts DEF AssignmentType, ReturnToService, assignment, LaneState
<1>3. Woken
  <2>1. pc' = Notified({l})
    BY <1>0, Zenon DEF ReturnToService
  <2> QED
    BY <2>1, NotifyWakes
<1>4. ExecutionType'
  BY <1>0, <1>3, InvParts, Zenon DEF Woken, ExecutionType, ReturnToService, assignment, capsules,
                              execution
<1>5. /\ ~Stopping
      /\ UNCHANGED <<ready_index, request, tag, result, completed, migration_storage>>
      /\ state' = [state EXCEPT ![l] = "Idle"]
  BY <1>0 DEF Stopping, ReturnToService, assignment, execution, cursors, capsules
<1>6. ASSUME NEW m \in Lane
      PROVE  LaneMoved(m) /\ (state[m] = "Ready" => state'[m] = "Ready")
  <2>1. state'[m] = state[m] \/ (state[m] = "Drained" /\ state'[m] = "Idle")
    BY <1>0, <1>5, InvParts DEF CoreType
  <2> QED
    BY <1>5, <2>1, LaneFacts, Zenon DEF LaneMoved, Held
<1> QED
  BY <1>1, <1>2, <1>3, <1>4, <1>5, <1>6, MovedLanes, TypePartsPrime DEF Types, Inv

(* The generation cancel_before passes on is one. *)
LEMMA CancelTarget ==
  ASSUME Inv, NEW l \in Lane, CancelHits(l)
  PROVE  target \in Session /\ watermark[target] \in Nat
<1>1. SessionId(l) \in Nat /\ Generation(l) \in Nat
  BY InvParts, RequestAssumption, Zenon DEF CoreType, SessionId, Generation
<1>2. target = SessionId(l) /\ Generation(l) < watermark[target]
  BY DEF CancelHits
<1>3. target \in Session
  <2>1. target # Unset
    BY <1>1, <1>2 DEF Unset
  <2> QED
    BY <2>1, InvParts DEF CoordinatorType
<1>4. watermark[target] \in Nat \cup {Unset}
  BY <1>3, InvParts DEF CoordinatorType
<1> QED
  BY <1>1, <1>2, <1>3, <1>4 DEF Unset

(* One lane's turn in cancel_before. *)
LEMMA InvCancelLane ==
  ASSUME Inv, NEW l \in Lane, CancelLane(l)
  PROVE  Inv'
<1>1. CoordinatorType'
  BY IndexType, InvParts DEF CoordinatorType, CancelLane, cursors
<1>2. HistoryType'
  BY InvParts DEF HistoryType, CancelLane
<1>3. AssignmentType'
  BY InvParts DEF AssignmentType, CancelLane, assignment, supervision
<1>4. cancel_generation' \in [Lane -> Nat]
  BY CancelTarget, InvParts DEF ExecutionType, CancelLane
<1>5. ExecutionType'
  BY <1>4, InvParts, Zenon DEF ExecutionType, CancelLane, assignment, capsules, ResultCode
<1>6. WorkLeft'
  BY InvParts, Zenon DEF CoreType, WorkLeft, CancelLane, assignment, capsules, ResultCode
<1>7. LaneStates'
  BY InvParts, Zenon DEF CoreType, LaneStates, Held, Stopping, CancelLane, assignment, cursors, ResultCode
<1> QED
  BY <1>1, <1>2, <1>3, <1>5, <1>6, <1>7, TypePartsPrime DEF Types, Inv

(* A capsule nobody can take goes back to its own lane. *)
LEMMA InvHandoffBack ==
  ASSUME Inv, NEW l \in Lane, HandoffBack(l)
  PROVE  Inv'
<1>1. CoordinatorType' /\ HistoryType'
  BY IndexType, InvParts DEF CoordinatorType, HistoryType, HandoffBack, HandoffAt, cursors, history
<1>2. AssignmentType'
  BY InvParts DEF AssignmentType, HandoffBack, assignment, supervision, LaneState
<1>3. Woken
  <2>1. pc' = Notified({l})
    BY DEF HandoffBack
  <2> QED
    BY <2>1, NotifyWakes
<1>4. ExecutionType'
  BY <1>3, InvParts, Zenon DEF Woken, ExecutionType, HandoffBack, assignment, execution
<1>5. /\ ~Stopping
      /\ UNCHANGED <<ready_index, request, tag, result, completed, migration_storage>>
      /\ state[l] = "MigrationReady" /\ state' = [state EXCEPT ![l] = "Requested"]
  BY Zenon DEF Stopping, HandoffBack, HandoffAt, HandoffActs, assignment, execution, cursors
<1>6. ASSUME NEW m \in Lane
      PROVE  LaneMoved(m) /\ (state[m] = "Ready" => state'[m] = "Ready")
  <2>1. state'[m] = state[m] \/ (state[m] = "MigrationReady" /\ state'[m] = "Requested")
    BY <1>5, InvParts DEF CoreType
  <2> QED
    BY <1>5, <2>1, LaneFacts DEF LaneMoved, Held
<1> QED
  BY <1>1, <1>2, <1>3, <1>4, <1>5, <1>6, MovedLanes, TypePartsPrime, Zenon DEF Types, Inv

(* A capsule moves to the first idle lane that can take it. *)
LEMMA InvHandoffTo ==
  ASSUME Inv, NEW l \in Lane, NEW d \in Lane, HandoffTo(l, d)
  PROVE  Inv'
<1>1. CoordinatorType'
  BY IndexType, InvParts DEF CoordinatorType, HandoffTo, HandoffAt, cursors
<1>2. AssignmentType'
  BY InvParts DEF AssignmentType, HandoffTo, supervision, LaneState
<1>3. Woken
  <2>1. pc' = Notified({l, d})
    BY Zenon DEF HandoffTo
  <2> QED
    BY <2>1, NotifyWakes
<1>4. ExecutionType'
  <2>1. migration_storage' \in [Lane -> [job : Job \cup {NoJob}, completed : Nat]]
    BY InvParts, Zenon DEF CoreType, HandoffTo, NoCapsule
  <2> QED
    BY <1>3, <2>1, InvParts, Zenon DEF Woken, ExecutionType, HandoffTo
<1>5. /\ l # d /\ state[l] = "MigrationReady" /\ state[d] = "Idle"
      /\ ~Stopping /\ UNCHANGED <<ready_index, result, completed>>
  BY DEF HandoffTo, HandoffAt, HandoffActs, IdleTargets, HandoffTargets, Stopping, cursors
<1>6. /\ pc[l] \notin {"run", "publish"} /\ pc[d] \notin {"run", "publish"}
      /\ request[l] \in Job /\ tag[l] = request[l]
  BY <1>5, LaneFacts, Zenon DEF Held
<1>7. HistoryType'
  <2>1. handoffs' = [handoffs EXCEPT ![request[l]] = @ + 1] /\ UNCHANGED <<outcome, event, executed>>
    BY Zenon DEF HandoffTo
  <2>2. handoffs' \in [Job -> Nat]
    BY <1>6, <2>1, InvParts DEF HistoryType
  <2> QED
    BY <2>1, <2>2, InvParts DEF HistoryType
<1>8. ASSUME NEW m \in Lane
      PROVE  LaneMoved(m) /\ (state[m] = "Ready" => state'[m] = "Ready")
  <2>1. CASE m = l
    <3>1. state'[m] = "Drained" /\ migration_storage'[m] = NoCapsule
      BY <1>5, <2>1, InvParts DEF CoreType, HandoffTo
    <3>2. migration_storage'[m].job = NoJob /\ ~Held(m)'
      BY <3>1 DEF Held, NoCapsule
    <3> QED
      BY <1>5, <1>6, <2>1, <3>1, <3>2, Zenon DEF LaneMoved
  <2>2. CASE m = d
    <3>1. /\ state'[m] = "Requested" /\ migration_storage'[m] = migration_storage[l]
          /\ request'[m] = request[l] /\ tag'[m] = tag[l]
      BY <1>5, <2>2, InvParts, Zenon DEF CoreType, HandoffTo
    <3> QED
      BY <1>5, <1>6, <2>2, <3>1, LaneFacts, Zenon DEF LaneMoved
  <2>3. CASE m # l /\ m # d
    <3>1. /\ state'[m] = state[m] /\ migration_storage'[m] = migration_storage[m]
          /\ request'[m] = request[m] /\ tag'[m] = tag[m]
      BY <2>3, InvParts DEF CoreType, HandoffTo
    <3> QED
      BY <1>5, <3>1, LaneFacts, Zenon DEF LaneMoved, Held
  <2> QED
    BY <2>1, <2>2, <2>3, Zenon
<1> QED
  BY <1>1, <1>2, <1>3, <1>4, <1>5, <1>7, <1>8, MovedLanes, TypePartsPrime, Zenon DEF Types, Inv

(* A queued request goes to an idle lane. *)
LEMMA InvDispatchLane ==
  ASSUME Inv, NEW c \in Lane, NEW l \in Lane, NEW j \in Job, DispatchLane(c, l, j)
  PROVE  Inv'
<1>1. CoordinatorType'
  <2>1. k' \in 0 .. NumLanes /\ dispatch_cursor' \in Lane
    BY IndexType, NextLaneType, Zenon DEF DispatchLane, DispatchAt
  <2> QED
    BY <2>1, InvParts, Zenon DEF CoordinatorType, DispatchLane
<1>2. HistoryType'
  BY InvParts, Zenon DEF HistoryType, DispatchLane
<1>3. AssignmentType'
  BY InvParts DEF AssignmentType, DispatchLane, supervision, LaneState
<1>4. Woken
  <2>1. pc' = pc \/ pc' = Notified({l})
    BY DEF DispatchLane
  <2> QED
    BY <2>1, NotifyWakes
<1>5. /\ state[l] = "Idle" /\ ~Stopping
      /\ UNCHANGED <<ready_index, completed, migration_storage>>
      /\ request' = [request EXCEPT ![l] = j]
      /\ tag' = [tag EXCEPT ![l] = j]
      /\ \/ /\ state' = [state EXCEPT ![l] = "Requested"] /\ result' = result
         \/ /\ state' = [state EXCEPT ![l] = "Ready"]
            /\ \E r \in ResultCode : result' = [result EXCEPT ![l] = r]
  BY Zenon DEF DispatchLane, DispatchAt, DispatchActs, Stopping, ResultCode
<1>6. /\ result' \in [Lane -> ResultCode \cup {"None"}]
      /\ \A m \in Lane \ {l} : result'[m] = result[m]
      /\ state'[l] = "Requested" \/ (state'[l] = "Ready" /\ result'[l] \in ResultCode)
  <2>1. result \in [Lane -> ResultCode \cup {"None"}] /\ state \in [Lane -> LaneState]
    BY InvParts DEF CoreType
  <2>2. CASE state' = [state EXCEPT ![l] = "Requested"] /\ result' = result
    BY <2>1, <2>2
  <2>3. CASE /\ state' = [state EXCEPT ![l] = "Ready"]
             /\ \E r \in ResultCode : result' = [result EXCEPT ![l] = r]
    <3>1. PICK r \in ResultCode : result' = [result EXCEPT ![l] = r]
      BY <2>3, Zenon
    <3> QED
      BY <2>1, <2>3, <3>1
  <2> QED
    BY <1>5, <2>2, <2>3
<1>7. ExecutionType'
  <2>1. remaining_work_units' \in [Lane -> Nat]
    BY RequestAssumption, InvParts, Zenon DEF ExecutionType, DispatchLane
  <2> QED
    BY <1>4, <1>6, <2>1, InvParts, Zenon DEF Woken, ExecutionType, DispatchLane
<1>8. ASSUME NEW m \in Lane
      PROVE  LaneMoved(m) /\ (state[m] = "Ready" => state'[m] = "Ready")
  <2>1. CASE m = l
    <3>1. request'[m] = j /\ tag'[m] = j
      BY <1>5, <2>1, InvParts, Zenon DEF CoreType
    <3> QED
      BY <1>5, <1>6, <2>1, <3>1, LaneFacts, Zenon DEF LaneMoved
  <2>2. CASE m # l
    <3>1. state'[m] = state[m] /\ request'[m] = request[m] /\ tag'[m] = tag[m]
      BY <1>5, <2>2, InvParts, Zenon DEF CoreType
    <3> QED
      BY <1>5, <1>6, <2>2, <3>1, LaneFacts, Zenon DEF LaneMoved, Held
  <2> QED
    BY <2>1, <2>2, Zenon
<1> QED
  BY <1>1, <1>2, <1>3, <1>4, <1>5, <1>7, <1>8, MovedLanes, TypePartsPrime, Zenon DEF Types, Inv

(* ready_result hands out the result of a finished lane. *)
LEMMA InvScanFinds ==
  ASSUME Inv, NEW c \in Lane, NEW l \in Lane, ScanFinds(c, l)
  PROVE  Inv'
<1>1. CoordinatorType'
  BY InvParts, Zenon DEF CoordinatorType, ScanFinds
<1>2. /\ state[l] = "Ready" /\ ~Stopping /\ ready_index' = l
      /\ UNCHANGED <<state, pc, request, tag, migrate_requested, stop_requested,
                     cancel_generation, remaining_work_units, result, completed,
                     migration_storage, migration_source, resume_bytes>>
      /\ execution_failed' = [execution_failed EXCEPT ![l] = FALSE]
      /\ events_published' = [events_published EXCEPT ![l] = TRUE]
  BY Zenon DEF ScanFinds, Stopping, signals, capsules
<1>3. result[l] \in ResultCode
  BY <1>2, InvParts, Zenon DEF LaneStates
<1>4. HistoryType'
  <2>1. event' = event \/ event' = [event EXCEPT ![request[l]] = result[l]]
    BY DEF ScanFinds
  <2> QED
    BY <1>3, <2>1, InvParts, Zenon DEF HistoryType, ScanFinds
<1>5. AssignmentType'
  <2>0. consecutive_failures \in [Lane -> Nat]
    BY InvParts DEF AssignmentType
  <2>1. consecutive_failures' \in [Lane -> Nat]
    <3> DEFINE failures == IF execution_failed[l] THEN consecutive_failures[l] + 1
                                                  ELSE consecutive_failures[l]
    <3>1. consecutive_failures' =
             [consecutive_failures EXCEPT ![l] = IF result[l] = "Complete" THEN 0 ELSE failures]
      BY DEF ScanFinds
    <3>2. failures \in Nat
      BY <2>0
    <3> HIDE DEF failures
    <3> QED
      BY <2>0, <3>1, <3>2, Zenon
  <2>2. quarantined' \in [Lane -> BOOLEAN] /\ drain_requested' \in [Lane -> BOOLEAN]
    BY InvParts, Zenon DEF AssignmentType, ScanFinds
  <2> QED
    BY <1>2, <2>1, <2>2, InvParts DEF AssignmentType
<1>6. ExecutionType'
  BY <1>2, InvParts, Zenon DEF ExecutionType
<1>7. WorkLeft'
  BY <1>2, InvParts, Zenon DEF WorkLeft
<1>8. LaneStates'
  BY <1>2, InvParts, Zenon DEF LaneStates, Held
<1> QED
  BY <1>1, <1>4, <1>5, <1>6, <1>7, <1>8, TypePartsPrime, Zenon DEF Types, Inv

(* release_ready_result frees the lane. *)
LEMMA InvRelease ==
  ASSUME Inv, release_ready_result
  PROVE  Inv'
<1>1. /\ ready_index \in Lane /\ ~Stopping /\ ready_index' = NoLane
      /\ state[ready_index] = "Ready"
      /\ pc' = Notified({ready_index})
      /\ UNCHANGED <<request, result, completed, migration_storage>>
  BY InvParts, Zenon DEF CoordinatorType, LaneStates, release_ready_result, Stopping, execution
<1>2. result[ready_index] \in ResultCode
  BY <1>1, InvParts, Zenon DEF LaneStates
<1>3. CoordinatorType'
  <2>0. 0 \in 0 .. NumLanes
    BY PoolAssumption
  <2>1. k' \in 0 .. NumLanes
    BY <2>0, Zenon DEF release_ready_result, EnterPump
  <2>2. ready_cursor' \in Lane
    BY <1>1, NextLaneType, Zenon DEF release_ready_result
  <2> QED
    BY <2>1, <2>2, InvParts, Zenon DEF CoordinatorType, release_ready_result, EnterPump, PumpStart
<1>4. HistoryType'
  BY <1>2, InvParts, Zenon DEF HistoryType, release_ready_result
<1>5. AssignmentType'
  BY InvParts, Zenon DEF AssignmentType, release_ready_result, supervision, signals, LaneState
<1>6. Woken
  BY <1>1, NotifyWakes
<1>7. ExecutionType'
  BY <1>1, <1>6, InvParts, Zenon DEF Woken, ExecutionType, release_ready_result, signals, execution
<1>8. ASSUME NEW m \in Lane PROVE LaneMoved(m)
  <2>1. \/ state'[m] = state[m] /\ tag'[m] = tag[m]
        \/ state[m] = "Ready" /\ state'[m] \in {"Idle", "Drained"}
    BY <1>1, InvParts DEF CoreType, release_ready_result
  <2> QED
    BY <1>1, <2>1, LaneFacts, Zenon DEF LaneMoved, Held
<1> QED
  BY <1>1, <1>3, <1>4, <1>5, <1>6, <1>7, <1>8, MovedLanes, TypePartsPrime, Zenon DEF Types, Inv

(* The two steps of stop() on a lane. *)
LEMMA InvStopLane ==
  ASSUME Inv, StopLaneFlag \/ StopLaneWake
  PROVE  Inv'
<1>1. /\ CoordinatorType' /\ Stopping'
      /\ k \in Lane
      /\ pc' = pc \/ pc' = Notified({k})
      /\ UNCHANGED <<assignment, supervision, capsules, execution, history, migrate_requested,
                     remaining_work_units>>
  <2>1. k < NumLanes /\ phase = "stop" => k \in Lane /\ k + 1 \in 0 .. NumLanes
    BY PoolAssumption, InvParts DEF CoordinatorType, Lane
  <2>2. CASE StopLaneFlag
    BY <2>1, <2>2, InvParts, Zenon DEF CoordinatorType, StopLaneFlag, coordinator, cursors, Stopping
  <2>3. CASE StopLaneWake
    BY <2>1, <2>3, InvParts DEF CoordinatorType, StopLaneWake, cursors, Stopping, signals
  <2> QED
    BY <2>2, <2>3
<1>2. HistoryType'
  BY <1>1, InvParts DEF HistoryType, history
<1>3. /\ state' \in [Lane -> LaneState] /\ stop_requested' \in [Lane -> BOOLEAN]
      /\ cancel_generation' \in [Lane -> Nat]
  <2>1. CASE StopLaneFlag
    BY <1>1, <2>1, RequestAssumption, InvParts, Zenon DEF AssignmentType, ExecutionType, StopLaneFlag
  <2>2. CASE StopLaneWake
    BY <1>1, <2>2, InvParts, Zenon DEF AssignmentType, ExecutionType, StopLaneWake, LaneState, signals
  <2> QED
    BY <2>1, <2>2, Zenon
<1>4. AssignmentType'
  BY <1>1, <1>3, InvParts DEF AssignmentType, assignment, supervision
<1>5. Woken
  BY <1>1, NotifyWakes, Zenon
<1>6. ExecutionType'
  BY <1>1, <1>3, <1>5, InvParts, Zenon DEF Woken, ExecutionType, assignment, capsules, execution
<1>7. WorkLeft'
  BY <1>1, <1>5, InvParts, Zenon DEF Woken, WorkLeft, assignment, capsules, execution
<1>8. LaneStates'
  BY <1>1, Zenon DEF LaneStates
<1> QED
  BY <1>1, <1>2, <1>4, <1>6, <1>7, <1>8, TypePartsPrime DEF Types, Inv

---------------------------------------------------------------------------
(* run_slot. *)

(* The fields a thread writes. *)
WorkerType ==
    /\ state \in [Lane -> LaneState]
    /\ migrate_requested \in [Lane -> BOOLEAN]
    /\ remaining_work_units \in [Lane -> Nat]
    /\ migration_storage \in [Lane -> [job : Job \cup {NoJob}, completed : Nat]]
    /\ resume_bytes \in [Lane -> BOOLEAN]
    /\ result \in [Lane -> ResultCode \cup {"None"}]
    /\ execution_failed \in [Lane -> BOOLEAN]
    /\ pc \in [Lane -> {"loop", "load", "asleep", "run", "publish", "exited"}]
    /\ completed \in [Lane -> Nat]
    /\ executed \in [Job -> Nat]

(* The invariant types them. *)
LEMMA WorkerTypes == Inv => WorkerType
  BY InvParts DEF AssignmentType, ExecutionType, HistoryType, WorkerType

(* A thread's step writes none of the fields the coordinator owns, so the    *)
(* types hold if those of its own fields do.                                 *)
LEMMA WorkerFrame ==
  ASSUME Inv, UNCHANGED coordinatorOwned, WorkerType'
  PROVE  TypeOK' /\ UNCHANGED <<request, tag, ready_index, phase>>
<1>1. CoordinatorType'
  BY InvParts, Zenon DEF CoordinatorType, coordinatorOwned, coordinator, cursors
<1>2. AssignmentType'
  BY InvParts, Zenon DEF WorkerType, AssignmentType, coordinatorOwned, assignment, supervision
<1>3. ExecutionType'
  BY InvParts DEF WorkerType, ExecutionType, coordinatorOwned, assignment
<1>4. HistoryType'
  BY InvParts DEF WorkerType, HistoryType, coordinatorOwned
<1>5. UNCHANGED <<request, tag, ready_index, phase>>
  BY DEF coordinatorOwned, assignment, coordinator, cursors
<1> QED
  BY <1>1, <1>2, <1>3, <1>4, <1>5, TypePartsPrime, Zenon DEF Types

(* Lane m looks the same before and after a step. *)
SameLane(m) ==
    /\ pc'[m] = pc[m] /\ state'[m] = state[m] /\ result'[m] = result[m]
    /\ completed'[m] = completed[m] /\ migration_storage'[m] = migration_storage[m]

(* What a thread's step must leave behind in its own lane l. *)
LaneKept(l) ==
    /\ pc'[l] = "run" => request[l] \in Job /\ completed'[l] < Request[request[l]].total
                         /\ (~Stopping => state'[l] = "Running")
    /\ pc'[l] = "publish" => result'[l] \in ResultCode
                             /\ (~Stopping => state'[l] \in {"Requested", "Running"})
    /\ migration_storage'[l].job # NoJob =>
          migration_storage'[l].completed < Request[migration_storage'[l].job].total
    /\ ~Stopping => /\ state'[l] = "Ready" => result'[l] \in ResultCode
                    /\ state'[l] \in {"Requested", "Running", "MigrationReady", "Ready"} => Held(l)
                    /\ state[l] = "Ready" => state'[l] = "Ready"

(* A thread's step keeps the invariant if it keeps it for its own lane. *)
LEMMA OwnLane ==
  ASSUME Inv, NEW l \in Lane, UNCHANGED coordinatorOwned, WorkerType',
         \A m \in Lane \ {l} : SameLane(m), LaneKept(l)
  PROVE  Inv'
<1>1. TypeOK' /\ UNCHANGED <<request, tag, ready_index, phase>>
  BY WorkerFrame
<1>2. WorkLeft /\ LaneStates
  BY InvParts, Zenon
<1>3. WorkLeft'
  <2> SUFFICES ASSUME NEW m \in Lane
               PROVE  /\ pc'[m] = "run" =>
                            request[m] \in Job /\ completed'[m] < Request[request[m]].total
                      /\ pc'[m] = "publish" => result'[m] \in ResultCode
                      /\ migration_storage'[m].job # NoJob =>
                            migration_storage'[m].completed
                              < Request[migration_storage'[m].job].total
    BY <1>1, Zenon DEF WorkLeft
  <2>1. CASE m = l
    BY <2>1, Zenon DEF LaneKept
  <2>2. CASE m # l
    <3>1. SameLane(m)
      BY <2>2
    <3> QED
      BY <1>2, <3>1, Zenon DEF WorkLeft, SameLane
  <2> QED
    BY <2>1, <2>2, Zenon
<1>4. LaneStates'
  <2> SUFFICES ASSUME ~Stopping'
               PROVE  /\ \A m \in Lane :
                            /\ pc'[m] = "run" => state'[m] = "Running"
                            /\ pc'[m] = "publish" => state'[m] \in {"Requested", "Running"}
                            /\ state'[m] = "Ready" => result'[m] \in ResultCode
                            /\ Held(m)' => request'[m] \in Job /\ tag'[m] = request'[m]
                      /\ ready_index' # NoLane => state'[ready_index'] = "Ready"
    BY Zenon DEF LaneStates
  <2> ~Stopping
    BY <1>1, Zenon DEF Stopping
  <2>0. ready_index # NoLane => ready_index \in Lane /\ state[ready_index] = "Ready"
    BY <1>2, InvParts, Zenon DEF LaneStates, CoordinatorType
  <2>1. \A m \in Lane : m # l => SameLane(m)
    BY Zenon
  <2>2. ready_index # NoLane => state'[ready_index] = "Ready"
    BY <2>0, <2>1, Zenon DEF SameLane, LaneKept
  <2>3. ASSUME NEW m \in Lane
        PROVE  /\ pc'[m] = "run" => state'[m] = "Running"
               /\ pc'[m] = "publish" => state'[m] \in {"Requested", "Running"}
               /\ state'[m] = "Ready" => result'[m] \in ResultCode
               /\ state'[m] \in {"Requested", "Running", "MigrationReady", "Ready"} =>
                     request[m] \in Job /\ tag[m] = request[m]
    <3>1. CASE m = l
      <4>1. Held(l) => request[l] \in Job /\ tag[l] = request[l]
        BY <1>2, Zenon DEF LaneStates
      <4> QED
        BY <3>1, <4>1, Zenon DEF LaneKept
    <3>2. CASE m # l
      BY <1>2, <2>1, <3>2, Zenon DEF LaneStates, SameLane, Held
    <3> QED
      BY <3>1, <3>2, Zenon
  <2>4. ASSUME NEW m \in Lane, Held(m)'
        PROVE  request'[m] \in Job /\ tag'[m] = request'[m]
    <3>0. state'[m] \in LaneState
      BY DEF WorkerType
    <3>1. state'[m] \in {"Requested", "Running", "MigrationReady", "Ready"}
      BY <2>4, <3>0 DEF Held, LaneState
    <3> QED
      BY <1>1, <2>3, <3>1, Zenon
  <2>5. ready_index' # NoLane => state'[ready_index'] = "Ready"
    BY <1>1, <2>2, Zenon
  <2> QED
    BY <2>3, <2>4, <2>5, Zenon
<1> QED
  BY <1>1, <1>3, <1>4 DEF Inv

(* What is known of the lane of a thread that is inside a run. *)
LEMMA RunningLane ==
  ASSUME Inv, NEW l \in Lane
  PROVE  /\ pc[l] = "run" =>
                request[l] \in Job /\ completed[l] < Request[request[l]].total
                /\ (~Stopping => state[l] = "Running" /\ Held(l))
         /\ pc[l] = "publish" =>
                result[l] \in ResultCode
                /\ (~Stopping => state[l] \in {"Requested", "Running"} /\ Held(l))
         /\ migration_storage[l].job # NoJob =>
                migration_storage[l].completed < Request[migration_storage[l].job].total
         /\ ~Stopping => (state[l] = "Ready" => result[l] \in ResultCode)
<1>1. WorkLeft /\ LaneStates
  BY InvParts, Zenon
<1> QED
  BY <1>1, Zenon DEF WorkLeft, LaneStates, Held

(* The end of a run. *)
LEMMA FinishType ==
  ASSUME WorkerType, NEW l \in Lane, NEW code \in ResultCode, Finish(l, code)
  PROVE  /\ completed' \in [Lane -> Nat]
         /\ execution_failed' \in [Lane -> BOOLEAN]
         /\ result' \in [Lane -> ResultCode \cup {"None"}]
         /\ pc' \in [Lane -> {"loop", "load", "asleep", "run", "publish", "exited"}]
         /\ pc'[l] = "publish" /\ result'[l] \in ResultCode
         /\ \A m \in Lane \ {l} : /\ completed'[m] = completed[m] /\ pc'[m] = pc[m]
                                  /\ result'[m] = result[m]
<1>1. /\ pc' = [pc EXCEPT ![l] = "publish"]
      /\ completed' = [completed EXCEPT ![l] = 0]
  BY DEF Finish
<1>2. PICK b \in BOOLEAN : execution_failed' = [execution_failed EXCEPT ![l] = b]
  <2>1. (code = "Failed") \in BOOLEAN
    OBVIOUS
  <2> QED
    BY <2>1, Zenon DEF Finish
<1>3. PICK r \in ResultCode : result' = [result EXCEPT ![l] = r]
  BY DEF Finish, ResultCode
<1>4. result' \in [Lane -> ResultCode \cup {"None"}] /\ result'[l] \in ResultCode
      /\ \A m \in Lane \ {l} : result'[m] = result[m]
  BY <1>3 DEF WorkerType
<1>5. execution_failed' \in [Lane -> BOOLEAN]
  BY <1>2 DEF WorkerType
<1>6. completed' \in [Lane -> Nat] /\ \A m \in Lane \ {l} : completed'[m] = completed[m]
  BY <1>1 DEF WorkerType
<1>7. /\ pc' \in [Lane -> {"loop", "load", "asleep", "run", "publish", "exited"}]
      /\ pc'[l] = "publish" /\ \A m \in Lane \ {l} : pc'[m] = pc[m]
  BY <1>1 DEF WorkerType
<1> QED
  BY <1>4, <1>5, <1>6, <1>7, Zenon

(* The outer loop of run_slot: look at the flags, sleep, wake up. *)
LEMMA InvWorkerIdle ==
  ASSUME Inv, NEW l \in Lane, WorkerLoop(l) \/ WorkerSleep(l)
  PROVE  Inv'
<1>1. UNCHANGED <<coordinatorOwned, state, migrate_requested, remaining_work_units,
                  migration_storage, resume_bytes, result, execution_failed, completed, executed>>
  BY DEF WorkerLoop, WorkerSleep, execution
<1>2. PICK p \in {"exited", "load", "asleep"} : pc' = [pc EXCEPT ![l] = p]
  BY Zenon DEF WorkerLoop, WorkerSleep
<1>3. WorkerType' /\ pc'[l] = p /\ \A m \in Lane \ {l} : SameLane(m)
  BY <1>1, <1>2, WorkerTypes DEF WorkerType, SameLane
<1>4. LaneKept(l)
  BY <1>1, <1>3, RunningLane, Zenon DEF LaneKept, Held
<1> QED
  BY <1>1, <1>3, <1>4, OwnLane, Zenon

(* A request its registry refuses. *)
LEMMA InvWorkerBindFails ==
  ASSUME Inv, NEW l \in Lane, WorkerBindFails(l)
  PROVE  Inv'
<1>1. /\ UNCHANGED <<coordinatorOwned, state, migrate_requested, remaining_work_units,
                     migration_storage, resume_bytes, completed, executed>>
      /\ state[l] = "Requested"
      /\ pc' = [pc EXCEPT ![l] = "publish"]
      /\ result' = [result EXCEPT ![l] = "Failed"]
      /\ execution_failed' = [execution_failed EXCEPT ![l] = TRUE]
  BY Zenon DEF WorkerBindFails
<1>2. execution_failed' \in [Lane -> BOOLEAN]
  BY <1>1, WorkerTypes DEF WorkerType
<1>3. /\ WorkerType' /\ pc'[l] = "publish" /\ result'[l] = "Failed"
      /\ \A m \in Lane \ {l} : SameLane(m)
  BY <1>1, <1>2, WorkerTypes, Zenon DEF WorkerType, SameLane, ResultCode
<1>4. LaneKept(l)
  BY <1>1, <1>3, RunningLane, Zenon DEF LaneKept, Held, ResultCode
<1> QED
  BY <1>1, <1>3, <1>4, OwnLane, Zenon

(* start() or restore_capsule(). *)
LEMMA InvWorkerStart ==
  ASSUME Inv, NEW l \in Lane, WorkerStart(l)
  PROVE  Inv'
<1>1. /\ UNCHANGED <<coordinatorOwned, migrate_requested, remaining_work_units, executed>>
      /\ state[l] = "Requested" /\ request[l] \in Job
      /\ state' = [state EXCEPT ![l] = "Running"]
      /\ resume_bytes' = [resume_bytes EXCEPT ![l] = FALSE]
      /\ migration_storage' = [migration_storage EXCEPT ![l] = NoCapsule]
  BY InvParts, Zenon DEF CoreType, WorkerStart
<1>2. /\ state' \in [Lane -> LaneState] /\ state'[l] = "Running"
      /\ \A m \in Lane \ {l} : state'[m] = state[m]
  BY <1>1, WorkerTypes, Zenon DEF WorkerType, LaneState
<1>3. /\ migration_storage' \in [Lane -> [job : Job \cup {NoJob}, completed : Nat]]
      /\ migration_storage'[l].job = NoJob
      /\ \A m \in Lane \ {l} : migration_storage'[m] = migration_storage[m]
  BY <1>1, WorkerTypes, Zenon DEF WorkerType, NoCapsule
<1>4. resume_bytes' \in [Lane -> BOOLEAN]
  BY <1>1, WorkerTypes DEF WorkerType
<1>5. /\ migrate_requested' \in [Lane -> BOOLEAN] /\ remaining_work_units' \in [Lane -> Nat]
      /\ executed' \in [Job -> Nat]
  BY <1>1, WorkerTypes, Zenon DEF WorkerType
<1>6. CASE \E code \in ResultCode : Finish(l, code)
  <2>1. /\ WorkerType' /\ pc'[l] = "publish" /\ result'[l] \in ResultCode
        /\ \A m \in Lane \ {l} : SameLane(m)
    BY <1>2, <1>3, <1>4, <1>5, <1>6, WorkerTypes, FinishType, Zenon DEF WorkerType, SameLane
  <2>2. LaneKept(l)
    BY <1>1, <1>2, <1>3, <2>1, Zenon DEF LaneKept, Held
  <2> QED
    BY <1>1, <2>1, <2>2, OwnLane, Zenon
<1>7. CASE ~\E code \in ResultCode : Finish(l, code)
  <2>1. /\ resume_bytes[l] => migration_storage[l].job = request[l]
        /\ pc' = [pc EXCEPT ![l] = "run"]
        /\ completed' = [completed EXCEPT
               ![l] = IF resume_bytes[l] THEN migration_storage[l].completed ELSE 0]
        /\ result' = [result EXCEPT ![l] = "None"]
        /\ execution_failed' = [execution_failed EXCEPT ![l] = FALSE]
    BY <1>7, Zenon DEF WorkerStart, ResultCode
  <2>2. PICK n \in Nat : n < Request[request[l]].total /\ completed' = [completed EXCEPT ![l] = n]
    <3>1. CASE resume_bytes[l]
      <4>1. migration_storage[l].completed \in Nat
        BY WorkerTypes DEF WorkerType
      <4>2. migration_storage[l].completed < Request[request[l]].total
        BY <1>1, <2>1, <3>1, Markers, RunningLane, Zenon
      <4> QED
        BY <2>1, <3>1, <4>1, <4>2, Zenon
    <3>2. CASE ~resume_bytes[l]
      <4>1. completed' = [completed EXCEPT ![l] = 0]
        BY <2>1, <3>2, Zenon
      <4>2. 0 < Request[request[l]].total
        BY <1>1, TotalType
      <4> QED
        BY <4>1, <4>2, Zenon
    <3> QED
      BY <3>1, <3>2, Zenon
  <2>3. execution_failed' \in [Lane -> BOOLEAN]
    BY <2>1, WorkerTypes DEF WorkerType
  <2>4. /\ completed' \in [Lane -> Nat] /\ completed'[l] = n
        /\ \A m \in Lane \ {l} : completed'[m] = completed[m]
    BY <2>2, WorkerTypes, Zenon DEF WorkerType
  <2>5. /\ pc' \in [Lane -> {"loop", "load", "asleep", "run", "publish", "exited"}]
        /\ result' \in [Lane -> ResultCode \cup {"None"}]
        /\ pc'[l] = "run" /\ \A m \in Lane \ {l} : pc'[m] = pc[m] /\ result'[m] = result[m]
    BY <2>1, WorkerTypes, Zenon DEF WorkerType
  <2>6. WorkerType' /\ \A m \in Lane \ {l} : SameLane(m)
    BY <1>2, <1>3, <1>4, <1>5, <2>3, <2>4, <2>5, Zenon DEF WorkerType, SameLane
  <2>7. LaneKept(l)
    BY <1>1, <1>2, <1>3, <2>2, <2>4, <2>5, Zenon DEF LaneKept, Held
  <2> QED
    BY <1>1, <2>6, <2>7, OwnLane, Zenon
<1> QED
  BY <1>6, <1>7, Zenon

(* One advance: the remaining work stays positive or the run ends. *)
LEMMA InvWorkerAdvance ==
  ASSUME Inv, NEW l \in Lane, WorkerAdvance(l)
  PROVE  Inv'
<1> DEFINE j == request[l]
           left == Request[j].total - completed[l]
<1>1. /\ UNCHANGED <<coordinatorOwned, state, migrate_requested, migration_storage, resume_bytes>>
      /\ pc[l] = "run"
  BY Zenon DEF WorkerAdvance
<1>2. j \in Job /\ left \in Nat \ {0}
  <2>1. j \in Job /\ completed[l] < Request[j].total
    BY <1>1, RunningLane, Zenon
  <2>2. Request[j].total \in Nat
    BY <2>1, RequestAssumption, Zenon
  <2>3. completed[l] \in Nat
    BY WorkerTypes, Zenon DEF WorkerType
  <2> QED
    BY <2>1, <2>2, <2>3
<1>3. /\ remaining_work_units' = remaining_work_units
         \/ \E n \in Nat : remaining_work_units' = [remaining_work_units EXCEPT ![l] = n]
      /\ executed' = executed \/ \E n \in Nat : executed' = [executed EXCEPT ![j] = @ + n]
      /\ \/ \E code \in ResultCode : Finish(l, code)
         \/ /\ UNCHANGED <<pc, result, execution_failed>>
            /\ \E n \in Nat : n < left /\ completed' = [completed EXCEPT ![l] = @ + n]
  <2> DEFINE budget == IF WorkQuantum < left THEN WorkQuantum ELSE left
  <2>1. ASSUME Finish(l, "Cancelled"),
               remaining_work_units' = [remaining_work_units EXCEPT ![l] = left],
               UNCHANGED executed
        PROVE  <1>3!:
    BY <1>2, <2>1, Zenon DEF ResultCode
  <2>2. ASSUME Finish(l, "Failed"), UNCHANGED <<remaining_work_units, executed>>
        PROVE  <1>3!:
    BY <2>2, Zenon DEF ResultCode
  <2>3. ASSUME NEW units \in 1 .. budget,
               executed' = [executed EXCEPT ![j] = @ + units],
               remaining_work_units' = [remaining_work_units EXCEPT ![l] = left - units],
               IF units = left THEN Finish(l, "Complete")
               ELSE /\ completed' = [completed EXCEPT ![l] = @ + units]
                    /\ UNCHANGED <<pc, result, execution_failed>>
        PROVE  <1>3!:
    <3> HIDE DEF left
    <3>0. budget \in Nat /\ budget <= left
      BY <1>2, PoolAssumption
    <3>1. units \in Nat /\ units <= left /\ left - units \in Nat
      BY <1>2, <3>0
    <3>2. CASE units = left
      BY <2>3, <3>1, <3>2, Zenon DEF ResultCode
    <3>3. CASE units # left
      <4>1. units < left
        BY <1>2, <3>1, <3>3
      <4> QED
        BY <2>3, <3>1, <3>3, <4>1, Zenon
    <3> QED
      BY <3>2, <3>3
  <2> QED
    BY <2>1, <2>2, <2>3, Zenon DEF WorkerAdvance
<1>4. /\ remaining_work_units' \in [Lane -> Nat] /\ executed' \in [Job -> Nat]
  <2>1. remaining_work_units \in [Lane -> Nat] /\ executed \in [Job -> Nat]
    BY WorkerTypes, Zenon DEF WorkerType
  <2>2. remaining_work_units' \in [Lane -> Nat]
    BY <1>3, <2>1, Zenon
  <2>3. executed' \in [Job -> Nat]
    <3>1. CASE executed' = executed
      BY <2>1, <3>1, Zenon
    <3>2. CASE \E n \in Nat : executed' = [executed EXCEPT ![j] = @ + n]
      <4>1. PICK n \in Nat : executed' = [executed EXCEPT ![j] = @ + n]
        BY <3>2, Zenon
      <4> QED
        BY <1>2, <2>1, <4>1, JobCountRaised, Zenon
    <3> QED
      BY <1>3, <3>1, <3>2, Zenon
  <2> QED
    BY <2>2, <2>3
<1>5. /\ state' \in [Lane -> LaneState]
      /\ migrate_requested' \in [Lane -> BOOLEAN]
      /\ migration_storage' \in [Lane -> [job : Job \cup {NoJob}, completed : Nat]]
      /\ resume_bytes' \in [Lane -> BOOLEAN]
  BY <1>1, WorkerTypes DEF WorkerType
<1>6. CASE \E code \in ResultCode : Finish(l, code)
  <2>1. /\ WorkerType' /\ pc'[l] = "publish" /\ result'[l] \in ResultCode
        /\ \A m \in Lane \ {l} : SameLane(m)
    BY <1>1, <1>4, <1>5, <1>6, WorkerTypes, FinishType, Zenon DEF WorkerType, SameLane
  <2>2. LaneKept(l)
    BY <1>1, <2>1, RunningLane, Zenon DEF LaneKept
  <2> QED
    BY <1>1, <2>1, <2>2, OwnLane, Zenon
<1>7. CASE /\ UNCHANGED <<pc, result, execution_failed>>
           /\ \E n \in Nat : n < left /\ completed' = [completed EXCEPT ![l] = @ + n]
  <2>1. completed' \in [Lane -> Nat] /\ completed'[l] < Request[j].total
        /\ \A m \in Lane \ {l} : completed'[m] = completed[m]
    <3>1. completed \in [Lane -> Nat]
      BY WorkerTypes, Zenon DEF WorkerType
    <3>2. Request[j].total \in Nat
      BY <1>2, RequestAssumption, Zenon
    <3>3. PICK n \in Nat : n < left /\ completed' = [completed EXCEPT ![l] = @ + n]
      BY <1>7, Zenon
    <3>4. completed[l] \in Nat /\ completed[l] + n \in Nat
      BY <3>1
    <3>5. completed'[l] = completed[l] + n /\ \A m \in Lane \ {l} : completed'[m] = completed[m]
      BY <3>1, <3>3
    <3>6. completed' \in [Lane -> Nat]
      BY <3>1, <3>3, <3>4, Zenon
    <3>7. completed[l] + n < Request[j].total
      BY <3>2, <3>3, <3>4
    <3> QED
      BY <3>5, <3>6, <3>7
  <2>2. WorkerType' /\ \A m \in Lane \ {l} : SameLane(m)
    BY <1>1, <1>4, <1>5, <1>7, <2>1, WorkerTypes, Zenon DEF WorkerType, SameLane
  <2>3. LaneKept(l)
    BY <1>1, <1>2, <1>7, <2>1, RunningLane, Zenon DEF LaneKept
  <2> QED
    BY <1>1, <2>2, <2>3, OwnLane, Zenon
<1> QED
  BY <1>3, <1>6, <1>7, Zenon

(* export_capsule: the capsule keeps the work that is left. *)
LEMMA InvWorkerExport ==
  ASSUME Inv, NEW l \in Lane, WorkerExport(l)
  PROVE  Inv'
<1> DEFINE j == request[l]
           c == [job |-> j, completed |-> completed[l]]
           left == Request[j].total - completed[l]
<1>1. /\ UNCHANGED <<coordinatorOwned, migrate_requested, resume_bytes, result, execution_failed,
                     executed>>
      /\ pc[l] = "run"
      /\ migration_storage' = [migration_storage EXCEPT ![l] = c]
      /\ remaining_work_units' = [remaining_work_units EXCEPT ![l] = left]
      /\ state' = [state EXCEPT ![l] = "MigrationReady"]
      /\ pc' = [pc EXCEPT ![l] = "loop"]
      /\ completed' = [completed EXCEPT ![l] = 0]
  BY Zenon DEF WorkerExport, Capsule
<1>2. j \in Job /\ completed[l] \in Nat /\ completed[l] < Request[j].total
  BY <1>1, RunningLane, WorkerTypes, Zenon DEF WorkerType
<1>3. left \in Nat
  <2>1. Request[j].total \in Nat
    BY <1>2, RequestAssumption, Zenon
  <2> QED
    BY <1>2, <2>1
<1>4. /\ state' \in [Lane -> LaneState] /\ state'[l] = "MigrationReady"
      /\ \A m \in Lane \ {l} : state'[m] = state[m]
  BY <1>1, WorkerTypes, Zenon DEF WorkerType, LaneState
<1>5. /\ completed' \in [Lane -> Nat] /\ remaining_work_units' \in [Lane -> Nat]
      /\ \A m \in Lane \ {l} : completed'[m] = completed[m]
  BY <1>1, <1>3, WorkerTypes, Zenon DEF WorkerType
<1>6. /\ pc' \in [Lane -> {"loop", "load", "asleep", "run", "publish", "exited"}]
      /\ pc'[l] = "loop" /\ \A m \in Lane \ {l} : pc'[m] = pc[m]
  BY <1>1, WorkerTypes, Zenon DEF WorkerType
<1>7. /\ migration_storage' \in [Lane -> [job : Job \cup {NoJob}, completed : Nat]]
      /\ migration_storage'[l] = c
      /\ \A m \in Lane \ {l} : migration_storage'[m] = migration_storage[m]
  BY <1>1, <1>2, WorkerTypes, Zenon DEF WorkerType
<1>8. WorkerType' /\ \A m \in Lane \ {l} : SameLane(m)
  BY <1>1, <1>4, <1>5, <1>6, <1>7, WorkerTypes, Zenon DEF WorkerType, SameLane
<1>9. LaneKept(l)
  BY <1>1, <1>2, <1>4, <1>6, <1>7, RunningLane, Zenon DEF LaneKept
<1> QED
  BY <1>1, <1>8, <1>9, OwnLane, Zenon

(* A capsule that cannot be written. *)
LEMMA InvWorkerExportFails ==
  ASSUME Inv, NEW l \in Lane, WorkerExportFails(l)
  PROVE  Inv'
<1>1. UNCHANGED <<coordinatorOwned, state, remaining_work_units, migration_storage,
                  resume_bytes, result, execution_failed, pc, completed, executed>>
  BY Zenon DEF WorkerExportFails, execution
<1>2. migrate_requested' \in [Lane -> BOOLEAN]
  BY WorkerTypes, Zenon DEF WorkerType, WorkerExportFails
<1>3. WorkerType' /\ \A m \in Lane : SameLane(m)
  BY <1>1, <1>2, WorkerTypes, Zenon DEF WorkerType, SameLane
<1>4. LaneKept(l)
  BY <1>1, RunningLane, Zenon DEF LaneKept, Held
<1> QED
  BY <1>1, <1>3, <1>4, OwnLane, Zenon

(* A run cut short by stop(). *)
LEMMA InvWorkerAbandon ==
  ASSUME Inv, NEW l \in Lane, WorkerAbandon(l)
  PROVE  Inv'
<1>1. /\ UNCHANGED <<coordinatorOwned, state, migrate_requested, remaining_work_units,
                     migration_storage, resume_bytes, result, execution_failed, executed>>
      /\ pc' = [pc EXCEPT ![l] = "exited"]
      /\ completed' = [completed EXCEPT ![l] = 0]
  BY Zenon DEF WorkerAbandon
<1>2. WorkerType' /\ pc'[l] = "exited" /\ \A m \in Lane \ {l} : SameLane(m)
  BY <1>1, WorkerTypes, Zenon DEF WorkerType, SameLane
<1>3. LaneKept(l)
  BY <1>1, <1>2, RunningLane, Zenon DEF LaneKept, Held
<1> QED
  BY <1>1, <1>2, <1>3, OwnLane, Zenon

(* The store of kReady. *)
LEMMA InvWorkerPublish ==
  ASSUME Inv, NEW l \in Lane, WorkerPublish(l)
  PROVE  Inv'
<1>1. /\ UNCHANGED <<coordinatorOwned, migrate_requested, migration_storage, resume_bytes,
                     result, execution_failed, completed, executed>>
      /\ pc[l] = "publish"
  BY Zenon DEF WorkerPublish, execution
<1>2. CASE pc' = [pc EXCEPT ![l] = "exited"] /\ UNCHANGED <<state, remaining_work_units>>
  <2>1. WorkerType' /\ pc'[l] = "exited" /\ \A m \in Lane \ {l} : SameLane(m)
    BY <1>1, <1>2, WorkerTypes, Zenon DEF WorkerType, SameLane
  <2>2. LaneKept(l)
    BY <1>1, <1>2, <2>1, RunningLane, Zenon DEF LaneKept
  <2> QED
    BY <1>1, <2>1, <2>2, OwnLane, Zenon
<1>3. CASE /\ pc' = [pc EXCEPT ![l] = "loop"]
           /\ state' = [state EXCEPT ![l] = "Ready"]
           /\ remaining_work_units' = [remaining_work_units EXCEPT ![l] = 0]
  <2>1. /\ state' \in [Lane -> LaneState] /\ state'[l] = "Ready"
        /\ \A m \in Lane \ {l} : state'[m] = state[m]
    BY <1>3, WorkerTypes, Zenon DEF WorkerType, LaneState
  <2>2. /\ pc' \in [Lane -> {"loop", "load", "asleep", "run", "publish", "exited"}]
        /\ pc'[l] = "loop" /\ \A m \in Lane \ {l} : pc'[m] = pc[m]
        /\ remaining_work_units' \in [Lane -> Nat]
    BY <1>3, WorkerTypes, Zenon DEF WorkerType
  <2>3. WorkerType' /\ \A m \in Lane \ {l} : SameLane(m)
    BY <1>1, <2>1, <2>2, WorkerTypes, Zenon DEF WorkerType, SameLane
  <2>4. LaneKept(l)
    BY <1>1, <2>1, <2>2, RunningLane, Zenon DEF LaneKept
  <2> QED
    BY <1>1, <2>3, <2>4, OwnLane, Zenon
<1> QED
  BY <1>2, <1>3 DEF WorkerPublish

---------------------------------------------------------------------------
(* The invariant. *)

(* Every step of the pool keeps Inv. *)
LEMMA InvNext == Inv /\ [Next]_vars => Inv'
<1> SUFFICES ASSUME Inv, [Next]_vars PROVE Inv'
  BY Zenon
<1>1. ASSUME Call PROVE Inv'
  BY <1>1, InvSubmitRejected, InvSubmitAccepted, InvCancelBefore, InvDrain, InvReturn, InvMoves,
     InvRelease, Zenon DEF Call
<1>2. ASSUME Continue PROVE Inv'
  BY <1>2, InvCancelLane, InvHandoffBack, InvHandoffTo, InvDispatchLane, InvScanFinds,
     InvStopLane, InvMoves, Zenon DEF Continue
<1>3. ASSUME NEW l \in Lane, Worker(l) PROVE Inv'
  BY <1>3, InvWorkerIdle, InvWorkerBindFails, InvWorkerStart, InvWorkerAdvance, InvWorkerExport,
     InvWorkerExportFails, InvWorkerAbandon, InvWorkerPublish, Zenon DEF Worker
<1>4. ASSUME Tick PROVE Inv'
  BY <1>4, InvMoves, Zenon
<1>5. ASSUME UNCHANGED vars PROVE Inv'
  <2>1. UNCHANGED lanes /\ UNCHANGED coordinator /\ UNCHANGED history
        /\ UNCHANGED <<queue, watermark, now>>
    BY <1>5, Zenon DEF vars
  <2>2. CoordinatorType'
    BY <2>1, Zenon DEF Inv, TypeOK, CoordinatorType, coordinator, cursors
  <2>3. HistoryType'
    BY <2>1 DEF Inv, TypeOK, HistoryType, history
  <2>4. (Stopping => Stopping') /\ ready_index' \in {ready_index, NoLane}
    BY <2>1 DEF coordinator, cursors, Stopping
  <2> QED
    BY <2>1, <2>2, <2>3, <2>4, LanesUntouched, TypePartsPrime DEF Types, Inv
<1> QED
  BY <1>1, <1>2, <1>3, <1>4, <1>5 DEF Next, Terminated

(* Inv holds in every reachable state. *)
THEOREM Invariance == Spec => []Inv
  BY InvInit, InvNext, PTL DEF Spec

(* Every variable keeps its type: in particular remaining_work_units, which  *)
(* the admission test reads, never wraps below zero, and every result that   *)
(* is released has a result code.                                            *)
THEOREM TypeCorrect == Spec => []TypeOK
<1>1. Inv => TypeOK
  BY DEF Inv
<1> QED
  BY <1>1, Invariance, PTL

---------------------------------------------------------------------------
(* What the steps leave alone. *)

(* The coordinator's steps that touch no lane's thread. *)
LEMMA QuietFrame ==
  ASSUME \/ \E j \in Job, t \in {0, now} : SubmitRejected(j, t) \/ SubmitAccepted(j, t)
         \/ \E s \in Session, g \in CancelGenerations : cancel_before(s, g)
         \/ \E s \in Session : release_session(s)
         \/ \E l \in Lane : CancelLane(l)
         \/ \E c, l \in Lane : ScanFinds(c, l)
         \/ CancelEnd \/ HandoffEnd \/ DispatchEnd \/ ready_result \/ ScanKeeps
         \/ stop \/ StopLaneFlag \/ StopJoin \/ Tick
  PROVE  UNCHANGED <<state, pc, request, tag>>
<1>1. ASSUME UNCHANGED lanes PROVE UNCHANGED <<state, pc, request, tag>>
  BY <1>1 DEF lanes, assignment
<1>2. ASSUME NEW l, CancelLane(l) PROVE UNCHANGED <<state, pc, request, tag>>
  BY <1>2, Zenon DEF CancelLane, assignment
<1>3. ASSUME NEW c, NEW l, ScanFinds(c, l) PROVE UNCHANGED <<state, pc, request, tag>>
  BY <1>3, Zenon DEF ScanFinds
<1>4. ASSUME StopLaneFlag PROVE UNCHANGED <<state, pc, request, tag>>
  BY <1>4, Zenon DEF StopLaneFlag, assignment
<1>5. ASSUME NEW j, NEW t, SubmitRejected(j, t) \/ SubmitAccepted(j, t) PROVE UNCHANGED lanes
  BY <1>5, Zenon DEF SubmitRejected, SubmitAccepted
<1>6. ASSUME NEW s, NEW g, cancel_before(s, g) PROVE UNCHANGED lanes
  BY <1>6 DEF cancel_before
<1>7. ASSUME NEW s, release_session(s) PROVE UNCHANGED lanes
  BY <1>7, Zenon DEF release_session
<1>8. ASSUME \/ CancelEnd \/ HandoffEnd \/ DispatchEnd \/ ready_result \/ ScanKeeps
             \/ stop \/ StopJoin \/ Tick
      PROVE  UNCHANGED lanes
  BY <1>8, ZenonT(40) DEF CancelEnd, HandoffEnd, DispatchEnd, ready_result, ScanKeeps, stop, StopJoin, Tick
<1> QED
  BY <1>1, <1>2, <1>3, <1>4, <1>5, <1>6, <1>7, <1>8

(* A thread leaves the queue, the coordinator and what it owns alone. *)
LEMMA WorkerOwn ==
  ASSUME NEW l, Worker(l) PROVE UNCHANGED coordinatorOwned
  BY ZenonT(40) DEF Worker, WorkerLoop, WorkerSleep, WorkerBindFails, WorkerStart, WorkerAdvance,
         WorkerExport, WorkerExportFails, WorkerAbandon, WorkerPublish

---------------------------------------------------------------------------
(* No lost wake-up. *)

(* A store of kRequested reaches a thread that sleeps, and a thread falls    *)
(* asleep only on a state that is not kRequested.                            *)
LEMMA WakeupNext == Inv /\ NoLostWakeup /\ [Next]_vars => NoLostWakeup'
<1> SUFFICES ASSUME Inv, NoLostWakeup, [Next]_vars PROVE NoLostWakeup'
  OBVIOUS
<1> USE DEF NoLostWakeup
<1>1. ASSUME UNCHANGED <<state, pc>> PROVE NoLostWakeup'
  BY <1>1
<1>2. ASSUME NEW S, pc' = Notified(S), \A m \in Lane \ S : state'[m] = state[m]
      PROVE  NoLostWakeup'
  BY <1>2, NotifiedType, Zenon DEF Inv
<1>3. ASSUME NEW l \in Lane, request_worker_drain(l) PROVE NoLostWakeup'
  BY <1>1, <1>2, <1>3, Zenon DEF request_worker_drain, Inv, TypeOK
<1>4. ASSUME NEW l \in Lane, resume_worker(l) \/ recover_worker(l) PROVE NoLostWakeup'
  <2>1. pc' = Notified({l}) /\ state' = [state EXCEPT ![l] = "Idle"]
    BY <1>4 DEF resume_worker, recover_worker, ReturnToService
  <2> QED
    BY <1>2, <2>1, Zenon DEF Inv, TypeOK
<1>5. ASSUME release_ready_result PROVE NoLostWakeup'
  BY <1>2, <1>5, Zenon DEF release_ready_result, Inv, TypeOK
<1>6. ASSUME NEW l \in Lane, HandoffBack(l) PROVE NoLostWakeup'
  BY <1>2, <1>6, Zenon DEF HandoffBack, Inv, TypeOK
<1>7. ASSUME NEW l \in Lane, NEW d \in Lane, HandoffTo(l, d) PROVE NoLostWakeup'
  <2>1. /\ pc' = Notified({l, d})
        /\ state' = [state EXCEPT ![l] = "Drained", ![d] = "Requested"]
    BY <1>7, Zenon DEF HandoffTo
  <2> QED
    BY <1>2, <2>1, Zenon DEF Inv, TypeOK
<1>8. ASSUME NEW c \in Lane, NEW l \in Lane, NEW j \in Job, DispatchLane(c, l, j)
      PROVE  NoLostWakeup'
  <2>1. CASE pc' = pc /\ state' = [state EXCEPT ![l] = "Ready"]
    BY <2>1 DEF Inv, TypeOK
  <2>2. CASE pc' = Notified({l}) /\ state' = [state EXCEPT ![l] = "Requested"]
    BY <1>2, <2>2, Zenon DEF Inv, TypeOK
  <2> QED
    BY <1>8, <2>1, <2>2, Zenon DEF DispatchLane
<1>9. ASSUME StopLaneWake PROVE NoLostWakeup'
  BY <1>2, <1>9, Zenon DEF StopLaneWake, Inv, TypeOK
<1>10. ASSUME NEW l \in Lane, Worker(l) PROVE NoLostWakeup'
  <2>1. ASSUME \A m \in Lane \ {l} : state'[m] = state[m] /\ pc'[m] = pc[m],
               pc'[l] = "asleep" => state'[l] # "Requested"
        PROVE  NoLostWakeup'
    BY <2>1, Zenon
  <2>1a. ASSUME NEW place, pc' = [pc EXCEPT ![l] = place], place # "asleep",
                state' = state \/ \E v : state' = [state EXCEPT ![l] = v]
         PROVE  NoLostWakeup'
    <3>1. pc \in [Lane -> {"loop", "load", "asleep", "run", "publish", "exited"}]
          /\ DOMAIN state = Lane
      BY Zenon DEF Inv, TypeOK
    <3>2. pc'[l] = place /\ \A m \in Lane \ {l} : state'[m] = state[m] /\ pc'[m] = pc[m]
      BY <2>1a, <3>1, Zenon
    <3> QED
      BY <2>1, <2>1a, <3>2, Zenon
  <2>2. CASE WorkerLoop(l) \/ WorkerSleep(l)
    BY <2>1, <2>2, Zenon DEF WorkerLoop, WorkerSleep, Inv, TypeOK
  <2>3. CASE WorkerBindFails(l) \/ WorkerAbandon(l)
    <3>1. state' = state /\ (\/ pc' = [pc EXCEPT ![l] = "publish"]
                            \/ pc' = [pc EXCEPT ![l] = "exited"])
      BY <2>3, Zenon DEF WorkerBindFails, WorkerAbandon
    <3>2. "publish" # "asleep" /\ "exited" # "asleep"
      BY ZenonT(40)
    <3> QED
      BY <2>1a, <3>1, <3>2, Zenon
  <2>4. CASE WorkerStart(l)
    BY <2>1, <2>4, ZenonT(40) DEF WorkerStart, Finish, Inv, TypeOK
  <2>5. CASE WorkerAdvance(l)
    <3>1. state' = state /\ (pc' = pc \/ pc' = [pc EXCEPT ![l] = "publish"])
      BY <2>5, Zenon DEF WorkerAdvance, Finish
    <3>2. CASE pc' = pc
      BY <3>1, <3>2, Zenon DEF Inv
    <3>3. CASE pc' = [pc EXCEPT ![l] = "publish"]
      <4>1. "publish" # "asleep"
        BY Zenon
      <4> QED
        BY <2>1a, <3>1, <3>3, <4>1, Zenon
    <3> QED
      BY <3>1, <3>2, <3>3, Zenon
  <2>6. CASE WorkerExport(l)
    BY <2>1, <2>6, Zenon DEF WorkerExport, Inv, TypeOK
  <2>7. CASE WorkerExportFails(l)
    BY <1>1, <2>7, Zenon DEF WorkerExportFails
  <2>8. CASE WorkerPublish(l)
    <3>1. \/ state' = state /\ pc' = [pc EXCEPT ![l] = "exited"]
          \/ state' = [state EXCEPT ![l] = "Ready"] /\ pc' = [pc EXCEPT ![l] = "loop"]
      BY <2>8, Zenon DEF WorkerPublish
    <3>2. "exited" # "asleep" /\ "loop" # "asleep"
      BY Zenon
    <3> QED
      BY <2>1a, <3>1, <3>2, Zenon
  <2> QED
    BY <1>10, <2>2, <2>3, <2>4, <2>5, <2>6, <2>7, <2>8, ZenonT(40) DEF Worker
<1>11. ASSUME UNCHANGED vars PROVE NoLostWakeup'
  BY <1>1, <1>11, Zenon DEF vars, lanes
<1> QED
  BY <1>1, <1>3, <1>4, <1>5, <1>6, <1>7, <1>8, <1>9, <1>10, <1>11, QuietFrame, Zenon
  DEF Next, Call, Continue, Terminated

(* No thread ever sleeps on a lane that was handed work, whatever the number *)
(* of lanes and of requests.                                                 *)
THEOREM WakeupSafe == Spec => []NoLostWakeup
<1>1. Init => NoLostWakeup
  BY Zenon DEF Init, NoLostWakeup
<1> QED
  BY <1>1, WakeupNext, Invariance, PTL DEF Spec

---------------------------------------------------------------------------
(* Draining strands no queued request. *)

(* A lane leaves service only when can_remove_worker says so, and a request  *)
(* is queued only when has_accepting_worker does.                            *)
LEMMA StrandedNext == Inv /\ NoStrandedWork /\ [Next]_vars => NoStrandedWork'
<1> SUFFICES ASSUME Inv, NoStrandedWork, [Next]_vars, ~Stopping' PROVE NoStrandedWork'
  BY DEF NoStrandedWork
<1>1. ASSUME ~Stopping, queue' \subseteq queue, UNCHANGED drain_requested PROVE NoStrandedWork'
  BY <1>1, Zenon DEF NoStrandedWork, has_accepting_worker
<1>2. ASSUME NEW l \in Lane, can_remove_worker(l), ~Stopping, queue' = queue,
             drain_requested' = [drain_requested EXCEPT ![l] = TRUE]
      PROVE  NoStrandedWork'
  BY <1>2 DEF NoStrandedWork, has_accepting_worker, can_remove_worker, Inv, TypeOK
<1>3. ASSUME NEW j \in Job, NEW t, SubmitRejected(j, t) PROVE NoStrandedWork'
  BY <1>1, <1>3 DEF SubmitRejected, lanes, supervision, Stopping
<1>4. ASSUME NEW j \in Job, NEW t, SubmitAccepted(j, t) PROVE NoStrandedWork'
  <2>1. ~Stopping /\ queue' = queue \cup {j} /\ UNCHANGED drain_requested
    BY <1>4, Zenon DEF SubmitAccepted, lanes, supervision, Stopping
  <2>2. has_accepting_worker(j)
    BY <1>4, Zenon DEF SubmitAccepted, SubmitVerdict
  <2> QED
    BY <2>1, <2>2, Zenon DEF NoStrandedWork, has_accepting_worker
<1>5. ASSUME \/ \E s \in Session, g \in CancelGenerations : cancel_before(s, g)
             \/ \E s \in Session : release_session(s)
             \/ CancelEnd \/ HandoffEnd \/ DispatchEnd \/ ready_result \/ ScanKeeps
             \/ release_ready_result
      PROVE  NoStrandedWork'
  BY <1>1, <1>5, Zenon DEF cancel_before, release_session, CancelEnd, HandoffEnd, DispatchEnd,
     ready_result, ScanKeeps, release_ready_result, lanes, supervision, Stopping
<1>6. ASSUME NEW l \in Lane, request_worker_drain(l) PROVE NoStrandedWork'
  BY <1>2, <1>6, Zenon DEF request_worker_drain, Stopping
<1>7. ASSUME NEW l \in Lane, resume_worker(l) \/ recover_worker(l) PROVE NoStrandedWork'
  <2>1. ~Stopping /\ queue' = queue /\ drain_requested' = [drain_requested EXCEPT ![l] = FALSE]
    BY <1>7, Zenon DEF resume_worker, recover_worker, ReturnToService, Stopping
  <2> QED
    BY <2>1 DEF NoStrandedWork, has_accepting_worker, Inv, TypeOK
<1>8. ASSUME NEW l \in Lane, CancelLane(l) \/ HandoffBack(l) PROVE NoStrandedWork'
  BY <1>1, <1>8, Zenon DEF CancelLane, HandoffBack, HandoffAt, supervision, Stopping
<1>9. ASSUME NEW l \in Lane, NEW d \in Lane, HandoffTo(l, d) PROVE NoStrandedWork'
  BY <1>1, <1>9, Zenon DEF HandoffTo, HandoffAt, supervision, Stopping
<1>10. ASSUME NEW c \in Lane, NEW l \in Lane, NEW j \in Job, DispatchLane(c, l, j)
       PROVE  NoStrandedWork'
  BY <1>1, <1>10 DEF DispatchLane, DispatchAt, supervision, Stopping
<1>11. ASSUME NEW c \in Lane, NEW l \in Lane, ScanFinds(c, l) PROVE NoStrandedWork'
  <2>1. ~Stopping /\ queue' = queue
    BY <1>11 DEF ScanFinds, Stopping
  <2>2. PICK removed \in BOOLEAN :
           /\ removed => can_remove_worker(l)
           /\ drain_requested' = [drain_requested EXCEPT ![l] = @ \/ removed]
    BY <1>11, Zenon DEF ScanFinds, MustQuarantine
  <2>3. CASE removed
    <3>1. drain_requested' = [drain_requested EXCEPT ![l] = TRUE]
      BY <2>2, <2>3, Zenon
    <3> QED
      BY <1>2, <2>1, <2>2, <2>3, <3>1, Zenon
  <2>4. CASE ~removed
    <3>1. drain_requested[l] \in BOOLEAN /\ drain_requested \in [Lane -> BOOLEAN]
      BY DEF Inv, TypeOK
    <3>2. drain_requested' = drain_requested
      BY <2>2, <2>4, <3>1, Zenon
    <3> QED
      BY <1>1, <2>1, <3>2, Zenon
  <2> QED
    BY <2>3, <2>4, Zenon
<1>12. ASSUME stop \/ StopLaneFlag \/ StopLaneWake \/ StopJoin PROVE FALSE
  BY <1>12 DEF stop, StopLaneFlag, StopLaneWake, StopJoin, coordinator, Stopping
<1>13. ASSUME NEW l \in Lane, Worker(l) PROVE NoStrandedWork'
  BY <1>1, <1>13, WorkerOwn, Zenon DEF coordinatorOwned, coordinator, supervision, Stopping
<1>14. ASSUME Tick \/ UNCHANGED vars PROVE NoStrandedWork'
  BY <1>1, <1>14, Zenon DEF Tick, vars, lanes, coordinator, supervision, Stopping
<1> QED
  BY <1>3, <1>4, <1>5, <1>6, <1>7, <1>8, <1>9, <1>10, <1>11, <1>12, <1>13, <1>14
  DEF Next, Call, Continue, Terminated

(* "Draining cannot strand accepted work" (docs/guides/verification.md:80)   *)
(* for what is still queued: neither drains nor quarantines take away the    *)
(* last lane in service that accepts a queued request.                       *)
THEOREM NothingStranded == Spec => []NoStrandedWork
<1>1. Init => NoStrandedWork
  BY DEF Init, NoStrandedWork
<1> QED
  BY <1>1, StrandedNext, Invariance, PTL DEF Spec

---------------------------------------------------------------------------
(* Every accepted request is in exactly one place. *)

(* A thread's step neither takes a job nor lets one go. *)
LEMMA WorkerHolds ==
  ASSUME Inv, ~Stopping, NEW l \in Lane, Worker(l), NEW m \in Lane
  PROVE  Held(m)' <=> Held(m)
<1>1. CASE WorkerLoop(l) \/ WorkerSleep(l) \/ WorkerBindFails(l)
  BY <1>1, Zenon DEF WorkerLoop, WorkerSleep, WorkerBindFails, Held
<1>2. CASE WorkerAbandon(l) \/ WorkerExportFails(l) \/ WorkerAdvance(l)
  BY <1>2, Zenon DEF WorkerAbandon, WorkerExportFails, WorkerAdvance, Held
<1>3. CASE WorkerStart(l)
  <2>1. state[l] = "Requested" /\ state' = [state EXCEPT ![l] = "Running"]
    BY <1>3, Zenon DEF WorkerStart
  <2> QED
    BY <2>1, Zenon DEF Inv, TypeOK, Held
<1>4. CASE WorkerExport(l)
  <2>1. pc[l] = "run" /\ state' = [state EXCEPT ![l] = "MigrationReady"]
    BY <1>4, Zenon DEF WorkerExport
  <2>2. state[l] = "Running"
    BY <2>1, Zenon DEF Inv, LaneStates
  <2> QED
    BY <2>1, <2>2, Zenon DEF Inv, TypeOK, Held
<1>5. CASE WorkerPublish(l)
  <2>1. pc[l] = "publish" /\ (state' = state \/ state' = [state EXCEPT ![l] = "Ready"])
    BY <1>5 DEF WorkerPublish
  <2>2. state[l] \in {"Requested", "Running"}
    BY <2>1, Zenon DEF Inv, LaneStates
  <2> QED
    BY <2>1, <2>2 DEF Inv, TypeOK, Held
<1> QED
  BY <1>1, <1>2, <1>3, <1>4, <1>5, Zenon DEF Worker

(* Requests move between queue, lanes and the caller, one place at a time. *)
LEMMA PlaceNext == Inv /\ OnePlace /\ [Next]_vars => OnePlace'
<1> SUFFICES ASSUME Inv, OnePlace, [Next]_vars, ~Stopping' PROVE OnePlace'
  BY Zenon DEF OnePlace
<1>1. ASSUME ~Stopping, UNCHANGED <<queue, request, outcome>>,
             \A m \in Lane : Held(m)' <=> Held(m)
      PROVE  OnePlace'
  BY <1>1 DEF OnePlace
<1>2. ASSUME ~Stopping, UNCHANGED <<queue, request, outcome, state>> PROVE OnePlace'
  BY <1>1, <1>2, Zenon DEF Held
<1>3. ASSUME NEW j \in Job, NEW t, SubmitRejected(j, t) PROVE OnePlace'
  <2>1. /\ ~Stopping /\ UNCHANGED <<queue, request, state>> /\ outcome[j] = "new"
        /\ \E r \in RejectCode : outcome' = [outcome EXCEPT ![j] = r]
    BY <1>3, VerdictType, Zenon DEF SubmitRejected, lanes, assignment, Stopping
  <2>2. \A i \in Job : outcome'[i] = "accepted" <=> outcome[i] = "accepted"
    BY <2>1, Zenon DEF Inv, TypeOK, RejectCode
  <2> QED
    BY <2>1, <2>2 DEF OnePlace, Held
<1>4. ASSUME NEW j \in Job, NEW t, SubmitAccepted(j, t) PROVE OnePlace'
  <2>1. /\ ~Stopping /\ UNCHANGED <<request, state>> /\ outcome[j] = "new"
        /\ queue' = queue \cup {j}
        /\ outcome' = [outcome EXCEPT ![j] = "accepted"]
    BY <1>4, ZenonT(40) DEF SubmitAccepted, lanes, assignment, Stopping
  <2>2. \A l \in Lane : Held(l) => request[l] # j
    BY <2>1, Zenon DEF OnePlace
  <2>3. /\ outcome'[j] = "accepted"
        /\ \A i \in Job \ {j} : outcome'[i] = outcome[i]
    BY <2>1, InvParts DEF HistoryType
  <2>4. \A i \in Job : outcome'[i] = "accepted"
           <=> i \in queue' \/ \E l \in Lane : Held(l)' /\ request'[l] = i
    <3> SUFFICES ASSUME NEW i \in Job
                 PROVE  outcome'[i] = "accepted"
                          <=> i \in queue' \/ \E l \in Lane : Held(l) /\ request[l] = i
      BY <2>1 DEF Held
    <3>1. CASE i = j
      BY <2>1, <2>3, <3>1, Zenon
    <3>2. CASE i # j
      BY <2>1, <2>3, <3>2, Zenon DEF OnePlace
    <3> QED
      BY <3>1, <3>2, Zenon
  <2>5. \A l \in Lane : Held(l) => request[l] \notin queue'
    BY <2>1, <2>2, Zenon DEF OnePlace
  <2> QED
    BY <2>1, <2>4, <2>5, Zenon DEF OnePlace, Held
<1>5. ASSUME \/ \E s \in Session, g \in CancelGenerations : cancel_before(s, g)
             \/ \E s \in Session : release_session(s)
             \/ CancelEnd \/ HandoffEnd \/ DispatchEnd \/ ready_result \/ ScanKeeps
      PROVE  OnePlace'
  BY <1>2, <1>5, Zenon DEF cancel_before, release_session, CancelEnd, HandoffEnd, DispatchEnd,
     ready_result, ScanKeeps, lanes, assignment, history, Stopping
<1>6. ASSUME NEW l \in Lane, request_worker_drain(l) PROVE OnePlace'
  <2>1. /\ ~Stopping /\ UNCHANGED <<queue, request, outcome>>
        /\ state' = state \/ (state[l] = "Idle" /\ state' = [state EXCEPT ![l] = "Drained"])
    BY <1>6, Zenon DEF request_worker_drain, history, Stopping
  <2> QED
    BY <1>1, <2>1, Zenon DEF Held, Inv, TypeOK
<1>7. ASSUME NEW l \in Lane, resume_worker(l) \/ recover_worker(l) PROVE OnePlace'
  <2>1. /\ ~Stopping /\ UNCHANGED <<queue, request, outcome>>
        /\ state[l] = "Drained" /\ state' = [state EXCEPT ![l] = "Idle"]
    BY <1>7, Zenon DEF resume_worker, recover_worker, ReturnToService, assignment, history, Stopping
  <2> QED
    BY <1>1, <2>1, Zenon DEF Held, Inv, TypeOK
<1>8. ASSUME release_ready_result PROVE OnePlace'
  <2>1. /\ ~Stopping /\ UNCHANGED <<queue, request>>
        /\ ready_index \in Lane /\ state[ready_index] = "Ready"
        /\ outcome' = [outcome EXCEPT ![request[ready_index]] = result[ready_index]]
        /\ \/ state' = [state EXCEPT ![ready_index] = "Drained"]
           \/ state' = [state EXCEPT ![ready_index] = "Idle"]
    BY <1>8, Zenon DEF release_ready_result, Stopping, Inv, TypeOK, LaneStates
  <2>2. request[ready_index] \in Job /\ result[ready_index] \in ResultCode
    BY <2>1, Zenon DEF Inv, LaneStates, Held
  <2>3. outcome'[request[ready_index]] # "accepted"
    <3>1. "accepted" \notin ResultCode
      BY DEF ResultCode
    <3>2. outcome'[request[ready_index]] = result[ready_index]
      BY <2>1, <2>2, Zenon DEF Inv, TypeOK
    <3> QED
      BY <2>2, <3>1, <3>2, Zenon
  <2>4. \A m \in Lane : Held(m)' <=> Held(m) /\ m # ready_index
    BY <2>1 DEF Held, Inv, TypeOK
  <2>5. Held(ready_index)
    BY <2>1, Zenon DEF Held
  <2>6. \A i \in Job : i # request[ready_index] => outcome'[i] = outcome[i]
    BY <2>1, Zenon DEF Inv, TypeOK
  <2>7. /\ \A j \in Job : outcome[j] = "accepted"
                 <=> j \in queue \/ \E l \in Lane : Held(l) /\ request[l] = j
        /\ \A l \in Lane : Held(l) => request[l] \notin queue
        /\ \A l, m \in Lane : Held(l) /\ Held(m) /\ request[l] = request[m] => l = m
    BY <2>1, Zenon DEF OnePlace
  <2>8. \A j \in Job : outcome'[j] = "accepted"
           <=> j \in queue' \/ \E l \in Lane : Held(l)' /\ request'[l] = j
    <3> SUFFICES ASSUME NEW j \in Job
                 PROVE  outcome'[j] = "accepted"
                          <=> j \in queue \/ \E l \in Lane : Held(l)' /\ request[l] = j
      BY <2>1, Zenon
    <3>1. CASE j = request[ready_index]
      <4>1. j \notin queue
        BY <2>1, <2>5, <2>7, <3>1, Zenon
      <4>2. \A l \in Lane : Held(l)' => request[l] # j
        BY <2>1, <2>4, <2>5, <2>7, <3>1, Zenon
      <4> QED
        BY <2>3, <3>1, <4>1, <4>2, Zenon
    <3>2. CASE j # request[ready_index]
      <4>1. \A l \in Lane : request[l] = j => (Held(l)' <=> Held(l))
        BY <2>4, <3>2
      <4>2. outcome'[j] = outcome[j]
        BY <2>6, <3>2
      <4> QED
        BY <2>7, <4>1, <4>2
    <3> QED
      BY <3>1, <3>2, Zenon
  <2> QED
    BY <2>1, <2>4, <2>7, <2>8, Zenon DEF OnePlace
<1>9. ASSUME NEW l \in Lane, CancelLane(l) PROVE OnePlace'
  BY <1>2, <1>9, Zenon DEF CancelLane, assignment, Stopping
<1>10. ASSUME NEW l \in Lane, HandoffBack(l) PROVE OnePlace'
  <2>1. /\ ~Stopping /\ UNCHANGED <<queue, request, outcome>>
        /\ state[l] = "MigrationReady" /\ state' = [state EXCEPT ![l] = "Requested"]
    BY <1>10 DEF HandoffBack, HandoffAt, HandoffActs, assignment, history, Stopping
  <2> QED
    BY <1>1, <2>1, Zenon DEF Held, Inv, TypeOK
<1>11. ASSUME NEW l \in Lane, NEW d \in Lane, HandoffTo(l, d) PROVE OnePlace'
  <2>1. /\ ~Stopping /\ UNCHANGED <<queue, outcome>>
        /\ l # d /\ state[l] = "MigrationReady" /\ state[d] = "Idle"
        /\ request' = [request EXCEPT ![d] = request[l]]
        /\ state' = [state EXCEPT ![l] = "Drained", ![d] = "Requested"]
    BY <1>11, Zenon DEF HandoffTo, HandoffAt, HandoffActs, IdleTargets, HandoffTargets, Stopping
  <2>2. /\ Held(l) /\ ~Held(d) /\ Held(d)' /\ ~Held(l)'
        /\ request'[d] = request[l]
        /\ \A m \in Lane \ {l, d} : (Held(m)' <=> Held(m)) /\ request'[m] = request[m]
    BY <2>1, Zenon DEF Held, Inv, TypeOK
  <2>3. /\ \A j \in Job : outcome[j] = "accepted"
                 <=> j \in queue \/ \E m \in Lane : Held(m) /\ request[m] = j
        /\ \A m \in Lane : Held(m) => request[m] \notin queue
        /\ \A m, n \in Lane : Held(m) /\ Held(n) /\ request[m] = request[n] => m = n
    BY <2>1 DEF OnePlace
  <2>4. \A j \in Job : (\E m \in Lane : Held(m)' /\ request'[m] = j)
                          <=> \E m \in Lane : Held(m) /\ request[m] = j
    BY <2>1, <2>2
  <2>5. \A m, n \in Lane : Held(m)' /\ Held(n)' /\ request'[m] = request'[n] => m = n
    BY <2>2, <2>3, Zenon
  <2>6. \A m \in Lane : Held(m)' => request'[m] \notin queue
    BY <2>2, <2>3
  <2> QED
    BY <2>1, <2>3, <2>4, <2>5, <2>6 DEF OnePlace
<1>12. ASSUME NEW c \in Lane, NEW l \in Lane, NEW j \in Job, DispatchLane(c, l, j)
       PROVE  OnePlace'
  <2>1. /\ ~Stopping /\ UNCHANGED outcome
        /\ state[l] = "Idle" /\ j \in queue /\ queue' = queue \ {j}
        /\ request' = [request EXCEPT ![l] = j]
        /\ \/ state' = [state EXCEPT ![l] = "Ready"]
           \/ state' = [state EXCEPT ![l] = "Requested"]
    BY <1>12, Zenon DEF DispatchLane, DispatchAt, DispatchActs, Dispatchable, Stopping
  <2>2. /\ ~Held(l) /\ Held(l)' /\ request'[l] = j
        /\ \A m \in Lane \ {l} : (Held(m)' <=> Held(m)) /\ request'[m] = request[m]
    BY <2>1, ZenonT(40) DEF Held, Inv, TypeOK
  <2>3. /\ \A i \in Job : outcome[i] = "accepted"
                 <=> i \in queue \/ \E m \in Lane : Held(m) /\ request[m] = i
        /\ \A m \in Lane : Held(m) => request[m] \notin queue
        /\ \A m, n \in Lane : Held(m) /\ Held(n) /\ request[m] = request[n] => m = n
    BY <2>1, Zenon DEF OnePlace
  <2>4. \A i \in Job : outcome'[i] = "accepted"
           <=> i \in queue' \/ \E m \in Lane : Held(m)' /\ request'[m] = i
    <3> SUFFICES ASSUME NEW i \in Job
                 PROVE  outcome[i] = "accepted"
                          <=> i \in queue' \/ \E m \in Lane : Held(m)' /\ request'[m] = i
      BY <2>1, Zenon
    <3>1. CASE i = j
      BY <2>1, <2>2, <2>3, <3>1, ZenonT(40)
    <3>2. CASE i # j
      <4>1. i \in queue' <=> i \in queue
        BY <2>1, <3>2
      <4>2. \A m \in Lane : Held(m)' /\ request'[m] = i <=> Held(m) /\ request[m] = i
        BY <2>2, <3>2, Zenon
      <4> QED
        BY <2>3, <4>1, <4>2
    <3> QED
      BY <3>1, <3>2, Zenon
  <2>5. ASSUME NEW m \in Lane, NEW n \in Lane, Held(m)', Held(n)', request'[m] = request'[n]
        PROVE  m = n
    <3>1. ASSUME NEW i \in Lane, Held(i)', i # l PROVE Held(i) /\ request'[i] = request[i]
      BY <2>2, <3>1, Zenon
    <3>2. ASSUME NEW i \in Lane, Held(i)', i # l PROVE request'[i] # j
      <4>1. request[i] \notin queue /\ request'[i] = request[i]
        BY <2>3, <3>1, <3>2, Zenon
      <4>2. j \in queue
        BY <2>1, Zenon
      <4> QED
        BY <4>1, <4>2, Zenon
    <3>3. CASE m # l /\ n # l
      <4>1. Held(m) /\ Held(n) /\ request[m] = request[n]
        BY <2>5, <3>1, <3>3, Zenon
      <4> QED
        BY <2>3, <4>1, Zenon
    <3>4. CASE m = l
      BY <2>2, <2>5, <3>2, <3>4, Zenon
    <3>5. CASE n = l
      BY <2>2, <2>5, <3>2, <3>5, Zenon
    <3> QED
      BY <3>3, <3>4, <3>5, Zenon
  <2>6. ASSUME NEW m \in Lane, Held(m)' PROVE request'[m] \notin queue'
    <3>1. CASE m = l
      <4>1. request'[m] = j
        BY <2>2, <3>1, Zenon
      <4>2. queue' = queue \ {j}
        BY <2>1, Zenon
      <4> QED
        BY <4>1, <4>2, Zenon
    <3>2. CASE m # l
      <4>1. request'[m] = request[m] /\ request[m] \notin queue
        BY <2>2, <2>3, <2>6, <3>2, Zenon
      <4>2. queue' = queue \ {j}
        BY <2>1, Zenon
      <4> QED
        BY <4>1, <4>2, Zenon
    <3> QED
      BY <3>1, <3>2, Zenon
  <2> QED
    BY <2>4, <2>5, <2>6, Zenon DEF OnePlace
<1>13. ASSUME NEW c \in Lane, NEW l \in Lane, ScanFinds(c, l) PROVE OnePlace'
  BY <1>2, <1>13, Zenon DEF ScanFinds, Stopping
<1>14. ASSUME stop \/ StopLaneFlag \/ StopLaneWake \/ StopJoin PROVE FALSE
  BY <1>14 DEF stop, StopLaneFlag, StopLaneWake, StopJoin, coordinator, Stopping
<1>15. ASSUME NEW l \in Lane, Worker(l) PROVE OnePlace'
  <2>1. ~Stopping /\ UNCHANGED <<queue, request, outcome>>
    BY <1>15, WorkerOwn, Zenon DEF coordinatorOwned, coordinator, assignment, Stopping
  <2> QED
    BY <1>1, <1>15, <2>1, WorkerHolds
<1>16. ASSUME Tick \/ UNCHANGED vars PROVE OnePlace'
  BY <1>2, <1>16, Zenon DEF Tick, vars, lanes, coordinator, assignment, history, Stopping
<1> QED
  BY <1>3, <1>4, <1>5, <1>6, <1>7, <1>8, <1>9, <1>10, <1>11, <1>12, <1>13, <1>14, <1>15, <1>16, Zenon
  DEF Next, Call, Continue, Terminated

(* No accepted request is lost or held twice, whatever the number of lanes:  *)
(* dispatch, handoff, cancellation, drain and quarantine move it, only       *)
(* release_ready_result ends it.                                             *)
THEOREM PlaceUnique == Spec => []OnePlace
<1>1. Init => OnePlace
  BY DEF Init, OnePlace, Held
<1> QED
  BY <1>1, PlaceNext, Invariance, PTL DEF Spec
=============================================================================
