--------------------------- MODULE JobWorkerPool ---------------------------
(* The generic Relay worker pool: src/relay/worker/job_worker_pool.cc (the   *)
(* coordinator's calls), job_worker_pool_runtime.cc (run_slot, one thread    *)
(* per lane), and the CooperativeJob calls run_slot makes.                   *)
(*                                                                           *)
(* One coordinator thread calls the pool; it is at "rest" between calls. A   *)
(* call that loops over the lanes (cancel_before, handoff_migrations, the    *)
(* dispatch loop of pump) takes one step per lane it acts on, so that the    *)
(* worker threads move between its iterations: `phase' is the loop the call  *)
(* is in and `k' the next index. Worker steps end where the thread stores a  *)
(* value the coordinator reads, or reads one the coordinator stores. Atomics *)
(* are sequentially consistent here.                                         *)
(*                                                                           *)
(* Every variable that is a function of Lane is a field of the code's Slot,  *)
(* under its name there, except pc and completed (locals of run_slot).       *)
(* Timestamps, event payloads and statistics are left out.                   *)
EXTENDS JobAdmission

CONSTANTS
    Session,            \* session identifiers, 0 included
    QueueCapacity,      \* queue_storage_.size()
    MaxSessions,        \* sessions_.size()
    InteractiveReserve, \* JobQosPolicy
    CriticalReserve,
    MigrationCapacity,  \* migration_capacity_bytes_: 0 keeps drain local
    FailureThreshold,   \* WorkerSupervisionPolicy: 0 disables quarantine
    Calls,              \* the calls the coordinator's environment makes
    Faults,             \* the backend callbacks that may fail
    CancelGenerations,  \* bound: the generations cancel_before is called with
    MaxTime             \* bound: the last value of the clock

(* create() refuses anything else. *)
ASSUME PoolAssumption ==
    /\ NumLanes \in 1 .. 8
    /\ QueueCapacity \in Nat \ {0}
    /\ MaxSessions \in Nat \ {0}
    /\ WorkQuantum \in Nat \ {0}
    /\ InteractiveReserve \in Nat
    /\ CriticalReserve \in Nat
    /\ InteractiveReserve + CriticalReserve < QueueCapacity
    /\ MigrationCapacity \in Nat
    /\ FailureThreshold \in Nat
    /\ Calls \subseteq {"cancel", "release", "drain", "stop"}
    /\ Faults \subseteq {"bind", "start", "advance", "export", "result"}
    /\ CancelGenerations \subseteq Nat
    /\ MaxTime \in Nat \ {0}

(* What JobRequestMessage carries; total_work_units is positive in every     *)
(* valid descriptor.                                                         *)
ASSUME RequestAssumption ==
    /\ MaxU64 \in Nat
    /\ Job \subseteq Nat
    /\ Session \subseteq Nat
    /\ \A j \in Job :
        /\ Request[j].session \in Session
        /\ Request[j].generation \in Nat
        /\ Request[j].class \in {BestEffort, Interactive, Critical}
        /\ Request[j].deadline \in Nat
        /\ Request[j].total \in Nat \ {0}
        /\ Request[j].valid \in BOOLEAN

NoJob == -1
NoLane == -1
Unset == -1             \* a session without a SessionWatermark entry

LaneState == {"Idle", "Requested", "Running", "MigrationReady", "Ready", "Drained"}

(* The results a lane can hold, and those submit() rejects with. *)
ResultCode == {"Complete", "Cancelled", "Failed", "RejectedStale", "RejectedDeadline"}
RejectCode == {"InvalidRequest", "AdapterNotFound", "RejectedCapacity",
               "RejectedStale", "RejectedQos", "RejectedDeadline"}

VARIABLES
    queue,              \* queue_order_: the queued requests (their order is earlier())
    watermark,          \* sessions_: session -> generation, or Unset
    phase, k,           \* the coordinator's place in the current call
    target,             \* the session cancel_before is working on, or Unset
    repump,             \* submit's own pump() is still to come after cancel_before's
    dispatch_cursor, ready_cursor, ready_index,
    now,                \* the monotonic clock
    state, request, drain_requested, migrate_requested, stop_requested,
    tag,                \* session_id and generation, as the request they come from
    cancel_generation, remaining_work_units, migration_source, quarantined,
    resume_bytes,       \* a capsule is waiting to be restored
    migration_storage,  \* the capsule, until it is copied away or restored: its
                        \* descriptor and completed_work_units
    result, execution_failed, events_published, consecutive_failures,
    pc, completed,
    outcome,            \* history: what became of each request
    event,              \* history: the last JobEvent emitted for each request
    executed,           \* history: work units its backends advanced
    handoffs            \* history: lane-to-lane moves of each request

cursors == <<dispatch_cursor, ready_cursor, ready_index>>
coordinator == <<phase, k, target, repump, cursors>>
assignment == <<request, tag, events_published>>
supervision == <<drain_requested, quarantined, consecutive_failures>>
signals == <<migrate_requested, stop_requested, cancel_generation>>
capsules == <<migration_storage, migration_source, resume_bytes>>
execution == <<result, execution_failed, completed>>
lanes == <<state, pc, remaining_work_units, assignment, supervision, signals, capsules, execution>>
history == <<outcome, event, executed, handoffs>>
vars == <<queue, watermark, coordinator, now, lanes, history>>

NoCapsule == [job |-> NoJob, completed |-> 0]

Init ==
    /\ queue = {}
    /\ watermark = [s \in Session |-> Unset]
    /\ phase = "rest" /\ k = 0
    /\ target = Unset
    /\ repump = FALSE
    /\ dispatch_cursor = 0 /\ ready_cursor = 0 /\ ready_index = NoLane
    /\ now = 1
    /\ state = [l \in Lane |-> "Idle"]
    /\ request = [l \in Lane |-> NoJob]
    /\ tag = [l \in Lane |-> NoJob]
    /\ drain_requested = [l \in Lane |-> FALSE]
    /\ quarantined = [l \in Lane |-> FALSE]
    /\ consecutive_failures = [l \in Lane |-> 0]
    /\ migrate_requested = [l \in Lane |-> FALSE]
    /\ stop_requested = [l \in Lane |-> FALSE]
    /\ cancel_generation = [l \in Lane |-> 0]
    /\ remaining_work_units = [l \in Lane |-> 0]
    /\ migration_storage = [l \in Lane |-> NoCapsule]
    /\ migration_source = [l \in Lane |-> NoLane]
    /\ resume_bytes = [l \in Lane |-> FALSE]
    /\ result = [l \in Lane |-> "None"]
    /\ execution_failed = [l \in Lane |-> FALSE]
    /\ events_published = [l \in Lane |-> FALSE]
    /\ pc = [l \in Lane |-> "loop"]
    /\ completed = [l \in Lane |-> 0]
    /\ outcome = [j \in Job |-> "new"]
    /\ event = [j \in Job |-> "None"]
    /\ executed = [j \in Job |-> 0]
    /\ handoffs = [j \in Job |-> 0]

---------------------------------------------------------------------------
(* Queries. *)

SessionId(l) == IF tag[l] = NoJob THEN 0 ELSE Request[tag[l]].session
Generation(l) == IF tag[l] = NoJob THEN 0 ELSE Request[tag[l]].generation

stale(j) == Request[j].generation < watermark[Request[j].session]

expired(j) == Request[j].deadline # 0 /\ Request[j].deadline <= now

supports_any(j) == \E l \in Lane : registration_accepts(l, j)

has_accepting_worker(j) ==
    \E l \in Lane : ~drain_requested[l] /\ registration_accepts(l, j)

HasFreeSession == Cardinality({s \in Session : watermark[s] # Unset}) < MaxSessions

has_session_capacity(s) == watermark[s] # Unset \/ HasFreeSession

reserved_slots(class) ==
    CASE class = BestEffort -> InteractiveReserve + CriticalReserve
      [] class = Interactive -> CriticalReserve
      [] class = Critical -> 0

has_qos_capacity(class) == QueueCapacity - Cardinality(queue) > reserved_slots(class)

(* Mutant: a lane that is draining itself counts as a replacement. *)
CanRemoveIgnoringDrain(l) ==
    \A j \in queue : registration_accepts(l, j) =>
        \E m \in Lane \ {l} : ~quarantined[m] /\ registration_accepts(m, j)

(* A lane may leave service only if every queued request it accepts has      *)
(* another lane in service.                                                  *)
can_remove_worker(l) ==
    \A j \in queue : registration_accepts(l, j) =>
        \E m \in Lane \ {l} : /\ ~quarantined[m]
                              /\ ~drain_requested[m]
                              /\ registration_accepts(m, j)

(* Workers only ever shorten what a lane has left, each its own lane's, so   *)
(* the lane-by-lane reads of the code amount to one read of all lanes.       *)
admissible(j, now_ns) ==
    LET deadline == Request[j].deadline
        active == {l \in Lane : ~drain_requested[l] /\ state[l] \notin {"Idle", "Ready"}}
        available_at ==
            [l \in Lane |-> IF drain_requested[l] \/ state[l] = "Ready" THEN MaxU64
                            ELSE IF state[l] = "Idle" THEN now_ns
                            ELSE BusyUntil(now_ns, request[l], remaining_work_units[l], j)]
        superseded(q) == /\ Request[q].session = Request[j].session
                         /\ Request[q].generation < Request[j].generation
        competing == {q \in queue : ~stale(q) /\ Request[q].deadline # 0 /\ ~superseded(q)}
    IN  \/ cost(j) = 0 \/ now_ns = 0 \/ deadline = 0
        \/ /\ deadline > now_ns
           /\ \/ \E l \in active : cost(request[l]) = 0
              \/ Schedulable(competing \cup {j}, available_at)

(* The decision list of submit(), in its order. *)
SubmitVerdict(j, now_ns) ==
    IF ~Request[j].valid THEN "InvalidRequest"
    ELSE IF ~supports_any(j) THEN "AdapterNotFound"
    ELSE IF ~has_accepting_worker(j) THEN "RejectedCapacity"
    ELSE IF stale(j) THEN "RejectedStale"
    ELSE IF \/ ~has_session_capacity(Request[j].session)
            \/ Cardinality(queue) = QueueCapacity THEN "RejectedCapacity"
    ELSE IF ~has_qos_capacity(Request[j].class) THEN "RejectedQos"
    ELSE IF ~admissible(j, now_ns) THEN "RejectedDeadline"
    ELSE "Accepted"

(* Mutant: the store is not followed by notify_one. *)
NotifiedNobody(S) == pc

(* store + notify_one on a lane's state wakes its thread if it sleeps in     *)
(* wait; the thread looks at the state again.                                *)
Notified(S) == [l \in Lane |-> IF l \in S /\ pc[l] = "asleep" THEN "loop" ELSE pc[l]]

(* Round-robin successor of a lane. Mutant: without the wrap-around. *)
NextLaneUnwrapped(l) == l + 1
NextLane(l) == (l + 1) % NumLanes

PumpStart == IF MigrationCapacity # 0 THEN "handoff" ELSE "dispatch"

EnterPump == phase' = PumpStart /\ k' = 0

---------------------------------------------------------------------------
(* The coordinator's calls. *)

SubmitRejected(j, now_ns) ==
    /\ phase = "rest"
    /\ outcome[j] = "new"
    /\ SubmitVerdict(j, now_ns) # "Accepted"
    /\ outcome' = [outcome EXCEPT ![j] = SubmitVerdict(j, now_ns)]
    /\ event' = [event EXCEPT ![j] = SubmitVerdict(j, now_ns)]
    /\ UNCHANGED <<queue, watermark, coordinator, now, lanes, executed, handoffs>>

(* A request that raises its session's watermark cancels the session's older *)
(* work before it is pumped.                                                 *)
SubmitAccepted(j, now_ns) ==
    LET s == Request[j].session
        g == Request[j].generation
        raises == watermark[s] # Unset /\ g > watermark[s]
    IN  /\ phase = "rest"
        /\ outcome[j] = "new"
        /\ SubmitVerdict(j, now_ns) = "Accepted"
        /\ queue' = queue \cup {j}
        /\ outcome' = [outcome EXCEPT ![j] = "accepted"]
        /\ event' = [event EXCEPT ![j] = "Admitted"]
        /\ watermark' = [watermark EXCEPT ![s] = IF @ < g THEN g ELSE @]
        /\ IF raises THEN phase' = "cancel" /\ k' = 0 ELSE EnterPump
        /\ target' = IF raises THEN s ELSE Unset
        /\ repump' = raises
        /\ UNCHANGED <<cursors, now, lanes, executed, handoffs>>

cancel_before(s, g) ==
    /\ phase = "rest"
    /\ has_session_capacity(s)
    /\ watermark' = [watermark EXCEPT ![s] = IF @ < g THEN g ELSE @]
    /\ phase' = "cancel" /\ k' = 0
    /\ target' = s
    /\ UNCHANGED <<queue, repump, cursors, now, lanes, history>>

(* Mutant: only the queue is looked at. *)
SessionQueued(s) == \E j \in queue : Request[j].session = s

(* release_session finds the session still in use. Drained lanes carry       *)
(* session_id 0.                                                             *)
SessionInUse(s) ==
    \/ \E j \in queue : Request[j].session = s
    \/ \E l \in Lane : state[l] # "Idle" /\ SessionId(l) = s

release_session(s) ==
    /\ phase = "rest"
    /\ watermark[s] # Unset
    /\ ~SessionInUse(s)
    /\ watermark' = [watermark EXCEPT ![s] = Unset]
    /\ UNCHANGED <<queue, coordinator, now, lanes, history>>

(* A drained lane's job may be exported, unless it came by handoff itself. *)
MayExport(l) ==
    /\ state[l] \in {"Requested", "Running"}
    /\ migration_source[l] = NoLane
    /\ MigrationCapacity # 0

request_worker_drain(l) ==
    LET has_target == \E m \in Lane \ {l} : /\ ~drain_requested[m]
                                            /\ registration_accepts(m, request[l])
    IN  /\ phase = "rest"
        /\ ~drain_requested[l]
        /\ can_remove_worker(l)
        /\ drain_requested' = [drain_requested EXCEPT ![l] = TRUE]
        /\ IF state[l] = "Idle"
           THEN /\ state' = [state EXCEPT ![l] = "Drained"]
                /\ tag' = [tag EXCEPT ![l] = NoJob]
                /\ pc' = Notified({l})
                /\ UNCHANGED <<phase, k, migrate_requested>>
           ELSE /\ IF MayExport(l)
                   THEN migrate_requested' = [migrate_requested EXCEPT ![l] = has_target]
                   ELSE UNCHANGED migrate_requested
                /\ EnterPump
                /\ UNCHANGED <<state, pc, tag>>
        /\ UNCHANGED <<queue, watermark, target, repump, cursors, now, remaining_work_units,
                       request, events_published, quarantined, consecutive_failures,
                       stop_requested, cancel_generation, capsules, execution, history>>

(* Mutant: a lane returns to service without pump(). *)
ReturnWithoutPump(l) ==
    /\ migrate_requested' = [migrate_requested EXCEPT ![l] = FALSE]
    /\ drain_requested' = [drain_requested EXCEPT ![l] = FALSE]
    /\ state' = [state EXCEPT ![l] = "Idle"]
    /\ pc' = Notified({l})
    /\ UNCHANGED <<phase, k, queue, watermark, target, repump, cursors, now, remaining_work_units,
                   assignment, stop_requested, cancel_generation, capsules, execution, history>>

(* The common tail of resume_worker and recover_worker. *)
ReturnToService(l) ==
    /\ migrate_requested' = [migrate_requested EXCEPT ![l] = FALSE]
    /\ drain_requested' = [drain_requested EXCEPT ![l] = FALSE]
    /\ state' = [state EXCEPT ![l] = "Idle"]
    /\ pc' = Notified({l})
    /\ EnterPump
    /\ UNCHANGED <<queue, watermark, target, repump, cursors, now, remaining_work_units,
                   assignment, stop_requested, cancel_generation, capsules, execution, history>>

(* Mutant: resume_worker also takes a quarantined lane back. *)
ResumeAnyWorker(l) ==
    /\ phase = "rest"
    /\ state[l] = "Drained"
    /\ quarantined' = [quarantined EXCEPT ![l] = FALSE]
    /\ ReturnToService(l)
    /\ UNCHANGED consecutive_failures

resume_worker(l) ==
    /\ phase = "rest"
    /\ ~quarantined[l]
    /\ state[l] = "Drained"
    /\ ReturnToService(l)
    /\ UNCHANGED <<quarantined, consecutive_failures>>

recover_worker(l) ==
    /\ phase = "rest"
    /\ quarantined[l]
    /\ state[l] = "Drained"
    /\ consecutive_failures' = [consecutive_failures EXCEPT ![l] = 0]
    /\ quarantined' = [quarantined EXCEPT ![l] = FALSE]
    /\ ReturnToService(l)

---------------------------------------------------------------------------
(* The loop of cancel_before over the lanes. *)

(* Mutants: a lane's state is not looked at; a capsule in transit is missed. *)
CancelHitsAnyState(l) == SessionId(l) = target /\ Generation(l) < watermark[target]

CancelMissesCapsule(l) ==
    /\ SessionId(l) = target
    /\ Generation(l) < watermark[target]
    /\ state[l] \in {"Requested", "Running", "Ready"}

CancelHits(l) ==
    /\ SessionId(l) = target
    /\ Generation(l) < watermark[target]
    /\ state[l] \in {"Requested", "Running", "MigrationReady", "Ready"}

(* A busy lane is told to stop at its next work boundary; a result that has  *)
(* not been released turns into a stale rejection.                           *)
CancelLane(l) ==
    /\ phase = "cancel"
    /\ l >= k
    /\ CancelHits(l)
    /\ \A m \in Lane : m >= k /\ m < l => ~CancelHits(m)
    /\ k' = l + 1
    /\ IF state[l] = "Ready"
       THEN /\ result' = [result EXCEPT ![l] = "RejectedStale"]
            /\ UNCHANGED <<cancel_generation, event>>
       ELSE /\ cancel_generation' =
                   [cancel_generation EXCEPT ![l] = IF @ < watermark[target] THEN watermark[target]
                                                                             ELSE @]
            /\ event' = [event EXCEPT ![request[l]] = "Preempted"]
            /\ UNCHANGED result
    /\ UNCHANGED <<queue, watermark, phase, target, repump, cursors, now, state, pc,
                   remaining_work_units, assignment, supervision, migrate_requested,
                   stop_requested, capsules, execution_failed, completed, outcome, executed,
                   handoffs>>

CancelEnd ==
    /\ phase = "cancel"
    /\ \A l \in Lane : l >= k => ~CancelHits(l)
    /\ target' = Unset
    /\ EnterPump
    /\ UNCHANGED <<queue, watermark, repump, cursors, now, lanes, history>>

---------------------------------------------------------------------------
(* handoff_migrations, called by pump (phase "handoff") and by ready_result  *)
(* (phase "poll").                                                           *)

(* Mutant: a lane that is draining counts as a target. *)
HandoffTargetsDraining(l) == {m \in Lane \ {l} : registration_accepts(m, request[l])}

(* Every lane reserves the same capsule storage, so a capsule that fits its  *)
(* source fits every candidate.                                              *)
HandoffTargets(l) ==
    {m \in Lane \ {l} : ~drain_requested[m] /\ registration_accepts(m, request[l])}

(* Mutant: the target's state is not looked at. *)
BusyTargets(l) == HandoffTargets(l)

IdleTargets(l) == {m \in HandoffTargets(l) : state[m] = "Idle"}

(* Mutant: a capsule without any target is left waiting. *)
HandoffActsOnTarget(l) == state[l] = "MigrationReady" /\ IdleTargets(l) # {}

(* The loop passes over a lane with no capsule, or whose targets are busy. *)
HandoffActs(l) ==
    /\ state[l] = "MigrationReady"
    /\ HandoffTargets(l) = {} \/ IdleTargets(l) # {}

HandoffAt(l) ==
    /\ phase \in {"handoff", "poll"}
    /\ l >= k
    /\ HandoffActs(l)
    /\ \A m \in Lane : m >= k /\ m < l => ~HandoffActs(m)
    /\ k' = l + 1

(* No lane could take the capsule: the source restores it itself. *)
HandoffBack(l) ==
    /\ HandoffAt(l)
    /\ HandoffTargets(l) = {}
    /\ resume_bytes' = [resume_bytes EXCEPT ![l] = TRUE]
    /\ migrate_requested' = [migrate_requested EXCEPT ![l] = FALSE]
    /\ state' = [state EXCEPT ![l] = "Requested"]
    /\ pc' = Notified({l})
    /\ UNCHANGED <<queue, watermark, phase, target, repump, cursors, now, remaining_work_units,
                   assignment, supervision, stop_requested, cancel_generation, migration_storage,
                   migration_source, execution, history>>

(* The first idle target takes the job over and the source is drained. *)
HandoffTo(l, d) ==
    /\ HandoffAt(l)
    /\ d \in IdleTargets(l)
    /\ \A m \in IdleTargets(l) : d <= m
    /\ migration_storage' =
           [migration_storage EXCEPT ![d] = migration_storage[l], ![l] = NoCapsule]
    /\ request' = [request EXCEPT ![d] = request[l]]
    /\ tag' = [tag EXCEPT ![d] = tag[l], ![l] = NoJob]
    /\ remaining_work_units' =
           [remaining_work_units EXCEPT ![d] = remaining_work_units[l], ![l] = 0]
    /\ cancel_generation' = [cancel_generation EXCEPT ![d] = cancel_generation[l]]
    /\ resume_bytes' = [resume_bytes EXCEPT ![d] = TRUE]
    /\ migration_source' = [migration_source EXCEPT ![d] = l]
    /\ events_published' = [events_published EXCEPT ![d] = FALSE]
    /\ execution_failed' = [execution_failed EXCEPT ![d] = FALSE]
    /\ state' = [state EXCEPT ![l] = "Drained", ![d] = "Requested"]
    /\ pc' = Notified({l, d})
    /\ handoffs' = [handoffs EXCEPT ![request[l]] = @ + 1]
    /\ UNCHANGED <<queue, watermark, phase, target, repump, cursors, now, supervision,
                   migrate_requested, stop_requested, result, completed, outcome, event,
                   executed>>

HandoffEnd ==
    /\ phase \in {"handoff", "poll"}
    /\ \A l \in Lane : l >= k => ~HandoffActs(l)
    /\ phase' = IF phase = "poll" THEN "scan" ELSE "dispatch"
    /\ k' = 0
    /\ UNCHANGED <<queue, watermark, target, repump, cursors, now, lanes, history>>

---------------------------------------------------------------------------
(* The dispatch loop of pump, with dispatch_one. *)

(* Any lane may carry the rejection of a stale or expired request. *)
Dispatchable(l) == {j \in queue : stale(j) \/ expired(j) \/ registration_accepts(l, j)}

(* dispatch_one(l) would find a request. *)
DispatchActs(l) == /\ ~drain_requested[l]
                   /\ state[l] = "Idle"
                   /\ Dispatchable(l) # {}

(* index = (dispatch_cursor_ + checked) % slots_.size() *)
DispatchIndex(checked) == (dispatch_cursor + checked) % NumLanes

(* k is the loop's `checked'. A dispatch moves dispatch_cursor_, and with it *)
(* the lanes the later iterations look at.                                   *)
DispatchAt(checked, l) ==
    /\ phase = "dispatch"
    /\ checked >= k
    /\ l = DispatchIndex(checked)
    /\ DispatchActs(l)
    /\ \A c \in k .. checked - 1 : ~DispatchActs(DispatchIndex(c))
    /\ k' = checked + 1
    /\ dispatch_cursor' = NextLane(l)

(* The earliest request the lane can take goes to it: straight to a rejected *)
(* result when it is stale or expired, else to the lane's thread.            *)
DispatchLane(checked, l, j) ==
    /\ DispatchAt(checked, l)
    /\ j \in Dispatchable(l)
    /\ \A i \in Dispatchable(l) \ {j} : earlier(j, i)
    /\ queue' = queue \ {j}
    /\ request' = [request EXCEPT ![l] = j]
    /\ tag' = [tag EXCEPT ![l] = j]
    /\ remaining_work_units' = [remaining_work_units EXCEPT ![l] = Request[j].total]
    /\ cancel_generation' = [cancel_generation EXCEPT ![l] = 0]
    /\ resume_bytes' = [resume_bytes EXCEPT ![l] = FALSE]
    /\ migration_source' = [migration_source EXCEPT ![l] = NoLane]
    /\ migrate_requested' = [migrate_requested EXCEPT ![l] = FALSE]
    /\ events_published' = [events_published EXCEPT ![l] = FALSE]
    /\ event' = [event EXCEPT ![j] = "Dispatched"]
    /\ IF stale(j) \/ expired(j)
       THEN /\ result' = [result EXCEPT ![l] = IF stale(j) THEN "RejectedStale"
                                                           ELSE "RejectedDeadline"]
            /\ state' = [state EXCEPT ![l] = "Ready"]
            /\ UNCHANGED pc
       ELSE /\ state' = [state EXCEPT ![l] = "Requested"]
            /\ pc' = Notified({l})
            /\ UNCHANGED result
    /\ UNCHANGED <<watermark, phase, target, repump, ready_cursor, ready_index, now, supervision,
                   stop_requested, migration_storage, execution_failed, completed, outcome,
                   executed, handoffs>>

DispatchEnd ==
    /\ phase = "dispatch"
    /\ \A c \in k .. NumLanes - 1 : ~DispatchActs(DispatchIndex(c))
    /\ phase' = IF repump THEN PumpStart ELSE "rest"
    /\ k' = 0
    /\ repump' = FALSE
    /\ UNCHANGED <<queue, watermark, target, cursors, now, lanes, history>>

---------------------------------------------------------------------------
(* ready_result and release_ready_result. *)

ready_result ==
    /\ phase = "rest"
    /\ phase' = IF MigrationCapacity # 0 THEN "poll" ELSE "scan"
    /\ k' = 0
    /\ UNCHANGED <<queue, watermark, target, repump, cursors, now, lanes, history>>

(* Nothing to return, or the result returned before is still unreleased. *)
ScanKeeps ==
    /\ phase = "scan"
    /\ \/ ready_index # NoLane
       \/ \A l \in Lane : state[l] # "Ready"
    /\ phase' = "rest"
    /\ UNCHANGED <<queue, watermark, k, target, repump, cursors, now, lanes, history>>

(* record_worker_failure's verdict on lane l, whose failures so far are n. *)
MustQuarantine(l, n) ==
    /\ ~quarantined[l]
    /\ FailureThreshold # 0
    /\ n >= FailureThreshold
    /\ can_remove_worker(l)

(* The first finished lane from ready_cursor_ on: its failure is recorded,   *)
(* a completion clears its failures, and its terminal event is emitted. The  *)
(* result is valid: make_failed_result and make_rejected_job_result succeed  *)
(* on every request that submit() validated.                                 *)
ScanFinds(checked, l) ==
    LET failures == IF execution_failed[l] THEN consecutive_failures[l] + 1
                                           ELSE consecutive_failures[l]
        removed == execution_failed[l] /\ MustQuarantine(l, failures)
    IN  /\ phase = "scan"
        /\ ready_index = NoLane
        /\ l = (ready_cursor + checked) % NumLanes
        /\ state[l] = "Ready"
        /\ \A c \in 0 .. checked - 1 : state[(ready_cursor + c) % NumLanes] # "Ready"
        /\ execution_failed' = [execution_failed EXCEPT ![l] = FALSE]
        /\ consecutive_failures' =
               [consecutive_failures EXCEPT ![l] = IF result[l] = "Complete" THEN 0 ELSE failures]
        /\ quarantined' = [quarantined EXCEPT ![l] = @ \/ removed]
        /\ drain_requested' = [drain_requested EXCEPT ![l] = @ \/ removed]
        /\ event' = IF events_published[l] THEN event
                                           ELSE [event EXCEPT ![request[l]] = result[l]]
        /\ events_published' = [events_published EXCEPT ![l] = TRUE]
        /\ ready_index' = l
        /\ phase' = "rest"
        /\ UNCHANGED <<queue, watermark, k, target, repump, dispatch_cursor, ready_cursor, now,
                       state, pc, remaining_work_units, request, tag, signals, capsules, result,
                       completed, outcome, executed, handoffs>>

release_ready_result ==
    /\ phase = "rest"
    /\ ready_index # NoLane
    /\ ready_cursor' = NextLane(ready_index)
    /\ ready_index' = NoLane
    /\ remaining_work_units' = [remaining_work_units EXCEPT ![ready_index] = 0]
    /\ migration_source' = [migration_source EXCEPT ![ready_index] = NoLane]
    /\ IF drain_requested[ready_index]
       THEN /\ state' = [state EXCEPT ![ready_index] = "Drained"]
            /\ tag' = [tag EXCEPT ![ready_index] = NoJob]
       ELSE /\ state' = [state EXCEPT ![ready_index] = "Idle"]
            /\ UNCHANGED tag
    /\ pc' = Notified({ready_index})
    /\ outcome' = [outcome EXCEPT ![request[ready_index]] = result[ready_index]]
    /\ EnterPump
    /\ UNCHANGED <<queue, watermark, target, repump, dispatch_cursor, now, request,
                   events_published, supervision, signals, migration_storage, resume_bytes,
                   execution, event, executed, handoffs>>

---------------------------------------------------------------------------
(* stop(), from the destructor. *)

stop ==
    /\ phase = "rest"
    /\ phase' = "stop"
    /\ k' = 0
    /\ UNCHANGED <<queue, watermark, target, repump, cursors, now, lanes, history>>

(* The three stores of one iteration are separate: between the first and the *)
(* last the thread may already leave, or may still start what it holds.      *)
StopLaneFlag ==
    /\ phase = "stop"
    /\ k < NumLanes
    /\ ~stop_requested[k]
    /\ stop_requested' = [stop_requested EXCEPT ![k] = TRUE]
    /\ cancel_generation' = [cancel_generation EXCEPT ![k] = MaxU64]
    /\ UNCHANGED <<queue, watermark, coordinator, now, state, pc, remaining_work_units,
                   assignment, supervision, migrate_requested, capsules, execution, history>>

StopLaneWake ==
    /\ phase = "stop"
    /\ k < NumLanes
    /\ stop_requested[k]
    /\ state' = [state EXCEPT ![k] = "Requested"]
    /\ pc' = Notified({k})
    /\ k' = k + 1
    /\ UNCHANGED <<queue, watermark, phase, target, repump, cursors, now, remaining_work_units,
                   assignment, supervision, signals, capsules, execution, history>>

(* Every thread is joined; the queue and the lanes are cleared. *)
StopJoin ==
    /\ phase = "stop"
    /\ k = NumLanes
    /\ \A l \in Lane : pc[l] = "exited"
    /\ phase' = "stopped"
    /\ queue' = {}
    /\ ready_index' = NoLane
    /\ UNCHANGED <<watermark, k, target, repump, dispatch_cursor, ready_cursor, now, lanes,
                   history>>

---------------------------------------------------------------------------
(* run_slot: the worker thread of lane l. *)

(* What a step of a lane's thread never touches. *)
coordinatorOwned == <<queue, watermark, coordinator, now, assignment, supervision, stop_requested,
                      cancel_generation, migration_source, outcome, event, handoffs>>

WorkerLoop(l) ==
    /\ pc[l] = "loop"
    /\ pc' = [pc EXCEPT ![l] = IF stop_requested[l] THEN "exited" ELSE "load"]
    /\ UNCHANGED <<coordinatorOwned, state, remaining_work_units, migrate_requested,
                   migration_storage, resume_bytes, execution, executed>>

(* wait(state) blocks only while the state is still the one just loaded. *)
WorkerSleep(l) ==
    /\ pc[l] = "load"
    /\ state[l] # "Requested"
    /\ pc' = [pc EXCEPT ![l] = "asleep"]
    /\ UNCHANGED <<coordinatorOwned, state, remaining_work_units, migrate_requested,
                   migration_storage, resume_bytes, execution, executed>>

(* The run is over: code is what write_result would report. A result the     *)
(* message cannot hold is replaced by a failure. The thread's own count of   *)
(* work goes out of scope.                                                   *)
Finish(l, code) ==
    /\ pc' = [pc EXCEPT ![l] = "publish"]
    /\ completed' = [completed EXCEPT ![l] = 0]
    /\ \/ /\ result' = [result EXCEPT ![l] = code]
          /\ execution_failed' = [execution_failed EXCEPT ![l] = code = "Failed"]
       \/ /\ "result" \in Faults
          /\ result' = [result EXCEPT ![l] = "Failed"]
          /\ execution_failed' = [execution_failed EXCEPT ![l] = TRUE]

(* JobAdapterRegistry::bind fails: the adapter refuses the payload, or the   *)
(* lane was woken by stop() and never had a request.                         *)
WorkerBindFails(l) ==
    /\ pc[l] = "load"
    /\ state[l] = "Requested"
    /\ "bind" \in Faults \/ request[l] = NoJob
    /\ pc' = [pc EXCEPT ![l] = "publish"]
    /\ result' = [result EXCEPT ![l] = "Failed"]
    /\ execution_failed' = [execution_failed EXCEPT ![l] = TRUE]
    /\ UNCHANGED <<coordinatorOwned, state, remaining_work_units, migrate_requested,
                   migration_storage, resume_bytes, completed, executed>>

(* start() or restore_capsule(), and the look at cancel_generation that      *)
(* follows it.                                                               *)
WorkerStart(l) ==
    LET restored == resume_bytes[l]
        accepted == restored => migration_storage[l].job = request[l]
    IN  /\ pc[l] = "load"
        /\ state[l] = "Requested"
        /\ request[l] # NoJob
        /\ state' = [state EXCEPT ![l] = "Running"]
        /\ resume_bytes' = [resume_bytes EXCEPT ![l] = FALSE]
        /\ migration_storage' = [migration_storage EXCEPT ![l] = NoCapsule]
        /\ \/ /\ "start" \in Faults \/ ~accepted
              /\ Finish(l, "Failed")
           \/ /\ accepted
              /\ IF cancel_generation[l] > Request[request[l]].generation
                 THEN Finish(l, "Cancelled")
                 ELSE /\ pc' = [pc EXCEPT ![l] = "run"]
                      /\ completed' = [completed EXCEPT
                             ![l] = IF restored THEN migration_storage[l].completed ELSE 0]
                      /\ result' = [result EXCEPT ![l] = "None"]
                      /\ execution_failed' = [execution_failed EXCEPT ![l] = FALSE]
        /\ UNCHANGED <<coordinatorOwned, remaining_work_units, migrate_requested, executed>>

MigrationDue(l) == MigrationCapacity # 0 /\ migrate_requested[l]

(* CooperativeJob::advance: cancelled, failed, or 1..budget units further.   *)
WorkerAdvance(l) ==
    LET j == request[l]
        left == Request[j].total - completed[l]
        budget == IF WorkQuantum < left THEN WorkQuantum ELSE left
    IN  /\ pc[l] = "run"
        /\ ~stop_requested[l]
        /\ ~MigrationDue(l)
        /\ \/ /\ cancel_generation[l] > Request[j].generation
              /\ Finish(l, "Cancelled")
              /\ remaining_work_units' = [remaining_work_units EXCEPT ![l] = left]
              /\ UNCHANGED executed
           \/ /\ cancel_generation[l] <= Request[j].generation
              /\ "advance" \in Faults
              /\ Finish(l, "Failed")
              /\ UNCHANGED <<remaining_work_units, executed>>
           \/ /\ cancel_generation[l] <= Request[j].generation
              /\ \E units \in 1 .. budget :
                    /\ executed' = [executed EXCEPT ![j] = @ + units]
                    /\ remaining_work_units' = [remaining_work_units EXCEPT ![l] = left - units]
                    /\ IF units = left
                       THEN Finish(l, "Complete")
                       ELSE /\ completed' = [completed EXCEPT ![l] = @ + units]
                            /\ UNCHANGED <<pc, result, execution_failed>>
        /\ UNCHANGED <<coordinatorOwned, state, migrate_requested, migration_storage,
                       resume_bytes>>

(* Mutant: the capsule does not carry the progress made. *)
CapsuleWithoutProgress(l) == [job |-> request[l], completed |-> 0]
Capsule(l) == [job |-> request[l], completed |-> completed[l]]

(* export_capsule at a work boundary. *)
WorkerExport(l) ==
    /\ pc[l] = "run"
    /\ ~stop_requested[l]
    /\ MigrationDue(l)
    /\ migration_storage' = [migration_storage EXCEPT ![l] = Capsule(l)]
    /\ remaining_work_units' =
           [remaining_work_units EXCEPT ![l] = Request[request[l]].total - completed[l]]
    /\ state' = [state EXCEPT ![l] = "MigrationReady"]
    /\ pc' = [pc EXCEPT ![l] = "loop"]
    /\ completed' = [completed EXCEPT ![l] = 0]
    /\ UNCHANGED <<coordinatorOwned, migrate_requested, resume_bytes, result, execution_failed,
                   executed>>

(* The capsule does not fit or the backend cannot save: the lane goes on. *)
WorkerExportFails(l) ==
    /\ "export" \in Faults
    /\ pc[l] = "run"
    /\ ~stop_requested[l]
    /\ MigrationDue(l)
    /\ migrate_requested' = [migrate_requested EXCEPT ![l] = FALSE]
    /\ UNCHANGED <<coordinatorOwned, state, pc, remaining_work_units, migration_storage,
                   resume_bytes, execution, executed>>

(* Stopped in the middle of a run: the job is cancelled without a result. *)
WorkerAbandon(l) ==
    /\ pc[l] = "run"
    /\ stop_requested[l]
    /\ pc' = [pc EXCEPT ![l] = "exited"]
    /\ completed' = [completed EXCEPT ![l] = 0]
    /\ UNCHANGED <<coordinatorOwned, state, remaining_work_units, migrate_requested,
                   migration_storage, resume_bytes, result, execution_failed, executed>>

(* The last look at stop_requested, and the store of kReady. *)
WorkerPublish(l) ==
    /\ pc[l] = "publish"
    /\ \/ /\ stop_requested[l]
          /\ pc' = [pc EXCEPT ![l] = "exited"]
          /\ UNCHANGED <<state, remaining_work_units>>
       \/ /\ ~stop_requested[l]
          /\ remaining_work_units' = [remaining_work_units EXCEPT ![l] = 0]
          /\ state' = [state EXCEPT ![l] = "Ready"]
          /\ pc' = [pc EXCEPT ![l] = "loop"]
    /\ UNCHANGED <<coordinatorOwned, migrate_requested, migration_storage, resume_bytes,
                   execution, executed>>

---------------------------------------------------------------------------

Tick ==
    /\ now < MaxTime
    /\ now' = now + 1
    /\ UNCHANGED <<queue, watermark, coordinator, lanes, history>>

(* A caller may pass submit() the time or leave now_ns at its default, 0. *)
Call ==
    \/ \E j \in Job, now_ns \in {0, now} : SubmitRejected(j, now_ns)
    \/ \E j \in Job, now_ns \in {0, now} : SubmitAccepted(j, now_ns)
    \/ "cancel" \in Calls /\ \E s \in Session, g \in CancelGenerations : cancel_before(s, g)
    \/ "release" \in Calls /\ \E s \in Session : release_session(s)
    \/ "drain" \in Calls /\ \E l \in Lane : request_worker_drain(l)
    \/ \E l \in Lane : resume_worker(l)
    \/ \E l \in Lane : recover_worker(l)
    \/ ready_result
    \/ release_ready_result
    \/ "stop" \in Calls /\ stop

(* What the coordinator does inside a call. *)
Continue ==
    \/ \E l \in Lane : CancelLane(l)
    \/ CancelEnd
    \/ \E l \in Lane : HandoffBack(l)
    \/ \E l, d \in Lane : HandoffTo(l, d)
    \/ HandoffEnd
    \/ \E c, l \in Lane, j \in Job : DispatchLane(c, l, j)
    \/ DispatchEnd
    \/ ScanKeeps
    \/ \E c, l \in Lane : ScanFinds(c, l)
    \/ StopLaneFlag
    \/ StopLaneWake
    \/ StopJoin

Worker(l) ==
    \/ WorkerLoop(l)
    \/ WorkerSleep(l)
    \/ WorkerBindFails(l)
    \/ WorkerStart(l)
    \/ WorkerAdvance(l)
    \/ WorkerExport(l)
    \/ WorkerExportFails(l)
    \/ WorkerAbandon(l)
    \/ WorkerPublish(l)

Terminated == phase = "stopped" /\ UNCHANGED vars

Next ==
    \/ Call
    \/ Continue
    \/ \E l \in Lane : Worker(l)
    \/ Tick
    \/ Terminated

Spec == Init /\ [][Next]_vars

(* Threads run; a call that was made returns; the service loop keeps polling *)
(* and releasing (JobService::poll, and the loop of job_daemon.cc around it, *)
(* as long as the client takes its results), whatever else it is asked for.  *)
Fairness ==
    /\ \A l \in Lane : WF_vars(Worker(l))
    /\ WF_vars(Continue)
    /\ SF_vars(ready_result)
    /\ SF_vars(release_ready_result)

FairSpec == Spec /\ Fairness

---------------------------------------------------------------------------
(* Properties. *)

Stopping == phase \in {"stop", "stopped"}
Held(l) == state[l] \notin {"Idle", "Drained"}
InFlight(l) == state[l] \in {"Requested", "Running", "MigrationReady"}

(* Every variable keeps its type. *)
TypeOK ==
    /\ queue \in SUBSET Job
    /\ watermark \in [Session -> Nat \cup {Unset}]
    /\ phase \in {"rest", "cancel", "handoff", "poll", "dispatch", "scan", "stop", "stopped"}
    /\ k \in 0 .. NumLanes
    /\ target \in Session \cup {Unset}
    /\ repump \in BOOLEAN
    /\ dispatch_cursor \in Lane
    /\ ready_cursor \in Lane
    /\ ready_index \in Lane \cup {NoLane}
    /\ now \in Nat
    /\ state \in [Lane -> LaneState]
    /\ request \in [Lane -> Job \cup {NoJob}]
    /\ tag \in [Lane -> Job \cup {NoJob}]
    /\ drain_requested \in [Lane -> BOOLEAN]
    /\ quarantined \in [Lane -> BOOLEAN]
    /\ consecutive_failures \in [Lane -> Nat]
    /\ migrate_requested \in [Lane -> BOOLEAN]
    /\ stop_requested \in [Lane -> BOOLEAN]
    /\ cancel_generation \in [Lane -> Nat]
    /\ remaining_work_units \in [Lane -> Nat]
    /\ migration_storage \in [Lane -> [job : Job \cup {NoJob}, completed : Nat]]
    /\ migration_source \in [Lane -> Lane \cup {NoLane}]
    /\ resume_bytes \in [Lane -> BOOLEAN]
    /\ result \in [Lane -> ResultCode \cup {"None"}]
    /\ execution_failed \in [Lane -> BOOLEAN]
    /\ events_published \in [Lane -> BOOLEAN]
    /\ pc \in [Lane -> {"loop", "load", "asleep", "run", "publish", "exited"}]
    /\ completed \in [Lane -> Nat]
    /\ outcome \in [Job -> {"new", "accepted"} \cup RejectCode \cup ResultCode]
    /\ event \in [Job -> {"None", "Admitted", "Dispatched", "Preempted"}
                             \cup RejectCode \cup ResultCode]
    /\ executed \in [Job -> Nat]
    /\ handoffs \in [Job -> Nat]

(* An accepted request whose result has not been released is in exactly one  *)
(* place, the queue or one lane, and nothing else is: through dispatch,      *)
(* handoff, cancellation and quarantine no request is lost or doubled.       *)
OnePlace ==
    ~Stopping =>
        /\ \A j \in Job : outcome[j] = "accepted"
                              <=> j \in queue \/ \E l \in Lane : Held(l) /\ request[l] = j
        /\ \A l \in Lane : Held(l) => request[l] \notin queue
        /\ \A l, m \in Lane : Held(l) /\ Held(m) /\ request[l] = request[m] => l = m

(* Draining or quarantining lanes strands no queued request: some lane that  *)
(* accepts it stays in service.                                              *)
NoStrandedWork == ~Stopping => \A j \in queue : has_accepting_worker(j)

(* Between calls, queued work always has a busy lane whose release will pump *)
(* again; a queue in front of lanes that are all idle would never move.      *)
QueueHasPump == phase = "rest" /\ queue # {} => \E l \in Lane : Held(l)

(* Where no request can go stale or expire, pump leaves no lane in service   *)
(* idle in front of a request it accepts, although a dispatch moves the      *)
(* cursor the loop indexes by.                                               *)
IdleLaneServes ==
    phase = "rest" => \A l \in Lane : ~drain_requested[l] /\ state[l] = "Idle"
                          => \A j \in queue : ~registration_accepts(l, j)

(* A thread never sleeps on a lane that was handed work: no store of         *)
(* kRequested misses its waiter.                                             *)
NoLostWakeup == \A l \in Lane : pc[l] = "asleep" => state[l] # "Requested"

(* A stale job that is still executing, or waiting in a capsule, has been    *)
(* told to stop: neither dispatch nor handoff loses a cancellation.          *)
CancelReaches ==
    ~Stopping => \A l \in Lane :
        InFlight(l) /\ stale(request[l]) /\ target # Request[request[l]].session
            => cancel_generation[l] > Request[request[l]].generation

(* release_session never forgets the watermark of a session that still has   *)
(* work in the pool, so freshness cannot be bypassed by a release.           *)
WatermarkCovers ==
    ~Stopping => \A j \in Job : outcome[j] = "accepted"
                     => watermark[Request[j].session] >= Request[j].generation

(* Lower service classes never occupy the queue slots reserved above them. *)
ReservesKept ==
    /\ Cardinality({j \in queue : Request[j].class = BestEffort})
           <= QueueCapacity - InteractiveReserve - CriticalReserve
    /\ Cardinality({j \in queue : Request[j].class # Critical}) <= QueueCapacity - CriticalReserve
    /\ Cardinality(queue) <= QueueCapacity

(* One execution is handed off at most once, and only off a lane that is     *)
(* being drained.                                                            *)
OneHandoff ==
    /\ \A j \in Job : handoffs[j] <= 1
    /\ ~Stopping => \A l \in Lane :
          migrate_requested[l] \/ state[l] \in {"MigrationReady", "Drained"} => drain_requested[l]

(* Migration neither repeats nor skips work: what a lane believes was done,  *)
(* or its capsule says, is what backends did, and a completed result stands  *)
(* for exactly total_work_units units; and a job moves at most once.         *)
WorkPreserved ==
    /\ OneHandoff
    /\ ~Stopping => \A l \in Lane :
           LET j == request[l] IN
           /\ pc[l] = "run" => completed[l] = executed[j]
           /\ state[l] = "MigrationReady" \/ (state[l] = "Requested" /\ resume_bytes[l])
                  => migration_storage[l] = [job |-> j, completed |-> executed[j]]
           /\ Held(l) /\ ~(state[l] = "Requested" /\ pc[l] # "publish") /\ result[l] = "Complete"
                  => executed[j] = Request[j].total

(* A quarantined lane stays out of service: it is drained, takes no new      *)
(* request, and only recover_worker brings it back.                          *)
QuarantineHolds ==
    [][\A l \in Lane : quarantined[l] =>
          /\ drain_requested[l]
          /\ request'[l] = request[l] \/ Stopping
          /\ ~quarantined'[l] => state[l] = "Drained" /\ consecutive_failures'[l] = 0]_vars

(* A request is decided once: a delivered or rejected one never changes, and *)
(* no lifecycle event follows its terminal event.                            *)
DecidedOnce ==
    [][\A j \in DOMAIN outcome :
          /\ outcome[j] \notin {"new", "accepted"} => outcome'[j] = outcome[j]
          /\ event[j] \in RejectCode \cup ResultCode => event'[j] = event[j]]_vars

(* "Older generations cannot publish as current"                             *)
(* (docs/guides/verification.md:76): a result released as complete is of a   *)
(* generation its session has not moved past.                                *)
OlderNotCurrent ==
    [][\A j \in Job : outcome[j] = "accepted" /\ outcome'[j] = "Complete" => ~stale(j)]_vars

(* "The returned view remains valid until release_ready_result()"            *)
(* (job_worker_pool.h:159): the result handed out does not change meanwhile. *)
ViewStable ==
    [][ready_index # NoLane /\ ready_index' = ready_index
          => result'[ready_index] = result[ready_index]]_vars

(* Every accepted request is answered, unless the pool is stopped. *)
Answered == \A j \in Job : outcome[j] = "accepted" ~> (outcome[j] # "accepted" \/ Stopping)

(* A lane that is told to drain gets there. *)
DrainCompletes ==
    \A l \in Lane : drain_requested[l] ~> (state[l] = "Drained" \/ Stopping)

(* stop() returns: every thread sees it and can be joined. *)
StopReturns == phase = "stop" ~> phase = "stopped"

=============================================================================
