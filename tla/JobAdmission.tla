---------------------------- MODULE JobAdmission ----------------------------
(* Earliest-deadline-first order and the multi-lane deadline admission test  *)
(* of the generic Relay pool: the pure part of                               *)
(* src/relay/worker/job_worker_pool.cc.                                      *)
(*                                                                           *)
(* A request is known by its envelope.sequence, a natural number; clients    *)
(* stamp sequence and timestamp_ns together, so the sequence stands for      *)
(* both of the tie-breakers of earlier().                                    *)
EXTENDS Integers, FiniteSets, Folds

CONSTANTS
    NumLanes,       \* slots_.size(), 1..8 in the code
    Request,        \* sequence -> [session, generation, class, deadline, total, route, valid]
    Routes,         \* lane -> routes whose requests the lane's registry accepts
    UnitCost,       \* route -> calibrated cost of a work unit, 0 = not calibrated
    ReserveNs,      \* JobCostPolicy::reserve_ns
    WorkQuantum,    \* work units of one advance call
    MaxU64          \* numeric_limits<uint64_t>::max()

Lane == 0 .. NumLanes - 1
Job == DOMAIN Request

(* JobServiceClass, in increasing urgency. *)
BestEffort == 0
Interactive == 1
Critical == 2

deadline_key(j) == IF Request[j].deadline = 0 THEN MaxU64 ELSE Request[j].deadline

earlier(i, j) ==
    \/ deadline_key(i) < deadline_key(j)
    \/ /\ deadline_key(i) = deadline_key(j)
       /\ \/ Request[i].class > Request[j].class
          \/ Request[i].class = Request[j].class /\ i < j

saturating_add(a, b) == IF a > MaxU64 - b THEN MaxU64 ELSE a + b

saturating_multiply(a, b) == IF b # 0 /\ a > MaxU64 \div b THEN MaxU64 ELSE a * b

(* The payload limit of the registration is part of what a route stands for. *)
registration_accepts(l, j) == Request[j].route \in Routes[l]

cost(j) == UnitCost[Request[j].route]

---------------------------------------------------------------------------
(* The lane simulation of admissible(). available_at gives the time each     *)
(* lane frees up, MaxU64 for a lane that cannot take work. A plan carries    *)
(* the loop's verdict with it: once decided it is final.                     *)

Undecided == "undecided"

(* The first lane, in index order, that frees up earliest among those that   *)
(* can take the job.                                                         *)
BestLanes(available_at, j) ==
    LET usable == {l \in Lane : available_at[l] # MaxU64 /\ registration_accepts(l, j)}
    IN  {l \in usable : \A m \in usable : \/ available_at[l] < available_at[m]
                                          \/ available_at[l] = available_at[m] /\ l <= m}

PlaceJob(plan, j) ==
    IF plan.verdict # Undecided THEN plan
    ELSE IF cost(j) = 0 THEN [plan EXCEPT !.verdict = "admit"]
    ELSE IF BestLanes(plan.available_at, j) = {} THEN [plan EXCEPT !.verdict = "reject"]
    ELSE LET best == CHOOSE l \in BestLanes(plan.available_at, j) : TRUE
             duration == saturating_multiply(Request[j].total, cost(j))
             start == plan.available_at[best]
             fits == /\ start <= Request[j].deadline
                     /\ duration <= Request[j].deadline - start
                     /\ ReserveNs <= Request[j].deadline - (start + duration)
         IN  IF fits THEN [plan EXCEPT !.available_at[best] = start + duration]
                     ELSE [plan EXCEPT !.verdict = "reject"]

(* The loop over admission_jobs_, sorted: the latest job is placed last. *)
LatestOf(jobs) == CHOOSE j \in jobs : \A i \in jobs \ {j} : earlier(i, j)

Schedulable(jobs, available_at) ==
    LET PlaceLast(j, plan) == PlaceJob(plan, j)
        Itself(j) == j
        start == [verdict |-> Undecided, available_at |-> available_at]
    IN  MapThenFoldSet(PlaceLast, start, Itself, LatestOf, jobs).verdict # "reject"

(* What admission assumes of a lane that holds job a (remaining units left)  *)
(* when candidate j arrives: a job of the same session that j supersedes     *)
(* stops at its next work boundary.                                          *)
BusyUntil(now_ns, a, remaining, j) ==
    LET superseded == /\ Request[a].session = Request[j].session
                      /\ Request[a].generation < Request[j].generation
        units == IF superseded /\ WorkQuantum < remaining THEN WorkQuantum ELSE remaining
    IN  saturating_add(now_ns, saturating_multiply(units, cost(a)))

=============================================================================
