------------------------- MODULE JobWorkerPoolSafety --------------------------
(***************************************************************************)
(* What becomes of a request in the worker pool: the watermark covers the  *)
(* work it is there for, a cancellation reaches every stale job that is    *)
(* still executing, migration neither repeats nor skips work, a request is *)
(* decided once, and a lane that failed too often is given no other.       *)
(***************************************************************************)
EXTENDS JobWorkerPoolProofs

USE SMTT(20), ZenonT(20)

---------------------------------------------------------------------------
(* The watermark. *)

(* A job that an unstopped pool holds is known to its session's SessionInUse. *)
LEMMA AcceptedInUse ==
  ASSUME Inv, OnePlace, ~Stopping, NEW j \in Job, outcome[j] = "accepted"
  PROVE  SessionInUse(Request[j].session)
<1>1. j \in queue \/ \E l \in Lane : Held(l) /\ request[l] = j
  BY DEF OnePlace
<1>2. ASSUME NEW l \in Lane, Held(l), request[l] = j
      PROVE  state[l] # "Idle" /\ SessionId(l) = Request[j].session
  <2>1. tag[l] = j /\ j # NoJob
    BY <1>2, Markers DEF Inv, LaneStates
  <2> QED
    BY <1>2, <2>1 DEF Held, SessionId
<1> QED
  BY <1>1, <1>2 DEF SessionInUse

(* The watermark only rises, except when release_session drops it. *)
LEMMA WatermarkNext == Inv /\ OnePlace /\ WatermarkCovers /\ [Next]_vars => WatermarkCovers'
<1> SUFFICES ASSUME Inv, OnePlace, WatermarkCovers, [Next]_vars, ~Stopping' PROVE WatermarkCovers'
  BY DEF WatermarkCovers
<1>1. ASSUME ~Stopping, UNCHANGED watermark,
             \A j \in Job : outcome'[j] = "accepted" => outcome[j] = "accepted"
      PROVE  WatermarkCovers'
  BY <1>1 DEF WatermarkCovers
<1>2. ASSUME NEW j \in Job, NEW t, SubmitRejected(j, t) PROVE WatermarkCovers'
  <2>1. /\ ~Stopping /\ UNCHANGED watermark
        /\ \E r \in RejectCode : outcome' = [outcome EXCEPT ![j] = r]
    BY <1>2, VerdictType, Zenon DEF SubmitRejected, Stopping
  <2> QED
    BY <1>1, <2>1 DEF Inv, TypeOK, RejectCode
<1>3. ASSUME NEW j \in Job, NEW t, SubmitAccepted(j, t) PROVE WatermarkCovers'
  <2> DEFINE s == Request[j].session
             g == Request[j].generation
  <2>1. s \in Session /\ g \in Nat
    BY RequestAssumption
  <2>2. /\ ~Stopping
        /\ outcome' = [outcome EXCEPT ![j] = "accepted"]
        /\ watermark' = [watermark EXCEPT ![s] = IF @ < g THEN g ELSE @]
    BY <1>3 DEF SubmitAccepted, Stopping
  <2>3. watermark \in [Session -> Nat \cup {Unset}]
    BY DEF Inv, TypeOK
  <2>4. watermark'[s] >= g /\ \A r \in Session : watermark'[r] >= watermark[r]
    BY <2>1, <2>2, <2>3 DEF Unset
  <2>5. ASSUME NEW i \in Job, outcome'[i] = "accepted"
        PROVE  watermark'[Request[i].session] >= Request[i].generation
    <3>1. CASE i = j
      BY <2>4, <3>1
    <3>2. CASE i # j
      <4>1. outcome[i] = "accepted"
        BY <2>2, <2>5, <3>2 DEF Inv, TypeOK
      <4>2. watermark[Request[i].session] >= Request[i].generation
        BY <2>2, <4>1 DEF WatermarkCovers
      <4>3. Request[i].session \in Session /\ Request[i].generation \in Nat
        BY RequestAssumption
      <4>4. watermark' \in [Session -> Nat \cup {Unset}]
        BY <2>1, <2>2, <2>3
      <4> QED
        BY <2>3, <2>4, <4>2, <4>3, <4>4 DEF Unset
    <3> QED
      BY <3>1, <3>2
  <2> QED
    BY <2>5 DEF WatermarkCovers
<1>4. ASSUME NEW s \in Session, NEW g \in CancelGenerations, cancel_before(s, g)
      PROVE  WatermarkCovers'
  <2>1. ~Stopping /\ outcome' = outcome
    BY <1>4 DEF cancel_before, history, Stopping
  <2>2. watermark \in [Session -> Nat \cup {Unset}] /\ g \in Nat
    BY PoolAssumption DEF Inv, TypeOK
  <2>3. watermark' = [watermark EXCEPT ![s] = IF @ < g THEN g ELSE @]
    BY <1>4 DEF cancel_before
  <2>4. /\ watermark' \in [Session -> Nat \cup {Unset}]
        /\ \A r \in Session : watermark'[r] >= watermark[r]
    BY <2>2, <2>3 DEF Unset
  <2>5. ASSUME NEW i \in Job, outcome[i] = "accepted"
        PROVE  watermark'[Request[i].session] >= Request[i].generation
    <3>1. watermark[Request[i].session] >= Request[i].generation
      BY <2>1, <2>5 DEF WatermarkCovers
    <3>2. Request[i].session \in Session /\ Request[i].generation \in Nat
      BY RequestAssumption
    <3> QED
      BY <2>2, <2>4, <3>1, <3>2 DEF Unset
  <2> QED
    BY <2>1, <2>5 DEF WatermarkCovers
<1>5. ASSUME NEW s \in Session, release_session(s) PROVE WatermarkCovers'
  <2>1. /\ ~Stopping /\ outcome' = outcome /\ ~SessionInUse(s)
        /\ watermark' = [watermark EXCEPT ![s] = Unset]
    BY <1>5 DEF release_session, history, Stopping
  <2>2. \A i \in Job : outcome[i] = "accepted" => Request[i].session # s
    BY <2>1, AcceptedInUse
  <2>3. \A i \in Job : Request[i].session \in Session
    BY RequestAssumption, Zenon
  <2>4. \A r \in Session \ {s} : watermark'[r] = watermark[r]
    BY <2>1 DEF Inv, TypeOK
  <2> QED
    BY <2>1, <2>2, <2>3, <2>4 DEF WatermarkCovers
<1>6. ASSUME release_ready_result PROVE WatermarkCovers'
  <2>1. /\ ~Stopping /\ UNCHANGED watermark
        /\ outcome' = [outcome EXCEPT ![request[ready_index]] = result[ready_index]]
        /\ ready_index \in Lane /\ state[ready_index] = "Ready"
    BY <1>6 DEF release_ready_result, Stopping, Inv, TypeOK, LaneStates
  <2>2. result[ready_index] \in ResultCode
    BY <2>1 DEF Inv, LaneStates
  <2> QED
    BY <1>1, <2>1, <2>2, Zenon DEF Inv, TypeOK, ResultCode
<1>7. ASSUME ~Stopping, UNCHANGED <<watermark, outcome>> PROVE WatermarkCovers'
  BY <1>1, <1>7
<1>8. ASSUME NEW l \in Lane,
             request_worker_drain(l) \/ resume_worker(l) \/ recover_worker(l) \/ CancelLane(l)
             \/ HandoffBack(l) \/ \E d \in Lane : HandoffTo(l, d)
      PROVE  WatermarkCovers'
  BY <1>7, <1>8, Zenon DEF request_worker_drain, resume_worker, recover_worker, ReturnToService,
     CancelLane, HandoffBack, HandoffTo, HandoffAt, history, Stopping
<1>9. ASSUME NEW c \in Lane, NEW l \in Lane,
             ScanFinds(c, l) \/ \E j \in Job : DispatchLane(c, l, j)
      PROVE  WatermarkCovers'
  BY <1>7, <1>9 DEF ScanFinds, DispatchLane, DispatchAt, Stopping
<1>10. ASSUME CancelEnd \/ HandoffEnd \/ DispatchEnd \/ ready_result \/ ScanKeeps
       PROVE  WatermarkCovers'
  BY <1>7, <1>10 DEF CancelEnd, HandoffEnd, DispatchEnd, ready_result, ScanKeeps, history, Stopping
<1>11. ASSUME stop \/ StopLaneFlag \/ StopLaneWake \/ StopJoin PROVE FALSE
  BY <1>11 DEF stop, StopLaneFlag, StopLaneWake, StopJoin, coordinator, Stopping
<1>12. ASSUME NEW l \in Lane, Worker(l) PROVE WatermarkCovers'
  BY <1>7, <1>12, WorkerOwn DEF coordinatorOwned, coordinator, Stopping
<1>13. ASSUME Tick \/ UNCHANGED vars PROVE WatermarkCovers'
  BY <1>7, <1>13 DEF Tick, vars, coordinator, history, Stopping
<1> QED
  BY <1>2, <1>3, <1>4, <1>5, <1>6, <1>8, <1>9, <1>10, <1>11, <1>12, <1>13
  DEF Next, Call, Continue, Terminated

(* As long as a session has work in the pool, its watermark is at least that *)
(* work's generation: no release_session in between lets older work back in. *)
THEOREM WatermarkSafe == Spec => []WatermarkCovers
<1>1. Init => WatermarkCovers
  BY DEF Init, WatermarkCovers
<1> QED
  BY <1>1, WatermarkNext, PlaceUnique, Invariance, PTL DEF Spec

---------------------------------------------------------------------------
(* Cancellation. *)

(* CancelReaches with what makes it inductive: the lanes the loop of         *)
(* cancel_before has passed are told already, and there is no target outside *)
(* of that loop.                                                             *)
Told(l) == cancel_generation[l] > Request[request[l]].generation

CancelInv ==
    ~Stopping =>
        /\ phase # "cancel" => target = Unset
        /\ \A l \in Lane :
              InFlight(l) /\ stale(request[l]) /\ (Request[request[l]].session # target \/ l < k)
                  => Told(l)

(* A lane that executes or carries a capsule holds a valid request. *)
LEMMA FlightFacts ==
  ASSUME Inv, ~Stopping, NEW l \in Lane, InFlight(l)
  PROVE  /\ Held(l) /\ request[l] \in Job /\ tag[l] = request[l]
         /\ Request[request[l]].session \in Session
         /\ Request[request[l]].generation \in Nat
         /\ Request[request[l]].session # Unset
         /\ SessionId(l) = Request[request[l]].session
         /\ Generation(l) = Request[request[l]].generation
<1>1. Held(l)
  BY DEF InFlight, Held
<1>2. request[l] \in Job /\ tag[l] = request[l]
  BY <1>1 DEF Inv, LaneStates
<1>3. /\ Request[request[l]].session \in Session /\ Request[request[l]].generation \in Nat
      /\ Request[request[l]].session # Unset
  <2>1. Request[request[l]].session \in Session /\ Request[request[l]].generation \in Nat
    BY <1>2, RequestAssumption, Zenon
  <2>2. Session \subseteq Nat
    BY RequestAssumption
  <2> QED
    BY <2>1, <2>2 DEF Unset
<1>4. request[l] # NoJob
  BY <1>2, Markers
<1> QED
  BY <1>1, <1>2, <1>3, <1>4 DEF SessionId, Generation

(* A thread's step puts nothing in flight. *)
LEMMA WorkerFlight ==
  ASSUME Inv, ~Stopping, NEW l \in Lane, Worker(l), NEW m \in Lane, InFlight(m)'
  PROVE  InFlight(m)
<1>1. CASE WorkerLoop(l) \/ WorkerSleep(l) \/ WorkerBindFails(l)
  BY <1>1 DEF WorkerLoop, WorkerSleep, WorkerBindFails, InFlight
<1>2. CASE WorkerAbandon(l) \/ WorkerExportFails(l) \/ WorkerAdvance(l)
  BY <1>2 DEF WorkerAbandon, WorkerExportFails, WorkerAdvance, InFlight
<1>3. CASE WorkerStart(l)
  <2>1. state[l] = "Requested" /\ state' = [state EXCEPT ![l] = "Running"]
    BY <1>3 DEF WorkerStart
  <2> QED
    BY <2>1 DEF Inv, TypeOK, InFlight
<1>4. CASE WorkerExport(l)
  <2>1. pc[l] = "run" /\ state' = [state EXCEPT ![l] = "MigrationReady"]
    BY <1>4 DEF WorkerExport
  <2>2. state[l] = "Running"
    BY <2>1 DEF Inv, LaneStates
  <2> QED
    BY <2>1, <2>2 DEF Inv, TypeOK, InFlight
<1>5. CASE WorkerPublish(l)
  <2>1. state' = state \/ state' = [state EXCEPT ![l] = "Ready"]
    BY <1>5 DEF WorkerPublish
  <2> QED
    BY <2>1 DEF Inv, TypeOK, InFlight
<1> QED
  BY <1>1, <1>2, <1>3, <1>4, <1>5 DEF Worker

(* A step that leaves watermark, requests and cancellations alone, outside   *)
(* of cancel_before, puts at most what was in flight in flight.              *)
LEMMA CancelFrame ==
  ASSUME Inv, CancelInv, ~Stopping, target' = Unset, target = Unset,
         UNCHANGED <<watermark, request, cancel_generation>>,
         \A m \in Lane : InFlight(m)' => InFlight(m)
  PROVE  CancelInv'
<1>1. ASSUME NEW m \in Lane, InFlight(m)', stale(request[m])' PROVE Told(m)'
  <2>1. InFlight(m) /\ stale(request[m])
    BY <1>1 DEF stale
  <2>2. Request[request[m]].session # target
    BY <2>1, FlightFacts
  <2>3. Told(m)
    BY <2>1, <2>2 DEF CancelInv
  <2> QED
    BY <2>3 DEF Told
<1> QED
  BY <1>1 DEF CancelInv, stale

(* The loop of cancel_before, one lane further. *)
LEMMA CancelLaneStep ==
  ASSUME Inv, CancelInv, NEW l \in Lane, CancelLane(l)
  PROVE  CancelInv'
<1>1. /\ ~Stopping /\ phase = "cancel" /\ k' = l + 1 /\ l >= k /\ CancelHits(l)
      /\ \A m \in Lane : m >= k /\ m < l => ~CancelHits(m)
      /\ UNCHANGED <<watermark, phase, target, state, request>>
      /\ \/ state[l] = "Ready" /\ UNCHANGED cancel_generation
         \/ cancel_generation' =
                [cancel_generation EXCEPT ![l] = IF @ < watermark[target] THEN watermark[target]
                                                                          ELSE @]
  BY DEF CancelLane, assignment, Stopping
<1>2. /\ cancel_generation \in [Lane -> Nat] /\ watermark[target] \in Nat /\ k \in Nat
      /\ \A m \in Lane : m \in Nat
  <2>1. TypeOK
    BY DEF Inv
  <2>2. watermark[target] \in Nat
    BY <1>1, <2>1, CancelTarget
  <2>3. cancel_generation \in [Lane -> Nat] /\ k \in Nat
    BY <2>1, PoolAssumption DEF TypeOK
  <2>4. \A m \in Lane : m \in Nat
    BY PoolAssumption DEF Lane
  <2> QED
    BY <2>2, <2>3, <2>4
<1>3. ASSUME NEW m \in Lane, InFlight(m), stale(request[m]),
             Request[request[m]].session # target \/ m < l + 1
      PROVE  cancel_generation'[m] > Request[request[m]].generation
  <2>1. Request[request[m]].generation \in Nat
    BY <1>1, <1>3, FlightFacts, Zenon
  <2>2. CASE m = l
    <3>1. state[l] # "Ready"
      BY <1>3, <2>2, Zenon DEF InFlight
    <3>2. Request[request[l]].generation < watermark[target]
      BY <1>1, <1>3, <2>2, FlightFacts, Zenon DEF CancelHits
    <3> DEFINE c == cancel_generation[l]
               w == watermark[target]
    <3>3. cancel_generation' = [cancel_generation EXCEPT ![l] = IF c < w THEN w ELSE c]
      BY <1>1, <3>1, Zenon
    <3>4. cancel_generation'[m] = IF c < w THEN w ELSE c
      BY <1>2, <2>2, <3>3, Zenon
    <3>5. c \in Nat /\ w \in Nat /\ Request[request[m]].generation < w
      BY <1>2, <2>2, <3>2, Zenon
    <3> HIDE DEF c, w
    <3> QED
      BY <2>1, <3>4, <3>5
  <2>3. CASE m # l
    <3>1. Request[request[m]].session # target \/ m < k
      <4>1. CASE Request[request[m]].session = target /\ m >= k
        <5>1. m < l
          BY <1>2, <1>3, <2>3, <4>1
        <5>2. CancelHits(m)
          BY <1>1, <1>3, <4>1, FlightFacts, Zenon DEF CancelHits, stale, InFlight
        <5> QED
          BY <1>1, <4>1, <5>1, <5>2
      <4> QED
        BY <1>2, <4>1
    <3>2. Told(m)
      BY <1>1, <1>3, <3>1, Zenon DEF CancelInv
    <3> QED
      BY <1>1, <1>2, <2>3, <3>2, Zenon DEF Told
  <2> QED
    BY <2>2, <2>3
<1>4. ASSUME NEW m \in Lane, InFlight(m)', stale(request[m])',
             Request[request'[m]].session # target' \/ m < k'
      PROVE  Told(m)'
  <2>1. InFlight(m) /\ stale(request[m]) /\ (Request[request[m]].session # target \/ m < l + 1)
    BY <1>1, <1>4 DEF InFlight, stale
  <2>2. cancel_generation'[m] > Request[request[m]].generation
    BY <1>3, <2>1
  <2> QED
    BY <1>1, <2>2 DEF Told
<1>5. phase' = "cancel"
  BY <1>1, Zenon
<1> QED
  BY <1>4, <1>5 DEF CancelInv, stale

(* A watermark that rises for session s hands s to the loop of cancel_before *)
(* as its target.                                                            *)
LEMMA RaiseStep ==
  ASSUME Inv, CancelInv, ~Stopping, target = Unset, NEW s, target' = s, phase' = "cancel", k' = 0,
         \A r \in Session \ {s} : watermark'[r] = watermark[r],
         UNCHANGED <<state, request, cancel_generation>>
  PROVE  CancelInv'
<1>1. ASSUME NEW m \in Lane, InFlight(m)', stale(request[m])',
             Request[request'[m]].session # target' \/ m < k'
      PROVE  Told(m)'
  <2>1. InFlight(m)
    BY <1>1, Zenon DEF InFlight
  <2>2. Request[request[m]].session \in Session \ {s}
    <3>1. ~(m < 0)
      BY PoolAssumption DEF Lane
    <3> QED
      BY <1>1, <2>1, <3>1, FlightFacts
  <2>3. stale(request[m])
    BY <1>1, <2>2, Zenon DEF stale
  <2>4. Told(m)
    BY <2>1, <2>3, FlightFacts, Zenon DEF CancelInv
  <2> QED
    BY <2>4 DEF Told
<1> QED
  BY <1>1 DEF CancelInv, stale

(* An accepted submit() either raises the watermark or has none to compare   *)
(* with: then the session has nothing in flight.                             *)
LEMMA CancelSubmit ==
  ASSUME Inv, OnePlace, WatermarkCovers, CancelInv, NEW j \in Job, NEW t, SubmitAccepted(j, t)
  PROVE  CancelInv'
<1> DEFINE s == Request[j].session
           g == Request[j].generation
           raises == watermark[s] # Unset /\ g > watermark[s]
<1>1. /\ ~Stopping /\ target = Unset /\ UNCHANGED <<state, request, cancel_generation>>
      /\ watermark' = [watermark EXCEPT ![s] = IF @ < g THEN g ELSE @]
  BY Zenon DEF SubmitAccepted, CancelInv, Stopping, lanes, assignment, signals
<1>2. /\ watermark \in [Session -> Nat \cup {Unset}]
      /\ s \in Session /\ g \in Nat
  BY RequestAssumption, Zenon DEF Inv, TypeOK
<1>3. CASE raises
  <2>1. target' = s /\ phase' = "cancel" /\ k' = 0
    BY <1>3 DEF SubmitAccepted
  <2>2. \A r \in Session \ {s} : watermark'[r] = watermark[r]
    BY <1>1, <1>2, Zenon
  <2> QED
    BY <1>1, <2>1, <2>2, RaiseStep, Zenon
<1>4. CASE ~raises
  <2>1. target' = Unset
    BY <1>4 DEF SubmitAccepted
  <2>2. ASSUME NEW m \in Lane, InFlight(m)', stale(request[m])' PROVE Told(m)'
    <3>1. InFlight(m)
      BY <1>1, <2>2, Zenon DEF InFlight
    <3>2. outcome[request[m]] = "accepted"
      BY <1>1, <3>1, FlightFacts, Zenon DEF OnePlace
    <3>3. watermark[Request[request[m]].session] >= Request[request[m]].generation
      BY <1>1, <3>1, <3>2, FlightFacts DEF WatermarkCovers
    <3>4. watermark[Request[request[m]].session] # Unset
      <4>1. Request[request[m]].generation \in Nat
        BY <1>1, <3>1, FlightFacts, Zenon
      <4> QED
        BY <3>3, <4>1 DEF Unset
    <3>5. watermark'[Request[request[m]].session] = watermark[Request[request[m]].session]
      <4>1. CASE Request[request[m]].session = s
        BY <1>1, <1>2, <1>4, <3>4, <4>1, Zenon DEF Unset
      <4>2. CASE Request[request[m]].session # s
        BY <1>1, <1>2, <3>1, <4>2, FlightFacts, Zenon
      <4> QED
        BY <4>1, <4>2, Zenon
    <3>6. stale(request[m])
      BY <1>1, <2>2, <3>5, Zenon DEF stale
    <3>7. Told(m)
      BY <1>1, <3>1, <3>6, FlightFacts, Zenon DEF CancelInv
    <3> QED
      BY <1>1, <3>7, Zenon DEF Told
  <2> QED
    BY <2>1, <2>2, Zenon DEF CancelInv, stale
<1> QED
  BY <1>3, <1>4, Zenon

(* A capsule takes its cancellation along. *)
LEMMA CancelHandoff ==
  ASSUME Inv, CancelInv, NEW l \in Lane, NEW d \in Lane, HandoffTo(l, d)
  PROVE  CancelInv'
<1>1. /\ ~Stopping /\ target = Unset /\ UNCHANGED <<target, watermark>>
      /\ l # d /\ state[l] = "MigrationReady"
      /\ request' = [request EXCEPT ![d] = request[l]]
      /\ cancel_generation' = [cancel_generation EXCEPT ![d] = cancel_generation[l]]
      /\ state' = [state EXCEPT ![l] = "Drained", ![d] = "Requested"]
  BY Zenon DEF HandoffTo, HandoffAt, HandoffActs, IdleTargets, HandoffTargets, CancelInv, Stopping
<1>2. ASSUME NEW m \in Lane, InFlight(m)', stale(request[m])' PROVE Told(m)'
  <2>1. PICK n \in Lane : /\ InFlight(n)
                          /\ request'[m] = request[n]
                          /\ cancel_generation'[m] = cancel_generation[n]
    <3>1. CASE m = d
      <4>1. InFlight(l) /\ request'[m] = request[l] /\ cancel_generation'[m] = cancel_generation[l]
        BY <1>1, <3>1, Zenon DEF InFlight, Inv, TypeOK
      <4> QED
        BY <4>1, Zenon
    <3>2. CASE m # d
      <4>1. InFlight(m) /\ request'[m] = request[m] /\ cancel_generation'[m] = cancel_generation[m]
        BY <1>1, <1>2, <3>2 DEF InFlight, Inv, TypeOK
      <4> QED
        BY <4>1, Zenon
    <3> QED
      BY <3>1, <3>2
  <2>2. stale(request[n])
    BY <1>1, <1>2, <2>1 DEF stale
  <2>3. Told(n)
    BY <1>1, <2>1, <2>2, FlightFacts, Zenon DEF CancelInv
  <2> QED
    BY <2>1, <2>3 DEF Told
<1> QED
  BY <1>1, <1>2, Zenon DEF CancelInv, stale

(* What is dispatched to a thread is not stale. *)
LEMMA CancelDispatch ==
  ASSUME Inv, CancelInv, NEW c \in Lane, NEW l \in Lane, NEW j \in Job, DispatchLane(c, l, j)
  PROVE  CancelInv'
<1>1. /\ ~Stopping /\ target = Unset /\ UNCHANGED <<target, watermark>>
      /\ request' = [request EXCEPT ![l] = j]
      /\ cancel_generation' = [cancel_generation EXCEPT ![l] = 0]
      /\ \/ state' = [state EXCEPT ![l] = "Ready"]
         \/ state' = [state EXCEPT ![l] = "Requested"] /\ ~stale(j)
  BY Zenon DEF DispatchLane, DispatchAt, CancelInv, Stopping
<1>2. ASSUME NEW m \in Lane, InFlight(m)', stale(request[m])' PROVE Told(m)'
  <2>1. m # l
    BY <1>1, <1>2, Zenon DEF InFlight, stale, Inv, TypeOK
  <2>2. InFlight(m) /\ request'[m] = request[m] /\ cancel_generation'[m] = cancel_generation[m]
    BY <1>1, <1>2, <2>1, Zenon DEF InFlight, Inv, TypeOK
  <2>3. stale(request[m])
    BY <1>1, <1>2, <2>2, Zenon DEF stale
  <2>4. Told(m)
    BY <1>1, <2>2, <2>3, FlightFacts, Zenon DEF CancelInv
  <2> QED
    BY <2>2, <2>4, Zenon DEF Told
<1> QED
  BY <1>1, <1>2, Zenon DEF CancelInv, stale

(* Every step keeps CancelInv. *)
LEMMA CancelNext ==
  Inv /\ OnePlace /\ WatermarkCovers /\ CancelInv /\ [Next]_vars => CancelInv'
<1> SUFFICES ASSUME Inv, OnePlace, WatermarkCovers, CancelInv, [Next]_vars, ~Stopping'
             PROVE  CancelInv'
  BY Zenon DEF CancelInv
<1>1. ASSUME NEW s \in Session, NEW g \in CancelGenerations, cancel_before(s, g) PROVE CancelInv'
  <2>1. /\ ~Stopping /\ target = Unset /\ target' = s /\ phase' = "cancel" /\ k' = 0
        /\ UNCHANGED <<state, request, cancel_generation>>
        /\ watermark' = [watermark EXCEPT ![s] = IF @ < g THEN g ELSE @]
    BY <1>1, Zenon DEF cancel_before, CancelInv, Stopping, lanes, assignment, signals
  <2>2. \A r \in Session \ {s} : watermark'[r] = watermark[r]
    BY <2>1, Zenon DEF Inv, TypeOK
  <2> QED
    BY <2>1, <2>2, RaiseStep, Zenon
<1>2. ASSUME NEW s \in Session, release_session(s) PROVE CancelInv'
  <2>1. /\ ~Stopping /\ target = Unset /\ UNCHANGED <<target, state, request, cancel_generation>>
        /\ watermark' = [watermark EXCEPT ![s] = Unset]
    BY <1>2 DEF release_session, CancelInv, Stopping, lanes, assignment, signals, coordinator
  <2>2. ASSUME NEW m \in Lane, InFlight(m)', stale(request[m])' PROVE Told(m)'
    <3>1. InFlight(m)
      BY <2>1, <2>2 DEF InFlight
    <3>2. Request[request[m]].session # s
      <4>1. CASE Request[request[m]].session = s
        <5>1. watermark'[s] = Unset
          BY <2>1, Zenon DEF Inv, TypeOK
        <5> QED
          BY <2>1, <2>2, <3>1, <4>1, <5>1, FlightFacts DEF stale, Unset
      <4> QED
        BY <4>1, Zenon
    <3>3. stale(request[m])
      <4>1. watermark'[Request[request[m]].session] = watermark[Request[request[m]].session]
        BY <2>1, <3>1, <3>2, FlightFacts, Zenon DEF Inv, TypeOK
      <4> QED
        BY <2>1, <2>2, <4>1, Zenon DEF stale
    <3>4. Told(m)
      BY <2>1, <3>1, <3>3, FlightFacts, Zenon DEF CancelInv
    <3> QED
      BY <2>1, <3>4 DEF Told
  <2> QED
    BY <2>1, <2>2, Zenon DEF CancelInv, stale
<1>3. ASSUME CancelEnd PROVE CancelInv'
  <2>1. /\ ~Stopping /\ target' = Unset /\ UNCHANGED <<watermark, state, request, cancel_generation>>
        /\ \A l \in Lane : l >= k => ~CancelHits(l)
    BY <1>3 DEF CancelEnd, Stopping, lanes, assignment, signals
  <2>2. ASSUME NEW m \in Lane, InFlight(m)', stale(request[m])' PROVE Told(m)'
    <3>1. InFlight(m) /\ stale(request[m])
      BY <2>1, <2>2 DEF InFlight, stale
    <3>2. Request[request[m]].session # target \/ m < k
      <4>1. CASE Request[request[m]].session = target
        <5>1. CancelHits(m)
          BY <2>1, <3>1, <4>1, FlightFacts DEF CancelHits, stale, InFlight
        <5>2. k \in Int /\ m \in Int
          BY PoolAssumption, InvParts DEF CoordinatorType, Lane
        <5> QED
          BY <2>1, <5>1, <5>2, OtherwiseLess, Zenon
      <4> QED
        BY <4>1
    <3>3. Told(m)
      BY <2>1, <3>1, <3>2 DEF CancelInv
    <3> QED
      BY <2>1, <3>3 DEF Told
  <2> QED
    BY <2>1, <2>2, Zenon DEF CancelInv, stale
<1>4. ASSUME ~Stopping, phase # "cancel", UNCHANGED <<target, watermark, request, cancel_generation>>,
             \A m \in Lane : InFlight(m)' => InFlight(m)
      PROVE  CancelInv'
  <2>1. target = Unset
    BY <1>4 DEF CancelInv
  <2> QED
    BY <1>4, <2>1, CancelFrame
<1>5. ASSUME ~Stopping, phase # "cancel",
             UNCHANGED <<target, watermark, request, cancel_generation, state>>
      PROVE  CancelInv'
  BY <1>4, <1>5 DEF InFlight
<1>6. ASSUME NEW j \in Job, NEW t, SubmitRejected(j, t) PROVE CancelInv'
  BY <1>5, <1>6, Zenon DEF SubmitRejected, Stopping, lanes, assignment, signals, coordinator
<1>7. ASSUME NEW l \in Lane, request_worker_drain(l) PROVE CancelInv'
  <2>1. /\ ~Stopping /\ phase # "cancel"
        /\ UNCHANGED <<target, watermark, request, cancel_generation>>
        /\ state' = state \/ state' = [state EXCEPT ![l] = "Drained"]
    BY <1>7 DEF request_worker_drain, Stopping
  <2> QED
    BY <1>4, <2>1, Zenon DEF InFlight, Inv, TypeOK
<1>8. ASSUME NEW l \in Lane, resume_worker(l) \/ recover_worker(l) PROVE CancelInv'
  <2>1. /\ ~Stopping /\ phase # "cancel"
        /\ UNCHANGED <<target, watermark, request, cancel_generation>>
        /\ state' = [state EXCEPT ![l] = "Idle"]
    BY <1>8, Zenon DEF resume_worker, recover_worker, ReturnToService, assignment, Stopping
  <2> QED
    BY <1>4, <2>1, Zenon DEF InFlight, Inv, TypeOK
<1>9. ASSUME release_ready_result PROVE CancelInv'
  <2>1. /\ ~Stopping /\ phase # "cancel"
        /\ UNCHANGED <<target, watermark, request, cancel_generation>>
        /\ \/ state' = [state EXCEPT ![ready_index] = "Drained"]
           \/ state' = [state EXCEPT ![ready_index] = "Idle"]
    BY <1>9, Zenon DEF release_ready_result, signals, Stopping
  <2> QED
    BY <1>4, <2>1, Zenon DEF InFlight, Inv, TypeOK
<1>10. ASSUME NEW l \in Lane, HandoffBack(l) PROVE CancelInv'
  <2>1. /\ ~Stopping /\ phase # "cancel"
        /\ UNCHANGED <<target, watermark, request, cancel_generation>>
        /\ state[l] = "MigrationReady" /\ state' = [state EXCEPT ![l] = "Requested"]
    BY <1>10, Zenon DEF HandoffBack, HandoffAt, HandoffActs, assignment, Stopping
  <2> QED
    BY <1>4, <2>1 DEF InFlight, Inv, TypeOK
<1>11. ASSUME NEW c \in Lane, NEW l \in Lane, ScanFinds(c, l) PROVE CancelInv'
  BY <1>5, <1>11, Zenon DEF ScanFinds, Stopping, signals
<1>12. ASSUME HandoffEnd \/ DispatchEnd \/ ready_result \/ ScanKeeps PROVE CancelInv'
  BY <1>5, <1>12, Zenon DEF HandoffEnd, DispatchEnd, ready_result, ScanKeeps, Stopping, lanes,
     assignment, signals
<1>13. ASSUME stop \/ StopLaneFlag \/ StopLaneWake \/ StopJoin PROVE FALSE
  BY <1>13, Zenon DEF stop, StopLaneFlag, StopLaneWake, StopJoin, coordinator, Stopping
<1>14. ASSUME UNCHANGED <<phase, k, target, watermark, request, cancel_generation>>,
              \A m \in Lane : InFlight(m)' => InFlight(m)
       PROVE  CancelInv'
  <2>1. ~Stopping
    BY <1>14 DEF Stopping
  <2>2. ASSUME NEW m \in Lane, InFlight(m)', stale(request[m])',
               Request[request'[m]].session # target' \/ m < k'
        PROVE  Told(m)'
    <3>1. InFlight(m) /\ stale(request[m]) /\ (Request[request[m]].session # target \/ m < k)
      BY <1>14, <2>2, Zenon DEF stale
    <3>2. Told(m)
      BY <2>1, <3>1, Zenon DEF CancelInv
    <3> QED
      BY <1>14, <3>2, Zenon DEF Told
  <2>3. phase' # "cancel" => target' = Unset
    BY <1>14, <2>1, Zenon DEF CancelInv
  <2> QED
    BY <2>2, <2>3, Zenon DEF CancelInv, stale
<1>15. ASSUME NEW l \in Lane, Worker(l) PROVE CancelInv'
  <2>1. UNCHANGED <<phase, k, target, watermark, request, cancel_generation>>
    BY <1>15, WorkerOwn DEF coordinatorOwned, coordinator, assignment
  <2>2. ~Stopping
    BY <2>1 DEF Stopping
  <2> QED
    BY <1>14, <1>15, <2>1, <2>2, WorkerFlight
<1>16. ASSUME Tick \/ UNCHANGED vars PROVE CancelInv'
  <2>1. UNCHANGED <<phase, k, target, watermark, request, cancel_generation, state>>
    BY <1>16 DEF Tick, vars, coordinator, lanes, assignment, signals
  <2> QED
    BY <1>14, <2>1, Zenon DEF InFlight
<1> QED
  BY <1>1, <1>2, <1>3, <1>6, <1>7, <1>8, <1>9, <1>10, <1>11, <1>12, <1>13, <1>15, <1>16,
     CancelSubmit, CancelLaneStep, CancelHandoff, CancelDispatch, Zenon
  DEF Next, Call, Continue, Terminated

(* A stale job that is still executing, or waiting in a capsule, has been    *)
(* told to stop, outside of the cancel_before call that is telling it.       *)
THEOREM CancelSafe == Spec => []CancelReaches
<1>1. Init => CancelInv
  BY DEF Init, CancelInv, InFlight
<1>2. Spec => []CancelInv
  BY <1>1, CancelNext, WatermarkSafe, PlaceUnique, Invariance, PTL DEF Spec
<1>3. CancelInv => CancelReaches
  BY DEF CancelInv, CancelReaches, Told
<1> QED
  BY <1>2, <1>3, PTL

---------------------------------------------------------------------------
(* Migration neither repeats nor skips work. *)

(* A request no lane has had yet. *)
Unstarted(j) == outcome[j] = "new" \/ j \in queue

(* What a lane's thread and its capsule know of the work done, until stop(). *)
(* A lane is asked to export only a job that did not come by handoff, and    *)
(* only while it drains; a request that waits without a capsule has had no   *)
(* work; a result is written when the run ends and not before.               *)
LaneWork(l) ==
    LET j == request[l] IN
    /\ ~stop_requested[l]
    /\ migrate_requested[l] \/ state[l] \in {"MigrationReady", "Drained"} => drain_requested[l]
    /\ migrate_requested[l] \/ state[l] = "MigrationReady" => migration_source[l] = NoLane
    /\ Held(l) /\ handoffs[j] # 0 => migration_source[l] # NoLane
    /\ state[l] = "Requested" /\ ~resume_bytes[l] => executed[j] = 0
    /\ state[l] = "MigrationReady" \/ (state[l] = "Requested" /\ resume_bytes[l])
          => migration_storage[l] = [job |-> j, completed |-> executed[j]]
    /\ pc[l] = "run" => completed[l] = executed[j]
    /\ state[l] \in {"Running", "MigrationReady"} /\ pc[l] # "publish" => result[l] = "None"
    /\ (pc[l] = "publish" \/ state[l] = "Ready") /\ result[l] = "Complete"
          => executed[j] = Request[j].total

WorkInv ==
    /\ \A j \in Job : handoffs[j] <= 1
    /\ ~Stopping => /\ \A j \in Job : Unstarted(j) => executed[j] = 0 /\ handoffs[j] = 0
                    /\ \A l \in Lane : LaneWork(l)

(* The invariant says what WorkPreserved promises. *)
LEMMA WorkMeans == Inv /\ WorkInv => WorkPreserved
<1> SUFFICES ASSUME Inv, WorkInv PROVE WorkPreserved
  OBVIOUS
<1>1. OneHandoff
  BY Zenon DEF WorkInv, LaneWork, OneHandoff
<1>2. ASSUME ~Stopping, NEW l \in Lane
      PROVE  LET j == request[l] IN
             /\ pc[l] = "run" => completed[l] = executed[j]
             /\ state[l] = "MigrationReady" \/ (state[l] = "Requested" /\ resume_bytes[l])
                  => migration_storage[l] = [job |-> j, completed |-> executed[j]]
             /\ Held(l) /\ ~(state[l] = "Requested" /\ pc[l] # "publish") /\ result[l] = "Complete"
                  => executed[j] = Request[j].total
  <2>1. LaneWork(l) /\ state[l] \in LaneState
    BY <1>2, InvParts DEF WorkInv, CoreType
  <2> QED
    BY <2>1 DEF LaneWork, Held, LaneState
<1> QED
  BY <1>1, <1>2 DEF WorkPreserved

(* Lane m is as it was, and so are the counts of the job it holds. *)
LaneStays(m) ==
    /\ state'[m] = state[m] /\ request'[m] = request[m]
    /\ pc'[m] \in {"run", "publish"} \/ pc[m] \in {"run", "publish"} => pc'[m] = pc[m]
    /\ resume_bytes'[m] = resume_bytes[m] /\ migration_storage'[m] = migration_storage[m]
    /\ result'[m] = result[m] /\ completed'[m] = completed[m]
    /\ migration_source'[m] = migration_source[m] /\ migrate_requested'[m] = migrate_requested[m]
    /\ drain_requested'[m] = drain_requested[m] /\ stop_requested'[m] = stop_requested[m]
    /\ Held(m) => /\ executed'[request[m]] = executed[request[m]]
                  /\ handoffs'[request[m]] = handoffs[request[m]]

(* Such a lane keeps what it knows. *)
LEMMA LaneKeeps ==
  ASSUME Inv, ~Stopping, NEW m \in Lane, LaneWork(m), LaneStays(m) PROVE LaneWork(m)'
<1>1. /\ pc[m] = "run" => state[m] = "Running"
      /\ pc[m] = "publish" => state[m] \in {"Requested", "Running"}
  BY Zenon DEF Inv, LaneStates
<1>2. CASE ~Held(m)
  <2>1. state[m] \in {"Idle", "Drained"} /\ pc[m] \notin {"run", "publish"}
    BY <1>1, <1>2 DEF Held
  <2>2. pc'[m] \notin {"run", "publish"}
    BY <2>1, Zenon DEF LaneStays
  <2> QED
    BY <2>1, <2>2, Zenon DEF LaneWork, LaneStays, Held
<1>3. CASE Held(m)
  BY <1>1, <1>3 DEF LaneWork, LaneStays, Held
<1> QED
  BY <1>2, <1>3, Zenon

(* A job a lane holds has been started. *)
LEMMA HeldStarted ==
  ASSUME OnePlace, ~Stopping, NEW l \in Lane, Held(l), request[l] \in Job PROVE ~Unstarted(request[l])
  BY DEF OnePlace, Unstarted

(* No count changes, no request becomes unstarted. *)
CountsStay ==
    /\ UNCHANGED <<executed, handoffs>>
    /\ \A j \in Job : Unstarted(j)' => Unstarted(j)

(* The steps that change no lane. *)
LEMMA WorkQuiet ==
  ASSUME Inv, WorkInv, ~Stopping, CountsStay, UNCHANGED lanes PROVE WorkInv'
<1>1. \A m \in Lane : LaneStays(m)
  BY DEF LaneStays, CountsStay, lanes, assignment, supervision, signals, capsules, execution
<1>2. \A m \in Lane : LaneWork(m)'
  BY <1>1, LaneKeeps DEF WorkInv
<1> QED
  BY <1>2, Zenon DEF WorkInv, CountsStay

(* The steps that change lane l only. *)
LEMMA WorkOneLane ==
  ASSUME Inv, WorkInv, ~Stopping, CountsStay, NEW l \in Lane, LaneWork(l)',
         \A m \in Lane \ {l} : LaneStays(m)
  PROVE  WorkInv'
<1>1. \A m \in Lane : LaneWork(m)'
  BY LaneKeeps DEF WorkInv
<1> QED
  BY <1>1 DEF WorkInv, CountsStay

(* Once the pool is being stopped nothing is handed off. *)
LEMMA WorkStopping == ASSUME WorkInv, Stopping', UNCHANGED handoffs PROVE WorkInv'
  BY DEF WorkInv

(* The coordinator's steps that touch no lane. *)
LEMMA WorkCalls ==
  ASSUME Inv, WorkInv,
         \/ \E j \in Job, t \in {0, now} : SubmitRejected(j, t) \/ SubmitAccepted(j, t)
         \/ \E s \in Session, g \in CancelGenerations : cancel_before(s, g)
         \/ \E s \in Session : release_session(s)
         \/ CancelEnd \/ HandoffEnd \/ DispatchEnd \/ ready_result \/ ScanKeeps
  PROVE  WorkInv'
<1>1. ASSUME NEW j \in Job, NEW t, SubmitRejected(j, t) PROVE WorkInv'
  <2>1. /\ ~Stopping /\ UNCHANGED <<lanes, queue, executed, handoffs>> /\ outcome[j] = "new"
        /\ \E r : outcome' = [outcome EXCEPT ![j] = r]
    BY <1>1, Zenon DEF SubmitRejected, Stopping
  <2>2. CountsStay
    BY <2>1, InvParts DEF CountsStay, Unstarted, HistoryType
  <2> QED
    BY <2>1, <2>2, WorkQuiet
<1>2. ASSUME NEW j \in Job, NEW t, SubmitAccepted(j, t) PROVE WorkInv'
  <2>1. /\ ~Stopping /\ UNCHANGED <<lanes, executed, handoffs>> /\ outcome[j] = "new"
        /\ outcome' = [outcome EXCEPT ![j] = "accepted"] /\ queue' = queue \cup {j}
    BY <1>2, Zenon DEF SubmitAccepted, Stopping
  <2>2. CountsStay
    BY <2>1, InvParts DEF CountsStay, Unstarted, HistoryType
  <2> QED
    BY <2>1, <2>2, WorkQuiet
<1>3. ASSUME UNCHANGED <<lanes, queue, history>>, ~Stopping PROVE WorkInv'
  BY <1>3, WorkQuiet DEF CountsStay, Unstarted, history
<1>4. ASSUME NEW s, NEW g, cancel_before(s, g) PROVE WorkInv'
  BY <1>3, <1>4 DEF cancel_before, Stopping
<1>5. ASSUME NEW s, release_session(s) PROVE WorkInv'
  BY <1>3, <1>5, Zenon DEF release_session, Stopping
<1>6. ASSUME CancelEnd \/ HandoffEnd \/ DispatchEnd \/ ready_result \/ ScanKeeps PROVE WorkInv'
  BY <1>3, <1>6 DEF CancelEnd, HandoffEnd, DispatchEnd, ready_result, ScanKeeps, Stopping
<1> QED
  BY <1>1, <1>2, <1>4, <1>5, <1>6

(* stop() and the clock. *)
LEMMA WorkStop ==
  ASSUME Inv, WorkInv, stop \/ StopLaneFlag \/ StopLaneWake \/ StopJoin \/ Tick PROVE WorkInv'
<1>1. ASSUME stop \/ StopLaneFlag \/ StopLaneWake \/ StopJoin
      PROVE  Stopping' /\ UNCHANGED handoffs
  BY <1>1 DEF stop, StopLaneFlag, StopLaneWake, StopJoin, coordinator, history, Stopping
<1>2. ASSUME Tick PROVE WorkInv'
  <2>1. UNCHANGED <<lanes, queue, history, phase>>
    BY <1>2 DEF Tick, coordinator
  <2>2. UNCHANGED handoffs /\ (Stopping' <=> Stopping) /\ CountsStay
    BY <2>1 DEF history, Stopping, CountsStay, Unstarted
  <2> QED
    BY <2>1, <2>2, WorkQuiet, WorkStopping
<1> QED
  BY <1>1, <1>2, WorkStopping, Zenon

(* A notify moves no thread that runs. *)
LEMMA NotifyStays ==
  ASSUME Inv, NEW S, pc' = pc \/ pc' = Notified(S), NEW m \in Lane
  PROVE  pc'[m] \in {"run", "publish"} \/ pc[m] \in {"run", "publish"} => pc'[m] = pc[m]
  BY NotifiedType

(* A lane is told to drain, and to export its job if that may still move. *)
LEMMA WorkDrain ==
  ASSUME Inv, WorkInv, NEW l \in Lane, request_worker_drain(l) PROVE WorkInv'
<1>1. /\ ~Stopping /\ UNCHANGED <<queue, history, request, stop_requested, capsules, execution>>
      /\ drain_requested' = [drain_requested EXCEPT ![l] = TRUE]
  BY DEF request_worker_drain, Stopping
<1>2. CountsStay
  BY <1>1, Zenon DEF CountsStay, Unstarted, history
<1>3. /\ pc' = pc \/ pc' = Notified({l})
      /\ state' = state \/ (state[l] = "Idle" /\ state' = [state EXCEPT ![l] = "Drained"])
  BY Zenon DEF request_worker_drain
<1>4. \/ migrate_requested' = migrate_requested
      \/ /\ migration_source[l] = NoLane
         /\ \E b \in BOOLEAN : migrate_requested' = [migrate_requested EXCEPT ![l] = b]
  BY Zenon DEF request_worker_drain, MayExport
<1>5. \A m \in Lane \ {l} : LaneStays(m)
  <2>1. ASSUME NEW m \in Lane \ {l}
        PROVE  /\ state'[m] = state[m] /\ migrate_requested'[m] = migrate_requested[m]
               /\ drain_requested'[m] = drain_requested[m]
    BY <1>1, <1>3, <1>4, <2>1, InvParts DEF AssignmentType
  <2>2. ASSUME NEW m \in Lane \ {l}
        PROVE  pc'[m] \in {"run", "publish"} \/ pc[m] \in {"run", "publish"} => pc'[m] = pc[m]
    BY <1>3, <2>2, NotifyStays
  <2> QED
    BY <1>1, <2>1, <2>2 DEF LaneStays, capsules, execution, history
<1>6. LaneWork(l)'
  <2>1. LaneWork(l) /\ drain_requested'[l]
    BY <1>1, InvParts DEF WorkInv, AssignmentType
  <2>2. migrate_requested'[l] => migrate_requested[l] \/ migration_source[l] = NoLane
    BY <1>4, InvParts DEF AssignmentType
  <2>3. pc'[l] \in {"run", "publish"} \/ pc[l] \in {"run", "publish"} => pc'[l] = pc[l]
    BY <1>3, NotifyStays
  <2>4. /\ pc[l] = "run" => state[l] = "Running"
        /\ pc[l] = "publish" => state[l] \in {"Requested", "Running"}
    BY <1>1 DEF Inv, LaneStates
  <2>5. state'[l] = state[l] \/ (state[l] = "Idle" /\ state'[l] = "Drained")
    BY <1>3, InvParts DEF AssignmentType
  <2>6. UNCHANGED <<request[l], stop_requested[l], migration_source[l], migration_storage[l],
                    resume_bytes[l], result[l], completed[l], executed[request[l]],
                    handoffs[request[l]]>>
    BY <1>1, Zenon DEF capsules, execution, history
  <2> QED
    BY <2>1, <2>2, <2>3, <2>4, <2>5, <2>6, Zenon DEF LaneWork, Held
<1> QED
  BY <1>1, <1>2, <1>5, <1>6, WorkOneLane, Zenon

(* A lane that holds nothing has nothing to account for. *)
LEMMA FreeLane ==
  ASSUME NEW l \in Lane, state'[l] \in {"Idle", "Drained"}, pc'[l] \notin {"run", "publish"},
         ~stop_requested'[l], migrate_requested'[l] => migration_source'[l] = NoLane,
         migrate_requested'[l] \/ state'[l] = "Drained" => drain_requested'[l]
  PROVE  LaneWork(l)'
  BY DEF LaneWork, Held

(* A drained lane returns to service. *)
LEMMA WorkReturn ==
  ASSUME Inv, WorkInv, NEW l \in Lane, resume_worker(l) \/ recover_worker(l) PROVE WorkInv'
<1>1. /\ ~Stopping /\ state[l] = "Drained" /\ ReturnToService(l)
  BY DEF resume_worker, recover_worker, Stopping
<1>2. /\ UNCHANGED <<queue, history, assignment, stop_requested, capsules, execution>>
      /\ pc' = Notified({l}) /\ state' = [state EXCEPT ![l] = "Idle"]
      /\ migrate_requested' = [migrate_requested EXCEPT ![l] = FALSE]
      /\ drain_requested' = [drain_requested EXCEPT ![l] = FALSE]
  BY <1>1 DEF ReturnToService
<1>3. CountsStay
  BY <1>2, Zenon DEF CountsStay, Unstarted, history
<1>4. \A m \in Lane \ {l} : LaneStays(m)
  <2>1. ASSUME NEW m \in Lane \ {l}
        PROVE  /\ state'[m] = state[m] /\ migrate_requested'[m] = migrate_requested[m]
               /\ drain_requested'[m] = drain_requested[m]
    BY <1>2, <2>1, InvParts DEF AssignmentType
  <2>2. ASSUME NEW m \in Lane \ {l}
        PROVE  pc'[m] \in {"run", "publish"} \/ pc[m] \in {"run", "publish"} => pc'[m] = pc[m]
    BY <1>2, <2>2, NotifyStays, Zenon
  <2> QED
    BY <1>2, <2>1, <2>2, Zenon DEF LaneStays, assignment, capsules, execution, history
<1>5. LaneWork(l)'
  <2>1. pc[l] \notin {"run", "publish"}
    BY <1>1 DEF Inv, LaneStates
  <2>2. pc'[l] \notin {"run", "publish"}
    BY <1>2, <2>1, NotifyStays
  <2>3. state'[l] = "Idle" /\ ~migrate_requested'[l]
    BY <1>2, InvParts DEF AssignmentType
  <2>4. ~stop_requested'[l]
    BY <1>1, <1>2, Zenon DEF WorkInv, LaneWork
  <2> QED
    BY <2>2, <2>3, <2>4, FreeLane
<1> QED
  BY <1>1, <1>3, <1>4, <1>5, WorkOneLane

(* A result is released. *)
LEMMA WorkRelease ==
  ASSUME Inv, OnePlace, WorkInv, release_ready_result PROVE WorkInv'
<1>1. PICK l \in Lane : l = ready_index
  BY InvParts, Zenon DEF release_ready_result, CoordinatorType
<1>2. /\ ~Stopping /\ state[l] = "Ready"
      /\ UNCHANGED <<queue, request, executed, handoffs, supervision, signals, migration_storage,
                     resume_bytes, execution>>
      /\ migration_source' = [migration_source EXCEPT ![l] = NoLane]
      /\ pc' = Notified({l})
      /\ outcome' = [outcome EXCEPT ![request[l]] = result[l]]
      /\ \/ drain_requested[l] /\ state' = [state EXCEPT ![l] = "Drained"]
         \/ state' = [state EXCEPT ![l] = "Idle"]
  BY <1>1, Zenon DEF release_ready_result, Stopping, Inv, LaneStates
<1>3. CountsStay
  <2>1. result[l] \in ResultCode
    BY <1>2 DEF Inv, LaneStates
  <2>2. result[l] # "new"
    BY <2>1, Zenon DEF ResultCode
  <2>3. \A j \in Job : outcome'[j] = "new" => outcome[j] = "new"
    BY <1>2, <2>2, InvParts DEF HistoryType
  <2> QED
    BY <1>2, <2>3, Zenon DEF CountsStay, Unstarted
<1>4. \A m \in Lane \ {l} : LaneStays(m)
  <2>1. ASSUME NEW m \in Lane \ {l}
        PROVE  state'[m] = state[m] /\ migration_source'[m] = migration_source[m]
    BY <1>2, <2>1, InvParts DEF AssignmentType, ExecutionType
  <2>2. ASSUME NEW m \in Lane \ {l}
        PROVE  pc'[m] \in {"run", "publish"} \/ pc[m] \in {"run", "publish"} => pc'[m] = pc[m]
    BY <1>2, <2>2, NotifyStays, Zenon
  <2> QED
    BY <1>2, <2>1, <2>2, Zenon DEF LaneStays, supervision, signals, execution
<1>5. LaneWork(l)'
  <2>1. pc[l] \notin {"run", "publish"} /\ LaneWork(l)
    BY <1>2, Zenon DEF Inv, LaneStates, WorkInv
  <2>2. pc'[l] \notin {"run", "publish"}
    BY <1>2, <2>1, NotifyStays, Zenon
  <2>3. /\ state'[l] = "Idle" \/ (state'[l] = "Drained" /\ drain_requested[l])
        /\ migration_source'[l] = NoLane
    BY <1>2, InvParts DEF AssignmentType, ExecutionType
  <2>4. UNCHANGED <<stop_requested, migrate_requested, drain_requested>>
    BY <1>2 DEF supervision, signals
  <2> QED
    BY <2>1, <2>2, <2>3, <2>4, FreeLane, Zenon DEF LaneWork
<1> QED
  BY <1>2, <1>3, <1>4, <1>5, WorkOneLane

(* Cancellation writes no result but a rejection. *)
LEMMA WorkCancel ==
  ASSUME Inv, WorkInv, NEW l \in Lane, CancelLane(l) PROVE WorkInv'
<1>1. /\ ~Stopping
      /\ UNCHANGED <<queue, state, pc, assignment, supervision, migrate_requested, stop_requested,
                     capsules, completed, outcome, executed, handoffs>>
      /\ \/ result' = result
         \/ result' = [result EXCEPT ![l] = "RejectedStale"] /\ state[l] = "Ready"
  BY DEF CancelLane, Stopping
<1>2. CountsStay
  BY <1>1, Zenon DEF CountsStay, Unstarted
<1>3. \A m \in Lane \ {l} : LaneStays(m)
  <2>1. ASSUME NEW m \in Lane \ {l} PROVE result'[m] = result[m]
    BY <1>1, <2>1, InvParts DEF ExecutionType
  <2> QED
    BY <1>1, <2>1 DEF LaneStays, assignment, supervision, capsules
<1>4. LaneWork(l)'
  <2>1. LaneWork(l)
    BY <1>1 DEF WorkInv
  <2>2. CASE result'[l] = result[l]
    <3>1. LaneStays(l)
      BY <1>1, <2>2 DEF LaneStays, assignment, supervision, capsules
    <3> QED
      BY <1>1, <2>1, <3>1, LaneKeeps, Zenon
  <2>3. CASE result'[l] = "RejectedStale" /\ state[l] = "Ready"
    BY <1>1, <2>1, <2>3, Zenon DEF LaneWork, Held, assignment, supervision, capsules
  <2> QED
    BY <1>1, <2>2, <2>3, InvParts, Zenon DEF ExecutionType
<1> QED
  BY <1>1, <1>2, <1>3, <1>4, WorkOneLane

(* ready_result may take a failing lane out of service. *)
LEMMA WorkScan ==
  ASSUME Inv, WorkInv, NEW c \in Lane, NEW l \in Lane, ScanFinds(c, l) PROVE WorkInv'
<1>1. /\ ~Stopping
      /\ UNCHANGED <<queue, state, pc, request, signals, capsules, result, completed, outcome,
                     executed, handoffs>>
      /\ \E b \in BOOLEAN : drain_requested' = [drain_requested EXCEPT ![l] = @ \/ b]
  BY Zenon DEF ScanFinds, Stopping, MustQuarantine
<1>2. CountsStay
  BY <1>1, Zenon DEF CountsStay, Unstarted
<1>3. \A m \in Lane \ {l} : LaneStays(m)
  <2>1. ASSUME NEW m \in Lane \ {l} PROVE drain_requested'[m] = drain_requested[m]
    BY <1>1, <2>1, InvParts DEF AssignmentType
  <2> QED
    BY <1>1, <2>1, Zenon DEF LaneStays, signals, capsules
<1>4. LaneWork(l)'
  <2>1. LaneWork(l) /\ (drain_requested[l] => drain_requested'[l])
    BY <1>1, InvParts, Zenon DEF WorkInv, AssignmentType
  <2> QED
    BY <1>1, <2>1, Zenon DEF LaneWork, Held, signals, capsules
<1> QED
  BY <1>1, <1>2, <1>3, <1>4, WorkOneLane

(* The source takes its capsule back. *)
LEMMA WorkHandoffBack ==
  ASSUME Inv, WorkInv, NEW l \in Lane, HandoffBack(l) PROVE WorkInv'
<1>1. /\ ~Stopping /\ state[l] = "MigrationReady"
      /\ UNCHANGED <<queue, assignment, supervision, stop_requested, migration_storage,
                     migration_source, execution, history>>
      /\ resume_bytes' = [resume_bytes EXCEPT ![l] = TRUE]
      /\ migrate_requested' = [migrate_requested EXCEPT ![l] = FALSE]
      /\ state' = [state EXCEPT ![l] = "Requested"]
      /\ pc' = Notified({l})
  BY DEF HandoffBack, HandoffAt, HandoffActs, Stopping
<1>2. CountsStay
  BY <1>1 DEF CountsStay, Unstarted, history
<1>3. \A m \in Lane \ {l} : LaneStays(m)
  <2>1. ASSUME NEW m \in Lane \ {l}
        PROVE  /\ state'[m] = state[m] /\ migrate_requested'[m] = migrate_requested[m]
               /\ resume_bytes'[m] = resume_bytes[m]
    BY <1>1, <2>1, InvParts DEF AssignmentType, ExecutionType
  <2>2. ASSUME NEW m \in Lane \ {l}
        PROVE  pc'[m] \in {"run", "publish"} \/ pc[m] \in {"run", "publish"} => pc'[m] = pc[m]
    BY <1>1, <2>2, NotifyStays, Zenon
  <2> QED
    BY <1>1, <2>1, <2>2, Zenon DEF LaneStays, assignment, supervision, execution, history
<1>4. LaneWork(l)'
  <2>1. pc[l] \notin {"run", "publish"} /\ LaneWork(l)
    BY <1>1, Zenon DEF Inv, LaneStates, WorkInv
  <2>2. pc'[l] \notin {"run", "publish"}
    BY <1>1, <2>1, NotifyStays, Zenon
  <2>3. state'[l] = "Requested" /\ ~migrate_requested'[l] /\ resume_bytes'[l]
    BY <1>1, InvParts DEF AssignmentType, ExecutionType
  <2>4. UNCHANGED <<request, stop_requested, drain_requested, migration_storage, migration_source,
                    executed, handoffs>>
    BY <1>1 DEF assignment, supervision, history
  <2> QED
    BY <1>1, <2>1, <2>2, <2>3, <2>4, Zenon DEF LaneWork, Held
<1> QED
  BY <1>1, <1>2, <1>3, <1>4, WorkOneLane, Zenon

(* A job moves with its capsule, for the first and only time. *)
LEMMA WorkHandoffTo ==
  ASSUME Inv, OnePlace, WorkInv, NEW l \in Lane, NEW d \in Lane, HandoffTo(l, d) PROVE WorkInv'
<1> DEFINE j == request[l]
<1>1. /\ ~Stopping /\ state[l] = "MigrationReady" /\ state[d] = "Idle" /\ l # d
      /\ ~drain_requested[d]
  BY Zenon DEF HandoffTo, HandoffAt, HandoffActs, IdleTargets, HandoffTargets, Stopping
<1>2. /\ migration_storage' =
           [migration_storage EXCEPT ![d] = migration_storage[l], ![l] = NoCapsule]
      /\ request' = [request EXCEPT ![d] = j]
      /\ resume_bytes' = [resume_bytes EXCEPT ![d] = TRUE]
      /\ migration_source' = [migration_source EXCEPT ![d] = l]
      /\ state' = [state EXCEPT ![l] = "Drained", ![d] = "Requested"]
      /\ pc' = Notified({l, d})
      /\ handoffs' = [handoffs EXCEPT ![j] = @ + 1]
  BY DEF HandoffTo
<1>3. UNCHANGED <<queue, outcome, supervision, migrate_requested, stop_requested, result,
                  completed, executed>>
  BY Zenon DEF HandoffTo
<1>4. LaneWork(l) /\ LaneWork(d) /\ Held(l) /\ j \in Job
  BY <1>1, Zenon DEF WorkInv, Held, Inv, LaneStates
<1>5. handoffs[j] = 0 /\ migration_source[l] = NoLane
  BY <1>1, <1>4, Zenon DEF LaneWork
<1> HIDE DEF j
<1>6. handoffs'[j] = 1 /\ \A i \in Job \ {j} : handoffs'[i] = handoffs[i]
  BY <1>2, <1>4, <1>5, InvParts DEF HistoryType
<1>7. pc[l] \notin {"run", "publish"} /\ pc[d] \notin {"run", "publish"}
  BY <1>1, Zenon DEF Inv, LaneStates
<1>8. pc'[l] \notin {"run", "publish"} /\ pc'[d] \notin {"run", "publish"}
  BY <1>2, <1>7, NotifyStays, Zenon
<1>9. LaneWork(l)'
  <2>1. state'[l] = "Drained" /\ migration_source'[l] = NoLane
    BY <1>1, <1>2, <1>5, InvParts DEF AssignmentType, ExecutionType
  <2>2. ~stop_requested'[l] /\ drain_requested'[l]
    BY <1>1, <1>3, <1>4, Zenon DEF LaneWork, supervision
  <2> QED
    BY <1>8, <2>1, <2>2, FreeLane, Zenon
<1>10. LaneWork(d)'
  <2>1. /\ state'[d] = "Requested" /\ migration_source'[d] = l /\ request'[d] = j
        /\ resume_bytes'[d] /\ migration_storage'[d] = migration_storage[l]
    BY <1>1, <1>2, InvParts DEF AssignmentType, ExecutionType
  <2>2. migration_storage[l] = [job |-> j, completed |-> executed[j]]
    BY <1>1, <1>4, Zenon DEF LaneWork, j
  <2>3. ~stop_requested'[d] /\ ~migrate_requested'[d] /\ executed'[j] = executed[j]
    BY <1>1, <1>3, <1>4, Zenon DEF LaneWork
  <2> QED
    BY <1>8, <2>1, <2>2, <2>3, Markers, Zenon DEF LaneWork, Held
<1>11. ASSUME NEW m \in Lane \ {l, d} PROVE LaneWork(m)'
  <2>1. /\ state'[m] = state[m] /\ request'[m] = request[m] /\ resume_bytes'[m] = resume_bytes[m]
        /\ migration_storage'[m] = migration_storage[m]
        /\ migration_source'[m] = migration_source[m]
    BY <1>2, <1>11, InvParts, Zenon DEF AssignmentType, ExecutionType
  <2>2. pc'[m] \in {"run", "publish"} \/ pc[m] \in {"run", "publish"} => pc'[m] = pc[m]
    BY <1>2, <1>11, NotifyStays, Zenon
  <2>3. Held(m) => request[m] \in Job \ {j}
    BY <1>1, <1>4, <1>11, Zenon DEF OnePlace, j, Inv, LaneStates
  <2>4. LaneStays(m)
    BY <1>3, <1>6, <2>1, <2>2, <2>3, Zenon DEF LaneStays, supervision
  <2> QED
    BY <1>1, <1>11, <2>4, LaneKeeps, Zenon DEF WorkInv
<1>12. \A i \in Job : Unstarted(i)' => executed'[i] = 0 /\ handoffs'[i] = 0
  <2>1. ~Unstarted(j)
    BY <1>1, <1>4, HeldStarted, Zenon DEF j
  <2> QED
    BY <1>1, <1>3, <1>6, <2>1, Zenon DEF WorkInv, Unstarted
<1>13. \A i \in Job : handoffs'[i] <= 1
  <2>1. 1 <= 1
    OBVIOUS
  <2> QED
    BY <1>6, <2>1, Zenon DEF WorkInv
<1> QED
  BY <1>9, <1>10, <1>11, <1>12, <1>13, Zenon DEF WorkInv

(* A lane starts on a request that no lane has had. *)
LEMMA WorkDispatch ==
  ASSUME Inv, WorkInv, NEW c \in Lane, NEW l \in Lane, NEW j \in Job, DispatchLane(c, l, j)
  PROVE  WorkInv'
<1>1. /\ ~Stopping /\ state[l] = "Idle" /\ j \in queue /\ queue' = queue \ {j}
      /\ UNCHANGED <<supervision, stop_requested, migration_storage, completed, outcome,
                     executed, handoffs>>
      /\ request' = [request EXCEPT ![l] = j]
      /\ resume_bytes' = [resume_bytes EXCEPT ![l] = FALSE]
      /\ migration_source' = [migration_source EXCEPT ![l] = NoLane]
      /\ migrate_requested' = [migrate_requested EXCEPT ![l] = FALSE]
  BY Zenon DEF DispatchLane, DispatchAt, DispatchActs, Dispatchable, Stopping
<1>2. /\ pc' = pc \/ pc' = Notified({l})
      /\ \/ /\ \E r \in {"RejectedStale", "RejectedDeadline"} : result' = [result EXCEPT ![l] = r]
            /\ state' = [state EXCEPT ![l] = "Ready"]
         \/ result' = result /\ state' = [state EXCEPT ![l] = "Requested"]
  BY DEF DispatchLane
<1>3. CountsStay
  BY <1>1 DEF CountsStay, Unstarted
<1>4. \A m \in Lane \ {l} : LaneStays(m)
  <2>1. ASSUME NEW m \in Lane \ {l}
        PROVE  /\ state'[m] = state[m] /\ request'[m] = request[m]
               /\ migrate_requested'[m] = migrate_requested[m]
    BY <1>1, <1>2, <2>1, InvParts, Zenon DEF AssignmentType
  <2>2. ASSUME NEW m \in Lane \ {l}
        PROVE  /\ resume_bytes'[m] = resume_bytes[m] /\ migration_source'[m] = migration_source[m]
               /\ result'[m] = result[m]
    BY <1>1, <1>2, <2>2, InvParts DEF ExecutionType
  <2>3. ASSUME NEW m \in Lane \ {l}
        PROVE  pc'[m] \in {"run", "publish"} \/ pc[m] \in {"run", "publish"} => pc'[m] = pc[m]
    BY <1>2, <2>3, NotifyStays
  <2> QED
    BY <1>1, <2>1, <2>2, <2>3, Zenon DEF LaneStays, supervision
<1>5. LaneWork(l)'
  <2>1. pc[l] \notin {"run", "publish"} /\ LaneWork(l)
    BY <1>1, Zenon DEF Inv, LaneStates, WorkInv
  <2>2. pc'[l] \notin {"run", "publish"}
    BY <1>2, <2>1, NotifyStays
  <2>3. executed'[j] = 0 /\ handoffs'[j] = 0 /\ ~stop_requested'[l]
    BY <1>1, <2>1, Zenon DEF WorkInv, Unstarted, LaneWork
  <2>4. request'[l] = j /\ ~resume_bytes'[l] /\ ~migrate_requested'[l]
    BY <1>1, InvParts DEF AssignmentType, ExecutionType
  <2>5. state'[l] = "Requested" \/ (state'[l] = "Ready" /\ result'[l] # "Complete")
    BY <1>2, InvParts, Zenon DEF AssignmentType, ExecutionType
  <2> QED
    BY <2>2, <2>3, <2>4, <2>5, Zenon DEF LaneWork, Held
<1> QED
  BY <1>1, <1>3, <1>4, <1>5, WorkOneLane, Zenon

(* What a step of lane l's thread leaves of the other lanes, and the work it *)
(* counts.                                                                   *)
OthersStay(l) ==
    \A m \in Lane \ {l} :
        /\ state'[m] = state[m] /\ pc'[m] = pc[m] /\ resume_bytes'[m] = resume_bytes[m]
        /\ migration_storage'[m] = migration_storage[m] /\ result'[m] = result[m]
        /\ completed'[m] = completed[m] /\ migrate_requested'[m] = migrate_requested[m]

OwnWork(l) ==
    \/ UNCHANGED executed
    \/ Held(l) /\ \A i \in Job \ {request[l]} : executed'[i] = executed[i]

(* Such a step disturbs no other lane. *)
LEMMA ThreadFrame ==
  ASSUME Inv, OnePlace, WorkInv, ~Stopping, NEW l \in Lane, UNCHANGED coordinatorOwned,
         LaneWork(l)', OthersStay(l), OwnWork(l)
  PROVE  WorkInv'
<1>1. UNCHANGED <<queue, phase, request, drain_requested, stop_requested, migration_source,
                  outcome, handoffs>>
  BY DEF coordinatorOwned, coordinator, assignment, supervision
<1>2. ASSUME NEW m \in Lane \ {l} PROVE LaneWork(m)'
  <2>1. Held(m) => executed'[request[m]] = executed[request[m]]
    <3>1. CASE UNCHANGED executed
      BY <3>1, Zenon
    <3>2. CASE Held(l) /\ \A i \in Job \ {request[l]} : executed'[i] = executed[i]
      <4>1. Held(m) => request[m] \in Job \ {request[l]}
        BY <1>2, <3>2, Zenon DEF OnePlace, Inv, LaneStates
      <4> QED
        BY <3>2, <4>1, Zenon
    <3> QED
      BY <3>1, <3>2 DEF OwnWork
  <2>2. LaneStays(m)
    BY <1>1, <1>2, <2>1, Zenon DEF LaneStays, OthersStay
  <2> QED
    BY <1>2, <2>2, LaneKeeps, Zenon DEF WorkInv
<1>3. \A i \in Job : Unstarted(i)' => executed'[i] = 0 /\ handoffs'[i] = 0
  <2>1. CASE UNCHANGED executed
    BY <1>1, <2>1, Zenon DEF WorkInv, Unstarted
  <2>2. CASE Held(l) /\ \A i \in Job \ {request[l]} : executed'[i] = executed[i]
    <3>1. ~Unstarted(request[l])
      BY <2>2, HeldStarted, Zenon DEF Inv, LaneStates
    <3> QED
      BY <1>1, <2>2, <3>1, Zenon DEF WorkInv, Unstarted
  <2> QED
    BY <2>1, <2>2, Zenon DEF OwnWork
<1> QED
  BY <1>1, <1>2, <1>3, Zenon DEF WorkInv

(* The thread's steps that do no work. *)
LEMMA WorkIdleSteps ==
  ASSUME Inv, OnePlace, WorkInv, ~Stopping, NEW l \in Lane,
         \/ WorkerLoop(l) \/ WorkerSleep(l) \/ WorkerBindFails(l) \/ WorkerExportFails(l)
         \/ WorkerPublish(l)
  PROVE  WorkInv'
<1>1. UNCHANGED coordinatorOwned
  BY WorkerOwn DEF Worker
<1>2. UNCHANGED <<request, drain_requested, stop_requested, migration_source, handoffs>>
  BY <1>1 DEF coordinatorOwned, assignment, supervision
<1>3. LaneWork(l) /\ ~stop_requested[l]
  BY Zenon DEF WorkInv, LaneWork
<1>4. CASE WorkerLoop(l) \/ WorkerSleep(l)
  <2>1. /\ UNCHANGED <<state, migrate_requested, migration_storage, resume_bytes, execution, executed>>
        /\ pc[l] \in {"loop", "load"} /\ \E p \in {"load", "asleep"} : pc' = [pc EXCEPT ![l] = p]
    BY <1>3, <1>4, Zenon DEF WorkerLoop, WorkerSleep
  <2>2. /\ \A m \in Lane \ {l} : pc'[m] = pc[m]
        /\ pc'[l] \in {"load", "asleep"}
    BY <2>1, InvParts DEF ExecutionType
  <2>3. UNCHANGED <<result, completed>>
    BY <2>1 DEF execution
  <2>4. LaneStays(l)
    BY <1>2, <2>1, <2>2, <2>3, Zenon DEF LaneStays
  <2>5. OthersStay(l) /\ OwnWork(l)
    BY <2>1, <2>2, <2>3, Zenon DEF OthersStay, OwnWork
  <2> QED
    BY <1>1, <1>3, <2>4, <2>5, LaneKeeps, ThreadFrame
<1>5. CASE WorkerBindFails(l)
  <2>1. /\ UNCHANGED <<state, migrate_requested, migration_storage, resume_bytes, completed, executed>>
        /\ state[l] = "Requested"
        /\ pc' = [pc EXCEPT ![l] = "publish"] /\ result' = [result EXCEPT ![l] = "Failed"]
    BY <1>5, Zenon DEF WorkerBindFails
  <2>2. /\ \A m \in Lane \ {l} : pc'[m] = pc[m] /\ result'[m] = result[m]
        /\ pc'[l] = "publish" /\ result'[l] = "Failed"
    BY <2>1, InvParts DEF ExecutionType
  <2>3. LaneWork(l)'
    BY <1>2, <1>3, <2>1, <2>2, Zenon DEF LaneWork, Held
  <2>4. OthersStay(l) /\ OwnWork(l)
    BY <2>1, <2>2, Zenon DEF OthersStay, OwnWork
  <2> QED
    BY <1>1, <2>3, <2>4, ThreadFrame, Zenon
<1>6. CASE WorkerExportFails(l)
  <2>1. /\ UNCHANGED <<state, pc, migration_storage, resume_bytes, execution, executed>>
        /\ migrate_requested' = [migrate_requested EXCEPT ![l] = FALSE]
    BY <1>6, Zenon DEF WorkerExportFails
  <2>2. /\ \A m \in Lane \ {l} : migrate_requested'[m] = migrate_requested[m]
        /\ ~migrate_requested'[l]
    BY <2>1, InvParts DEF AssignmentType
  <2>3. UNCHANGED <<result, completed>>
    BY <2>1 DEF execution
  <2>4. LaneWork(l)'
    BY <1>2, <1>3, <2>1, <2>2, <2>3, Zenon DEF LaneWork, Held
  <2>5. OthersStay(l) /\ OwnWork(l)
    BY <2>1, <2>2, <2>3, Zenon DEF OthersStay, OwnWork
  <2> QED
    BY <1>1, <2>4, <2>5, ThreadFrame
<1>7. CASE WorkerPublish(l)
  <2>1. /\ UNCHANGED <<migrate_requested, migration_storage, resume_bytes, execution, executed>>
        /\ pc[l] = "publish"
        /\ pc' = [pc EXCEPT ![l] = "loop"] /\ state' = [state EXCEPT ![l] = "Ready"]
    BY <1>3, <1>7, Zenon DEF WorkerPublish
  <2>2. /\ \A m \in Lane \ {l} : pc'[m] = pc[m] /\ state'[m] = state[m]
        /\ pc'[l] = "loop" /\ state'[l] = "Ready"
    BY <2>1, InvParts DEF AssignmentType, ExecutionType
  <2>3. UNCHANGED <<result, completed>>
    BY <2>1 DEF execution
  <2>4. Held(l)
    BY <2>1, Zenon DEF Inv, LaneStates, Held
  <2>5. LaneWork(l)'
    BY <1>2, <1>3, <2>1, <2>2, <2>3, <2>4, Zenon DEF LaneWork, Held
  <2>6. OthersStay(l) /\ OwnWork(l)
    BY <2>1, <2>2, <2>3, Zenon DEF OthersStay, OwnWork
  <2> QED
    BY <1>1, <2>5, <2>6, ThreadFrame
<1> QED
  BY <1>4, <1>5, <1>6, <1>7

(* A run begins with the work its capsule carries, or with none. *)
LEMMA WorkStart ==
  ASSUME Inv, OnePlace, WorkInv, ~Stopping, NEW l \in Lane, WorkerStart(l) PROVE WorkInv'
<1>1. UNCHANGED coordinatorOwned
  BY WorkerOwn DEF Worker
<1>2. UNCHANGED <<request, drain_requested, stop_requested, migration_source, handoffs>>
  BY <1>1, Zenon DEF coordinatorOwned, assignment, supervision
<1>3. LaneWork(l) /\ state[l] = "Requested" /\ Held(l)
  BY Zenon DEF WorkInv, WorkerStart, Held
<1>4. /\ UNCHANGED <<migrate_requested, executed>>
      /\ state' = [state EXCEPT ![l] = "Running"]
      /\ resume_bytes' = [resume_bytes EXCEPT ![l] = FALSE]
      /\ migration_storage' = [migration_storage EXCEPT ![l] = NoCapsule]
  BY Zenon DEF WorkerStart
<1>5. \/ /\ pc' = [pc EXCEPT ![l] = "publish"] /\ completed' = [completed EXCEPT ![l] = 0]
         /\ \E r \in {"Failed", "Cancelled"} : result' = [result EXCEPT ![l] = r]
      \/ /\ pc' = [pc EXCEPT ![l] = "run"] /\ result' = [result EXCEPT ![l] = "None"]
         /\ completed' = [completed EXCEPT
                            ![l] = IF resume_bytes[l] THEN migration_storage[l].completed ELSE 0]
  BY Zenon DEF WorkerStart, Finish
<1>6. \A m \in Lane \ {l} :
         /\ state'[m] = state[m] /\ resume_bytes'[m] = resume_bytes[m]
         /\ migration_storage'[m] = migration_storage[m]
  BY <1>4, InvParts DEF AssignmentType, ExecutionType
<1>7. \A m \in Lane \ {l} : pc'[m] = pc[m] /\ result'[m] = result[m] /\ completed'[m] = completed[m]
  BY <1>5, InvParts DEF ExecutionType
<1>8. state'[l] = "Running"
  BY <1>4, InvParts DEF AssignmentType
<1>9. \/ pc'[l] = "publish" /\ result'[l] # "Complete"
      \/ /\ pc'[l] = "run" /\ result'[l] = "None"
         /\ completed'[l] = IF resume_bytes[l] THEN migration_storage[l].completed ELSE 0
  BY <1>5, InvParts DEF ExecutionType
<1>10. pc'[l] = "run" => completed'[l] = executed[request[l]]
  <2>1. resume_bytes[l] => migration_storage[l] = [job |-> request[l],
                                                   completed |-> executed[request[l]]]
    BY <1>3, Zenon DEF LaneWork
  <2>2. resume_bytes[l] => migration_storage[l].completed = executed[request[l]]
    BY <2>1
  <2>3. ~resume_bytes[l] => executed[request[l]] = 0
    BY <1>3, Zenon DEF LaneWork
  <2> QED
    BY <1>9, <2>2, <2>3
<1>11. LaneWork(l)'
  BY <1>2, <1>3, <1>4, <1>8, <1>9, <1>10, Zenon DEF LaneWork, Held
<1>12. OthersStay(l) /\ OwnWork(l)
  BY <1>4, <1>6, <1>7, Zenon DEF OthersStay, OwnWork
<1> QED
  BY <1>1, <1>11, <1>12, ThreadFrame

(* Every unit a backend advances is counted once, and the last one ends the  *)
(* run.                                                                      *)
LEMMA WorkAdvance ==
  ASSUME Inv, OnePlace, WorkInv, ~Stopping, NEW l \in Lane, WorkerAdvance(l) PROVE WorkInv'
<1> DEFINE j == request[l]
           left == Request[j].total - completed[l]
           budget == IF WorkQuantum < left THEN WorkQuantum ELSE left
<1>1. UNCHANGED coordinatorOwned
  BY WorkerOwn DEF Worker
<1>2. UNCHANGED <<request, drain_requested, stop_requested, migration_source, handoffs>>
  BY <1>1 DEF coordinatorOwned, assignment, supervision
<1>3. /\ LaneWork(l) /\ pc[l] = "run" /\ state[l] = "Running" /\ Held(l) /\ j \in Job
      /\ completed[l] < Request[j].total
  BY Zenon DEF WorkInv, WorkerAdvance, Held, Inv, LaneStates, WorkLeft
<1>4. completed[l] = executed[j] /\ result[l] = "None"
  BY <1>3, Zenon DEF LaneWork
<1>5. completed[l] \in Nat /\ Request[j].total \in Nat /\ executed[j] \in Nat /\ left \in Nat
  <2>1. Request[j].total \in Nat
    BY <1>3, TotalType
  <2>2. completed \in [Lane -> Nat]
    BY InvParts DEF ExecutionType
  <2>3. completed[l] \in Nat
    BY <2>2, Zenon
  <2>4. Request[j].total - completed[l] \in Nat
    BY <1>3, <2>1, <2>3, RestLeft, Zenon
  <2> QED
    BY <1>4, <2>1, <2>3, <2>4, Zenon
<1>6. UNCHANGED <<state, migrate_requested, migration_storage, resume_bytes>>
  BY Zenon DEF WorkerAdvance
<1>7. ASSUME NEW code, Finish(l, code)
      PROVE  /\ pc'[l] = "publish" /\ result'[l] \in {code, "Failed"}
             /\ \A m \in Lane \ {l} :
                   pc'[m] = pc[m] /\ result'[m] = result[m] /\ completed'[m] = completed[m]
  BY <1>7, InvParts, Zenon DEF Finish, ExecutionType
<1>8. ASSUME UNCHANGED executed, NEW code \in {"Cancelled", "Failed"}, Finish(l, code)
      PROVE  WorkInv'
  <2>1. pc'[l] = "publish" /\ result'[l] # "Complete"
    BY <1>7, <1>8, Zenon
  <2>2. LaneWork(l)'
    BY <1>2, <1>3, <1>6, <1>8, <2>1, Zenon DEF LaneWork, Held
  <2>3. OthersStay(l) /\ OwnWork(l)
    BY <1>6, <1>7, <1>8, Zenon DEF OthersStay, OwnWork
  <2> QED
    BY <1>1, <2>2, <2>3, ThreadFrame
<1>9. ASSUME NEW units \in 1 .. budget, executed' = [executed EXCEPT ![j] = @ + units],
             IF units = left
             THEN Finish(l, "Complete")
             ELSE /\ completed' = [completed EXCEPT ![l] = @ + units]
                  /\ UNCHANGED <<pc, result, execution_failed>>
      PROVE  WorkInv'
  <2>1. executed'[j] = executed[j] + units /\ \A i \in Job \ {j} : executed'[i] = executed[i]
    BY <1>3, <1>9, InvParts, Zenon DEF HistoryType
  <2>2. units \in Nat
    <3>1. WorkQuantum \in Nat
      BY PoolAssumption, Zenon
    <3>2. budget \in Nat
      BY <1>5, <3>1
    <3> HIDE DEF budget
    <3> QED
      BY <3>2
  <2>3. OwnWork(l)
    BY <1>3, <2>1, Zenon DEF OwnWork
  <2>4. CASE units = left
    <3>1. executed'[j] = Request[j].total
      <4>1. executed'[j] = executed[j] + (Request[j].total - executed[j])
        BY <1>4, <2>1, <2>4, Zenon
      <4>2. executed[j] \in Nat /\ Request[j].total \in Nat
        BY <1>5, Zenon
      <4>3. ASSUME NEW a \in Nat, NEW b \in Nat PROVE a + (b - a) = b
        OBVIOUS
      <4> QED
        BY <4>1, <4>2, <4>3, Zenon
    <3>2. Finish(l, "Complete")
      BY <1>9, <2>4, Zenon
    <3>3. pc'[l] = "publish"
      BY <1>7, <3>2, Zenon
    <3>4. LaneWork(l)'
      BY <1>2, <1>3, <1>6, <3>1, <3>3, Zenon DEF LaneWork, Held
    <3>5. OthersStay(l)
      BY <1>6, <1>7, <3>2, Zenon DEF OthersStay
    <3> QED
      BY <1>1, <2>3, <3>4, <3>5, ThreadFrame, Zenon
  <2>5. CASE units # left
    <3>1. completed' = [completed EXCEPT ![l] = @ + units] /\ UNCHANGED <<pc, result>>
      BY <1>9, <2>5, Zenon
    <3>2. /\ completed'[l] = completed[l] + units
          /\ \A m \in Lane \ {l} : completed'[m] = completed[m]
      BY <3>1, InvParts, Zenon DEF ExecutionType
    <3>3. completed'[l] = executed'[j]
      BY <1>4, <2>1, <3>2
    <3>4. LaneWork(l)'
      BY <1>2, <1>3, <1>4, <1>6, <3>1, <3>3, Zenon DEF LaneWork, Held
    <3>5. OthersStay(l)
      BY <1>6, <3>1, <3>2, Zenon DEF OthersStay
    <3> QED
      BY <1>1, <2>3, <3>4, <3>5, ThreadFrame, Zenon
  <2> QED
    BY <2>4, <2>5, Zenon
<1> QED
  BY <1>8, <1>9, Zenon DEF WorkerAdvance

(* The capsule carries what was done. *)
LEMMA WorkExport ==
  ASSUME Inv, OnePlace, WorkInv, ~Stopping, NEW l \in Lane, WorkerExport(l) PROVE WorkInv'
<1>1. UNCHANGED coordinatorOwned
  BY WorkerOwn DEF Worker
<1>2. UNCHANGED <<request, drain_requested, stop_requested, migration_source, handoffs>>
  BY <1>1 DEF coordinatorOwned, assignment, supervision
<1>3. /\ LaneWork(l) /\ pc[l] = "run" /\ state[l] = "Running" /\ migrate_requested[l] /\ Held(l)
  BY Zenon DEF WorkInv, WorkerExport, MigrationDue, Held, Inv, LaneStates
<1>4. /\ UNCHANGED <<migrate_requested, resume_bytes, result, executed>>
      /\ migration_storage' = [migration_storage EXCEPT ![l] = Capsule(l)]
      /\ state' = [state EXCEPT ![l] = "MigrationReady"]
      /\ pc' = [pc EXCEPT ![l] = "loop"]
      /\ completed' = [completed EXCEPT ![l] = 0]
  BY Zenon DEF WorkerExport
<1>5. \A m \in Lane \ {l} :
         /\ state'[m] = state[m] /\ pc'[m] = pc[m] /\ completed'[m] = completed[m]
         /\ migration_storage'[m] = migration_storage[m]
  BY <1>4, InvParts, Zenon DEF AssignmentType, ExecutionType
<1>6. state'[l] = "MigrationReady" /\ pc'[l] = "loop" /\ migration_storage'[l] = Capsule(l)
  BY <1>4, InvParts, Zenon DEF AssignmentType, ExecutionType
<1>7. Capsule(l) = [job |-> request[l], completed |-> executed[request[l]]]
  BY <1>3, Zenon DEF Capsule, LaneWork
<1>8. LaneWork(l)'
  BY <1>2, <1>3, <1>4, <1>6, <1>7, Zenon DEF LaneWork, Held
<1>9. OthersStay(l) /\ OwnWork(l)
  BY <1>4, <1>5, Zenon DEF OthersStay, OwnWork
<1> QED
  BY <1>1, <1>8, <1>9, ThreadFrame

(* Every step keeps the accounts. *)
LEMMA WorkNext == Inv /\ OnePlace /\ WorkInv /\ [Next]_vars => WorkInv'
<1> SUFFICES ASSUME Inv, OnePlace, WorkInv, [Next]_vars PROVE WorkInv'
  OBVIOUS
<1>1. ASSUME NEW l \in Lane, Worker(l) PROVE WorkInv'
  <2>1. UNCHANGED <<handoffs, phase>>
    BY <1>1, WorkerOwn DEF coordinatorOwned, coordinator
  <2>2. CASE Stopping
    BY <2>1, <2>2, WorkStopping DEF Stopping
  <2>3. CASE ~Stopping
    <3>1. ~WorkerAbandon(l)
      BY <2>3, Zenon DEF WorkInv, LaneWork, WorkerAbandon
    <3> QED
      BY <1>1, <2>3, <3>1, WorkIdleSteps, WorkStart, WorkAdvance, WorkExport DEF Worker
  <2> QED
    BY <2>2, <2>3
<1>2. ASSUME UNCHANGED vars PROVE WorkInv'
  <2>1. UNCHANGED <<lanes, queue, history, phase>>
    BY <1>2 DEF vars, coordinator
  <2>2. UNCHANGED handoffs /\ (Stopping' <=> Stopping) /\ CountsStay
    BY <2>1 DEF history, Stopping, CountsStay, Unstarted
  <2> QED
    BY <2>1, <2>2, WorkQuiet, WorkStopping
<1>3. ASSUME Call PROVE WorkInv'
  BY <1>3, WorkCalls, WorkDrain, WorkReturn, WorkRelease, WorkStop, Zenon DEF Call
<1>4. ASSUME Continue PROVE WorkInv'
  BY <1>4, WorkCalls, WorkCancel, WorkHandoffBack, WorkHandoffTo, WorkDispatch, WorkScan, WorkStop
  DEF Continue
<1> QED
  BY <1>1, <1>2, <1>3, <1>4, WorkStop DEF Next, Terminated

(* Migration neither repeats nor skips work, for any number of lanes and     *)
(* requests: what a lane or its capsule says was done is what the backends   *)
(* did, a completed result stands for all of its work units, and no          *)
(* execution moves twice (run_slot, handoff_migrations).                     *)
THEOREM WorkSafe == Spec => []WorkPreserved
<1>1. Init => WorkInv
  <2> SUFFICES ASSUME Init PROVE WorkInv
    OBVIOUS
  <2>1. \A j \in Job : executed[j] = 0 /\ handoffs[j] = 0
    BY DEF Init
  <2>2. ASSUME NEW l \in Lane PROVE LaneWork(l)
    <3>1. /\ state[l] = "Idle" /\ pc[l] = "loop" /\ ~stop_requested[l] /\ ~migrate_requested[l]
      BY Zenon DEF Init
    <3> QED
      BY <3>1, Zenon DEF LaneWork, Held
  <2> QED
    BY <2>1, <2>2 DEF WorkInv
<1>2. Init => OnePlace
  BY DEF Init, OnePlace, Held
<1> QED
  BY <1>1, <1>2, WorkNext, PlaceNext, Invariance, WorkMeans, PTL DEF Spec

---------------------------------------------------------------------------
(* Every request is decided once. *)

Terminal == RejectCode \cup ResultCode

(* A request that waits has had no terminal event, and a lane remembers      *)
(* whether it has published the one of the job it holds.                     *)
LaneEvents(l) ==
    /\ InFlight(l) => ~events_published[l]
    /\ Held(l) /\ ~events_published[l] => event[request[l]] \notin Terminal

EventInv ==
    ~Stopping => /\ \A j \in Job : Unstarted(j) => event[j] \notin Terminal
                 /\ \A l \in Lane : LaneEvents(l)

(* What DecidedOnce says of one step. *)
Decided ==
    \A j \in Job :
        /\ outcome[j] \notin {"new", "accepted"} => outcome'[j] = outcome[j]
        /\ event[j] \in Terminal => event'[j] = event[j]

(* The codes of the other events. *)
LEMMA NotTerminal ==
  {"None", "Admitted", "Dispatched", "Preempted"} \cap Terminal = {}
  BY DEF Terminal, RejectCode, ResultCode

(* No lane changes hands and nothing is decided. *)
LEMMA EventsStay ==
  ASSUME EventInv, ~Stopping, UNCHANGED <<queue, outcome, event, request, events_published>>,
         \A m \in Lane : (Held(m)' => Held(m)) /\ (InFlight(m)' => InFlight(m))
  PROVE  EventInv' /\ Decided
  BY Zenon DEF EventInv, LaneEvents, Unstarted, Decided

(* The calls that change no lane. *)
LEMMA EventCalls ==
  ASSUME Inv, OnePlace, EventInv,
         \/ \E j \in Job, t \in {0, now} : SubmitRejected(j, t) \/ SubmitAccepted(j, t)
         \/ \E s \in Session, g \in CancelGenerations : cancel_before(s, g)
         \/ \E s \in Session : release_session(s)
         \/ CancelEnd \/ HandoffEnd \/ DispatchEnd \/ ready_result \/ ScanKeeps
  PROVE  EventInv' /\ Decided
<1>1. ASSUME NEW j \in Job, NEW o, NEW e, ~Stopping, outcome[j] = "new",
             UNCHANGED lanes, outcome' = [outcome EXCEPT ![j] = o],
             event' = [event EXCEPT ![j] = e], queue' \subseteq queue \cup {j},
             o = "new" \/ j \in queue' => e \notin Terminal
      PROVE  EventInv' /\ Decided
  <2>1. /\ outcome'[j] = o /\ event'[j] = e
        /\ \A i \in Job \ {j} : outcome'[i] = outcome[i] /\ event'[i] = event[i]
    BY <1>1, InvParts DEF HistoryType
  <2>2. event[j] \notin Terminal
    BY <1>1 DEF EventInv, Unstarted
  <2>3. \A l \in Lane : Held(l) => request[l] \in Job \ {j}
    BY <1>1, Zenon DEF OnePlace, Inv, LaneStates
  <2>4. UNCHANGED <<state, request, events_published>>
    BY <1>1 DEF lanes, assignment
  <2>5. \A l \in Lane : LaneEvents(l)'
    BY <1>1, <2>1, <2>3, <2>4, Zenon DEF EventInv, LaneEvents, Held, InFlight
  <2>6. \A i \in Job : Unstarted(i)' => event'[i] \notin Terminal
    <3> SUFFICES ASSUME NEW i \in Job, outcome'[i] = "new" \/ i \in queue'
                 PROVE  event'[i] \notin Terminal
      BY Zenon DEF Unstarted
    <3>1. CASE i = j
      BY <1>1, <2>1, <3>1, Zenon
    <3>2. CASE i # j
      BY <1>1, <2>1, <3>2 DEF EventInv, Unstarted
    <3> QED
      BY <3>1, <3>2, Zenon
  <2>7. Decided
    <3> SUFFICES ASSUME NEW i \in Job
                 PROVE  /\ outcome[i] \notin {"new", "accepted"} => outcome'[i] = outcome[i]
                        /\ event[i] \in Terminal => event'[i] = event[i]
      BY Zenon DEF Decided
    <3>1. CASE i = j
      BY <1>1, <2>2, <3>1, Zenon
    <3>2. CASE i # j
      BY <2>1, <3>2, Zenon
    <3> QED
      BY <3>1, <3>2, Zenon
  <2> QED
    BY <2>5, <2>6, <2>7, Zenon DEF EventInv
<1>2. ASSUME NEW j \in Job, NEW t, SubmitRejected(j, t) PROVE EventInv' /\ Decided
  <2>1. SubmitVerdict(j, t) \in RejectCode
    BY <1>2, VerdictType DEF SubmitRejected
  <2>2. SubmitVerdict(j, t) # "new"
    BY <2>1, Zenon DEF RejectCode
  <2>3. /\ queue' = queue /\ ~Stopping /\ outcome[j] = "new"
        /\ outcome' = [outcome EXCEPT ![j] = SubmitVerdict(j, t)]
        /\ event' = [event EXCEPT ![j] = SubmitVerdict(j, t)] /\ UNCHANGED lanes
    BY <1>2 DEF SubmitRejected, Stopping
  <2>4. ~(SubmitVerdict(j, t) = "new" \/ j \in queue')
    BY <2>2, <2>3, Zenon DEF OnePlace
  <2> QED
    BY <1>1, <2>3, <2>4, Zenon
<1>3. ASSUME NEW j \in Job, NEW t, SubmitAccepted(j, t) PROVE EventInv' /\ Decided
  BY <1>1, <1>3, NotTerminal, Zenon DEF SubmitAccepted, Stopping
<1>4. ASSUME UNCHANGED <<lanes, queue, history>>, ~Stopping PROVE EventInv' /\ Decided
  <2>1. UNCHANGED <<queue, outcome, event, request, events_published, state>>
    BY <1>4, Zenon DEF lanes, assignment, history
  <2> QED
    BY <1>4, <2>1, EventsStay, Zenon DEF Held, InFlight
<1>5. ASSUME NEW s, NEW g, cancel_before(s, g) PROVE EventInv' /\ Decided
  BY <1>4, <1>5, Zenon DEF cancel_before, Stopping
<1>6. ASSUME NEW s, release_session(s) PROVE EventInv' /\ Decided
  BY <1>4, <1>6 DEF release_session, Stopping
<1>7. ASSUME CancelEnd \/ HandoffEnd \/ DispatchEnd \/ ready_result \/ ScanKeeps
      PROVE  EventInv' /\ Decided
  BY <1>4, <1>7, Zenon DEF CancelEnd, HandoffEnd, DispatchEnd, ready_result, ScanKeeps, Stopping
<1> QED
  BY <1>2, <1>3, <1>5, <1>6, <1>7, Zenon

(* The steps of drains, of returns to service and of a capsule taken back. *)
LEMMA EventLanes ==
  ASSUME Inv, EventInv, NEW l \in Lane,
         request_worker_drain(l) \/ resume_worker(l) \/ recover_worker(l) \/ HandoffBack(l)
  PROVE  EventInv' /\ Decided
<1>1. CASE request_worker_drain(l)
  <2>1. /\ ~Stopping /\ UNCHANGED <<queue, outcome, event, request, events_published>>
        /\ state' = state \/ (state[l] = "Idle" /\ state' = [state EXCEPT ![l] = "Drained"])
    BY <1>1, Zenon DEF request_worker_drain, history, Stopping
  <2> QED
    BY <2>1, EventsStay, InvParts DEF Held, InFlight, AssignmentType
<1>2. CASE resume_worker(l) \/ recover_worker(l)
  <2>1. /\ ~Stopping /\ UNCHANGED <<queue, outcome, event, request, events_published>>
        /\ state' = [state EXCEPT ![l] = "Idle"]
    BY <1>2, Zenon DEF resume_worker, recover_worker, ReturnToService, assignment, history, Stopping
  <2> QED
    BY <2>1, EventsStay, InvParts DEF Held, InFlight, AssignmentType
<1>3. CASE HandoffBack(l)
  <2>1. /\ ~Stopping /\ UNCHANGED <<queue, outcome, event, request, events_published>>
        /\ state[l] = "MigrationReady" /\ state' = [state EXCEPT ![l] = "Requested"]
    BY <1>3, Zenon DEF HandoffBack, HandoffAt, HandoffActs, assignment, history, Stopping
  <2> QED
    BY <2>1, EventsStay, InvParts DEF Held, InFlight, AssignmentType
<1> QED
  BY <1>1, <1>2, <1>3, Zenon

(* cancel_before announces the preemption of work that is not finished. *)
LEMMA EventCancel ==
  ASSUME Inv, OnePlace, EventInv, NEW l \in Lane, CancelLane(l) PROVE EventInv' /\ Decided
<1>1. ~Stopping /\ UNCHANGED <<queue, outcome, request, events_published, state>>
  BY DEF CancelLane, assignment, Stopping
<1>2. CASE UNCHANGED event
  BY <1>1, <1>2, EventsStay DEF Held, InFlight
<1>3. CASE InFlight(l) /\ event' = [event EXCEPT ![request[l]] = "Preempted"]
  <2>1. Held(l) /\ request[l] \in Job /\ ~events_published[l] /\ event[request[l]] \notin Terminal
    BY <1>1, <1>3, Zenon DEF InFlight, Held, Inv, LaneStates, EventInv, LaneEvents
  <2>2. /\ event'[request[l]] = "Preempted" /\ "Preempted" \notin Terminal
        /\ \A i \in Job \ {request[l]} : event'[i] = event[i]
    BY <1>3, <2>1, NotTerminal, InvParts, Zenon DEF HistoryType
  <2>3. \A i \in Job : event'[i] \in Terminal => event[i] \in Terminal /\ event'[i] = event[i]
    BY <2>2
  <2>4. \A m \in Lane : LaneEvents(m)'
    BY <1>1, <2>3, Zenon DEF EventInv, LaneEvents, Held, InFlight, Inv, LaneStates
  <2>5. \A i \in Job : Unstarted(i)' => event'[i] \notin Terminal
    BY <1>1, <2>3, Zenon DEF EventInv, Unstarted
  <2>6. Decided
    BY <1>1, <2>1, <2>2, Zenon DEF Decided
  <2> QED
    BY <2>4, <2>5, <2>6, Zenon DEF EventInv
<1> QED
  BY <1>2, <1>3, Zenon DEF CancelLane, CancelHits, InFlight

(* A job that moves has had no terminal event. *)
LEMMA EventHandoffTo ==
  ASSUME Inv, EventInv, NEW l \in Lane, NEW d \in Lane, HandoffTo(l, d)
  PROVE  EventInv' /\ Decided
<1>1. /\ ~Stopping /\ state[l] = "MigrationReady" /\ l # d
      /\ request' = [request EXCEPT ![d] = request[l]]
      /\ events_published' = [events_published EXCEPT ![d] = FALSE]
      /\ state' = [state EXCEPT ![l] = "Drained", ![d] = "Requested"]
      /\ UNCHANGED <<queue, outcome, event>>
  BY Zenon DEF HandoffTo, HandoffAt, HandoffActs, IdleTargets, HandoffTargets, Stopping
<1>2. event[request[l]] \notin Terminal
  BY <1>1 DEF EventInv, LaneEvents, InFlight, Held
<1>3. /\ request'[d] = request[l] /\ ~events_published'[d] /\ state'[l] = "Drained"
      /\ \A m \in Lane \ {l, d} : /\ request'[m] = request[m] /\ state'[m] = state[m]
                                  /\ events_published'[m] = events_published[m]
  BY <1>1, InvParts, Zenon DEF AssignmentType, ExecutionType
<1>4. LaneEvents(d)' /\ LaneEvents(l)'
  BY <1>1, <1>2, <1>3 DEF LaneEvents, Held, InFlight
<1>5. \A m \in Lane \ {l, d} : LaneEvents(m)'
  BY <1>1, <1>3, Zenon DEF EventInv, LaneEvents, Held, InFlight
<1> QED
  BY <1>1, <1>4, <1>5 DEF EventInv, Unstarted, Decided

(* Neither has one that leaves the queue. *)
LEMMA EventDispatch ==
  ASSUME Inv, EventInv, NEW c \in Lane, NEW l \in Lane, NEW j \in Job, DispatchLane(c, l, j)
  PROVE  EventInv' /\ Decided
<1>1. /\ ~Stopping /\ j \in queue /\ queue' = queue \ {j} /\ UNCHANGED outcome
      /\ request' = [request EXCEPT ![l] = j]
      /\ events_published' = [events_published EXCEPT ![l] = FALSE]
      /\ event' = [event EXCEPT ![j] = "Dispatched"]
      /\ \E s \in {"Ready", "Requested"} : state' = [state EXCEPT ![l] = s]
  BY Zenon DEF DispatchLane, DispatchAt, Dispatchable, Stopping
<1>2. /\ event'[j] = "Dispatched" /\ "Dispatched" \notin Terminal
      /\ \A i \in Job \ {j} : event'[i] = event[i]
  BY <1>1, NotTerminal, InvParts DEF HistoryType
<1>3. event[j] \notin Terminal
  BY <1>1, Zenon DEF EventInv, Unstarted
<1>4. \A i \in Job : event'[i] \in Terminal => event[i] \in Terminal
  BY <1>2, Zenon
<1>5. /\ request'[l] = j /\ ~events_published'[l]
      /\ \A m \in Lane \ {l} : /\ request'[m] = request[m] /\ state'[m] = state[m]
                               /\ events_published'[m] = events_published[m]
  BY <1>1, InvParts DEF AssignmentType, ExecutionType
<1>6. LaneEvents(l)'
  BY <1>2, <1>5, Zenon DEF LaneEvents
<1>7. ASSUME NEW m \in Lane \ {l} PROVE LaneEvents(m)'
  <2>1. LaneEvents(m)
    BY <1>1 DEF EventInv
  <2>2. Held(m) => request[m] \in Job
    BY <1>1, Zenon DEF Inv, LaneStates
  <2> QED
    BY <1>4, <1>5, <2>1, <2>2, Zenon DEF LaneEvents, Held, InFlight
<1>8. \A i \in Job : Unstarted(i)' => event'[i] \notin Terminal
  BY <1>1, <1>4, Zenon DEF EventInv, Unstarted
<1>9. Decided
  BY <1>1, <1>2, <1>3, Zenon DEF Decided
<1> QED
  BY <1>6, <1>7, <1>8, <1>9, Zenon DEF EventInv

(* ready_result publishes the terminal event of a finished job once. *)
LEMMA EventScan ==
  ASSUME Inv, OnePlace, EventInv, NEW c \in Lane, NEW l \in Lane, ScanFinds(c, l)
  PROVE  EventInv' /\ Decided
<1> DEFINE j == request[l]
<1>1. /\ ~Stopping /\ state[l] = "Ready" /\ UNCHANGED <<queue, outcome, request, state>>
      /\ event' = IF events_published[l] THEN event ELSE [event EXCEPT ![j] = result[l]]
      /\ events_published' = [events_published EXCEPT ![l] = TRUE]
  BY Zenon DEF ScanFinds, Stopping
<1>2. Held(l) /\ j \in Job
  BY <1>1, Zenon DEF Held, Inv, LaneStates
<1>3. ~Unstarted(j)
  BY <1>1, <1>2, HeldStarted, Zenon
<1>4. ~events_published[l] => event[j] \notin Terminal
  BY <1>1, <1>2, Zenon DEF EventInv, LaneEvents
<1>5. \A m \in Lane \ {l} : Held(m) => request[m] \in Job \ {j}
  BY <1>1, <1>2, Zenon DEF OnePlace, Inv, LaneStates
<1> HIDE DEF j
<1>6. /\ \A i \in Job \ {j} : event'[i] = event[i]
      /\ events_published[l] => event' = event
  BY <1>1, <1>2, InvParts, Zenon DEF HistoryType
<1>7. events_published'[l] /\ \A m \in Lane \ {l} : events_published'[m] = events_published[m]
  BY <1>1, InvParts DEF ExecutionType
<1>8. LaneEvents(l)'
  BY <1>1, <1>7, Zenon DEF LaneEvents, InFlight
<1>9. ASSUME NEW m \in Lane \ {l} PROVE LaneEvents(m)'
  <2>1. LaneEvents(m)
    BY <1>1, Zenon DEF EventInv
  <2>2. Held(m) => event'[request[m]] = event[request[m]]
    BY <1>5, <1>6, Zenon
  <2>3. events_published'[m] = events_published[m]
    BY <1>7
  <2> QED
    BY <1>1, <2>1, <2>2, <2>3, Zenon DEF LaneEvents, Held, InFlight
<1>10. \A i \in Job : Unstarted(i)' => event'[i] \notin Terminal
  BY <1>1, <1>3, <1>6, Zenon DEF EventInv, Unstarted
<1>11. Decided
  BY <1>1, <1>4, <1>6, Zenon DEF Decided
<1> QED
  BY <1>8, <1>9, <1>10, <1>11, Zenon DEF EventInv

(* A result is released for a request that was still open. *)
LEMMA EventRelease ==
  ASSUME Inv, OnePlace, EventInv, release_ready_result PROVE EventInv' /\ Decided
<1>1. PICK l \in Lane : l = ready_index
  BY InvParts, Zenon DEF release_ready_result, CoordinatorType
<1>2. /\ ~Stopping /\ state[l] = "Ready" /\ UNCHANGED <<queue, request, events_published, event>>
      /\ outcome' = [outcome EXCEPT ![request[l]] = result[l]]
      /\ \E s \in {"Drained", "Idle"} : state' = [state EXCEPT ![l] = s]
  BY <1>1, Zenon DEF release_ready_result, Stopping, Inv, LaneStates
<1>3. Held(l) /\ request[l] \in Job /\ result[l] \in ResultCode
  BY <1>2, Zenon DEF Held, Inv, LaneStates
<1>4. outcome[request[l]] = "accepted" /\ result[l] # "new"
  BY <1>2, <1>3, Zenon DEF OnePlace, ResultCode
<1>5. /\ outcome'[request[l]] = result[l]
      /\ \A i \in Job \ {request[l]} : outcome'[i] = outcome[i]
  BY <1>2, <1>3, InvParts, Zenon DEF HistoryType
<1>6. \A i \in Job : Unstarted(i)' => Unstarted(i)
  BY <1>2, <1>4, <1>5 DEF Unstarted
<1>7. \A m \in Lane : LaneEvents(m)'
  BY <1>2, InvParts, Zenon DEF EventInv, LaneEvents, Held, InFlight, AssignmentType
<1>8. Decided
  BY <1>2, <1>4, <1>5, Zenon DEF Decided
<1> QED
  BY <1>2, <1>6, <1>7, <1>8, Zenon DEF EventInv

(* A thread decides nothing. *)
LEMMA EventWorker ==
  ASSUME Inv, EventInv, NEW l \in Lane, Worker(l) PROVE EventInv' /\ Decided
<1>1. UNCHANGED <<queue, outcome, event, request, events_published, phase>>
  BY WorkerOwn DEF coordinatorOwned, coordinator, assignment
<1>2. CASE Stopping
  BY <1>1, <1>2, Zenon DEF EventInv, Decided, Stopping
<1>3. CASE ~Stopping
  <2>1. ASSUME NEW m \in Lane PROVE InFlight(m)' => InFlight(m)
    <3>1. Held(m)' <=> Held(m)
      BY <1>3, <2>1, WorkerHolds
    <3>2. state[m] = "Ready" => state'[m] = "Ready"
      <4>1. state' = state \/ (\E s : state' = [state EXCEPT ![l] = s] /\ state[l] # "Ready")
        BY <1>3, Zenon DEF Worker, WorkerLoop, WorkerSleep, WorkerBindFails, WorkerStart, WorkerAdvance,
           WorkerExport, WorkerExportFails, WorkerAbandon, WorkerPublish, Inv, LaneStates
      <4> QED
        BY <2>1, <4>1, InvParts DEF AssignmentType
    <3>3. state[m] \in LaneState
      BY <2>1, InvParts DEF AssignmentType
    <3> QED
      BY <3>1, <3>2, <3>3, Zenon DEF InFlight, Held, LaneState
  <2>2. \A m \in Lane : Held(m)' => Held(m)
    BY <1>3, WorkerHolds
  <2> QED
    BY <1>1, <1>3, <2>1, <2>2, EventsStay, Zenon
<1> QED
  BY <1>2, <1>3

(* Neither do stop() and the clock. *)
LEMMA EventStop ==
  ASSUME EventInv, stop \/ StopLaneFlag \/ StopLaneWake \/ StopJoin \/ Tick \/ UNCHANGED vars
  PROVE  EventInv' /\ Decided
<1>1. UNCHANGED <<outcome, event>>
  BY Zenon DEF stop, StopLaneFlag, StopLaneWake, StopJoin, Tick, vars, history
<1>2. ASSUME stop \/ StopLaneFlag \/ StopLaneWake \/ StopJoin PROVE Stopping'
  BY <1>2, Zenon DEF stop, StopLaneFlag, StopLaneWake, StopJoin, coordinator, Stopping
<1>3. ASSUME Tick \/ UNCHANGED vars PROVE EventInv'
  <2>1. UNCHANGED <<lanes, queue, phase>>
    BY <1>3 DEF Tick, vars, coordinator
  <2>2. UNCHANGED <<state, request, events_published>>
    BY <2>1 DEF lanes, assignment
  <2> QED
    BY <1>1, <2>1, <2>2, Zenon DEF EventInv, LaneEvents, Unstarted, Held, InFlight, Stopping
<1> QED
  BY <1>1, <1>2, <1>3, Zenon DEF EventInv, Decided

(* Every step keeps the record of events, and decides no request twice. *)
LEMMA EventNext == Inv /\ OnePlace /\ EventInv /\ [Next]_vars => EventInv' /\ Decided
<1> SUFFICES ASSUME Inv, OnePlace, EventInv, [Next]_vars PROVE EventInv' /\ Decided
  OBVIOUS
<1>1. ASSUME Call PROVE EventInv' /\ Decided
  BY <1>1, EventCalls, EventLanes, EventRelease, EventStop, Zenon DEF Call
<1>2. ASSUME Continue PROVE EventInv' /\ Decided
  BY <1>2, EventCalls, EventLanes, EventCancel, EventHandoffTo, EventDispatch, EventScan, EventStop
  DEF Continue
<1> QED
  BY <1>1, <1>2, EventWorker, EventStop DEF Next, Terminated

(* A request that was delivered or rejected is never decided again, and no   *)
(* lifecycle event follows its terminal event, whatever drains, handoffs,    *)
(* cancellations and failures lie between (submit, pump, ready_result).      *)
THEOREM DecidedSafe == Spec => DecidedOnce
<1>1. Init => EventInv /\ OnePlace
  <2> SUFFICES ASSUME Init PROVE EventInv /\ OnePlace
    OBVIOUS
  <2>1. \A j \in Job : event[j] \notin Terminal
    BY NotTerminal, Zenon DEF Init
  <2>2. \A l \in Lane : LaneEvents(l)
    BY Zenon DEF Init, LaneEvents, Held, InFlight
  <2>3. OnePlace
    BY DEF Init, OnePlace, Held
  <2> QED
    BY <2>1, <2>2, <2>3 DEF EventInv
<1>2. Inv /\ OnePlace /\ EventInv /\ [Next]_vars
         => [\A j \in DOMAIN outcome :
                /\ outcome[j] \notin {"new", "accepted"} => outcome'[j] = outcome[j]
                /\ event[j] \in RejectCode \cup ResultCode => event'[j] = event[j]]_vars
  <2> SUFFICES ASSUME Inv, OnePlace, EventInv, [Next]_vars
               PROVE  \A j \in DOMAIN outcome :
                         /\ outcome[j] \notin {"new", "accepted"} => outcome'[j] = outcome[j]
                         /\ event[j] \in RejectCode \cup ResultCode => event'[j] = event[j]
    BY Zenon
  <2>1. DOMAIN outcome = Job
    BY InvParts DEF HistoryType
  <2> QED
    BY <2>1, EventNext, Zenon DEF Decided, Terminal
<1> QED
  BY <1>1, <1>2, EventNext, PlaceNext, Invariance, PTL DEF Spec, DecidedOnce

---------------------------------------------------------------------------
(* A quarantined lane stays out of service. *)

(* Quarantine implies drain. *)
QuarantineInv == \A l \in Lane : quarantined[l] => drain_requested[l]

(* What QuarantineHolds says of a step about lane l, the drain aside. *)
StaysOut(l) ==
    quarantined[l] => /\ request'[l] = request[l] \/ Stopping
                      /\ ~quarantined'[l] => state[l] = "Drained" /\ consecutive_failures'[l] = 0

(* Every step keeps a quarantined lane out, but for recover_worker. *)
LEMMA QuarantineNext ==
  Inv /\ QuarantineInv /\ [Next]_vars => QuarantineInv' /\ \A l \in Lane : StaysOut(l)
<1> SUFFICES ASSUME Inv, QuarantineInv, [Next]_vars
             PROVE  QuarantineInv' /\ \A l \in Lane : StaysOut(l)
  BY Zenon
<1> DEFINE Goal == QuarantineInv' /\ \A l \in Lane : StaysOut(l)
<1>1. ASSUME UNCHANGED <<quarantined, drain_requested, request>> PROVE Goal
  BY <1>1, Zenon DEF QuarantineInv, StaysOut
<1>2. ASSUME UNCHANGED <<quarantined, drain_requested>>, NEW d \in Lane, ~drain_requested[d],
             NEW j, request' = [request EXCEPT ![d] = j]
      PROVE  Goal
  <2>1. \A m \in Lane \ {d} : request'[m] = request[m]
    BY <1>2, InvParts DEF AssignmentType
  <2> QED
    BY <1>2, <2>1, Zenon DEF QuarantineInv, StaysOut
<1>3. ASSUME UNCHANGED lanes PROVE Goal
  BY <1>1, <1>3 DEF lanes, assignment, supervision
<1>4. ASSUME \/ \E j \in Job, t \in {0, now} : SubmitRejected(j, t) \/ SubmitAccepted(j, t)
             \/ \E s \in Session, g \in CancelGenerations : cancel_before(s, g)
             \/ \E s \in Session : release_session(s)
      PROVE  Goal
  <2>1. UNCHANGED lanes
    BY <1>4, Zenon DEF SubmitRejected, SubmitAccepted, cancel_before, release_session
  <2> QED
    BY <1>3, <2>1
<1>5. ASSUME \/ CancelEnd \/ HandoffEnd \/ DispatchEnd \/ ready_result \/ ScanKeeps \/ stop
             \/ StopJoin \/ Tick \/ UNCHANGED vars
      PROVE  Goal
  <2>1. UNCHANGED lanes
    BY <1>5, Zenon DEF CancelEnd, HandoffEnd, DispatchEnd, ready_result, ScanKeeps, stop, StopJoin, Tick,
       vars
  <2> QED
    BY <1>3, <2>1
<1>6. ASSUME NEW l \in Lane, request_worker_drain(l) PROVE Goal
  <2>1. UNCHANGED <<quarantined, request>> /\ drain_requested' = [drain_requested EXCEPT ![l] = TRUE]
    BY <1>6, Zenon DEF request_worker_drain
  <2>2. \A m \in Lane : drain_requested[m] => drain_requested'[m]
    BY <2>1, InvParts, Zenon DEF AssignmentType
  <2> QED
    BY <2>1, <2>2, Zenon DEF QuarantineInv, StaysOut
<1>7. ASSUME NEW l \in Lane, resume_worker(l) PROVE Goal
  <2>1. /\ UNCHANGED <<quarantined, request>> /\ ~quarantined[l]
        /\ drain_requested' = [drain_requested EXCEPT ![l] = FALSE]
    BY <1>7 DEF resume_worker, ReturnToService, assignment
  <2>2. \A m \in Lane \ {l} : drain_requested'[m] = drain_requested[m]
    BY <2>1, InvParts, Zenon DEF AssignmentType
  <2> QED
    BY <2>1, <2>2 DEF QuarantineInv, StaysOut
<1>8. ASSUME NEW l \in Lane, recover_worker(l) PROVE Goal
  <2>1. /\ UNCHANGED request /\ state[l] = "Drained"
        /\ quarantined' = [quarantined EXCEPT ![l] = FALSE]
        /\ consecutive_failures' = [consecutive_failures EXCEPT ![l] = 0]
        /\ drain_requested' = [drain_requested EXCEPT ![l] = FALSE]
    BY <1>8 DEF recover_worker, ReturnToService, assignment
  <2>2. /\ ~quarantined'[l] /\ consecutive_failures'[l] = 0
        /\ \A m \in Lane \ {l} : /\ drain_requested'[m] = drain_requested[m]
                                 /\ quarantined'[m] = quarantined[m]
    BY <2>1, InvParts DEF AssignmentType
  <2> QED
    BY <2>1, <2>2, Zenon DEF QuarantineInv, StaysOut
<1>9. ASSUME \/ release_ready_result \/ StopLaneFlag \/ StopLaneWake
             \/ \E l \in Lane : CancelLane(l) \/ HandoffBack(l)
      PROVE  Goal
  <2>1. UNCHANGED <<quarantined, drain_requested, request>>
    BY <1>9, Zenon DEF release_ready_result, StopLaneFlag, StopLaneWake, CancelLane, HandoffBack,
       assignment, supervision
  <2> QED
    BY <1>1, <2>1
<1>10. ASSUME NEW l \in Lane, NEW d \in Lane, HandoffTo(l, d) PROVE Goal
  <2>1. UNCHANGED <<quarantined, drain_requested>> /\ ~drain_requested[d]
    BY <1>10 DEF HandoffTo, IdleTargets, HandoffTargets, supervision
  <2> QED
    BY <1>2, <1>10, <2>1, Zenon DEF HandoffTo
<1>11. ASSUME NEW c \in Lane, NEW l \in Lane, NEW j \in Job, DispatchLane(c, l, j) PROVE Goal
  <2>1. UNCHANGED <<quarantined, drain_requested>> /\ ~drain_requested[l]
    BY <1>11 DEF DispatchLane, DispatchAt, DispatchActs, supervision
  <2> QED
    BY <1>2, <1>11, <2>1, Zenon DEF DispatchLane
<1>12. ASSUME NEW c \in Lane, NEW l \in Lane, ScanFinds(c, l) PROVE Goal
  <2>1. /\ UNCHANGED request
        /\ \E b \in BOOLEAN : /\ quarantined' = [quarantined EXCEPT ![l] = @ \/ b]
                              /\ drain_requested' = [drain_requested EXCEPT ![l] = @ \/ b]
    BY <1>12, Zenon DEF ScanFinds, MustQuarantine
  <2>2. \A m \in Lane : /\ quarantined[m] => quarantined'[m]
                        /\ quarantined'[m] => quarantined[m] \/ drain_requested'[m]
                        /\ drain_requested[m] => drain_requested'[m]
    BY <2>1, InvParts DEF AssignmentType
  <2> QED
    BY <2>1, <2>2, Zenon DEF QuarantineInv, StaysOut
<1>13. ASSUME NEW l \in Lane, Worker(l) PROVE Goal
  BY <1>1, <1>13, WorkerOwn DEF coordinatorOwned, assignment, supervision
<1> QED
  BY <1>4, <1>5, <1>6, <1>7, <1>8, <1>9, <1>10, <1>11, <1>12, <1>13, Zenon
  DEF Next, Call, Continue, Terminated

(* A lane that failed too often takes no request, by dispatch or handoff,    *)
(* until recover_worker brings it back, drained and with its failures        *)
(* cleared (record_worker_failure, recover_worker).                          *)
THEOREM QuarantineSafe == Spec => QuarantineHolds
<1>1. Init => QuarantineInv
  BY Zenon DEF Init, QuarantineInv
<1>2. Inv /\ QuarantineInv /\ [Next]_vars
         => [\A l \in Lane : quarantined[l] =>
                /\ drain_requested[l]
                /\ request'[l] = request[l] \/ Stopping
                /\ ~quarantined'[l] => state[l] = "Drained" /\ consecutive_failures'[l] = 0]_vars
  BY QuarantineNext, Zenon DEF QuarantineInv, StaysOut
<1> QED
  BY <1>1, <1>2, QuarantineNext, Invariance, PTL DEF Spec, QuarantineHolds
=============================================================================
