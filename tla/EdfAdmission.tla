---------------------------- MODULE EdfAdmission ----------------------------
(***************************************************************************)
(* What admission promises when its calibration is right: the scheduler of *)
(* EdfScheduler, lanes that need exactly nanoseconds_per_nfe for one       *)
(* function evaluation, and an event loop that is never the bottleneck (a  *)
(* request is dispatched in the instant a lane is idle).  A lane whose     *)
(* solve is superseded is free at the end of the evaluation it computes,   *)
(* or at once when it is between two.                                      *)
(***************************************************************************)
EXTENDS EdfScheduler

CONSTANTS Lanes, Offered, MaxNow

VARIABLES sched,     \* the EdfScheduler
          lanes,     \* lanes[l] = [gen, deadline, left]: left in nanoseconds
          unsent,    \* messages that have not arrived
          now

vars == <<sched, lanes, unsent, now>>
IdleLane == [gen |-> 0, deadline |-> 0, left |-> 0]

Init == /\ sched = InitScheduler
        /\ lanes = [l \in Lanes |-> IdleLane]
        /\ unsent = Offered
        /\ now = 1

\* HeadWorkerPool::admission_context: the evaluations a lane has not finished.
Context ==
  [now |-> now,
   active |-> [l \in Lanes |->
     [gen |-> lanes[l].gen,
      nfe |-> (lanes[l].left + NanosecondsPerNfe - 1) \div NanosecondsPerNfe]]]

\* cancel_before: the ends a superseded solve may have.
AfterCancel(lane, generation) ==
  IF lane.gen >= generation THEN {lane}
  ELSE {IF rest = 0 THEN IdleLane ELSE [lane EXCEPT !.deadline = 0, !.left = rest] :
          rest \in IF lane = IdleLane THEN {0}
                   ELSE IF lane.left % NanosecondsPerNfe = 0 THEN {0, NanosecondsPerNfe}
                   ELSE {lane.left % NanosecondsPerNfe}}

Arrive(m) ==
  LET submitted == submit(sched, m, Context)
  IN  /\ m \in unsent
      /\ unsent' = unsent \ {m}
      /\ sched' = submitted.sched
      /\ lanes' \in {f \in [Lanes -> UNION {AfterCancel(lanes[l], sched'.newest_generation) :
                                              l \in Lanes}] :
                       \A l \in Lanes :
                         f[l] \in AfterCancel(lanes[l], sched'.newest_generation)}
      /\ UNCHANGED now

Idle == {l \in Lanes : lanes[l].left = 0}

Dispatch ==
  /\ Idle # {} /\ sched.heap # {}
  /\ LET popped == pop(sched, now)
         m == popped.request
     IN  /\ sched' = popped.sched
         /\ lanes' = IF m = NoMessage THEN lanes
                     ELSE [lanes EXCEPT ![CHOOSE l \in Idle : TRUE] =
                             [gen |-> m.gen, deadline |-> m.deadline,
                              left |-> m.nfe * NanosecondsPerNfe]]
  /\ UNCHANGED <<unsent, now>>

\* Time passes only while no lane could be given work.
Tick ==
  /\ now < MaxNow /\ (Idle = {} \/ sched.heap = {})
  /\ now' = now + 1
  /\ lanes' = [l \in Lanes |-> IF lanes[l].left <= 1 THEN IdleLane
                               ELSE [lanes[l] EXCEPT !.left = @ - 1]]
  /\ UNCHANGED <<sched, unsent>>

Next == Tick \/ Dispatch \/ \E m \in Offered : Arrive(m)
Spec == Init /\ [][Next]_vars

-----------------------------------------------------------------------------
\* "Observing generation N removes every queued request older than N": the
\* queue only ever holds requests of the newest accepted generation, and the
\* admission test's displaced request is the one submit really displaces.
QueueFresh == \A x \in sched.heap : x.gen = sched.newest_generation

\* ADR 0018: a request is admitted only if "every completion plus the fixed
\* reserve fits its deadline".  With a reserve of at least one evaluation (the
\* time a superseded solve may still hold its lane) an admitted request never
\* expires in the queue and is never computed past its deadline, whatever
\* arrives, supersedes or displaces later.
DeadlinesKept ==
  /\ sched.stats.expired = 0
  /\ \A l \in Lanes : lanes[l].deadline # 0 => now + lanes[l].left <= lanes[l].deadline

\* "Even maximum timestamps and costs cannot wrap into a feasible result": no
\* admitted request needs more time than there was from now to its deadline.
NoWrap ==
  [][\A m \in sched'.heap \ sched.heap :
       m.deadline # 0 /\ NanosecondsPerNfe # 0 =>
         now + m.nfe * NanosecondsPerNfe <= m.deadline]_vars

\* Admission as a whole: the queue is fresh, admitted deadlines are kept and no
\* cost wraps into a feasible one.
AdmissionHolds == [](QueueFresh /\ DeadlinesKept) /\ NoWrap
=============================================================================
