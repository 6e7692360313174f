------------------------------ MODULE JobPool -------------------------------
(***************************************************************************)
(* What the job service sees of a JobWorkerPool whose lanes all accept the *)
(* same jobs (flowedge-jobd registers one adapter on every lane): a queue, *)
(* lanes that are drained and resumed, a session whose newer generations   *)
(* supersede older ones, and a bounded buffer of lifecycle events.  One    *)
(* thread makes every call, so a pool is one record and each call an       *)
(* operator from a record to the next one.  The threads of the lanes       *)
(* appear as Finish.  JobWorkerPool models the calls step by step; here    *)
(* deadlines, service classes and migration are left out.                  *)
(***************************************************************************)
EXTENDS Integers, Sequences, FiniteSets

CONSTANTS Lanes,            \* the lanes
          QueueCapacity,    \* queue_storage_.size()
          EventCapacity,    \* storage_.size() of the JobEventBuffer
          FailureThreshold, \* consecutive_failure_threshold; 0 never quarantines
          Generation        \* the generation of each job; they share one session

ASSUME PoolAssumption == /\ Lanes # {} /\ IsFiniteSet(Lanes) /\ Lanes \subseteq Nat \ {0}
                         /\ QueueCapacity \in Nat \ {0} /\ EventCapacity \in Nat \ {0}
                         /\ FailureThreshold \in Nat

NoJob == 0
NoLane == 0
Free == [state |-> "kIdle", job |-> NoJob, failed |-> FALSE, code |-> "none"]

InitPool == [queue |-> <<>>, lane |-> [l \in Lanes |-> Free], draining |-> {},
             quarantined |-> {}, failures |-> [l \in Lanes |-> 0], ready_index |-> NoLane,
             watermark |-> 0, events |-> 0, owed |-> 0, skipped |-> 0]

\* emit and JobEventBuffer::try_push of n events that validate: a full buffer
\* drops the new events and counts them.  `events' is the number of events in the
\* buffer, `owed' the events emitted less those counted as dropped and those
\* recorded.
emits(p, n) ==
  LET kept == IF n < EventCapacity - p.events THEN n ELSE EventCapacity - p.events
  IN  [p EXCEPT !.owed = @ + kept, !.events = @ + kept]

emit(p) == emits(p, 1)

\* emit of n events that do not validate: they reach no buffer and no counter.
skips(p, n) == [p EXCEPT !.owed = @ + n, !.skipped = @ + n]

\* A job of a generation older than the newest one admitted.
stale(p, job) == Generation[job] < p.watermark

Idle(p) == {l \in Lanes \ p.draining : p.lane[l].state = "kIdle"}

\* dispatch_one: a stale job is rejected on its lane, any other one is run.
Dispatched(p, job) ==
  IF stale(p, job) THEN [Free EXCEPT !.state = "kReady", !.job = job, !.code = "kRejectedStale"]
                   ELSE [Free EXCEPT !.state = "kRunning", !.job = job]

\* The jobs that can be dispatched at once: one for each idle lane.
Due(p) == IF Len(p.queue) < Cardinality(Idle(p)) THEN Len(p.queue) ELSE Cardinality(Idle(p))

\* Which idle lane takes which of them.
Takers(p) ==
  CHOOSE f \in [1..Due(p) -> Idle(p)] : \A i, j \in 1..Due(p) : f[i] = f[j] => i = j

\* dispatch_one while a job waits and a lane that is not draining is idle.
pump(p) ==
  LET taken(l) == {i \in 1..Due(p) : Takers(p)[i] = l}
  IN  emits([p EXCEPT !.lane = [l \in Lanes |-> IF taken(l) = {} THEN @[l]
                                               ELSE Dispatched(p, p.queue[CHOOSE i \in taken(l) : TRUE])],
                      !.queue = SubSeq(@, Due(p) + 1, Len(@))], Due(p))

\* The lanes in a state that hold a job older than this one.
Older(p, job, state) ==
  {l \in Lanes : p.lane[l].state = state /\ Generation[p.lane[l].job] < Generation[job]}

\* cancel_before for a job that is newer than all before it: an older result is
\* made a rejection, and the preemption of each older job that still runs is
\* reported with the work it has left.  On the lanes of `late' the thread has
\* stored that none is left and is not yet ready; that report does not validate.
cancel_before(p, job, late) ==
  LET running == Older(p, job, "kRunning")
      reject(l) == [p.lane[l] EXCEPT !.code = "kRejectedStale"]
      marked == [p EXCEPT !.watermark = Generation[job],
                          !.lane = [l \in Lanes |-> IF l \in Older(p, job, "kReady") THEN reject(l)
                                                    ELSE @[l]]]
  IN  skips(emits(marked, Cardinality(running \ late)), Cardinality(running \cap late))

\* submit: whether the job is accepted, and the pool after the call.
submit_accepts(p, job) ==
  p.draining # Lanes /\ ~stale(p, job) /\ Len(p.queue) < QueueCapacity

submit(p, job, late) ==
  LET queued == emit([p EXCEPT !.queue = Append(@, job)])
  IN  IF ~submit_accepts(p, job) THEN emit(p)
      ELSE IF Generation[job] > p.watermark THEN pump(cancel_before(queued, job, late))
      ELSE pump(queued)

can_remove_worker(p, l) == p.queue = <<>> \/ Lanes \ (p.draining \cup {l}) # {}

\* A lane that failed too often in a row is drained for good, unless the queue
\* needs it; failures beyond the threshold are not told apart.
record_worker_failure(p, l) ==
  LET n == IF p.failures[l] < FailureThreshold THEN p.failures[l] + 1 ELSE FailureThreshold
      counted == [p EXCEPT !.failures[l] = n]
  IN  IF FailureThreshold = 0 \/ n < FailureThreshold \/ ~can_remove_worker(p, l) THEN counted
      ELSE [counted EXCEPT !.quarantined = @ \cup {l}, !.draining = @ \cup {l}]

\* ready_result: the lane whose result is offered until it is released; when it
\* is offered first its failure is counted, or its success ends the row of
\* failures, and its events are published: one of a rejection, else two.
ready_result(p) ==
  LET ready == {l \in Lanes : p.lane[l].state = "kReady"}
      l == IF p.ready_index # NoLane THEN p.ready_index ELSE CHOOSE l \in ready : TRUE
      judged == IF p.lane[l].failed THEN record_worker_failure(p, l)
                ELSE IF p.lane[l].code = "kComplete" THEN [p EXCEPT !.failures[l] = 0]
                ELSE p
      published == emits(judged, IF p.lane[l].code = "kRejectedStale" THEN 1 ELSE 2)
  IN  IF ready = {} THEN p
      ELSE IF p.ready_index # NoLane THEN p
      ELSE [published EXCEPT !.ready_index = l, !.lane[l].failed = FALSE]

release_ready_result(p) ==
  LET l == p.ready_index
  IN  pump([p EXCEPT !.ready_index = NoLane,
                     !.lane[l] = [Free EXCEPT !.state = IF l \in p.draining THEN "kDrained"
                                                        ELSE "kIdle"]])

DrainResult(p, l) ==
  IF l \notin Lanes THEN "kInvalidWorker"
  ELSE IF l \in p.draining THEN "kAlreadyDraining"
  ELSE IF ~can_remove_worker(p, l) THEN "kWouldStrandWork"
  ELSE "kSuccess"

request_worker_drain(p, l) ==
  IF DrainResult(p, l) # "kSuccess" THEN p
  ELSE pump([p EXCEPT !.draining = @ \cup {l},
                      !.lane[l].state = IF @ = "kIdle" THEN "kDrained" ELSE @])

ResumeResult(p, l) ==
  IF l \notin Lanes THEN "kInvalidWorker"
  ELSE IF l \in p.quarantined THEN "kWorkerQuarantined"
  ELSE IF p.lane[l].state # "kDrained" THEN "kWorkerNotDrained"
  ELSE "kSuccess"

Reopened(p, l) == pump([p EXCEPT !.draining = @ \ {l}, !.lane[l] = Free])

resume_worker(p, l) == IF ResumeResult(p, l) # "kSuccess" THEN p ELSE Reopened(p, l)

RecoverResult(p, l) ==
  IF l \notin Lanes THEN "kInvalidWorker"
  ELSE IF l \notin p.quarantined THEN "kWorkerNotQuarantined"
  ELSE IF p.lane[l].state # "kDrained" THEN "kWorkerNotDrained"
  ELSE "kSuccess"

recover_worker(p, l) ==
  IF RecoverResult(p, l) # "kSuccess" THEN p
  ELSE Reopened([p EXCEPT !.quarantined = @ \ {l}, !.failures[l] = 0], l)

\* A lane's thread finishes the job it runs; a superseded job may be cancelled,
\* and `failed' is execution_failed.
Outcomes(p, l) == {"kComplete", "kFailed"} \cup (IF stale(p, p.lane[l].job) THEN {"kCancelled"} ELSE {})

Finish(p, l, code) ==
  [p EXCEPT !.lane[l].state = "kReady", !.lane[l].code = code, !.lane[l].failed = (code = "kFailed")]

\* The jobs the pool owns.
Owned(p) == {p.queue[i] : i \in 1..Len(p.queue)} \cup ({p.lane[l].job : l \in Lanes} \ {NoJob})
=============================================================================
