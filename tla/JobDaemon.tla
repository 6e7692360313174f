----------------------------- MODULE JobDaemon ------------------------------
(***************************************************************************)
(* flowedge-jobd and the programs that talk to it.  One thread polls the   *)
(* data service (JobService: request ring in, result ring out) and the     *)
(* control service (JobControlService: order ring in, status ring out) in  *)
(* turn, then moves lifecycle events to the metrics and the trace.  A data *)
(* client submits jobs and receives results; one flowedge-jobctl process   *)
(* after another sends an order and waits for its answer until it times    *)
(* out.  The four rings are bounded queues (SharedMemoryRing).             *)
(***************************************************************************)
EXTENDS JobPool

CONSTANTS Scripts,          \* the traffic: records [jobs, orders, faults], one of which happens
          RingCapacity      \* slots of each of the four rings

Operations == {"kStatus", "kDrainWorker", "kResumeWorker", "kRecoverWorker", "kShutdown", "invalid"}

\* A client sends a job once.  Sequence numbers are the caller's: jobctl takes 1
\* unless it is told otherwise, so orders may share one.
ASSUME TrafficAssumption ==
  /\ RingCapacity \in Nat \ {0}
  /\ \A s \in Scripts :
       /\ s.jobs \in Seq([kind : {"job", "corrupt", "shutdown"}, job : Nat])
       /\ \A i, j \in DOMAIN s.jobs :
            s.jobs[i].kind = "job" =>
              /\ s.jobs[i].job # NoJob /\ (s.jobs[j].job = s.jobs[i].job => i = j)
              /\ Generation[s.jobs[i].job] \in Nat
       /\ s.orders \in Seq([sequence : Nat, operation : Operations, worker : Nat])

VARIABLES script,           \* the traffic of this behaviour
          unsent,           \* how many entries of script.jobs are still to be sent
          requests, results,            \* the data rings
          pool,             \* the JobWorkerPool
          rejection,        \* rejection_ while rejection_pending_, else NoJob
          data_result,      \* what service.poll returned
          stopped,          \* JobService::stopped_
          orders, responses,            \* the control rings
          response,         \* response_ while response_pending_, else NoResponse
          control_stopped,  \* JobControlService::stopped_
          invocation,       \* the jobctl process now running (an index of script.orders)
          waiting,          \* whether it has submitted its order
          reports,          \* <<process, order answered>> for every accepted answer
          asked, answered,  \* the orders put in the ring; those answered or found invalid
          dpc,              \* where main is
          stop_requested,   \* set by SIGINT and SIGTERM
          failed,           \* main's failure flag
          delivered         \* how often each job's result was published

dataVars == <<requests, results, pool, rejection, stopped, delivered>>
controlVars == <<orders, responses, response, control_stopped, answered>>
clientVars == <<script, unsent, invocation, waiting, reports, asked>>
mainVars == <<dpc, data_result, stop_requested, failed>>
vars == <<dataVars, controlVars, clientVars, mainVars>>

Jobs == UNION {{s.jobs[i].job : i \in {i \in DOMAIN s.jobs : s.jobs[i].kind = "job"}} :
                  s \in Scripts}
NoResponse == [of |-> 0, sequence |-> 0, operation |-> "none", code |-> "none"]

\* After the setup of main: the rings exist and are empty, the lanes idle.
Init ==
  /\ script \in Scripts /\ unsent = Len(script.jobs)
  /\ requests = <<>> /\ results = <<>> /\ orders = <<>> /\ responses = <<>>
  /\ pool = InitPool /\ rejection = NoJob /\ response = NoResponse
  /\ stopped = FALSE /\ control_stopped = FALSE
  /\ invocation = 1 /\ waiting = FALSE /\ reports = {} /\ asked = <<>> /\ answered = <<>>
  /\ dpc = "rejection" /\ data_result = "kIdle" /\ stop_requested = FALSE /\ failed = FALSE
  /\ delivered = [j \in Jobs |-> 0]

-----------------------------------------------------------------------------
(* JobService::poll, in the three steps that touch a ring.                 *)

Room == Len(results) < RingCapacity

\* publish, when the ring has room.
Publish(job) == /\ results' = Append(results, job)
                /\ delivered' = [delivered EXCEPT ![job] = @ + 1]

Return(result) == data_result' = result /\ dpc' = "control"

\* The condition of the loop holds and the rejection kept from an earlier poll
\* goes out first.
PollRejection ==
  /\ dpc = "rejection" /\ ~stop_requested /\ ~stopped /\ ~control_stopped
  /\ \/ /\ rejection = NoJob
        /\ dpc' = "result"
        /\ UNCHANGED <<dataVars, data_result>>
     \/ /\ rejection # NoJob /\ Room
        /\ Publish(rejection) /\ rejection' = NoJob
        /\ dpc' = "result"
        /\ UNCHANGED <<requests, pool, stopped, data_result>>
     \/ /\ rejection # NoJob /\ ~Room
        /\ Return("kBackpressured")
        /\ UNCHANGED dataVars
  /\ UNCHANGED <<controlVars, clientVars, stop_requested, failed>>

\* A result is released only once the ring has taken it.
PollResult ==
  /\ dpc = "result"
  /\ LET offered == ready_result(pool)
     IN  \/ /\ offered.ready_index = NoLane
            /\ dpc' = "request"
            /\ UNCHANGED <<dataVars, data_result>>
         \/ /\ offered.ready_index # NoLane /\ Room
            /\ Publish(offered.lane[offered.ready_index].job)
            /\ pool' = release_ready_result(offered)
            /\ dpc' = "request"
            /\ UNCHANGED <<requests, rejection, stopped, data_result>>
         \/ /\ offered.ready_index # NoLane /\ ~Room
            /\ pool' = offered
            /\ Return("kBackpressured")
            /\ UNCHANGED <<requests, results, rejection, stopped, delivered>>
  /\ UNCHANGED <<controlVars, clientVars, stop_requested, failed>>

\* Mutation: a rejection the ring refuses is not kept.
RejectAndForget(job) ==
  IF Room THEN Publish(job) /\ UNCHANGED rejection
          ELSE UNCHANGED <<results, delivered, rejection>>

\* The rejection is owned by the service until the ring accepts it.
Reject(job) ==
  IF Room THEN Publish(job) /\ UNCHANGED rejection
          ELSE rejection' = job /\ UNCHANGED <<results, delivered>>

PollRequest ==
  /\ dpc = "request"
  /\ \/ /\ requests = <<>>
        /\ Return("kIdle")
        /\ UNCHANGED dataVars
     \/ /\ requests # <<>> /\ requests' = Tail(requests)
        /\ \/ /\ Head(requests).kind = "corrupt"
              /\ Return("kCorruptInput")
              /\ UNCHANGED <<results, pool, rejection, stopped, delivered>>
           \/ /\ Head(requests).kind = "shutdown"
              /\ stopped' = TRUE
              /\ Return("kStopped")
              /\ UNCHANGED <<results, pool, rejection, delivered>>
           \/ /\ Head(requests).kind = "job" /\ submit_accepts(pool, Head(requests).job)
              /\ \E late \in SUBSET Lanes : pool' = submit(pool, Head(requests).job, late)
              /\ Return("kProgress")
              /\ UNCHANGED <<results, rejection, stopped, delivered>>
           \/ /\ Head(requests).kind = "job" /\ ~submit_accepts(pool, Head(requests).job)
              /\ pool' = submit(pool, Head(requests).job, {})
              /\ Reject(Head(requests).job)
              /\ Return(IF Room THEN "kProgress" ELSE "kBackpressured")
              /\ UNCHANGED stopped
  /\ UNCHANGED <<controlVars, clientVars, stop_requested, failed>>

-----------------------------------------------------------------------------
(* JobControlService::poll.  It runs whatever the data service returned.   *)

\* build_response: the code of the answer, and the pool after the operation.
Code(order) ==
  CASE order.operation = "kDrainWorker" -> DrainResult(pool, order.worker)
    [] order.operation = "kResumeWorker" -> ResumeResult(pool, order.worker)
    [] order.operation = "kRecoverWorker" -> RecoverResult(pool, order.worker)
    [] OTHER -> "kSuccess"

Apply(order) ==
  CASE order.operation = "kDrainWorker" -> request_worker_drain(pool, order.worker)
    [] order.operation = "kResumeWorker" -> resume_worker(pool, order.worker)
    [] order.operation = "kRecoverWorker" -> recover_worker(pool, order.worker)
    [] OTHER -> pool

\* capture_status, from the pool after the operation; the masks are sets of lanes.
capture_status(p) ==
  LET In(states) == {l \in Lanes : p.lane[l].state \in states}
  IN  [count |-> Cardinality(Lanes), accepting |-> Cardinality(Lanes \ p.draining),
       busy |-> Cardinality(In({"kRunning"})), draining |-> p.draining,
       drained |-> In({"kDrained"}), quarantined |-> p.quarantined]

build_response(order) ==
  [of |-> order.of, sequence |-> order.sequence, operation |-> order.operation,
   code |-> Code(order)]

\* publish_pending: the answer waits for room; shutdown takes effect (the flag
\* stop_after_publish_) only when its answer is in the ring.
publish_pending(answer) ==
  IF Len(responses) < RingCapacity
  THEN /\ responses' = Append(responses, answer)
       /\ answered' = Append(answered, answer.of)
       /\ response' = NoResponse
       /\ control_stopped' = (answer.operation = "kShutdown")
  ELSE response' = answer /\ UNCHANGED <<responses, answered, control_stopped>>

\* main's verdict on the two polls.
Judge(control_corrupt) ==
  LET bad == data_result = "kCorruptInput" \/ control_corrupt
  IN  failed' = bad /\ dpc' = IF bad THEN "final" ELSE "events"

ControlPoll ==
  \/ /\ response # NoResponse
     /\ publish_pending(response)
     /\ Judge(FALSE)
     /\ UNCHANGED <<orders, pool>>
  \/ /\ response = NoResponse /\ orders = <<>>
     /\ Judge(FALSE)
     /\ UNCHANGED <<controlVars, pool>>
  \/ /\ response = NoResponse /\ orders # <<>> /\ Head(orders).operation = "invalid"
     /\ orders' = Tail(orders) /\ answered' = Append(answered, Head(orders).of)
     /\ Judge(TRUE)
     /\ UNCHANGED <<responses, response, control_stopped, pool>>
  \/ /\ response = NoResponse /\ orders # <<>> /\ Head(orders).operation # "invalid"
     /\ orders' = Tail(orders) /\ pool' = Apply(Head(orders))
     /\ publish_pending(build_response(Head(orders)))
     /\ Judge(FALSE)

\* Mutation: administration waits for the data service.
PollControlBehindData ==
  /\ dpc = "control"
  /\ IF data_result = "kBackpressured" THEN Judge(FALSE) /\ UNCHANGED <<controlVars, pool>>
                                       ELSE ControlPoll
  /\ UNCHANGED <<requests, results, rejection, stopped, delivered, clientVars,
                 data_result, stop_requested>>

PollControl ==
  /\ dpc = "control"
  /\ ControlPoll
  /\ UNCHANGED <<requests, results, rejection, stopped, delivered, clientVars,
                 data_result, stop_requested>>

-----------------------------------------------------------------------------
(* The rest of main.                                                       *)

\* metrics.record was called n times and m events were popped.
Recorded(p, n, m) == [p EXCEPT !.owed = @ - n, !.events = @ - m]

\* The events go to the metrics and the trace; an event is popped after the
\* trace has it, so one the trace refuses stays in the buffer.  After the last
\* event the export of the metrics may fail too.
DrainEvents ==
  /\ dpc = "events"
  /\ \/ /\ pool' = Recorded(pool, pool.events, pool.events)
        /\ dpc' = "rejection"
        /\ UNCHANGED failed
     \/ /\ "trace" \in script.faults
        /\ \E n \in 0..pool.events :
             pool' = Recorded(pool, IF n < pool.events THEN n + 1 ELSE n, n)
        /\ failed' = TRUE /\ dpc' = "final"
  /\ UNCHANGED <<requests, results, rejection, stopped, delivered, controlVars,
                 clientVars, data_result, stop_requested>>

LeaveLoop ==
  /\ dpc = "rejection" /\ (stop_requested \/ stopped \/ control_stopped)
  /\ dpc' = "final"
  /\ UNCHANGED <<dataVars, controlVars, clientVars, data_result, stop_requested, failed>>

\* After the loop: the events left are recorded; the trace may fail on each,
\* and the last export of the metrics.
FinalDrain ==
  /\ dpc = "final"
  /\ pool' = Recorded(pool, pool.events, pool.events)
  /\ failed' \in {failed} \cup (IF "trace" \in script.faults THEN {TRUE} ELSE {})
  /\ dpc' = "exited"
  /\ UNCHANGED <<requests, results, rejection, stopped, delivered, controlVars,
                 clientVars, data_result, stop_requested>>

request_stop ==
  /\ "signal" \in script.faults /\ ~stop_requested /\ dpc # "exited"
  /\ stop_requested' = TRUE
  /\ UNCHANGED <<dataVars, controlVars, clientVars, dpc, data_result, failed>>

\* The thread of a lane; the pool outlives the loop.
Work(l) ==
  /\ dpc # "exited" /\ pool.lane[l].state = "kRunning"
  /\ \E code \in Outcomes(pool, l) :
       /\ code = "kFailed" => "failure" \in script.faults
       /\ pool' = Finish(pool, l, code)
  /\ UNCHANGED <<requests, results, rejection, stopped, delivered, controlVars,
                 clientVars, mainVars>>

-----------------------------------------------------------------------------
(* The clients.                                                            *)

\* JobClient::try_submit and try_shutdown with room in the ring.
Submit ==
  /\ unsent > 0 /\ Len(requests) < RingCapacity
  /\ requests' = Append(requests, script.jobs[Len(script.jobs) - unsent + 1])
  /\ unsent' = unsent - 1
  /\ UNCHANGED <<results, pool, rejection, stopped, delivered, controlVars, script,
                 invocation, waiting, reports, asked, mainVars>>

\* JobClient::try_receive.
Receive ==
  /\ results # <<>>
  /\ results' = Tail(results)
  /\ UNCHANGED <<requests, pool, rejection, stopped, delivered, controlVars,
                 clientVars, mainVars>>

Current == script.orders[invocation]
Leave == invocation' = invocation + 1 /\ waiting' = FALSE

\* send_control: the order is submitted while the ring has room,
ControlSubmit ==
  /\ invocation <= Len(script.orders) /\ ~waiting /\ Len(orders) < RingCapacity
  /\ orders' = Append(orders, [of |-> invocation, sequence |-> Current.sequence,
                               operation |-> Current.operation, worker |-> Current.worker])
  /\ asked' = Append(asked, invocation)
  /\ waiting' = TRUE
  /\ UNCHANGED <<dataVars, responses, response, control_stopped, answered, script, unsent,
                 invocation, reports, mainVars>>

\* Mutation: any answer of the right operation is taken for the process's own.
AcceptsOperation(answer) == answer.operation = Current.operation

\* the process compares the sequence and the operation of the answer,
Accepts(answer) == /\ answer.sequence = Current.sequence
                   /\ answer.operation = Current.operation

\* the first answer it finds ends it, its own or not,
ControlReceive ==
  /\ waiting /\ responses # <<>>
  /\ responses' = Tail(responses)
  /\ reports' = IF Accepts(Head(responses))
                THEN reports \cup {<<invocation, Head(responses).of>>} ELSE reports
  /\ Leave
  /\ UNCHANGED <<dataVars, orders, response, control_stopped, answered, script, unsent, asked,
                 mainVars>>

\* and so does the timeout, before or after the order is in the ring.
ControlTimeout ==
  /\ invocation <= Len(script.orders)
  /\ Leave
  /\ UNCHANGED <<dataVars, controlVars, script, unsent, reports, asked, mainVars>>

Daemon == \/ PollRejection \/ PollResult \/ PollRequest \/ PollControl
          \/ DrainEvents \/ LeaveLoop \/ FinalDrain

Next == \/ Daemon \/ request_stop \/ (\E l \in Lanes : Work(l))
        \/ Submit \/ Receive \/ ControlSubmit \/ ControlReceive \/ ControlTimeout

\* The daemon's thread and the lanes run; no client is ever obliged to act.
Spec == Init /\ [][Next]_vars /\ WF_vars(Daemon) /\ \A l \in Lanes : WF_vars(Work(l))

-----------------------------------------------------------------------------
Elements(s) == {s[i] : i \in 1..Len(s)}
Sent == {script.jobs[i].job : i \in {i \in 1..(Len(script.jobs) - unsent) :
                                       script.jobs[i].kind = "job"}}
InRing == {r.job : r \in Elements(requests)}

TypeOK ==
  /\ Len(requests) <= RingCapacity /\ Len(results) <= RingCapacity
  /\ Len(orders) <= RingCapacity /\ Len(responses) <= RingCapacity
  /\ pool.draining \subseteq Lanes /\ pool.ready_index \in Lanes \cup {NoLane}
  /\ \A l \in Lanes : pool.lane[l].state \in {"kIdle", "kRunning", "kReady", "kDrained"}
  /\ Len(pool.queue) <= QueueCapacity /\ pool.events <= EventCapacity
  /\ dpc \in {"rejection", "result", "request", "control", "events", "final", "exited"}

\* "A rejected or completed result remains owned until the output ring accepts
\* it" (job_service.h): every job taken from the request ring is in exactly one
\* place, the pool, the kept rejection or the results published so far, and is
\* published at most once.
JobsKept ==
  \A j \in Sent \ InRing :
    delivered[j] + (IF j \in Owned(pool) THEN 1 ELSE 0) + (IF rejection = j THEN 1 ELSE 0) = 1

Pending == IF response = NoResponse THEN <<>> ELSE <<response.of>>
Named(s) == [i \in 1..Len(s) |-> s[i].of]

\* JobControlService answers every valid order once and in the order they
\* were put in the ring, an answer the ring refuses being kept: the orders
\* asked are those answered or found invalid, then the one pending, then those
\* in the ring.
OrdersKept == asked = answered \o Pending \o Named(orders)

\* The service stops "only after a shutdown acknowledgement is published"
\* (ADR 0028).
AcknowledgedStop ==
  control_stopped => \E i \in Elements(answered) : script.orders[i].operation = "kShutdown"

\* The status every order would get now passes the client's validation (validate
\* of JobControlResponse): a lane that is drained or quarantined is also marked
\* as draining, and the counts are within the number of lanes.
StatusValid ==
  \A operation \in {"kStatus", "kDrainWorker", "kResumeWorker", "kRecoverWorker"}, l \in Lanes :
    LET s == capture_status(Apply([operation |-> operation, worker |-> l]))
    IN  /\ s.accepting <= s.count /\ s.busy <= s.count
        /\ s.drained \subseteq s.draining /\ s.quarantined \subseteq s.draining

\* No lifecycle event that validates goes missing uncounted: it is in the buffer,
\* was dropped and counted, or was recorded once.  What emit loses without a
\* count are the preemptions cancel_before reports of a job that has no work left,
\* and nothing else.  When the trace refuses an event inside the loop the final
\* drain records that one event a second time.
EventsCounted ==
  LET kept == pool.events + pool.skipped
  IN  IF failed THEN pool.owed \in {kept - 1, kept} ELSE pool.owed = kept

\* Nothing the daemon took is lost or doubled: jobs, orders and lifecycle events.
Conservation == TypeOK /\ JobsKept /\ OrdersKept /\ EventsCounted

SameOrder(i, k) == /\ script.orders[i].sequence = script.orders[k].sequence
                   /\ script.orders[i].operation = script.orders[k].operation

\* Answers to jobctl processes that timed out stay in the ring.  A process that
\* reports success reports the answer to its own order, or to that of an earlier
\* process which gave the same sequence number (1 unless the caller chose one)
\* for the same operation; never an answer to anything else, to a later order,
\* or one that was reported before.
OwnAnswer ==
  \A r \in reports :
    /\ r[2] \in 1..r[1] /\ SameOrder(r[1], r[2])
    /\ \A q \in reports : q[2] = r[2] => q = r

\* Operators are told the truth: each process the answer to an order like its own,
\* a status that validates, and an acknowledgement before the service stops.
AnswersTrue == OwnAnswer /\ StatusValid /\ AcknowledgedStop

\* "Data backpressure cannot block administration" (ADR 0028): whatever the data
\* clients do, in the end every order in the ring is answered, the daemon has
\* exited or nobody makes room for the answers.
AdminNotBlocked ==
  <>[](\/ orders = <<>> /\ response = NoResponse
       \/ dpc = "exited" \/ Len(responses) = RingCapacity)

\* In the end every job sent is answered, the daemon has exited or nobody makes
\* room for the results: no drain, resume, rejection or full ring strands a job.
JobsSettle ==
  <>[]((\A j \in Sent : delivered[j] > 0) \/ dpc = "exited" \/ ~Room)

\* The daemon gets through its work: neither orders nor jobs wait for ever while
\* clients read their answers.
Settles == JobsSettle /\ AdminNotBlocked
=============================================================================
