---------------------------- MODULE WireMessages ----------------------------
(***************************************************************************)
(* The messages of the rings: what makes a request, a result, an event, a  *)
(* condition or an action valid, what the constructors build, and a        *)
(* receiver that pops a message of any length over the one it popped       *)
(* before.  A message is an envelope, metadata and payload, measured in    *)
(* units: one for the envelope, one for the metadata, one for each element *)
(* of the payload.  Magic, version, structure sizes and reserved fields    *)
(* are one flag: `intact' in the envelope, `sized' in the metadata.        *)
(***************************************************************************)
EXTENDS Integers, FiniteSets

CONSTANTS MaxPayload,       \* kMaxJobPayloadBytes; kMaxConditionDim and kMaxActionDim
          NfeMax               \* the largest std::uint64_t

ASSUME WireAssumption == MaxPayload \in Nat \ {0} /\ NfeMax \in Nat \ {0}

Header == 2
Least(a, b) == IF a < b THEN a ELSE b

-----------------------------------------------------------------------------
(* Jobs (job_types.h).                                                     *)

valid_job_service_class(class) == class \in 0..2

valid_job_descriptor(d) == d.kind \in 1..3 /\ d.known /\ d.work # 0

terminal(state) == state \in {"kComplete", "kCancelled", "kFailed"}

valid_job_progress(d, p) ==
  /\ p.completed <= d.work /\ p.remaining = d.work - p.completed
  /\ p.state = "kReady" => p.completed = 0
  /\ p.state = "kRunning" => p.completed < d.work
  /\ p.state = "kComplete" => p.completed = d.work

-----------------------------------------------------------------------------
(* Job requests and results (job_messages.h).                              *)

wire_size(m) == Header + Least(m.payload, MaxPayload)

Rejections == {"kRejectedStale", "kRejectedDeadline", "kRejectedCapacity",
               "kAdapterNotFound", "kInvalidRequest", "kRejectedQos"}
ResultCodes == {"kProgress", "kComplete", "kCancelled", "kFailed"} \cup Rejections

CompatibleResult(code, state) ==
  CASE code = "kProgress" -> state \in {"kReady", "kRunning"}
    [] code = "kComplete" -> state = "kComplete"
    [] code = "kCancelled" -> state = "kCancelled"
    [] OTHER -> state = "kFailed"

result_code(state) == IF terminal(state) THEN state ELSE "kProgress"

Late(deadline, timestamp) == deadline # 0 /\ deadline < timestamp

ValidRequest(m) ==
  /\ m.intact /\ m.kind = "kJobRequest" /\ m.flags = 0 /\ m.struct_size = wire_size(m)
  /\ m.payload <= MaxPayload
  /\ m.sized /\ valid_job_service_class(m.class) /\ valid_job_descriptor(m.descriptor)
  /\ m.session = m.descriptor.session /\ ~Late(m.descriptor.deadline, m.timestamp)

ValidResult(m) ==
  /\ m.intact /\ m.kind = "kJobResult" /\ m.flags \in ResultCodes
  /\ m.struct_size = wire_size(m) /\ m.payload <= MaxPayload
  /\ m.sized /\ valid_job_service_class(m.class) /\ valid_job_descriptor(m.descriptor)
  /\ m.session = m.descriptor.session
  /\ valid_job_progress(m.descriptor, m.progress)
  /\ CompatibleResult(m.flags, m.progress.state)

\* make_job_request: whether it succeeds, and the message it writes.
MakesRequest(descriptor, timestamp, payload, class) ==
  /\ valid_job_descriptor(descriptor) /\ valid_job_service_class(class)
  /\ ~Late(descriptor.deadline, timestamp) /\ payload <= MaxPayload

make_job_request(descriptor, timestamp, payload, class) ==
  [intact |-> TRUE, kind |-> "kJobRequest", flags |-> 0, session |-> descriptor.session,
   sized |-> TRUE, class |-> class, descriptor |-> descriptor, timestamp |-> timestamp,
   payload |-> payload, struct_size |-> wire_size([payload |-> payload])]

MakesResult(descriptor, progress, code, payload, class) ==
  /\ valid_job_descriptor(descriptor) /\ valid_job_progress(descriptor, progress)
  /\ code \in ResultCodes /\ CompatibleResult(code, progress.state)
  /\ valid_job_service_class(class) /\ payload <= MaxPayload

make_job_result(descriptor, progress, code, payload, class) ==
  [intact |-> TRUE, kind |-> "kJobResult", flags |-> code, session |-> descriptor.session,
   sized |-> TRUE, class |-> class, descriptor |-> descriptor, progress |-> progress,
   payload |-> payload, struct_size |-> wire_size([payload |-> payload])]

NothingDone(state, descriptor) ==
  [state |-> state, completed |-> 0, remaining |-> descriptor.work]

\* Mutation: a rejection reports no remaining work.
RejectionProgressZero(descriptor) == [state |-> "kFailed", completed |-> 0, remaining |-> 0]

RejectionProgress(descriptor) == NothingDone("kFailed", descriptor)

make_rejected_job_result(request, code) ==
  make_job_result(request.descriptor, RejectionProgress(request.descriptor), code, 0,
                  request.class)

-----------------------------------------------------------------------------
(* Lifecycle events (job_events.h), and the events the pool emits.         *)

CompatibleEvent(event, progress, code) ==
  CASE event \in {"kAdmitted", "kDispatched"} ->
         progress.state = "kReady" /\ code = "kProgress"
    [] event \in {"kStarted", "kProgress", "kPreempted", "kMigrationStarted",
                  "kMigrationCompleted"} ->
         progress.state \in {"kReady", "kRunning"} /\ code = "kProgress"
    [] event = "kCompleted" -> progress.state = "kComplete" /\ code = "kComplete"
    [] event = "kCancelled" -> progress.state = "kCancelled" /\ code = "kCancelled"
    [] event = "kFailed" -> progress.state = "kFailed" /\ code = "kFailed"
    [] event = "kRejected" -> progress.state = "kFailed" /\ code \in Rejections
    [] OTHER -> FALSE

\* make_job_event validates what it has built; emit drops what is not valid.
make_job_event(event, descriptor, progress, code, class) ==
  /\ valid_job_service_class(class) /\ valid_job_descriptor(descriptor)
  /\ valid_job_progress(descriptor, progress) /\ CompatibleEvent(event, progress, code)

\* submit, publish_rejection, dispatch_one, cancel_before.
AdmissionEvents(r) ==
  {<<e, NothingDone("kReady", r.descriptor), "kProgress">> : e \in {"kAdmitted", "kDispatched"}}
  \cup {<<"kRejected", RejectionProgress(r.descriptor), c>> : c \in Rejections}

Underway(r, n) == [state |-> "kRunning", completed |-> n, remaining |-> r.descriptor.work - n]

\* ready_result reports that a job started, and where it was exported and resumed.
RunningEvents(r) ==
  {<<e, Underway(r, n), "kProgress">> :
     e \in {"kStarted", "kMigrationStarted", "kMigrationCompleted"},
     n \in 0..(r.descriptor.work - 1)}

\* cancel_before reports what the lane's thread last stored as remaining, which is
\* nothing between its last step and its store of kReady.
PreemptedEvents(r) ==
  {<<"kPreempted", Underway(r, n), "kProgress">> : n \in 0..r.descriptor.work}

\* ready_result publishes the end of a valid result under the code it carries.
TerminalEvent(code) ==
  CASE code = "kComplete" -> "kCompleted" [] code = "kCancelled" -> "kCancelled"
    [] code \in Rejections -> "kRejected" [] OTHER -> "kFailed"

TerminalEvents(r) ==
  {<<TerminalEvent(c), p, c>> :
     c \in {"kComplete", "kCancelled", "kFailed"} \cup Rejections,
     p \in {[state |-> s, completed |-> n, remaining |-> r.descriptor.work - n] :
              s \in {"kComplete", "kCancelled", "kFailed"}, n \in 0..r.descriptor.work}}

-----------------------------------------------------------------------------
(* Conditions and actions (messages.h).                                    *)

required_nfe(steps, solver) ==
  LET per_step == CASE solver = 2 -> 4 [] solver = 1 -> 2 [] OTHER -> 1
  IN  IF steps > NfeMax \div per_step THEN NfeMax ELSE steps * per_step

FloatSize(condition, action) == Header + Least(condition, MaxPayload) + Least(action, MaxPayload)

ValidCondition(m) ==
  /\ m.intact /\ m.kind = "kCondition" /\ m.flags = 0
  /\ m.condition <= MaxPayload /\ m.action <= MaxPayload
  /\ m.struct_size = FloatSize(m.condition, m.action)
  /\ m.sized /\ m.solver <= 2 /\ m.steps # 0 /\ m.nfe = required_nfe(m.steps, m.solver)
  /\ ~Late(m.deadline, m.timestamp)

ActionCodes == {"kInference", "kRejectedStale", "kRejectedDeadline", "kRejectedCapacity",
                "kExpired"}

ValidAction(m) ==
  /\ m.intact /\ m.kind = "kAction" /\ m.flags \in ActionCodes
  /\ m.condition <= MaxPayload /\ m.action <= MaxPayload
  /\ m.struct_size = FloatSize(0, m.action)
  /\ m.sized /\ m.solver <= 2
  /\ m.flags # "kInference" => m.status = "FE_ACTION_FAILED"

\* compatible: the dimensions and the digest are those of the model.
SameModel(m, model) == /\ m.condition = model.condition /\ m.action = model.action
                       /\ m.digest = model.digest

MakesCondition(model, deadline, timestamp, steps, solver, condition, noise) ==
  /\ steps # 0 /\ solver <= 2 /\ ~Late(deadline, timestamp)
  /\ condition = model.condition /\ noise = model.action
  /\ condition <= MaxPayload /\ noise <= MaxPayload

make_condition_message(model, deadline, timestamp, steps, solver) ==
  [intact |-> TRUE, kind |-> "kCondition", flags |-> 0, sized |-> TRUE, solver |-> solver,
   digest |-> model.digest, timestamp |-> timestamp, deadline |-> deadline,
   condition |-> model.condition, action |-> model.action, steps |-> steps,
   nfe |-> required_nfe(steps, solver),
   struct_size |-> FloatSize(model.condition, model.action)]

make_rejected_action(request, code) ==
  [intact |-> TRUE, kind |-> "kAction", flags |-> code, sized |-> TRUE,
   solver |-> request.solver, status |-> "FE_ACTION_FAILED", digest |-> request.digest,
   condition |-> request.condition, action |-> request.action,
   struct_size |-> FloatSize(0, request.action)]

-----------------------------------------------------------------------------
(* A receiver's buffer.                                                    *)

\* What one try_pop of n units leaves of the buffer: the parts it did not reach
\* are those of an earlier message, or cleared where the receiver clears them.
Popped(earlier, m, n) ==
  IF n >= Header THEN m
  ELSE IF n = 0 THEN earlier
  ELSE [earlier EXCEPT !.intact = m.intact, !.kind = m.kind, !.flags = m.flags,
                       !.session = m.session, !.struct_size = m.struct_size]

\* JobService::poll, JobClient::try_receive, relay_daemon: the count of the ring
\* must be exactly the size that the header just read declares.
Accepted(buffer, n) == n >= 1 /\ n = wire_size(buffer) /\ ValidRequest(buffer)
=============================================================================
