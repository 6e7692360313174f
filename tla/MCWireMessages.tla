--------------------------- MODULE MCWireMessages ----------------------------
(***************************************************************************)
(* A receiver that pops one request, well formed or not, over an earlier   *)
(* one, and every condition; what must hold of each it accepts.            *)
(***************************************************************************)
EXTENDS WireMessages

VARIABLES held_over,        \* the request the buffer held before
          message,          \* the request in the ring
          popped,           \* units popped
          condition         \* a condition, with the model it is meant for

wire_vars == <<held_over, message, popped, condition>>

Descriptors == [kind : {0, 2}, known : BOOLEAN, work : 0..2, session : 1..2, deadline : {0, 1, 2}]
Good == [kind |-> 2, known |-> TRUE, work |-> 2, session |-> 1, deadline |-> 0]
Plain == make_job_request(Good, 1, 1, 0)

\* Requests that differ from a sound one in the header, or in the metadata.
Requests ==
  [intact : BOOLEAN, kind : {"kJobRequest", "kShutdown"}, flags : 0..1, session : 1..2,
   sized : BOOLEAN, class : {0, 3}, descriptor : {Good, [Good EXCEPT !.work = 0]},
   timestamp : {1}, payload : 0..(MaxPayload + 1), struct_size : 0..(Header + MaxPayload + 1)]
  \cup {[Plain EXCEPT !.descriptor = d, !.timestamp = t] : d \in Descriptors, t \in 1..2}

Models == [condition : 1..(MaxPayload + 1), action : 1..2, digest : 1..2]
WireConditions ==
  [intact : {TRUE}, kind : {"kCondition"}, flags : {0}, sized : {TRUE}, solver : 0..3,
   digest : 1..2, timestamp : {1}, deadline : {0, 2}, condition : 1..(MaxPayload + 1),
   action : 1..2, steps : 0..NfeMax, nfe : 0..NfeMax, struct_size : {Header + 2, Header + 3}]

Nothing == [kind |-> "none"]

WireInit == /\ message = Nothing /\ popped = 0 /\ condition = Nothing
            /\ held_over \in {Plain, [Plain EXCEPT !.payload = 0, !.sized = FALSE]}

Receive == /\ message = Nothing /\ condition = Nothing
           /\ message' \in Requests /\ popped' \in 0..(Header + MaxPayload)
           /\ UNCHANGED <<held_over, condition>>

ReceiveCondition == /\ message = Nothing /\ condition = Nothing
                    /\ condition' \in WireConditions
                    /\ UNCHANGED <<held_over, message, popped>>

WireNext == Receive \/ ReceiveCondition

buffer == Popped(held_over, message, popped)

-----------------------------------------------------------------------------
\* JobService::poll, JobClient::try_receive: a message accepted from a reused
\* buffer was written whole by this pop; neither its header nor any element of
\* its payload is left from an earlier, longer message.
NoStaleBytes == Accepted(buffer, popped) => popped >= Header + buffer.payload /\ buffer = message

\* Whatever JobService accepts it can answer: every rejection of an accepted
\* request is a valid result (poll returns kTransportError, which stops the
\* daemon, when it is not), and so are the failures the runtime reports.
AnswerValid ==
  Accepted(buffer, popped) =>
    \A c \in Rejections \cup {"kFailed"} :
      /\ MakesResult(buffer.descriptor, RejectionProgress(buffer.descriptor), c, 0, buffer.class)
      /\ ValidResult(make_rejected_job_result(buffer, c))

\* make_job_request and validate agree: an accepted request is one the
\* constructor builds, and what the constructor builds is valid.
ConstructorAgrees ==
  message # Nothing =>
  LET made == make_job_request(message.descriptor, message.timestamp, message.payload,
                               message.class)
  IN  /\ MakesRequest(message.descriptor, message.timestamp, message.payload, message.class)
         => ValidRequest(made)
      /\ ValidRequest(message)
         => /\ MakesRequest(message.descriptor, message.timestamp, message.payload, message.class)
            /\ made = message

\* emit silently skips an event that does not validate, without counting it as
\* dropped.  Of all the events the pool builds for an accepted request that is one:
\* the preemption of a job that has no work left when cancel_before looks.
EventsValid ==
  Accepted(buffer, popped) =>
    \A e \in AdmissionEvents(buffer) \cup RunningEvents(buffer) \cup PreemptedEvents(buffer)
             \cup {t \in TerminalEvents(buffer) :
                     MakesResult(buffer.descriptor, t[2], t[3], 0, buffer.class)} :
      make_job_event(e[1], buffer.descriptor, e[2], e[3], buffer.class)
        <=> ~(e[1] = "kPreempted" /\ e[2].remaining = 0)

\* A valid condition is one make_condition_message builds for the model with
\* its dimensions, its evaluations never wrap below its steps, and the action
\* that rejects it is valid and passes the client's model check.
ConditionAnswerable ==
  (condition # Nothing /\ ValidCondition(condition)) =>
    LET model == [condition |-> condition.condition, action |-> condition.action,
                  digest |-> condition.digest]
    IN  /\ condition.nfe >= condition.steps
        /\ MakesCondition(model, condition.deadline, condition.timestamp, condition.steps,
                          condition.solver, condition.condition, condition.action)
        /\ make_condition_message(model, condition.deadline, condition.timestamp,
                                  condition.steps, condition.solver) = condition
        /\ \A c \in ActionCodes \ {"kInference"} :
             /\ ValidAction(make_rejected_action(condition, c))
             /\ \A m \in Models : SameModel(make_rejected_action(condition, c), m) <=> m = model

\* What a receiver accepts was written whole by this pop, is what a constructor
\* builds, and can be answered, rejected and reported with messages that validate.
MessagesSound ==
  NoStaleBytes /\ AnswerValid /\ ConstructorAgrees /\ EventsValid /\ ConditionAnswerable
=============================================================================
