----------------------------- MODULE RelayTrace -----------------------------
(***************************************************************************)
(* Traces: the daemons append the messages they handle to a file, the      *)
(* trace tool reads the file back, counts what it holds, and replays the   *)
(* conditions to compare the actions.  The file is a sequence of units: a  *)
(* record header and the units of the encoded message.  An append may fail *)
(* partway and the daemon goes on; a crash loses what was not flushed.     *)
(***************************************************************************)
EXTENDS Integers, Sequences

CONSTANTS Conditions,       \* the conditions clients send: key, value the engine computes, whether it fails
          Events,           \* the job events recorded
          MaxUnits,         \* kMaxTraceMessageBytes
          MaxLog, MaxFailures           \* bounds: appends that succeed; that fail, and crashes

\* Keys are session and sequence; RelayClient forwards the caller's and nothing
\* checks that they differ.
ASSUME TraceAssumption ==
  /\ MaxUnits \in Nat /\ MaxUnits >= 2 /\ MaxLog \in Nat /\ MaxFailures \in Nat
  /\ \A c \in Conditions : c.fails \in BOOLEAN
  /\ \A e \in Events : e.kind \in {"kJobRequest", "kJobResult", "kJobEvent"} /\ e.size \in 1..MaxUnits

VARIABLES file, log,        \* the units written; history: the messages appended
          failures,         \* history: the appends that failed and the crashes
          inflight,         \* the conditions accepted and not answered
          reused,           \* history: a key was accepted while it was in flight
          wrong,            \* history: a complete action was not what the engine computes
          trace_stage,            \* "recording", "reading", and how the tool ended
          pos, read,        \* TraceReader: its position, and the records returned
          replayed, mismatched, compared, counts        \* trace_tool

traceVars == <<file, log, failures, inflight, reused, wrong, trace_stage, pos, read, replayed,
               mismatched, compared, counts>>

Least2(a, b) == IF a < b THEN a ELSE b

-----------------------------------------------------------------------------
(* The layouts: where encode_* write each field and decode_* read it, as   *)
(* <<offset, bytes, field>>.                                               *)

At(base, layout) == {<<base + e[1], e[2], e[3]>> : e \in layout}

Envelope == {<<0, 4, "magic">>, <<4, 2, "version">>, <<6, 2, "kind">>, <<8, 4, "size">>,
             <<12, 4, "flags">>, <<16, 8, "sequence">>, <<24, 8, "session">>}
Common == {<<0, 4, "struct">>, <<4, 4, "protocol">>, <<8, 4, "solver">>, <<16, 16, "digest">>,
           <<32, 8, "timestamp">>, <<40, 8, "deadline">>, <<48, 8, "generation">>,
           <<56, 8, "condition_dim">>, <<64, 8, "action_dim">>}
ConditionLayout == Common \cup {<<12, 4, "reserved">>, <<72, 8, "steps">>, <<80, 8, "nfe">>}
ActionLayout == Common \cup {<<12, 4, "status">>, <<72, 8, "nfe">>}
Descriptor == {<<0, 4, "protocol">>, <<4, 2, "job_kind">>, <<6, 2, "reserved">>, <<8, 16, "digest">>,
               <<24, 8, "schema">>, <<32, 8, "job_session">>, <<40, 8, "generation">>,
               <<48, 8, "deadline">>, <<56, 8, "work">>}
Progress == {<<0, 2, "state">>, <<2, 2, "reserved0">>, <<4, 4, "reserved1">>, <<8, 8, "completed">>,
             <<16, 8, "remaining">>}
RequestLayout == {<<0, 4, "struct">>, <<4, 4, "class">>, <<72, 8, "timestamp">>, <<80, 8, "payload">>}
                 \cup At(8, Descriptor)
ResultLayout == {<<0, 4, "struct">>, <<4, 4, "class">>, <<96, 8, "timestamp">>, <<104, 8, "payload">>}
                \cup At(8, Descriptor) \cup At(72, Progress)

EventLayout ==
  {<<0, 4, "struct">>, <<4, 2, "version">>, <<6, 2, "event">>, <<96, 8, "timestamp">>,
   <<104, 8, "queue_ns">>, <<112, 8, "execution_ns">>, <<120, 8, "end_to_end_ns">>,
   <<128, 8, "cancellation_ns">>, <<136, 8, "related">>, <<144, 4, "worker">>, <<148, 4, "peer">>,
   <<152, 4, "depth">>, <<156, 4, "code">>, <<160, 4, "class">>, <<164, 4, "reserved2">>}
  \cup At(8, Descriptor) \cup At(72, Progress)

\* The size of the metadata and its layout; the payload follows it.
MetadataBytes == [kCondition |-> 88, kAction |-> 80, kJobRequest |-> 88, kJobResult |-> 112,
                  kJobEvent |-> 168, kShutdown |-> 8]
MetadataLayout == [kCondition |-> ConditionLayout, kAction |-> ActionLayout,
                   kJobRequest |-> RequestLayout, kJobResult |-> ResultLayout,
                   kJobEvent |-> EventLayout, kShutdown |-> {<<0, 8, "reason">>}]

Layout(kind) ==
  Envelope \cup At(32, MetadataLayout[kind]) \cup {<<32 + MetadataBytes[kind], 4, "payload0">>}

\* A field comes back when nothing else was written to its bytes.
Kept(layout) ==
  \A e, f \in layout : e # f => e[1] + e[2] <= f[1] \/ f[1] + f[2] <= e[1]

Faithful == [kind \in DOMAIN MetadataBytes |-> Kept(Layout(kind))]

-----------------------------------------------------------------------------
(* TraceWriter.                                                            *)

valid_kind(kind) == kind \in DOMAIN MetadataBytes

Unit(part, m, at) == [part |-> part, message |-> m, at |-> at]

encode_message(m) == [i \in 1..m.size |-> Unit("body", m, i)]

\* The header: kind, size, sequence and checksum of the message it is for.
TraceRecord(m) == <<Unit("head", m, m.size)>> \o encode_message(m)

append(m) ==
  /\ Len(log) < MaxLog /\ valid_kind(m.kind) /\ m.size <= MaxUnits
  /\ file' = file \o TraceRecord(m) /\ log' = Append(log, m) /\ UNCHANGED failures

Fail == failures < MaxFailures /\ failures' = failures + 1

\* fwrite writes some of the record; the daemon reports it and goes on.
append_fails(m) ==
  /\ \/ \E n \in 0..m.size : file' = file \o SubSeq(TraceRecord(m), 1, n)
     \/ file' = Append(file, Unit("torn", m, 0))
  /\ UNCHANGED log /\ Fail

-----------------------------------------------------------------------------
(* TraceReader and decode_message.                                         *)

Indexed(at) == file[at].message         \* what the header at this place was written for

Body(at) == SubSeq(file, at + 1, Least2(at + Indexed(at).size, Len(file)))

WholeRecord(at) ==
  /\ file[at].part = "head" /\ valid_kind(Indexed(at).kind) /\ Indexed(at).size \in 1..MaxUnits
  /\ Len(Body(at)) = Indexed(at).size

RecordOk(at) == WholeRecord(at) /\ Body(at) = encode_message(Indexed(at))

Garbled == [kind |-> "garbled"]

decode_message(body) ==
  LET m == body[1].message IN IF Faithful[m.kind] THEN m ELSE Garbled

\* The record's index is held against the envelope of the decoded message.
IndexAgrees(at, m) ==
  LET i == Indexed(at) IN m.kind = i.kind /\ m.key[2] = i.key[2] /\ m.size = i.size

-----------------------------------------------------------------------------
(* The daemon's side: a condition is recorded when it is accepted, an      *)
(* action when it is published.                                            *)

Recorder == UNCHANGED <<trace_stage, pos, read, replayed, mismatched, compared, counts>>

Condition(c) == [kind |-> "kCondition", key |-> c.key, size |-> 2, value |-> c.value,
                 fails |-> c.fails]
Action(c, status, value) ==
  [kind |-> "kAction", key |-> c.key, size |-> 1, status |-> status, value |-> value]

Accept(c) ==
  /\ trace_stage = "recording" /\ c \notin inflight
  /\ inflight' = inflight \cup {c}
  /\ reused' = (reused \/ \E d \in inflight : d.key = c.key)
  /\ append(Condition(c)) \/ append_fails(Condition(c))
  /\ UNCHANGED wrong /\ Recorder

\* A condition whose computation fails is answered as failed.
Publish(c, status, value) ==
  /\ trace_stage = "recording" /\ c \in inflight /\ inflight' = inflight \ {c}
  /\ c.fails => status = "failed"
  /\ append(Action(c, status, value)) \/ append_fails(Action(c, status, value))
  /\ wrong' = (wrong \/ (status = "complete" /\ value # c.value /\ log' # log))
  /\ UNCHANGED reused /\ Recorder

EmitEvent(e) ==
  /\ trace_stage = "recording"
  /\ append(e) \/ append_fails(e)
  /\ UNCHANGED <<inflight, reused, wrong>> /\ Recorder

Reading(f) ==
  /\ trace_stage = "recording" /\ trace_stage' = "reading" /\ file' = f
  /\ UNCHANGED <<log, inflight, reused, wrong, pos, read, replayed, mismatched, compared, counts>>

Stop == Reading(file) /\ UNCHANGED failures

RecorderCrash == \E n \in 0..(Len(file) - 1) : Reading(SubSeq(file, 1, n)) /\ Fail

-----------------------------------------------------------------------------
(* trace_tool: inspect counts while replay computes and compares.          *)

\* Mutation: requests of different sessions share a key.
RequestKeySequence(m) == m.key[2]

RequestKey(m) == m.key

Without(f, k) == [x \in DOMAIN f \ {k} |-> f[x]]
With(f, k, v) == [x \in DOMAIN f \cup {k} |-> IF x = k THEN v ELSE f[x]]

\* The condition is run to its end on the replay model.
ReplayCondition(m) ==
  /\ replayed' = With(replayed, RequestKey(m), m.value)
  /\ UNCHANGED <<mismatched, compared>>

ReplayAction(m) ==
  LET key == RequestKey(m) known == key \in DOMAIN replayed
  IN  IF m.status # "complete" THEN UNCHANGED <<replayed, mismatched, compared>>
      ELSE IF ~known THEN mismatched' = mismatched + 1 /\ UNCHANGED <<replayed, compared>>
      ELSE /\ compared' = compared + 1 /\ replayed' = Without(replayed, key)
           /\ mismatched' = mismatched + IF replayed[key] = m.value THEN 0 ELSE 1

EndTool(how) ==
  /\ trace_stage' = how
  /\ UNCHANGED <<file, log, failures, inflight, reused, wrong, pos, read, replayed, mismatched,
                 compared, counts>>

\* inspect_trace: the record is added to the totals of its kind.
Inspect(kind) == counts' = [counts EXCEPT ![kind] = @ + 1]

NextRecord ==
  LET m == decode_message(Body(pos)) IN
  /\ trace_stage = "reading"
  /\ IF pos > Len(file) THEN EndTool("end")
     ELSE IF ~RecordOk(pos) THEN EndTool("corrupt")
     ELSE IF m # Garbled /\ ~IndexAgrees(pos, m) THEN EndTool("corrupt")
     ELSE IF m.kind = "kCondition" /\ m.fails THEN EndTool("failed")
     ELSE /\ pos' = pos + 1 + Indexed(pos).size /\ read' = Append(read, m)
          /\ Inspect(Indexed(pos).kind)
          /\ CASE m.kind = "kCondition" -> ReplayCondition(m)
               [] m.kind = "kAction" -> ReplayAction(m)
               [] OTHER -> UNCHANGED <<replayed, mismatched, compared>>
          /\ UNCHANGED <<file, log, failures, inflight, reused, wrong, trace_stage>>

-----------------------------------------------------------------------------
TraceInit ==
  /\ file = <<>> /\ log = <<>> /\ failures = 0 /\ inflight = {} /\ reused = FALSE /\ wrong = FALSE
  /\ trace_stage = "recording" /\ pos = 1 /\ read = <<>>
  /\ replayed = << >> /\ mismatched = 0 /\ compared = 0
  /\ counts = [kind \in DOMAIN MetadataBytes |-> 0]

TraceNext ==
  \/ \E c \in Conditions :
       \/ Accept(c)
       \/ \E outcome \in {<<"complete", c.value>>, <<"complete", "other">>, <<"failed", "none">>} :
            Publish(c, outcome[1], outcome[2])
  \/ \E e \in Events : EmitEvent(e)
  \/ Stop \/ RecorderCrash \/ NextRecord

-----------------------------------------------------------------------------
\* The reader returns what was appended: a prefix of the messages, field by
\* field, however an append failed or a crash cut the file, and never a record
\* pieced together from two.
ReadsWhatWasWritten == Len(read) <= Len(log) /\ read = SubSeq(log, 1, Len(read))

\* A trace that was written and closed without a failure is read to its end.
IntactIsRead == failures = 0 /\ trace_stage \in {"end", "corrupt"} => trace_stage = "end" /\ read = log

\* Replay of an intact trace reports a mismatch exactly when the daemon
\* published an action that is not the one its condition computes, provided no
\* two requests with one session and sequence were in flight together: replay
\* keeps one computed action per key, and a key may be used again only once its
\* request has been answered.
ReplayVerdict ==
  failures = 0 /\ trace_stage = "end" /\ ~reused => (mismatched # 0 <=> wrong)

\* A trace tells what happened: it is read as it was written, to its end when
\* nothing failed, and replay judges every action by its own condition, as long as
\* the key tells which one that is.
TraceFaithful == ReadsWhatWasWritten /\ IntactIsRead /\ ReplayVerdict
=============================================================================
