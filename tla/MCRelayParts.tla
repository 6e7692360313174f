---------------------------- MODULE MCRelayParts ----------------------------
(***************************************************************************)
(* The parts of Relay that share no state, in one model: one part takes    *)
(* its steps, the others stay in an initial state of theirs.               *)
(***************************************************************************)
EXTENDS ActionDelivery, RelayStartup, RelayMetrics, RelayTrace, MCWireMessages, EdfAdmission,
        CommandLine, WorkerTopology

-----------------------------------------------------------------------------
(* Two components, three steps of two ticks each; values are multiples of 6. *)

LowerValue == [c \in 1..2 |-> IF c = 1 THEN -6 ELSE 0]
UpperValue == [c \in 1..2 |-> 12]
DeltaValue == [c \in 1..2 |-> IF c = 1 THEN 6 ELSE 12]

Act(gen, seq, sess, source, deadline, values) ==
  [valid |-> TRUE, complete |-> TRUE, finite |-> TRUE, dim |-> 2 * Len(values), digest |-> 1,
   gen |-> gen, seq |-> seq, session |-> sess, source |-> source, deadline |-> deadline,
   values |-> values]

Rising == << <<0, 0>>, <<6, 6>>, <<12, 12>> >>
Jumping == << <<18, 0>>, <<-12, 12>>, <<0, 6>> >>

OfferedActions ==
  {Act(1, 1, 1, 1, 0, Rising), Act(2, 2, 1, 2, 5, Jumping), Act(2, 3, 1, 3, 0, Rising),
   Act(1, 1, 2, 3, 2, Rising), Act(3, 4, 1, 1, 0, << <<0, 0>> >>),
   [Act(3, 4, 1, 1, 0, Rising) EXCEPT !.finite = FALSE],
   [Act(3, 4, 1, 1, 0, Rising) EXCEPT !.complete = FALSE]}

OfferedChunks ==
  {[steps |-> 3, digest |-> d, seq |-> 4, session |-> 1, gen |-> 3, source |-> 2, deadline |-> 0,
    produced |-> 3, from |-> 4, until |-> u, finite |-> f, values |-> Rising] :
     d \in {1, 2}, u \in {10, 11}, f \in BOOLEAN}

-----------------------------------------------------------------------------
\* Instances of RelayStartup for TLC: two pairs of rings; an order, a program that
\* creates a pair, requests with the default numbers and with others, and a
\* shutdown; one build with smaller slots.

RingNames == <<"conditions", "actions", "control", "status">>
Builds == <<1, 2, 2, 2, 2, 2>>
Invoke(kind, sequence, about) == [kind |-> kind, sequence |-> sequence, about |-> about]
Invocations ==
  <<Invoke("control", 1, "status"), Invoke("own", 1, 1), Invoke("request", 1, 1),
    Invoke("request", 1, 1), Invoke("request", 2, 1), Invoke("shutdown", 1, 1)>>

-----------------------------------------------------------------------------
(* Three records of any kind, latencies on both sides of every bound.      *)

Event(event, kind, code, state, done, worker, spent, cancelling) ==
  [event |-> event, code |-> code, worker |-> worker, spent |-> spent, cancelling |-> cancelling,
   depth |-> 1, descriptor |-> [kind |-> kind, known |-> TRUE, work |-> 2],
   progress |-> [state |-> state, completed |-> done, remaining |-> 2 - done]]

MetricEvents ==
  {Event("kAdmitted", 1, "kProgress", "kReady", 0, FALSE, 0, 0),
   Event("kPreempted", 2, "kProgress", "kRunning", 1, TRUE, 0, 0),
   Event("kCompleted", 2, "kComplete", "kComplete", 2, TRUE, 3, 0),
   Event("kCompleted", 1, "kComplete", "kRunning", 1, TRUE, 3, 0),
   Event("kCancelled", 3, "kCancelled", "kCancelled", 1, TRUE, 4, 5),
   Event("kFailed", 1, "kFailed", "kFailed", 0, TRUE, 7, 0),
   Event("kRejected", 1, "kAdapterNotFound", "kFailed", 0, TRUE, 2, 0),
   Event("kRejected", 3, "kRejectedQos", "kFailed", 0, FALSE, 0, 0)}

PublishedActions ==
  {<<"rejected_stale", 0, 1, 0, 0>>, <<"rejected_deadline", 1, 3, 0, 0>>,
   <<"rejected_capacity", 2, 2, 0, 0>>, <<"expired", 1, 5, 0, 0>>, <<"complete", 3, 8, 4, 8>>,
   <<"cancelled", 1, 3, 2, 3>>, <<"failed", 5, 4, 6, 7>>}

-----------------------------------------------------------------------------
(* Two sessions that use the same sequence number, one of them twice, a    *)
(* condition the engine cannot compute, and a job event.                   *)

Asked == {[key |-> <<1, 1>>, value |-> "a", fails |-> FALSE],
          [key |-> <<1, 1>>, value |-> "b", fails |-> FALSE],
          [key |-> <<2, 1>>, value |-> "c", fails |-> FALSE],
          [key |-> <<1, 2>>, value |-> "d", fails |-> TRUE]}
JobEvent == {[kind |-> "kJobEvent", key |-> <<3, 1>>, size |-> 1]}

-----------------------------------------------------------------------------
\* Instances of EdfAdmission for TLC.

M(seq, gen, deadline, nfe) == [seq |-> seq, gen |-> gen, deadline |-> deadline, nfe |-> nfe]

\* Two generations with tight, loose and no deadlines, and a request whose
\* cost does not fit a 64-bit integer.
MCOffered ==
  {M(1, 1, 0, 2), M(2, 1, 9, 1), M(3, 1, 8, 2), M(4, 2, 9, 1), M(5, 2, 10, 2), M(6, 2, 12, 1),
   M(7, 2, 31, 20)}

-----------------------------------------------------------------------------
\* Arguments at the boundaries of what parse_options checks.

Args(p, flag, values) == {[program |-> p, flag |-> flag, value |-> v] : v \in values}
Numbers(S) == {Number(n) : n \in S} \cup {Text("words")}

TriedArguments ==
  Args("jobd", "capacity", Numbers({0, 1, 2, 3, IntMax})) \cup Args("jobd", "workers", Numbers({0, 1, 9}))
  \cup Args("jobd", "interactive_reserve", Numbers({0, 1, 2, IntMax}))
  \cup Args("jobd", "critical_reserve", Numbers({0, 1, 2, IntMax}))
  \cup Args("jobd", "max_sessions", Numbers({0, 2})) \cup Args("jobd", "work_quantum", Numbers({0, 2}))
  \cup Args("jobd", "max_tokens", Numbers({0, MaxTokens, MaxTokens + 1}))
  \cup Args("jobd", "model", {Text("model")}) \cup Args("jobd", "placement", {Text("spread"), Text("words")})
  \cup Args("relayd", "workers", Numbers({2, 9})) \cup Args("relayd", "metrics_interval_ms", Numbers({Day, Day + 1}))
  \cup Args("relayd", "model", {Text("model")}) \cup Args("relayd", "help", {Text("")})
  \cup Args("relayd", "create", {Text("yes")})
  \cup Args("jobctl", "model", {Text("model")})
  \cup Args("jobctl", "deadline_ms", Numbers({0, 98, 99, 150, IntMax}))
  \cup Args("jobctl", "worker", Numbers({0, 3, IntMax})) \cup Args("jobctl", "timeout_ms", Numbers({0, 9}))
  \cup Args("jobctl", "class", {Text("critical"), Text("words")}) \cup Args("jobctl", "unknown", {Text("")})
  \cup Args("relayctl", "steps", Numbers({0, 1})) \cup Args("relayctl", "solver", {Text("rk4"), Text("words")})
  \cup Args("trace", "jsonl", {Text("yes")}) \cup Args("trace", "model", {Text("model")})

-----------------------------------------------------------------------------
VARIABLE part               \* the part that runs

partVars == <<part, gateVars, startVars, metricVars, traceVars, wire_vars, vars, cliVars,
              topologyVars>>

PartInit ==
  /\ part \in {"gate", "startup", "metrics", "trace", "wire", "edf", "cli", "topology"}
  /\ GateInit /\ (part = "gate" \/ clamps)
  /\ StartInit /\ (part = "startup" \/ creates)
  /\ MetricInit /\ (part = "metrics" \/ daemon = "relay")
  /\ WireInit /\ (part = "wire" \/ held_over = Plain)
  /\ CliInit /\ (part = "cli" \/ (program = "trace" /\ command = "help"))
  /\ TraceInit
  /\ Init
  /\ IF part = "topology" THEN TopologyInit
     ELSE /\ allowed = Cpus /\ cpulist = [n \in NumaNodes |-> {}]
          /\ placement = "none" /\ bound = <<>>

PartNext ==
  /\ UNCHANGED part
  /\ IF part = "gate" THEN GateNext ELSE UNCHANGED gateVars
  /\ IF part = "startup" THEN StartNext ELSE UNCHANGED startVars
  /\ IF part = "metrics" THEN MetricNext ELSE UNCHANGED metricVars
  /\ IF part = "trace" THEN TraceNext ELSE UNCHANGED traceVars
  /\ IF part = "wire" THEN WireNext ELSE UNCHANGED wire_vars
  /\ IF part = "edf" THEN Next ELSE UNCHANGED vars
  /\ IF part = "cli" THEN CliNext ELSE UNCHANGED cliVars
  /\ IF part = "topology" THEN bind_current_worker ELSE UNCHANGED topologyVars

PartSpec == PartInit /\ [][PartNext]_partVars

\* A daemon starts soundly: its options leave every class a place, its workers are
\* spread over the processors it may use, and the ring names it takes are its own,
\* published after loading and removed at the end; a client sends the deadline it
\* was given and reports an answer to its own question.
StartsSound ==
  NamesOwned /\ OptionsKept /\ SpreadBalanced /\ NoNeedlessSharing
=============================================================================
