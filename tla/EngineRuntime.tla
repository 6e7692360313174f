--------------------------- MODULE EngineRuntime ---------------------------
(***************************************************************************)
(* One engine behind the C ABI (core/api/engine.cc, core/runtime/          *)
(* engine_runtime.cc): its decode stream (Mamba's state or the             *)
(* Transformer's KV cache) with snapshots (core/protocol/snapshot.cc), and *)
(* its resumable flow solve (core/heads/flow/flow.cc), which a scheduler   *)
(* thread may cancel at any moment through the one operation documented as *)
(* concurrent, fe_engine_cancel_before.                                    *)
(*                                                                         *)
(* The control thread makes one call at a time.  A call that touches       *)
(* nothing the scheduler sees is one step; a call that loads or exchanges  *)
(* latest_generation_ takes a step for each such access.  Numbers are      *)
(* abstracted to where they come from: a decode state is the sequence of   *)
(* rows fed to it, a solver state the list of steps applied to its noise.  *)
(* A call refused before it changes anything is a stuttering step and not  *)
(* written down; a call that fails half way is.                            *)
(***************************************************************************)
EXTENDS Integers, Sequences, FiniteSets, FiniteSetsExt, Functions

CONSTANTS Kinds,            \* architectures loaded
          MaxRows,          \* max_sequence, and the bound on a Mamba stream
          Solves,           \* the step counts and solvers requested, as pairs
          MaxGeneration     \* generations the controller and the scheduler use

ASSUME EngineAssumption ==
  MaxRows \in Nat \ {0} /\ MaxGeneration \in Nat /\ Solves \subseteq Nat \X Nat

VARIABLES kind,             \* identity_.architecture
          stream,           \* rows in decode_state_ or in the KV cache
          snapshot,         \* the caller's snapshot buffer
          flow_state,       \* flow_state_
          flow_request,     \* flow_request_
          latest_generation,
          call,             \* the control thread inside a call
          canceller,        \* the scheduler thread inside fe_engine_cancel_before
          asked,            \* ghost: the inputs of the solve begun last
          published,        \* ghost: the newest generation a finished call published
          overrun           \* ghost: steps begun after a newer generation was visible

engine_vars == <<kind, stream, snapshot, flow_state, flow_request, latest_generation,
                 call, canceller, asked, published, overrun>>

stream_vars == <<stream, snapshot>>
solve_vars == <<flow_state, flow_request, asked, overrun>>

Tokens == {1, 2}                  \* the vocabulary
Bad == 3                          \* a token outside it
Inputs == {<<1>>, <<2>>}          \* a condition and its noise, by the rows encoded
Garbage == 99                     \* a row no call fed
Idle == [at |-> "idle"]

transformer_valid == kind \in {"transformer", "transformer_flow"}
model_valid == kind \in {"mamba", "mamba_flow"}
flow_valid == kind \in {"flow", "mamba_flow", "transformer_flow"}
has_backbone == transformer_valid \/ model_valid

nfe_for(steps, method) == steps * method

NoRequest == [generation |-> 0, steps |-> 0, method |-> 1, generation_tracking |-> FALSE]

remaining(state) == IF state.next_step < state.steps THEN state.steps - state.next_step ELSE 0

NoSolve == [active |-> FALSE, cancelled |-> FALSE, steps |-> 0, next_step |-> 0,
            method |-> 1, tracked |-> FALSE, generation |-> 0,
            condition_embedding |-> <<>>, x |-> [noise |-> <<>>, steps |-> <<>>]]

EngineInit ==
  /\ kind \in Kinds
  /\ stream = <<>>
  /\ snapshot = [rows |-> <<>>, damaged |-> "empty"]
  /\ flow_state = NoSolve /\ flow_request = NoRequest /\ latest_generation = 0
  /\ call = Idle /\ canceller = Idle
  /\ asked = <<>> /\ published = 0 /\ overrun = 0

\* A call that is over in one step.
OneStep == call = Idle /\ UNCHANGED <<kind, call, canceller, latest_generation, published>>

(***************************************************************************)
(* The decode stream.                                                      *)
(***************************************************************************)
decode_token(rows, token) ==
  IF token \in Tokens /\ Len(rows) < MaxRows THEN Append(rows, token) ELSE rows

fe_engine_step(token) ==
  /\ OneStep
  /\ has_backbone
  /\ model_valid => Len(stream) < MaxRows
  /\ stream' = decode_token(stream, token)
  /\ UNCHANGED <<snapshot, solve_vars>>

fe_engine_reset ==
  /\ OneStep
  /\ stream' = <<>>
  /\ UNCHANGED <<snapshot, solve_vars>>

\* The rows before the first bad one.
Visible(rows) ==
  CHOOSE good \in {SubSeq(rows, 1, n) : n \in 0..Len(rows)} :
    /\ Bad \notin Range(good)
    /\ Len(good) < Len(rows) => rows[Len(good) + 1] = Bad

\* A prefill resets and refills the Transformer's cache, up to a bad token;
\* Mamba's prefill leaves the streaming state alone.
Prefilled(rows) == IF transformer_valid THEN Visible(rows) ELSE stream

PrefillCode(rows) ==
  IF ~has_backbone THEN 4
  ELSE IF Len(rows) > MaxRows THEN 1
  ELSE IF Bad \in Range(rows) THEN 3 ELSE 0

Prompts == (UNION {[1..n -> Tokens \cup {Bad}] : n \in 1..MaxRows})
             \cup {[i \in 1..(MaxRows + 1) |-> 1]}

fe_engine_run(rows) ==
  /\ OneStep
  /\ PrefillCode(rows) \in {0, 3}
  /\ stream' = Prefilled(rows)
  /\ UNCHANGED <<snapshot, solve_vars>>

\* The mask must be ones followed by zeros with at least a one.
Masked(rows, mask) ==
  \/ mask = <<>>
  \/ /\ Len(mask) = Len(rows)
     /\ mask[1] = 1 /\ \A i \in 2..Len(mask) : mask[i] <= mask[i - 1]

fe_engine_run_embeddings_masked(rows, mask) ==
  /\ OneStep
  /\ transformer_valid /\ Len(rows) <= MaxRows /\ Masked(rows, mask)
  /\ stream' = rows
  /\ UNCHANGED <<snapshot, solve_vars>>

(***************************************************************************)
(* Snapshots.  The caller's buffer holds the rows of a snapshot and what   *)
(* has happened to it: it is empty, intact, replaced by another model's    *)
(* ("identity"), or damaged in one field.                                  *)
(***************************************************************************)
Fields == {"magic", "version", "flags", "size", "identity", "payload", "checksum"}

fe_engine_export_decode_state ==
  /\ OneStep
  /\ model_valid
  /\ snapshot' = [rows |-> stream, damaged |-> "no"]
  /\ UNCHANGED <<stream, solve_vars>>

SnapshotDamage(field) ==
  /\ snapshot.damaged = "no"
  /\ snapshot' = [rows |-> IF field \in {"payload", "identity"} THEN <<Garbage>> ELSE snapshot.rows,
                  damaged |-> field]
  /\ UNCHANGED <<kind, stream, solve_vars, latest_generation, call, canceller,
                 published>>

import_decode_snapshot(buffer) ==
  CASE buffer.damaged \in {"empty", "size"} -> 1
    [] buffer.damaged \in {"version", "identity"} -> 9
    [] buffer.damaged \in {"magic", "flags", "payload", "checksum"} -> 10
    [] buffer.damaged = "no" -> 0

fe_engine_import_decode_state ==
  /\ OneStep
  /\ model_valid /\ import_decode_snapshot(snapshot) = 0
  /\ stream' = snapshot.rows
  /\ UNCHANGED <<snapshot, solve_vars>>

(***************************************************************************)
(* The flow solve.  sampler_begin takes the workspace apart and copies the *)
(* noise into x; each step applies the velocity at its own time under the  *)
(* embedded condition.                                                     *)
(***************************************************************************)

\* Mutation for SolveExact: the state keeps the step counter it has.
SamplerBeginContinuing(state, input, request) ==
  [state EXCEPT !.active = TRUE, !.cancelled = FALSE, !.steps = request.steps,
                !.method = request.method,
                !.tracked = request.generation_tracking, !.generation = request.generation,
                !.condition_embedding = input, !.x = [noise |-> input, steps |-> <<>>]]

sampler_begin(state, input, request) ==
  [state EXCEPT !.active = TRUE, !.cancelled = FALSE, !.steps = request.steps,
                !.next_step = 0, !.method = request.method,
                !.tracked = request.generation_tracking, !.generation = request.generation,
                !.condition_embedding = input, !.x = [noise |-> input, steps |-> <<>>]]

\* One complete solver step at time next_step / steps.
SolverStepped(state) ==
  [state EXCEPT !.next_step = @ + 1,
                !.x.steps = Append(@, <<state.condition_embedding, state.next_step, state.method,
                                        state.steps>>)]

Stale(state) == state.tracked /\ latest_generation > state.generation

BeforeStep(state, first) == IF Stale(state)
                            THEN [state EXCEPT !.cancelled = TRUE, !.active = FALSE]
                            ELSE state

\* flow_begin_request: the request is stored, then the generation raised by a
\* compare-exchange loop, then the sampler begun.
BeginRequest(input, request, then) ==
  /\ flow_request' = request
  /\ call' = [at |-> "raise", observed |-> latest_generation, input |-> input, then |-> then]
  /\ UNCHANGED <<kind, snapshot, flow_state, latest_generation, canceller, asked, published,
                 overrun>>

Untracked(steps, method) ==
  [generation |-> 0, steps |-> steps, method |-> method, generation_tracking |-> FALSE]

fe_engine_flow_begin(input, steps, method) ==
  /\ call = Idle /\ flow_valid
  /\ BeginRequest(input, Untracked(steps, method), "return")
  /\ UNCHANGED stream

\* The request's digest, dimensions, solver, NFE and deadline fit this model.
fe_engine_flow_begin_request(input, steps, method, generation) ==
  /\ call = Idle /\ flow_valid
  /\ BeginRequest(input, [generation |-> generation, steps |-> steps, method |-> method,
                          generation_tracking |-> TRUE], "return")
  /\ UNCHANGED stream

fe_engine_sample_condition(input, steps, method) ==
  /\ call = Idle /\ flow_valid
  /\ BeginRequest(input, Untracked(steps, method), "advance")
  /\ UNCHANGED stream

\* The condition is the last hidden row of the prefill; a bad token ends the
\* call after the prefill.
fe_engine_sample(rows, steps, method) ==
  /\ call = Idle /\ flow_valid /\ PrefillCode(rows) \in {0, 3}
  /\ stream' = Prefilled(rows)
  /\ IF PrefillCode(rows) = 0
     THEN BeginRequest(rows, Untracked(steps, method), "advance")
     ELSE UNCHANGED <<kind, snapshot, solve_vars, latest_generation, call, canceller, published>>

\* Mutation for PublishedHolds: the generation is stored, not exchanged.
ExchangeBlind(observed, generation) == generation

\* What a compare-exchange leaves in latest_generation_.
Exchange(observed, generation) ==
  IF latest_generation = observed THEN generation ELSE latest_generation

\* One round of the loop; a weak exchange may also fail although the value is
\* the observed one.
RaiseGeneration ==
  /\ call.at = "raise"
  /\ flow_request.generation_tracking /\ call.observed < flow_request.generation
  /\ \/ latest_generation' = Exchange(call.observed, flow_request.generation)
     \/ UNCHANGED latest_generation
  /\ call' = [call EXCEPT !.observed = latest_generation']
  /\ UNCHANGED <<kind, stream_vars, solve_vars, canceller, published>>

SamplerBegins ==
  /\ call.at = "raise"
  /\ flow_request.generation_tracking => call.observed >= flow_request.generation
  /\ flow_state' = sampler_begin(flow_state, call.input, flow_request)
  /\ asked' = call.input
  /\ published' = IF flow_request.generation_tracking /\ flow_request.generation > published
                  THEN flow_request.generation ELSE published
  /\ overrun' = 0
  /\ call' = IF call.then = "return" THEN Idle
             ELSE [at |-> "step", end |-> flow_request.steps, first |-> TRUE]
  /\ UNCHANGED <<kind, stream_vars, flow_request, latest_generation, canceller>>

fe_engine_flow_advance(step_budget) ==
  /\ call = Idle /\ flow_state.active
  /\ call' = [at |-> "step", first |-> TRUE,
              end |-> flow_state.next_step + Min({step_budget, remaining(flow_state)})]
  /\ UNCHANGED <<kind, stream_vars, solve_vars, latest_generation, canceller, published>>

\* The loop of sampler_advance: the generation is loaded before every step.
LookBeforeStep ==
  /\ call.at = "step" /\ flow_state.active /\ flow_state.next_step < call.end
  /\ flow_state' = BeforeStep(flow_state, call.first)
  /\ call' = [call EXCEPT !.at = IF flow_state'.active THEN "velocity" ELSE "step"]
  /\ overrun' = IF Stale(flow_state) /\ flow_state'.active THEN overrun + 1 ELSE overrun
  /\ UNCHANGED <<kind, stream_vars, flow_request, latest_generation, canceller,
                 asked, published>>

TakeStep ==
  /\ call.at = "velocity"
  /\ flow_state' = SolverStepped(flow_state)
  /\ call' = [call EXCEPT !.at = "step", !.first = FALSE]
  /\ UNCHANGED <<kind, stream_vars, flow_request, latest_generation, canceller,
                 asked, published, overrun>>

AdvanceReturns ==
  /\ call.at = "step" /\ (~flow_state.active \/ flow_state.next_step >= call.end)
  /\ call' = Idle
  /\ UNCHANGED <<kind, stream_vars, solve_vars, latest_generation, canceller, published>>

(***************************************************************************)
(* The scheduler thread.                                                   *)
(***************************************************************************)
fe_engine_cancel_before(generation) ==
  /\ canceller = Idle
  /\ canceller' = [at |-> "raise", observed |-> latest_generation, generation |-> generation]
  /\ UNCHANGED <<kind, stream_vars, solve_vars, latest_generation, call, published>>

CancelRaises ==
  /\ canceller.at = "raise" /\ canceller.observed < canceller.generation
  /\ latest_generation' = Exchange(canceller.observed, canceller.generation)
  /\ canceller' = [canceller EXCEPT !.observed = latest_generation']
  /\ UNCHANGED <<kind, stream_vars, solve_vars, call, published>>

CancelReturns ==
  /\ canceller.at = "raise" /\ canceller.observed >= canceller.generation
  /\ canceller' = Idle
  /\ published' = IF canceller.generation > published THEN canceller.generation ELSE published
  /\ UNCHANGED <<kind, stream_vars, solve_vars, latest_generation, call>>

EngineNext ==
  \/ \E token \in Tokens \cup {Bad} : fe_engine_step(token)
  \/ fe_engine_reset
  \/ \E rows \in Prompts : fe_engine_run(rows)
  \/ \E rows \in Prompts, mask \in {<<>>, <<1>>, <<1, 0>>, <<0, 1>>, <<0>>} :
       fe_engine_run_embeddings_masked(rows, mask)
  \/ fe_engine_export_decode_state
  \/ \E field \in Fields : SnapshotDamage(field)
  \/ fe_engine_import_decode_state
  \/ \E input \in Inputs, solve \in Solves :
       \/ fe_engine_flow_begin(input, solve[1], solve[2])
       \/ fe_engine_sample_condition(input, solve[1], solve[2])
       \/ \E generation \in 0..MaxGeneration :
            fe_engine_flow_begin_request(input, solve[1], solve[2], generation)
  \/ \E rows \in Prompts, solve \in Solves : fe_engine_sample(rows, solve[1], solve[2])
  \/ RaiseGeneration \/ SamplerBegins
  \/ \E step_budget \in {1, 3} : fe_engine_flow_advance(step_budget)
  \/ LookBeforeStep \/ TakeStep \/ AdvanceReturns
  \/ \E generation \in 1..MaxGeneration : fe_engine_cancel_before(generation)
  \/ CancelRaises \/ CancelReturns

EngineSpec == EngineInit /\ [][EngineNext]_engine_vars

(***************************************************************************)
(* Properties.                                                             *)
(***************************************************************************)
flow_action_status ==
  IF flow_state.cancelled THEN "cancelled"
  ELSE IF ~flow_state.active THEN "failed"
  ELSE IF remaining(flow_state) = 0 THEN "complete" ELSE "running"

Solution(input, request, n) ==
  [noise |-> input, steps |-> [i \in 1..n |-> <<input, i - 1, request.method, request.steps>>]]

\* Between calls, the solve the engine reports on (flow_action_status,
\* flow_remaining_nfe and the stored request) is the one begun last, and its x
\* is that solve's own noise with its own steps applied in order: however calls
\* replace, resume, cancel and complete solves, no step of one solve enters
\* another and the evaluations done and left add up to what was requested.
SolveExact ==
  call = Idle /\ flow_action_status # "failed" =>
    /\ flow_state.steps = flow_request.steps /\ flow_state.generation = flow_request.generation
    /\ flow_state.x = Solution(asked, flow_request, flow_state.next_step)
    /\ Len(flow_state.x.steps) * flow_request.method
         + remaining(flow_state) * flow_state.method
         = nfe_for(flow_request.steps, flow_request.method)

\* A newer generation stops a tracked solve before its next step: no step is
\* begun once the generation is visible, a cancelled solve does have a newer
\* generation, and an untracked one is never cancelled.
StaleStops ==
  /\ overrun = 0
  /\ flow_state.cancelled => flow_state.tracked /\ latest_generation > flow_state.generation

\* When fe_engine_cancel_before or a request's begin has returned, its
\* generation stays published: two threads raising latest_generation_ at once
\* never lower it.
PublishedHolds == latest_generation >= published

\* The decode stream only ever holds rows that were fed to this model: an import
\* of another model's snapshot, or of one damaged in the header or the payload,
\* is refused before the state is touched.
StreamOwned == Garbage \notin Range(stream) /\ Len(stream) <= MaxRows

\* Generations order solves: what was published stays published, and stops every
\* older tracked solve before its next step.
GenerationsHold == PublishedHolds /\ StaleStops

\* What the engine holds is its own: the solve's sample is that solve's steps, and
\* the decode stream is made of rows that were fed to this model.
StateExact == SolveExact /\ StreamOwned
=============================================================================
