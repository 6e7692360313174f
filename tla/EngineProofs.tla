----------------------------- MODULE EngineProofs -----------------------------
(***************************************************************************)
(* The generation shared by the control thread and the scheduler thread,   *)
(* and what the engine holds between calls, for any number of generations, *)
(* prompts and solves; the plan selector's estimates, for every portfolio  *)
(* and every sequence of observations; and the work a lane's job does with *)
(* its engine, for every split into quanta.                                *)
(***************************************************************************)
EXTENDS EngineRuntime, DeadlineFlow, CooperativeJob, WellFoundedInduction, TLAPS

USE SMTT(20), ZenonT(20)

(* Sequences.                                                              *)

LEMMA SeqSame ==
  ASSUME NEW S, NEW s \in Seq(S), NEW t \in Seq(S), Len(s) = Len(t),
         \A i \in 1..Len(s) : s[i] = t[i]
  PROVE  s = t
OBVIOUS

LEMMA Joined ==
  ASSUME NEW S, NEW s \in Seq(S), NEW t \in Seq(S)
  PROVE  /\ s \o t \in Seq(S) /\ Len(s \o t) = Len(s) + Len(t)
         /\ \A i \in 1..Len(s) + Len(t) :
              (s \o t)[i] = IF i <= Len(s) THEN s[i] ELSE t[i - Len(s)]
OBVIOUS

LEMMA Slice ==
  ASSUME NEW S, NEW s, NEW m \in Int, NEW n \in Int, \A i \in m..n : s[i] \in S
  PROVE  /\ SubSeq(s, m, n) \in Seq(S)
         /\ Len(SubSeq(s, m, n)) = IF m <= n THEN n - m + 1 ELSE 0
         /\ \A i \in 1..n - m + 1 : SubSeq(s, m, n)[i] = s[m + i - 1]
OBVIOUS

LEMMA Appended ==
  ASSUME NEW S, NEW s \in Seq(S), NEW e \in S
  PROVE  /\ Append(s, e) \in Seq(S) /\ Append(s, e) # <<>> /\ Len(Append(s, e)) = Len(s) + 1
         /\ \A i \in 1..Len(s) : Append(s, e)[i] = s[i]
         /\ Append(s, e)[Len(s) + 1] = e
OBVIOUS

\* A thread inside its compare-exchange loop knows a generation that was once
\* the latest.
CallKnows ==
  /\ "at" \in DOMAIN call
  /\ call.at = "raise" =>
       /\ DOMAIN call = {"at", "observed", "input", "then"}
       /\ call.observed \in Nat /\ call.observed <= latest_generation

CancellerKnows ==
  /\ "at" \in DOMAIN canceller
  /\ canceller.at = "raise" =>
       /\ DOMAIN canceller = {"at", "observed", "generation"}
       /\ canceller.observed \in Nat /\ canceller.observed <= latest_generation
       /\ canceller.generation \in Nat

Numbers ==
  /\ latest_generation \in Nat /\ published \in Nat
  /\ flow_request.generation \in Nat
  /\ flow_request.generation_tracking \in BOOLEAN

StateFields == {"active", "cancelled", "steps", "next_step", "method", "tracked",
                "generation", "condition_embedding", "x"}

SolveTyped ==
  /\ DOMAIN flow_state = StateFields
  /\ flow_state.generation \in Nat
  /\ flow_state.tracked \in BOOLEAN /\ flow_state.cancelled \in BOOLEAN

GenerationInv ==
  /\ Numbers /\ SolveTyped /\ CallKnows /\ CancellerKnows
  /\ PublishedHolds /\ StaleStops

-----------------------------------------------------------------------------
(* Facts about numbers and sequences, and about a job's quantum.           *)

LEMMA NotReached == ASSUME NEW a \in Nat, NEW b \in Nat, a < b PROVE ~(a >= b)
OBVIOUS

LEMMA Short == ASSUME NEW a \in Nat, NEW b \in Nat, a <= b, a # b PROVE a < b
OBVIOUS

LEMMA AtMost ==
  ASSUME NEW a \in Nat, NEW b \in Nat, NEW c \in Nat, a <= b, b <= c PROVE a <= c
OBVIOUS

LEMMA LastOrEarlier == ASSUME NEW n \in Nat, NEW i \in 1..n + 1 PROVE i \in 1..n \/ i = n + 1
OBVIOUS

LEMMA QuantumLeft ==
  ASSUME NEW w \in Nat, NEW c \in Nat, c < w, NEW b \in Nat, b > 0
  PROVE  /\ Least(w - c, b) \in Nat /\ Least(w - c, b) > 0 /\ Least(w - c, b) <= w - c
BY DEF Least

LEMMA AdapterAppended ==
  ASSUME NEW s \in Seq(DOMAIN Adapters), NEW a \in DOMAIN Adapters
  PROVE  /\ Append(s, a) \in Seq(DOMAIN Adapters)
         /\ DOMAIN Append(s, a) = 1..Len(s) + 1
         /\ DOMAIN s = 1..Len(s) /\ Len(s) \in Nat
         /\ \A i \in 1..Len(s) : Append(s, a)[i] = s[i]
         /\ Append(s, a)[Len(s) + 1] = a
BY Appended

LEMMA ZeroLeast == ASSUME NEW n \in Nat PROVE 0 \in Nat /\ 0 <= n
OBVIOUS

LEMMA NoneTaken ==
  ASSUME NEW S, NEW s \in Seq(S), s # <<>>
  PROVE  Prefix(s, 0) = <<>> /\ Len(s) > 0
BY DEF Prefix

LEMMA Mirrored ==
  ASSUME NEW b \in Nat, NEW m \in 0..b, NEW n \in 0..b, b - m <= b - n
  PROVE  n <= m
OBVIOUS

LEMMA NothingFits == Len(<<>>) <= MaxPayload
BY WireAssumption

-----------------------------------------------------------------------------
\* What the loops do to the generation: a compare-exchange never lowers it.
LEMMA ExchangeRaises ==
  ASSUME NEW observed \in Nat, NEW generation \in Nat, latest_generation \in Nat,
         observed < generation
  PROVE  /\ Exchange(observed, generation) \in Nat
         /\ latest_generation <= Exchange(observed, generation)
BY DEF Exchange

\* A step that leaves the solve, the request and what is published alone, and
\* does not lower the generation, keeps all but the two threads' knowledge.
LEMMA KeepSolve ==
  ASSUME GenerationInv, UNCHANGED <<flow_state, overrun, published, flow_request>>,
         latest_generation' \in Nat, latest_generation <= latest_generation'
  PROVE  Numbers' /\ SolveTyped' /\ PublishedHolds' /\ StaleStops'
BY DEF GenerationInv, Numbers, SolveTyped, PublishedHolds, StaleStops

LEMMA KeepCall ==
  ASSUME GenerationInv, UNCHANGED call,
         latest_generation' \in Nat, latest_generation <= latest_generation'
  PROVE  CallKnows'
BY DEF GenerationInv, Numbers, CallKnows

LEMMA KeepCanceller ==
  ASSUME GenerationInv, UNCHANGED canceller,
         latest_generation' \in Nat, latest_generation <= latest_generation'
  PROVE  CancellerKnows'
BY DEF GenerationInv, Numbers, CancellerKnows

\* A call that neither begins nor advances a solve.
LEMMA KeepAll ==
  ASSUME GenerationInv,
         UNCHANGED <<flow_state, overrun, published, flow_request, latest_generation, call,
                     canceller>>
  PROVE  GenerationInv'
<1>1. latest_generation' \in Nat /\ latest_generation <= latest_generation'
  BY DEF GenerationInv, Numbers
<1> QED
  BY <1>1, KeepSolve, KeepCall, KeepCanceller DEF GenerationInv

\* Beginning a request: the loop starts with the value it has just loaded.
LEMMA KeepBegin ==
  ASSUME GenerationInv, NEW input, NEW request, NEW then, BeginRequest(input, request, then),
         request.generation \in Nat, request.generation_tracking \in BOOLEAN
  PROVE  GenerationInv'
<1>1. /\ latest_generation' = latest_generation /\ flow_request' = request
      /\ UNCHANGED <<flow_state, overrun, published, canceller>>
      /\ call' = [at |-> "raise", observed |-> latest_generation, input |-> input, then |-> then]
  BY DEF BeginRequest
<1>2. latest_generation \in Nat
  BY DEF GenerationInv, Numbers
<1>3. Numbers'
  BY <1>1 DEF GenerationInv, Numbers
<1>4. CallKnows'
  BY <1>1, <1>2 DEF CallKnows
<1>5. CancellerKnows'
  BY <1>1, <1>2, KeepCanceller
<1>6. SolveTyped' /\ PublishedHolds' /\ StaleStops'
  BY <1>1 DEF GenerationInv, SolveTyped, PublishedHolds, StaleStops
<1> QED
  BY <1>3, <1>4, <1>5, <1>6 DEF GenerationInv

LEMMA UntrackedTyped ==
  ASSUME NEW steps, NEW method
  PROVE  /\ Untracked(steps, method).generation \in Nat
         /\ Untracked(steps, method).generation_tracking \in BOOLEAN
BY DEF Untracked

LEMMA KeepRaise == GenerationInv /\ RaiseGeneration => GenerationInv'
<1> SUFFICES ASSUME GenerationInv, RaiseGeneration PROVE GenerationInv'
  OBVIOUS
<1>1. /\ call.observed \in Nat /\ flow_request.generation \in Nat /\ latest_generation \in Nat
      /\ call.observed < flow_request.generation
      /\ DOMAIN call = {"at", "observed", "input", "then"}
  BY DEF GenerationInv, Numbers, CallKnows, RaiseGeneration
<1>2. latest_generation' \in Nat /\ latest_generation <= latest_generation'
  BY <1>1, ExchangeRaises DEF RaiseGeneration
<1>3. call' = [call EXCEPT !.observed = latest_generation']
  BY DEF RaiseGeneration
<1>4. CallKnows'
  BY <1>1, <1>2, <1>3 DEF CallKnows
<1>5. UNCHANGED <<flow_state, overrun, published, flow_request, canceller>>
  BY DEF RaiseGeneration, solve_vars
<1> QED
  BY <1>2, <1>4, <1>5, KeepSolve, KeepCanceller DEF GenerationInv

LEMMA KeepSampler == GenerationInv /\ SamplerBegins => GenerationInv'
<1> SUFFICES ASSUME GenerationInv, SamplerBegins PROVE GenerationInv'
  OBVIOUS
<1>1. /\ UNCHANGED <<flow_request, latest_generation, canceller>> /\ overrun' = 0
      /\ flow_state' = sampler_begin(flow_state, call.input, flow_request)
  BY DEF SamplerBegins
<1>2. /\ latest_generation \in Nat /\ published \in Nat /\ published <= latest_generation
      /\ flow_request.generation \in Nat /\ flow_request.generation_tracking \in BOOLEAN
      /\ DOMAIN flow_state = StateFields
  BY DEF GenerationInv, Numbers, PublishedHolds, SolveTyped
<1>3. flow_request.generation_tracking => flow_request.generation <= latest_generation
  BY <1>2 DEF GenerationInv, CallKnows, SamplerBegins
<1>4. published' \in Nat /\ published' <= latest_generation
  BY <1>2, <1>3 DEF SamplerBegins
<1>5. /\ DOMAIN flow_state' = StateFields
      /\ flow_state'.generation = flow_request.generation
      /\ flow_state'.tracked = flow_request.generation_tracking
      /\ flow_state'.cancelled = FALSE
  BY <1>1, <1>2, Zenon DEF sampler_begin, StateFields
<1>6. Numbers' /\ SolveTyped' /\ PublishedHolds' /\ StaleStops'
  BY <1>1, <1>2, <1>4, <1>5, Zenon DEF Numbers, SolveTyped, PublishedHolds, StaleStops
<1>7. CallKnows'
  BY DEF SamplerBegins, CallKnows, Idle
<1>8. CancellerKnows'
  BY <1>1, <1>2, KeepCanceller
<1> QED
  BY <1>6, <1>7, <1>8 DEF GenerationInv

\* The look before a step cancels a stale solve and begins no step of it.
LEMMA KeepLook == GenerationInv /\ LookBeforeStep => GenerationInv'
<1> SUFFICES ASSUME GenerationInv, LookBeforeStep PROVE GenerationInv'
  OBVIOUS
<1>1. /\ UNCHANGED <<flow_request, latest_generation, canceller, published>>
      /\ flow_state' = BeforeStep(flow_state, call.first)
  BY DEF LookBeforeStep
<1>2. /\ latest_generation \in Nat /\ DOMAIN flow_state = StateFields
      /\ flow_state.generation \in Nat /\ flow_state.tracked \in BOOLEAN
      /\ flow_state.cancelled \in BOOLEAN /\ "at" \in DOMAIN call
  BY DEF GenerationInv, Numbers, SolveTyped, CallKnows
<1>3. ASSUME Stale(flow_state) PROVE SolveTyped' /\ StaleStops'
  <2>1. flow_state' = [flow_state EXCEPT !.cancelled = TRUE, !.active = FALSE]
    BY <1>1, <1>3 DEF BeforeStep
  <2>2. /\ DOMAIN flow_state' = StateFields /\ flow_state'.cancelled = TRUE
        /\ flow_state'.active = FALSE
        /\ flow_state'.generation = flow_state.generation
        /\ flow_state'.tracked = flow_state.tracked
    BY <1>2, <2>1 DEF StateFields
  <2>3. overrun' = overrun
    BY <2>2 DEF LookBeforeStep
  <2>4. flow_state.tracked /\ latest_generation > flow_state.generation
    BY <1>3 DEF Stale
  <2> QED
    BY <1>1, <1>2, <2>2, <2>3, <2>4, Zenon DEF GenerationInv, SolveTyped, StaleStops
<1>4. ASSUME ~Stale(flow_state) PROVE SolveTyped' /\ StaleStops'
  <2>1. flow_state' = flow_state /\ overrun' = overrun
    BY <1>1, <1>4 DEF BeforeStep, LookBeforeStep
  <2> QED
    BY <1>1, <2>1 DEF GenerationInv, SolveTyped, StaleStops
<1>5. SolveTyped' /\ StaleStops'
  BY <1>3, <1>4
<1>6. Numbers' /\ PublishedHolds'
  BY <1>1 DEF GenerationInv, Numbers, PublishedHolds
<1>7. "at" \in DOMAIN call' /\ call'.at \in {"velocity", "step"}
  BY <1>2 DEF LookBeforeStep
<1>8. CallKnows'
  BY <1>7 DEF CallKnows
<1>9. CancellerKnows'
  BY <1>1, <1>2, KeepCanceller
<1> QED
  BY <1>5, <1>6, <1>8, <1>9 DEF GenerationInv

LEMMA KeepStep == GenerationInv /\ TakeStep => GenerationInv'
<1> SUFFICES ASSUME GenerationInv, TakeStep PROVE GenerationInv'
  OBVIOUS
<1>1. /\ UNCHANGED <<flow_request, latest_generation, canceller, published, overrun>>
      /\ flow_state' = SolverStepped(flow_state)
      /\ call' = [call EXCEPT !.at = "step", !.first = FALSE]
  BY DEF TakeStep
<1>2. /\ latest_generation \in Nat /\ DOMAIN flow_state = StateFields /\ "at" \in DOMAIN call
  BY DEF GenerationInv, Numbers, SolveTyped, CallKnows
<1>3. /\ DOMAIN flow_state' = StateFields
      /\ flow_state'.generation = flow_state.generation
      /\ flow_state'.tracked = flow_state.tracked
      /\ flow_state'.cancelled = flow_state.cancelled
  BY <1>1, <1>2 DEF SolverStepped, StateFields
<1>4. SolveTyped' /\ StaleStops'
  BY <1>1, <1>3 DEF GenerationInv, SolveTyped, StaleStops
<1>5. Numbers' /\ PublishedHolds'
  BY <1>1 DEF GenerationInv, Numbers, PublishedHolds
<1>6. "at" \in DOMAIN call' /\ call'.at = "step"
  BY <1>1, <1>2
<1>7. CallKnows' /\ CancellerKnows'
  BY <1>1, <1>2, <1>6, KeepCanceller DEF CallKnows
<1> QED
  BY <1>4, <1>5, <1>7 DEF GenerationInv

\* A call that only moves the control thread.
LEMMA KeepCallEnds ==
  ASSUME GenerationInv, "at" \in DOMAIN call', call'.at # "raise",
         UNCHANGED <<flow_state, overrun, published, flow_request, latest_generation, canceller>>
  PROVE  GenerationInv'
<1>1. latest_generation' \in Nat /\ latest_generation <= latest_generation'
  BY DEF GenerationInv, Numbers
<1> QED
  BY <1>1, KeepSolve, KeepCanceller DEF GenerationInv, CallKnows

LEMMA KeepCancel ==
  ASSUME GenerationInv, NEW generation \in 1..MaxGeneration, fe_engine_cancel_before(generation)
  PROVE  GenerationInv'
<1>1. /\ UNCHANGED <<flow_state, overrun, published, flow_request, latest_generation, call>>
      /\ canceller' = [at |-> "raise", observed |-> latest_generation, generation |-> generation]
  BY DEF fe_engine_cancel_before, solve_vars
<1>2. latest_generation' \in Nat /\ latest_generation <= latest_generation'
  BY <1>1 DEF GenerationInv, Numbers
<1>3. CancellerKnows'
  BY <1>1, <1>2 DEF CancellerKnows
<1> QED
  BY <1>1, <1>2, <1>3, KeepSolve, KeepCall DEF GenerationInv

LEMMA KeepCancelRaises == GenerationInv /\ CancelRaises => GenerationInv'
<1> SUFFICES ASSUME GenerationInv, CancelRaises PROVE GenerationInv'
  OBVIOUS
<1>1. /\ canceller.observed \in Nat /\ canceller.generation \in Nat /\ latest_generation \in Nat
      /\ canceller.observed < canceller.generation /\ canceller.at = "raise"
      /\ DOMAIN canceller = {"at", "observed", "generation"}
  BY DEF GenerationInv, Numbers, CancellerKnows, CancelRaises
<1>2. latest_generation' \in Nat /\ latest_generation <= latest_generation'
  BY <1>1, ExchangeRaises DEF CancelRaises
<1>3. canceller' = [canceller EXCEPT !.observed = latest_generation']
  BY DEF CancelRaises
<1>4. CancellerKnows'
  BY <1>1, <1>2, <1>3 DEF CancellerKnows
<1>5. UNCHANGED <<flow_state, overrun, published, flow_request, call>>
  BY DEF CancelRaises, solve_vars
<1> QED
  BY <1>2, <1>4, <1>5, KeepSolve, KeepCall DEF GenerationInv

LEMMA KeepCancelReturns == GenerationInv /\ CancelReturns => GenerationInv'
<1> SUFFICES ASSUME GenerationInv, CancelReturns PROVE GenerationInv'
  OBVIOUS
<1>1. /\ UNCHANGED <<flow_state, overrun, flow_request, latest_generation, call>>
      /\ canceller' = Idle
  BY DEF CancelReturns, solve_vars
<1>2. /\ latest_generation \in Nat /\ published \in Nat /\ published <= latest_generation
      /\ canceller.generation \in Nat /\ canceller.generation <= latest_generation
  BY DEF GenerationInv, Numbers, CancellerKnows, PublishedHolds, CancelReturns
<1>3. published' \in Nat /\ published' <= latest_generation
  BY <1>2 DEF CancelReturns
<1>4. Numbers' /\ PublishedHolds' /\ SolveTyped' /\ StaleStops'
  BY <1>1, <1>3 DEF GenerationInv, Numbers, PublishedHolds, SolveTyped, StaleStops
<1>5. CallKnows' /\ CancellerKnows'
  BY <1>1, <1>2, KeepCall DEF CancellerKnows, Idle
<1> QED
  BY <1>4, <1>5 DEF GenerationInv

LEMMA GenerationStep == GenerationInv /\ [EngineNext]_engine_vars => GenerationInv'
<1> SUFFICES ASSUME GenerationInv, [EngineNext]_engine_vars PROVE GenerationInv'
  OBVIOUS
<1>1. ASSUME OneStep, UNCHANGED solve_vars PROVE GenerationInv'
  BY <1>1, KeepAll DEF OneStep, solve_vars
<1>2. ASSUME NEW token, fe_engine_step(token) PROVE GenerationInv'
  BY <1>1, <1>2 DEF fe_engine_step
<1>3. ASSUME fe_engine_reset PROVE GenerationInv'
  BY <1>1, <1>3 DEF fe_engine_reset
<1>4. ASSUME NEW rows, fe_engine_run(rows) PROVE GenerationInv'
  BY <1>1, <1>4 DEF fe_engine_run
<1>5. ASSUME NEW rows, NEW mask, fe_engine_run_embeddings_masked(rows, mask) PROVE GenerationInv'
  BY <1>1, <1>5 DEF fe_engine_run_embeddings_masked
<1>6. ASSUME fe_engine_export_decode_state PROVE GenerationInv'
  BY <1>1, <1>6 DEF fe_engine_export_decode_state
<1>7. ASSUME NEW field, SnapshotDamage(field) PROVE GenerationInv'
  BY <1>7, KeepAll DEF SnapshotDamage, solve_vars
<1>8. ASSUME fe_engine_import_decode_state PROVE GenerationInv'
  BY <1>1, <1>8 DEF fe_engine_import_decode_state
<1>9. ASSUME NEW input, NEW steps, NEW method, fe_engine_flow_begin(input, steps, method)
      PROVE  GenerationInv'
  BY <1>9, UntrackedTyped, KeepBegin DEF fe_engine_flow_begin
<1>10. ASSUME NEW input, NEW steps, NEW method, fe_engine_sample_condition(input, steps, method)
       PROVE  GenerationInv'
  BY <1>10, UntrackedTyped, KeepBegin DEF fe_engine_sample_condition
<1>11. ASSUME NEW input, NEW steps, NEW method, NEW generation \in 0..MaxGeneration,
              fe_engine_flow_begin_request(input, steps, method, generation)
       PROVE  GenerationInv'
  <2> DEFINE request == [generation |-> generation, steps |-> steps, method |-> method,
                         generation_tracking |-> TRUE]
  <2>1. request.generation \in Nat /\ request.generation_tracking \in BOOLEAN
    BY EngineAssumption
  <2>2. BeginRequest(input, request, "return")
    BY <1>11 DEF fe_engine_flow_begin_request
  <2> HIDE DEF request
  <2> QED
    BY <2>1, <2>2, KeepBegin
<1>12. ASSUME NEW rows, NEW steps, NEW method, fe_engine_sample(rows, steps, method)
       PROVE  GenerationInv'
  <2>1. CASE PrefillCode(rows) = 0
    BY <1>12, <2>1, UntrackedTyped, KeepBegin DEF fe_engine_sample
  <2>2. CASE PrefillCode(rows) # 0
    BY <1>12, <2>2, KeepAll DEF fe_engine_sample, solve_vars
  <2> QED
    BY <2>1, <2>2
<1>13. ASSUME NEW step_budget, fe_engine_flow_advance(step_budget) PROVE GenerationInv'
  <2>1. "at" \in DOMAIN call' /\ call'.at # "raise"
    BY <1>13 DEF fe_engine_flow_advance
  <2> QED
    BY <1>13, <2>1, KeepCallEnds DEF fe_engine_flow_advance, solve_vars
<1>14. ASSUME AdvanceReturns PROVE GenerationInv'
  <2>1. "at" \in DOMAIN call' /\ call'.at # "raise"
    BY <1>14 DEF AdvanceReturns, Idle
  <2> QED
    BY <1>14, <2>1, KeepCallEnds DEF AdvanceReturns, solve_vars
<1>15. ASSUME UNCHANGED engine_vars PROVE GenerationInv'
  BY <1>15, KeepAll DEF engine_vars
<1> QED
  BY <1>2, <1>3, <1>4, <1>5, <1>6, <1>7, <1>8, <1>9, <1>10, <1>11, <1>12, <1>13, <1>14, <1>15,
     KeepRaise, KeepSampler, KeepLook, KeepStep, KeepCancel, KeepCancelRaises, KeepCancelReturns, Zenon
     DEF EngineNext

LEMMA GenerationStart == EngineInit => GenerationInv
BY DEF EngineInit, GenerationInv, Numbers, SolveTyped, StateFields, CallKnows, CancellerKnows,
       PublishedHolds, StaleStops, Idle, NoSolve, NoRequest

\* However the control thread's flow_begin_request and the scheduler thread's
\* fe_engine_cancel_before interleave their compare-exchange loops, a generation
\* that one of them has published is never lowered again; and once a newer one is
\* visible, sampler_advance begins no further step of a tracked solve and cancels
\* no other solve.
THEOREM GenerationSafe == EngineSpec => []GenerationsHold
<1>1. GenerationInv => GenerationsHold
  BY DEF GenerationInv, GenerationsHold
<1> QED
  BY <1>1, GenerationStart, GenerationStep, PTL DEF EngineSpec

-----------------------------------------------------------------------------
\* What the engine holds is its own.

\* Rows that were fed to this model, as many as the stream has room for.
Fed(rows) == rows \in Seq(Tokens \cup {Bad}) /\ Len(rows) <= MaxRows

\* A snapshot nobody has damaged holds rows of a stream.
StreamInv ==
  /\ Fed(stream)
  /\ DOMAIN snapshot = {"rows", "damaged"} /\ snapshot.damaged \in Fields \cup {"empty", "no"}
  /\ snapshot.damaged = "no" => Fed(snapshot.rows)

\* The solve the engine is in is the stored request's, so far.
OwnSolve ==
  /\ flow_state.steps = flow_request.steps /\ flow_state.method = flow_request.method
  /\ flow_state.generation = flow_request.generation
  /\ flow_state.condition_embedding = asked
  /\ flow_state.next_step <= flow_state.steps
  /\ flow_state.x = Solution(asked, flow_request, flow_state.next_step)

SolveNumbers ==
  /\ flow_request.steps \in Nat /\ flow_request.method \in Nat
  /\ flow_state.next_step \in Nat /\ flow_state.active \in BOOLEAN

\* A call inside sampler_advance takes no step past the solve's last.
StepFields == {"at", "end", "first"}

CallBounded ==
  call.at \in {"step", "velocity"} =>
    /\ DOMAIN call = StepFields
    /\ flow_state.active => call.end \in Nat /\ call.end <= flow_state.steps
    /\ call.at = "velocity" => flow_state.active /\ flow_state.next_step < call.end

\* Between storing a request and sampler_begin the state is still the solve's
\* before; at every other time it is the one begun last.
SolveInv ==
  /\ SolveNumbers /\ CallBounded
  /\ call.at # "raise" /\ (flow_state.active \/ flow_state.cancelled) => OwnSolve

OwnInv == GenerationInv /\ StreamInv /\ SolveInv

LEMMA NothingFed == Fed(<<>>)
BY EngineAssumption DEF Fed

\* Every set of naturals that is not empty has a least element.
LEMMA LeastExists ==
  ASSUME NEW S \in SUBSET Nat, S # {}
  PROVE  \E m \in S : \A n \in S : m <= n
<1>1. PICK x \in S : \A y \in S : ~(<<y, x>> \in OpToRel(<, Nat))
  BY NatLessThanWellFounded, WFMin, Zenon
<1>2. ASSUME NEW y \in S PROVE x <= y
  <2>1. ~(<<y, x>> \in OpToRel(<, Nat))
    BY <1>1, Zenon
  <2>2. ~(y < x)
    BY <2>1 DEF OpToRel
  <2> QED
    BY <2>2
<1> QED
  BY <1>2

\* The rows before the first bad one exist, and are rows of the prompt.
LEMMA VisibleFed ==
  ASSUME NEW rows \in Seq(Tokens \cup {Bad}), Len(rows) <= MaxRows
  PROVE  Fed(Visible(rows))
<1> DEFINE Ends == {n \in 0..Len(rows) : n < Len(rows) => rows[n + 1] = Bad}
<1>1. Len(rows) \in Nat /\ Ends \in SUBSET Nat /\ Len(rows) \in Ends
  OBVIOUS
<1>2. PICK n \in Ends : \A m \in Ends : n <= m
  BY <1>1, LeastExists, Zenon
<1> DEFINE good == SubSeq(rows, 1, n)
<1>3. /\ n \in 0..Len(rows) /\ good \in Seq(Tokens \cup {Bad}) /\ Len(good) = n
      /\ \A i \in 1..n : good[i] = rows[i]
  BY <1>1, <1>2
<1>4. ASSUME NEW i \in 1..n, rows[i] = Bad PROVE FALSE
  <2>1. i - 1 \in Ends
    BY <1>3, <1>4
  <2> HIDE DEF Ends
  <2>2. n <= i - 1
    BY <1>2, <2>1
  <2>3. n \in Nat
    BY <1>1, <1>2
  <2> QED
    BY <2>2, <2>3
<1>5. Bad \notin Range(good)
  BY <1>3, <1>4 DEF Range
<1>6. Len(good) < Len(rows) => rows[Len(good) + 1] = Bad
  BY <1>2, <1>3
<1>7. Visible(rows) \in {SubSeq(rows, 1, m) : m \in 0..Len(rows)}
  BY <1>3, <1>5, <1>6, Zenon DEF Visible
<1>8. PICK m \in 0..Len(rows) : Visible(rows) = SubSeq(rows, 1, m)
  BY <1>7
<1>9. SubSeq(rows, 1, m) \in Seq(Tokens \cup {Bad}) /\ Len(SubSeq(rows, 1, m)) = m
  BY <1>8
<1> QED
  BY <1>1, <1>8, <1>9, EngineAssumption DEF Fed

\* A prompt is a sequence of rows.
LEMMA PromptRows == \A rows \in Prompts : rows \in Seq(Tokens \cup {Bad})
<1>1. ASSUME NEW n \in 1..MaxRows, NEW rows \in [1..n -> Tokens \cup {Bad}]
      PROVE  rows \in Seq(Tokens \cup {Bad})
  <2>1. n \in Nat
    BY EngineAssumption
  <2> QED
    BY <2>1
<1>2. [i \in 1..(MaxRows + 1) |-> 1] \in Seq(Tokens \cup {Bad})
  <2>1. MaxRows + 1 \in Nat
    BY EngineAssumption
  <2> QED
    BY <2>1 DEF Tokens
<1> QED
  BY <1>1, <1>2, Zenon DEF Prompts

LEMMA PrefilledFed ==
  ASSUME StreamInv, NEW rows \in Prompts, PrefillCode(rows) \in {0, 3}
  PROVE  Fed(Prefilled(rows))
<1>1. rows \in Seq(Tokens \cup {Bad})
  BY PromptRows
<1>2. Len(rows) \in Nat /\ ~(Len(rows) > MaxRows)
  BY <1>1 DEF PrefillCode
<1>3. Len(rows) <= MaxRows
  BY <1>2, EngineAssumption
<1> QED
  BY <1>1, <1>3, VisibleFed DEF Prefilled, StreamInv

LEMMA StreamNext == OwnInv /\ [EngineNext]_engine_vars => StreamInv'
<1> SUFFICES ASSUME OwnInv, [EngineNext]_engine_vars PROVE StreamInv'
  OBVIOUS
<1>0. StreamInv
  BY DEF OwnInv
<1>1. ASSUME Fed(stream'), UNCHANGED snapshot PROVE StreamInv'
  BY <1>0, <1>1 DEF StreamInv
<1>2. ASSUME UNCHANGED stream_vars PROVE StreamInv'
  BY <1>0, <1>1, <1>2 DEF StreamInv, stream_vars, Fed
<1>3. ASSUME NEW token, fe_engine_step(token) PROVE StreamInv'
  <2>1. Fed(decode_token(stream, token))
    <3>1. CASE token \in Tokens /\ Len(stream) < MaxRows
      <4>1. /\ Append(stream, token) \in Seq(Tokens \cup {Bad})
            /\ Len(Append(stream, token)) = Len(stream) + 1 /\ Len(stream) \in Nat
        BY <1>0, <3>1 DEF StreamInv, Fed
      <4> QED
        BY <3>1, <4>1, EngineAssumption DEF Fed, decode_token
    <3>2. CASE ~(token \in Tokens /\ Len(stream) < MaxRows)
      BY <1>0, <3>2 DEF StreamInv, decode_token
    <3> QED
      BY <3>1, <3>2
  <2> QED
    BY <1>1, <1>3, <2>1 DEF fe_engine_step
<1>4. ASSUME fe_engine_reset PROVE StreamInv'
  <2>1. Fed(<<>>)
    BY EngineAssumption DEF Fed
  <2> QED
    BY <1>1, <1>4, <2>1 DEF fe_engine_reset
<1>5. ASSUME NEW rows \in Prompts, fe_engine_run(rows) PROVE StreamInv'
  BY <1>0, <1>1, <1>5, PrefilledFed DEF fe_engine_run
<1>6. ASSUME NEW rows \in Prompts, NEW mask, fe_engine_run_embeddings_masked(rows, mask)
      PROVE  StreamInv'
  BY <1>1, <1>6, PromptRows DEF fe_engine_run_embeddings_masked, Fed
<1>7. ASSUME fe_engine_export_decode_state PROVE StreamInv'
  BY <1>0, <1>7 DEF fe_engine_export_decode_state, StreamInv, Fed
<1>8. ASSUME NEW field \in Fields, SnapshotDamage(field) PROVE StreamInv'
  BY <1>0, <1>8 DEF SnapshotDamage, StreamInv, Fields, Fed
<1>9. ASSUME fe_engine_import_decode_state PROVE StreamInv'
  <2>1. snapshot.damaged = "no"
    BY <1>0, <1>9 DEF fe_engine_import_decode_state, import_decode_snapshot, StreamInv, Fields
  <2> QED
    BY <1>0, <1>1, <1>9, <2>1 DEF fe_engine_import_decode_state, StreamInv
<1>10. ASSUME NEW input, NEW request, NEW then, BeginRequest(input, request, then),
              UNCHANGED stream
       PROVE  StreamInv'
  BY <1>2, <1>10 DEF BeginRequest, stream_vars
<1>11. ASSUME NEW input, NEW steps, NEW method, NEW generation,
              \/ fe_engine_flow_begin(input, steps, method)
              \/ fe_engine_sample_condition(input, steps, method)
              \/ fe_engine_flow_begin_request(input, steps, method, generation)
       PROVE  StreamInv'
  BY <1>10, <1>11 DEF fe_engine_flow_begin, fe_engine_sample_condition,
                      fe_engine_flow_begin_request
<1>12. ASSUME NEW rows \in Prompts, NEW steps, NEW method, fe_engine_sample(rows, steps, method)
       PROVE  StreamInv'
  <2>1. Fed(stream')
    BY <1>0, <1>12, PrefilledFed DEF fe_engine_sample
  <2>2. UNCHANGED snapshot
    BY <1>12, Zenon DEF fe_engine_sample, BeginRequest
  <2> QED
    BY <1>1, <2>1, <2>2
<1>13. ASSUME \/ RaiseGeneration \/ SamplerBegins \/ LookBeforeStep \/ TakeStep \/ AdvanceReturns
              \/ \E allowance \in {1, 3} : fe_engine_flow_advance(allowance)
              \/ \E generation \in 1..MaxGeneration : fe_engine_cancel_before(generation)
              \/ CancelRaises \/ CancelReturns \/ UNCHANGED engine_vars
       PROVE  StreamInv'
  BY <1>2, <1>13 DEF RaiseGeneration, SamplerBegins, LookBeforeStep, TakeStep, AdvanceReturns,
                     fe_engine_flow_advance, fe_engine_cancel_before, CancelRaises, CancelReturns,
                     engine_vars, stream_vars
<1> QED
  BY <1>3, <1>4, <1>5, <1>6, <1>7, <1>8, <1>9, <1>11, <1>12, <1>13 DEF EngineNext

-----------------------------------------------------------------------------
\* The solve.

\* A sequence is its last element appended to the others.
LEMMA LastAppended ==
  ASSUME NEW S, NEW n \in Nat, NEW f \in [1..(n + 1) -> S]
  PROVE  Append([i \in 1..n |-> f[i]], f[n + 1]) = f
<1> DEFINE old == [i \in 1..n |-> f[i]]
<1>1. old \in [1..n -> S] /\ \A i \in 1..n : old[i] = f[i]
  OBVIOUS
<1> HIDE DEF old
<1>2. old \in Seq(S) /\ Len(old) = n
  BY <1>1
<1>3. f \in Seq(S) /\ Len(f) = n + 1 /\ f[n + 1] \in S
  OBVIOUS
<1>4. /\ Append(old, f[n + 1]) \in Seq(S) /\ Len(Append(old, f[n + 1])) = n + 1
      /\ \A i \in 1..n : Append(old, f[n + 1])[i] = old[i]
      /\ Append(old, f[n + 1])[n + 1] = f[n + 1]
  BY <1>2, <1>3
<1>5. ASSUME NEW i \in 1..(n + 1) PROVE Append(old, f[n + 1])[i] = f[i]
  BY <1>1, <1>4
<1>6. Append(old, f[n + 1]) = f
  BY <1>3, <1>4, <1>5
<1> QED
  BY <1>6 DEF old

\* One more step of a solution is the solution of one more step.
LEMMA SolutionGrows ==
  ASSUME NEW input, NEW method, NEW steps, NEW n \in Nat
  PROVE  Append([i \in 1..n |-> <<input, i - 1, method, steps>>], <<input, n, method, steps>>)
           = [i \in 1..(n + 1) |-> <<input, i - 1, method, steps>>]
<1> DEFINE f == [i \in 1..(n + 1) |-> <<input, i - 1, method, steps>>]
           S == {f[i] : i \in 1..(n + 1)}
<1>1. f \in [1..(n + 1) -> S]
  OBVIOUS
<1>2. [i \in 1..n |-> f[i]] = [i \in 1..n |-> <<input, i - 1, method, steps>>]
  OBVIOUS
<1>3. f[n + 1] = <<input, n, method, steps>>
  OBVIOUS
<1>4. Append([i \in 1..n |-> f[i]], f[n + 1]) = f
  <2> HIDE DEF f
  <2> QED
    BY <1>1, LastAppended
<1> QED
  BY <1>2, <1>3, <1>4

\* The evaluations done and left add up.
LEMMA EvaluationsAdd ==
  ASSUME NEW done \in Nat, NEW steps \in Nat, NEW method \in Nat, done <= steps
  PROVE  done * method + (IF done < steps THEN steps - done ELSE 0) * method = steps * method
<1>1. PICK left \in Nat : steps = done + left
  <2>1. steps - done \in Nat /\ steps = done + (steps - done)
    OBVIOUS
  <2> QED
    BY <2>1
<1>2. (done + left) * method = done * method + left * method
  OBVIOUS
<1>3. (IF done < steps THEN steps - done ELSE 0) = left
  BY <1>1
<1> QED
  BY <1>1, <1>2, <1>3

LEMMA SolveMeans == OwnInv => StateExact
<1> SUFFICES ASSUME OwnInv PROVE StateExact
  OBVIOUS
<1>1. StreamOwned
  <2>1. stream \in Seq(Tokens \cup {Bad}) /\ Len(stream) <= MaxRows
    BY DEF OwnInv, StreamInv, Fed
  <2> QED
    BY <2>1 DEF StreamOwned, Range, Tokens, Bad, Garbage
<1>2. ASSUME call = Idle, flow_action_status # "failed" 
      PROVE  /\ flow_state.steps = flow_request.steps
             /\ flow_state.generation = flow_request.generation
             /\ flow_state.x = Solution(asked, flow_request, flow_state.next_step)
             /\ Len(flow_state.x.steps) * flow_request.method
                  + remaining(flow_state) * flow_state.method
                  = nfe_for(flow_request.steps, flow_request.method)
  <2>1. call.at # "raise" /\ (flow_state.active \/ flow_state.cancelled)
    BY <1>2 DEF Idle, flow_action_status
  <2>2. OwnSolve /\ SolveNumbers
    BY <2>1 DEF OwnInv, SolveInv
  <2>3. Len(flow_state.x.steps) = flow_state.next_step
    <3>1. flow_state.next_step \in Nat
      BY <2>2 DEF SolveNumbers
    <3>2. flow_state.x.steps
            = [i \in 1..flow_state.next_step |->
                 <<asked, i - 1, flow_request.method, flow_request.steps>>]
      BY <2>2 DEF OwnSolve, Solution
    <3> QED
      BY <3>1, <3>2
  <2>4. flow_state.next_step * flow_request.method
          + (IF flow_state.next_step < flow_request.steps
             THEN flow_request.steps - flow_state.next_step ELSE 0) * flow_request.method
          = flow_request.steps * flow_request.method
    BY <2>2, EvaluationsAdd, Zenon DEF OwnSolve, SolveNumbers
  <2> QED
    BY <2>2, <2>3, <2>4 DEF OwnSolve, remaining, nfe_for
<1> QED
  BY <1>1, <1>2 DEF StateExact, SolveExact

\* A step that touches neither the solve nor the control thread.
LEMMA SolveStays ==
  ASSUME SolveInv, UNCHANGED <<flow_state, flow_request, asked, call>> PROVE SolveInv'
BY Zenon DEF SolveInv, SolveNumbers, CallBounded, OwnSolve, Solution

\* A request is stored before the solve it replaces is given up.
LEMMA SolveBegin ==
  ASSUME OwnInv, NEW input, NEW request, NEW then, BeginRequest(input, request, then),
         request.steps \in Nat, request.method \in Nat
  PROVE  SolveInv'
<1>1. call'.at = "raise" /\ flow_request' = request /\ flow_state' = flow_state
  BY DEF BeginRequest
<1> QED
  BY <1>1 DEF OwnInv, SolveInv, SolveNumbers, CallBounded

LEMMA SolveSampler == OwnInv /\ SamplerBegins => SolveInv'
<1> SUFFICES ASSUME OwnInv, SamplerBegins PROVE SolveInv'
  OBVIOUS
<1>1. /\ flow_request' = flow_request /\ asked' = call.input
      /\ flow_state' = sampler_begin(flow_state, call.input, flow_request)
  BY DEF SamplerBegins
<1>2. /\ DOMAIN flow_state = StateFields
      /\ flow_request.steps \in Nat /\ flow_request.method \in Nat
  BY DEF OwnInv, GenerationInv, SolveTyped, SolveInv, SolveNumbers
<1>3. /\ flow_state'.steps = flow_request.steps /\ flow_state'.method = flow_request.method
      /\ flow_state'.generation = flow_request.generation
      /\ flow_state'.condition_embedding = asked' /\ flow_state'.next_step = 0
      /\ flow_state'.active = TRUE
      /\ flow_state'.x = [noise |-> asked', steps |-> <<>>]
  BY <1>1, <1>2 DEF sampler_begin, StateFields
<1>4. flow_state'.x = Solution(asked', flow_request', 0)
  <2>1. [i \in 1..0 |-> <<asked', i - 1, flow_request'.method, flow_request'.steps>>] = <<>>
    OBVIOUS
  <2> QED
    BY <1>3, <2>1 DEF Solution
<1>5. OwnSolve' /\ SolveNumbers'
  <2>1. flow_state'.x = Solution(asked', flow_request', flow_state'.next_step)
    BY <1>3, <1>4
  <2>2. flow_state'.next_step \in Nat /\ flow_state'.next_step <= flow_state'.steps
    BY <1>2, <1>3, ZeroLeast, Zenon
  <2> QED
    BY <1>1, <1>2, <1>3, <2>1, <2>2, Zenon DEF OwnSolve, SolveNumbers
<1>6. CallBounded'
  BY <1>1, <1>2, <1>3 DEF SamplerBegins, CallBounded, Idle, StepFields
<1> QED
  BY <1>5, <1>6 DEF SolveInv

LEMMA SolveAdvance ==
  ASSUME OwnInv, NEW allowance \in {1, 3}, fe_engine_flow_advance(allowance)
  PROVE  SolveInv'
<1>1. /\ UNCHANGED <<flow_state, flow_request, asked>> /\ call = Idle /\ flow_state.active
      /\ call' = [at |-> "step", first |-> TRUE,
                  end |-> flow_state.next_step + Min({allowance, remaining(flow_state)})]
  BY DEF fe_engine_flow_advance, solve_vars
<1>2. OwnSolve /\ SolveNumbers
  BY <1>1 DEF OwnInv, SolveInv, Idle
<1>3. /\ flow_state.steps \in Nat /\ flow_state.next_step \in Nat
      /\ flow_state.next_step <= flow_state.steps
  BY <1>2 DEF OwnSolve, SolveNumbers
<1>4. remaining(flow_state) = flow_state.steps - flow_state.next_step
  BY <1>3 DEF remaining
<1>5. ASSUME NEW r \in Nat PROVE Min({allowance, r}) \in Nat /\ Min({allowance, r}) <= r
  BY <1>5 DEF Min
<1>6. flow_state.steps - flow_state.next_step \in Nat
  BY <1>3
<1>7. call'.end \in Nat /\ call'.end <= flow_state.steps
  <2> DEFINE m == Min({allowance, remaining(flow_state)})
  <2>1. m \in Nat /\ m <= flow_state.steps - flow_state.next_step
    BY <1>4, <1>5, <1>6
  <2>2. call'.end = flow_state.next_step + m
    BY <1>1
  <2> HIDE DEF m
  <2> QED
    BY <1>3, <2>1, <2>2
<1>8. CallBounded'
  <2>1. DOMAIN call' = StepFields /\ call'.at = "step"
    BY <1>1 DEF StepFields
  <2> QED
    BY <1>1, <1>7, <2>1 DEF CallBounded
<1>9. OwnSolve' /\ SolveNumbers'
  BY <1>1, <1>2, Zenon DEF OwnSolve, SolveNumbers, Solution
<1> QED
  BY <1>8, <1>9 DEF SolveInv

LEMMA SolveLook == OwnInv /\ LookBeforeStep => SolveInv'
<1> SUFFICES ASSUME OwnInv, LookBeforeStep PROVE SolveInv'
  OBVIOUS
<1>1. /\ UNCHANGED <<flow_request, asked>> /\ flow_state' = BeforeStep(flow_state, call.first)
      /\ call.at = "step" /\ flow_state.active /\ flow_state.next_step < call.end
      /\ call' = [call EXCEPT !.at = IF flow_state'.active THEN "velocity" ELSE "step"]
  BY DEF LookBeforeStep
<1>2. /\ DOMAIN flow_state = StateFields /\ DOMAIN call = StepFields
      /\ call.end \in Nat /\ call.end <= flow_state.steps
  BY <1>1 DEF OwnInv, GenerationInv, SolveTyped, SolveInv, CallBounded
<1>3. OwnSolve /\ SolveNumbers
  BY <1>1 DEF OwnInv, SolveInv
<1>4. /\ flow_state'.steps = flow_state.steps /\ flow_state'.method = flow_state.method
      /\ flow_state'.generation = flow_state.generation
      /\ flow_state'.condition_embedding = flow_state.condition_embedding
      /\ flow_state'.next_step = flow_state.next_step /\ flow_state'.x = flow_state.x
      /\ flow_state'.active \in BOOLEAN
  <2>1. CASE Stale(flow_state)
    BY <1>1, <1>2, <2>1 DEF BeforeStep, StateFields
  <2>2. CASE ~Stale(flow_state)
    BY <1>1, <1>3, <2>2, Zenon DEF BeforeStep, SolveNumbers
  <2> QED
    BY <2>1, <2>2
<1>5. OwnSolve' /\ SolveNumbers'
  BY <1>1, <1>3, <1>4 DEF OwnSolve, SolveNumbers, Solution
<1>6. /\ DOMAIN call' = StepFields /\ call'.end = call.end
      /\ call'.at = IF flow_state'.active THEN "velocity" ELSE "step"
  BY <1>1, <1>2 DEF StepFields
<1>7. CallBounded'
  BY <1>1, <1>2, <1>4, <1>6 DEF CallBounded
<1> QED
  BY <1>5, <1>7 DEF SolveInv

\* Replacing the steps of a sample keeps its noise.
LEMMA SampleUpdated ==
  ASSUME NEW x, NEW noise, NEW old, NEW new, x = [noise |-> noise, steps |-> old]
  PROVE  [x EXCEPT !.steps = new] = [noise |-> noise, steps |-> new]
OBVIOUS

LEMMA SolveStep == OwnInv /\ TakeStep => SolveInv'
<1> SUFFICES ASSUME OwnInv, TakeStep PROVE SolveInv'
  OBVIOUS
<1>1. /\ UNCHANGED <<flow_request, asked>> /\ flow_state' = SolverStepped(flow_state)
      /\ call.at = "velocity"
      /\ call' = [call EXCEPT !.at = "step", !.first = FALSE]
  BY DEF TakeStep
<1>2. /\ DOMAIN flow_state = StateFields /\ DOMAIN call = StepFields /\ flow_state.active
      /\ call.end \in Nat /\ call.end <= flow_state.steps /\ flow_state.next_step < call.end
  BY <1>1 DEF OwnInv, GenerationInv, SolveTyped, SolveInv, CallBounded
<1>3. OwnSolve /\ SolveNumbers
  BY <1>1, <1>2 DEF OwnInv, SolveInv
<1>4. /\ flow_state'.steps = flow_state.steps /\ flow_state'.method = flow_state.method
      /\ flow_state'.generation = flow_state.generation
      /\ flow_state'.condition_embedding = flow_state.condition_embedding
      /\ flow_state'.next_step = flow_state.next_step + 1
      /\ flow_state'.active = flow_state.active
      /\ flow_state'.x = [flow_state.x EXCEPT !.steps =
            Append(@, <<flow_state.condition_embedding, flow_state.next_step, flow_state.method,
                        flow_state.steps>>)]
  BY <1>1, <1>2, Zenon DEF SolverStepped, StateFields
<1>5. flow_state.next_step \in Nat /\ flow_state.steps \in Nat
  BY <1>3 DEF OwnSolve, SolveNumbers
<1>6. flow_state'.x = Solution(asked', flow_request', flow_state'.next_step)
  <2>1. flow_state.x = [noise |-> asked, steps |-> [i \in 1..flow_state.next_step |->
                          <<asked, i - 1, flow_request.method, flow_request.steps>>]]
    BY <1>3, Zenon DEF OwnSolve, Solution
  <2>2. Append(flow_state.x.steps, <<asked, flow_state.next_step, flow_request.method,
                                     flow_request.steps>>)
          = [i \in 1..(flow_state.next_step + 1) |->
               <<asked, i - 1, flow_request.method, flow_request.steps>>]
    BY <1>5, <2>1, SolutionGrows
  <2> DEFINE row == <<asked, flow_state.next_step, flow_request.method, flow_request.steps>>
  <2>3. flow_state'.x = [noise |-> asked, steps |-> Append(flow_state.x.steps, row)]
    <3>1. flow_state'.x = [flow_state.x EXCEPT !.steps = Append(flow_state.x.steps, row)]
      BY <1>3, <1>4 DEF OwnSolve
    <3> HIDE DEF row
    <3>2. PICK taken : flow_state.x = [noise |-> asked, steps |-> taken]
      BY <2>1, Zenon
    <3> QED
      BY <3>1, <3>2, SampleUpdated
  <2> QED
    BY <1>1, <1>4, <2>2, <2>3, Zenon DEF Solution
<1>7. OwnSolve' /\ SolveNumbers'
  BY <1>1, <1>2, <1>3, <1>4, <1>5, <1>6 DEF OwnSolve, SolveNumbers
<1>8. DOMAIN call' = StepFields /\ call'.end = call.end /\ call'.at = "step"
  BY <1>1, <1>2 DEF StepFields
<1>9. CallBounded'
  BY <1>2, <1>4, <1>8 DEF CallBounded
<1> QED
  BY <1>7, <1>9 DEF SolveInv

LEMMA SolveNext == OwnInv /\ [EngineNext]_engine_vars => SolveInv'
<1> SUFFICES ASSUME OwnInv, [EngineNext]_engine_vars PROVE SolveInv'
  OBVIOUS
<1>0. SolveInv
  BY DEF OwnInv
<1>1. ASSUME UNCHANGED <<solve_vars, call>> PROVE SolveInv'
  BY <1>0, <1>1, SolveStays, Zenon DEF solve_vars
<1>2. CASE \/ \E token \in Tokens \cup {Bad} : fe_engine_step(token)
           \/ fe_engine_reset
           \/ \E rows \in Prompts : fe_engine_run(rows)
           \/ \E rows \in Prompts, mask \in {<<>>, <<1>>, <<1, 0>>, <<0, 1>>, <<0>>} :
                fe_engine_run_embeddings_masked(rows, mask)
           \/ fe_engine_export_decode_state
           \/ \E field \in Fields : SnapshotDamage(field)
           \/ fe_engine_import_decode_state
           \/ \E generation \in 1..MaxGeneration : fe_engine_cancel_before(generation)
           \/ CancelRaises \/ CancelReturns
  BY <1>1, <1>2 DEF fe_engine_step, fe_engine_reset, fe_engine_run,
     fe_engine_run_embeddings_masked, fe_engine_export_decode_state, SnapshotDamage,
     fe_engine_import_decode_state, fe_engine_cancel_before, CancelRaises, CancelReturns, OneStep
<1>3. ASSUME NEW solve \in Solves, NEW input, NEW then,
             BeginRequest(input, Untracked(solve[1], solve[2]), then)
      PROVE  SolveInv'
  <2>1. /\ Untracked(solve[1], solve[2]).steps \in Nat
        /\ Untracked(solve[1], solve[2]).method \in Nat
    BY <1>3, EngineAssumption DEF Untracked
  <2> QED
    BY <1>3, <2>1, SolveBegin
<1>4. ASSUME NEW solve \in Solves, NEW input,
             \/ fe_engine_flow_begin(input, solve[1], solve[2])
             \/ fe_engine_sample_condition(input, solve[1], solve[2])
      PROVE  SolveInv'
  BY <1>3, <1>4 DEF fe_engine_flow_begin, fe_engine_sample_condition
<1>5. ASSUME NEW solve \in Solves, NEW input, NEW generation,
             fe_engine_flow_begin_request(input, solve[1], solve[2], generation)
      PROVE  SolveInv'
  <2> DEFINE request == [generation |-> generation, steps |-> solve[1], method |-> solve[2],
                         generation_tracking |-> TRUE]
  <2>1. request.steps \in Nat /\ request.method \in Nat
    BY EngineAssumption
  <2>2. BeginRequest(input, request, "return")
    BY <1>5 DEF fe_engine_flow_begin_request
  <2> HIDE DEF request
  <2> QED
    BY <2>1, <2>2, SolveBegin
<1>6. ASSUME NEW solve \in Solves, NEW rows, fe_engine_sample(rows, solve[1], solve[2])
      PROVE  SolveInv'
  <2>1. CASE PrefillCode(rows) = 0
    BY <1>3, <1>6, <2>1 DEF fe_engine_sample
  <2>2. CASE PrefillCode(rows) # 0
    BY <1>1, <1>6, <2>2, Zenon DEF fe_engine_sample
  <2> QED
    BY <2>1, <2>2
<1>7. ASSUME RaiseGeneration PROVE SolveInv'
  <2>1. DOMAIN call = {"at", "observed", "input", "then"}
    BY <1>7 DEF OwnInv, GenerationInv, CallKnows, RaiseGeneration
  <2>2. call'.at = "raise" /\ UNCHANGED <<flow_state, flow_request, asked>>
    BY <1>7, <2>1, Zenon DEF RaiseGeneration, solve_vars
  <2> QED
    BY <1>0, <2>2 DEF SolveInv, SolveNumbers, CallBounded
<1>8. ASSUME AdvanceReturns PROVE SolveInv'
  <2>1. call.at = "step" /\ call'.at = "idle" /\ UNCHANGED <<flow_state, flow_request, asked>>
    BY <1>8 DEF AdvanceReturns, Idle, solve_vars
  <2> QED
    BY <1>0, <2>1 DEF SolveInv, SolveNumbers, CallBounded, OwnSolve, Solution
<1>9. ASSUME UNCHANGED engine_vars PROVE SolveInv'
  BY <1>1, <1>9 DEF engine_vars, solve_vars
<1> QED
  BY <1>2, <1>4, <1>5, <1>6, <1>7, <1>8, <1>9, SolveSampler, SolveAdvance, SolveLook, SolveStep, Zenon
     DEF EngineNext

LEMMA OwnStart == EngineInit => OwnInv
<1> SUFFICES ASSUME EngineInit PROVE StreamInv /\ SolveInv
  BY GenerationStart DEF OwnInv
<1>1. StreamInv
  BY NothingFed, Zenon DEF EngineInit, StreamInv
<1>2. SolveInv
  BY Zenon DEF EngineInit, SolveInv, SolveNumbers, CallBounded, NoSolve, NoRequest, Idle
<1> QED
  BY <1>1, <1>2

\* Between calls of the C ABI the solve the engine reports on is the one begun
\* last, with its own noise and its own steps in order, and the evaluations done
\* and left add up to what was requested, for every number of steps and both
\* solvers; and the decode stream holds only rows fed to this model, whatever was
\* done to the snapshot it imports.
THEOREM StateSafe == EngineSpec => []StateExact
<1>1. OwnInv /\ [EngineNext]_engine_vars => OwnInv'
  BY GenerationStep, StreamNext, SolveNext DEF OwnInv
<1> QED
  BY <1>1, OwnStart, SolveMeans, PTL DEF EngineSpec

-----------------------------------------------------------------------------
\* DeadlineFlow: the estimates of the plan selector.

FlowTypes ==
  /\ Len(plans) \in Nat
  /\ \A i \in 1..Len(plans) : plans[i].latency_ns \in Nat
  /\ estimates \in [1..Len(plans) -> Nat]
  /\ worst \in [1..Len(plans) -> Nat]

FlowInv == FlowTypes /\ EstimateInRange

\* One observation keeps an estimate between the floor f of its plan and the
\* larger of that floor and the worst latency w (Updated in observe): an eighth
\* is taken off, but never more than is there.
LEMMA OneUpdate ==
  ASSUME NEW f \in Nat, NEW e \in Nat, NEW w \in Nat, NEW l \in Nat,
         f <= e, e <= Larger(f, w)
  PROVE  LET u == Larger(f, Larger(l, e - e \div 8))
         IN  u \in Nat /\ f <= u /\ u <= Larger(f, Larger(w, l))
<1>1. e \div 8 \in Nat /\ e \div 8 <= e
  OBVIOUS
<1> DEFINE d == e \div 8
<1>2. d \in Nat /\ d <= e
  BY <1>1
<1> HIDE DEF d
<1>3. e - d \in Nat /\ e - d <= e
  BY <1>2
<1>4. LET u == Larger(f, Larger(l, e - d))
      IN  u \in Nat /\ f <= u /\ u <= Larger(f, Larger(w, l))
  BY <1>3 DEF Larger
<1> QED
  BY <1>4 DEF d

LEMMA FlowStep == FlowInv /\ [FlowNext]_flow_vars => FlowInv'
<1> SUFFICES ASSUME FlowInv, [FlowNext]_flow_vars PROVE FlowInv'
  OBVIOUS
<1>1. ASSUME NEW portfolio \in Portfolios, create(portfolio) PROVE FlowInv'
  <2>1. plans' = portfolio /\ Len(portfolio) \in Nat
        /\ \A i \in 1..Len(portfolio) : portfolio[i].latency_ns \in Nat
    BY <1>1, FlowAssumption DEF create
  <2>2. /\ estimates' = [i \in 1..Len(portfolio) |-> portfolio[i].latency_ns]
        /\ worst' = [i \in 1..Len(portfolio) |-> 0]
    BY <1>1 DEF create
  <2>3. FlowTypes'
    BY <2>1, <2>2 DEF FlowTypes
  <2>4. EstimateInRange'
    BY <2>1, <2>2 DEF EstimateInRange, Larger
  <2> QED
    BY <2>3, <2>4 DEF FlowInv
<1>2. ASSUME NEW id, NEW latency_ns \in Latencies, observe(id, latency_ns) PROVE FlowInv'
  <2>1. latency_ns \in Nat
    BY FlowAssumption
  <2>2. PICK i \in 1..Len(plans) :
          /\ estimates' = [estimates EXCEPT ![i] = Updated(i, latency_ns)]
          /\ worst' = [worst EXCEPT ![i] = Larger(@, latency_ns)]
    BY <1>2, Zenon DEF observe
  <2>3. plans' = plans
    BY <1>2 DEF observe
  <2>4. /\ plans[i].latency_ns \in Nat /\ estimates[i] \in Nat /\ worst[i] \in Nat
        /\ plans[i].latency_ns <= estimates[i]
        /\ estimates[i] <= Larger(plans[i].latency_ns, worst[i])
    BY DEF FlowInv, FlowTypes, EstimateInRange
  <2>5. /\ Updated(i, latency_ns) \in Nat
        /\ plans[i].latency_ns <= Updated(i, latency_ns)
        /\ Updated(i, latency_ns)
             <= Larger(plans[i].latency_ns, Larger(worst[i], latency_ns))
    BY <2>1, <2>4, OneUpdate, Zenon DEF Updated
  <2>6. Larger(worst[i], latency_ns) \in Nat
    BY <2>1, <2>4 DEF Larger
  <2>7. FlowTypes'
    BY <2>2, <2>3, <2>5, <2>6, Zenon DEF FlowInv, FlowTypes
  <2>8. ASSUME NEW j \in 1..Len(plans)
        PROVE  /\ plans[j].latency_ns <= estimates'[j]
               /\ estimates'[j] <= Larger(plans[j].latency_ns, worst'[j])
    <3>1. CASE j = i
      <4>1. estimates'[j] = Updated(i, latency_ns) /\ worst'[j] = Larger(worst[i], latency_ns)
        BY <2>2, <3>1, Zenon DEF FlowInv, FlowTypes
      <4> QED
        BY <4>1, <2>5, <3>1
    <3>2. CASE j # i
      <4>1. estimates'[j] = estimates[j] /\ worst'[j] = worst[j]
        BY <2>2, <3>2 DEF FlowInv, FlowTypes
      <4> QED
        BY <4>1 DEF FlowInv, EstimateInRange
    <3> QED
      BY <3>1, <3>2, Zenon
  <2> QED
    BY <2>3, <2>7, <2>8 DEF FlowInv, EstimateInRange
<1>3. CASE UNCHANGED flow_vars
  BY <1>3, Zenon DEF flow_vars, FlowInv, FlowTypes, EstimateInRange
<1> QED
  BY <1>1, <1>2, <1>3 DEF FlowNext

\* Whatever portfolio is created and whatever latencies observe reports, in
\* whatever order, the estimate of a plan lies between its calibrated latency
\* and the worst latency measured of it.
THEOREM EstimateSound == FlowSpec => []EstimateInRange
<1>1. FlowInit => FlowInv
  BY DEF FlowInit, FlowInv, FlowTypes, EstimateInRange
<1>2. FlowInv => EstimateInRange
  BY DEF FlowInv
<1> QED
  BY <1>1, <1>2, FlowStep, PTL DEF FlowSpec

-----------------------------------------------------------------------------
Tokens_ == Seq(TokensAsked)
AdapterState ==
  [engine : Tokens_, tokens : Tokens_, hidden : Tokens_, completed : Nat,
   prepared : BOOLEAN, cancelled : BOOLEAN]
JobRecord ==
  [state : {"kReady", "kRunning", "kComplete", "kCancelled", "kFailed"}, completed : Nat,
   request : Requests, adapter : DOMAIN Adapters]

\* An adapter of the lane whose messages fit.
OfLane(a, l) == /\ a \in DOMAIN Adapters /\ Adapters[a].lane = l
                /\ Adapters[a].max_tokens <= MaxPayload /\ ResultSize <= MaxPayload

JobTypes ==
  /\ registry \in [Lanes -> Seq(DOMAIN Adapters)]
  /\ \A l \in Lanes : \A i \in DOMAIN registry[l] : OfLane(registry[l][i], l)
  /\ adapter \in [DOMAIN Adapters -> AdapterState]
  /\ \A a \in DOMAIN Adapters : Len(adapter[a].hidden) <= MaxPayload
  /\ job \in [Lanes -> {NoJob} \cup JobRecord]

\* A job in a state, with so much done of a request, by an adapter.
Stands(state, done, r, s) ==
  /\ done \in Nat /\ done <= r.descriptor.work
  /\ state \in {"kRunning", "kComplete"} =>
       /\ s.tokens = r.tokens /\ s.completed = done /\ done <= Len(r.tokens)
       /\ s.engine = Prefix(r.tokens, done) /\ (done # 0 => s.hidden = s.engine)
  /\ state = "kRunning" => done < r.descriptor.work /\ done < Len(r.tokens)
  /\ state = "kComplete" => done = r.descriptor.work

JobStands(j, s) ==
  /\ Stands(j.state, j.completed, j.request, s)
  /\ Len(j.request.tokens) <= MaxPayload
  /\ j.state = "kReady" => /\ j.completed = 0 /\ s.tokens = j.request.tokens
                           /\ j.request.tokens # <<>>
  /\ j.state = "kRunning" => s.prepared /\ ~s.cancelled

LanesStand ==
  \A l \in Lanes : job[l].state # "none" =>
    OfLane(job[l].adapter, l) /\ JobStands(job[l], adapter[job[l].adapter])

\* What a capsule's checksum was computed from is a job that stood.
Stood(m, p) ==
  /\ m.state \in {"kRunning", "kComplete", "kCancelled", "kFailed"}
  /\ load_state(Opened, p) \in AdapterState /\ Len(p.hidden) <= MaxPayload
  /\ \E r \in Requests : /\ same_descriptor(r, m)
                         /\ Stands(m.state, m.completed, r, load_state(Opened, p))

CapsuleStood ==
  capsule # NoCapsule =>
    "checksum" \in DOMAIN capsule /\ Stood(capsule.checksum[1], capsule.checksum[2])

JobInv == JobTypes /\ LanesStand /\ CapsuleStood

-----------------------------------------------------------------------------
LEMMA GreatestExists ==
  ASSUME NEW bound \in Nat, NEW S \in SUBSET (0..bound), S # {}
  PROVE  \E m \in S : \A n \in S : n <= m
<1> DEFINE T == {bound - n : n \in S}
<1>1. T \in SUBSET Nat /\ T # {}
  <2>1. ASSUME NEW n \in S PROVE bound - n \in Nat
    OBVIOUS
  <2> QED
    BY <2>1, Zenon
<1>2. PICK t \in T : \A u \in T : t <= u
  BY <1>1, LeastExists, Zenon
<1>3. PICK m \in S : t = bound - m
  BY <1>2, Zenon
<1>4. ASSUME NEW n \in S PROVE n <= m
  <2>1. t <= bound - n
    BY <1>2, Zenon
  <2>2. m \in 0..bound /\ n \in 0..bound
    BY Zenon
  <2> QED
    BY <1>3, <2>1, <2>2, Mirrored, Zenon
<1> QED
  BY <1>4

\* One call steps no more tokens than it may.
LEMMA SteppedBounded ==
  ASSUME NEW s \in AdapterState, NEW quota \in Nat, s.completed <= Len(s.tokens)
  PROVE  /\ Stepped(s, quota) \in 0..Least(quota, Len(s.tokens) - s.completed)
         /\ Least(quota, Len(s.tokens) - s.completed) \in Nat
<1> DEFINE wanted == Least(quota, Len(s.tokens) - s.completed)
           good == {n \in 0..wanted : \A i \in 1..n : s.tokens[s.completed + i] \in Vocabulary}
<1>1. Len(s.tokens) \in Nat /\ s.completed \in Nat
  BY DEF AdapterState, Tokens_
<1>2. wanted \in Nat
  BY <1>1 DEF Least
<1> HIDE DEF wanted
<1>3. good \in SUBSET (0..wanted) /\ 0 \in good
  BY <1>2
<1> HIDE DEF good
<1>4. \E n \in good : \A k \in good : k <= n
  BY <1>2, <1>3, GreatestExists, Zenon
<1>5. (CHOOSE n \in good : \A k \in good : k <= n) \in good
  BY <1>4, Zenon
<1>6. Stepped(s, quota) = CHOOSE n \in good : \A k \in good : k <= n
  BY Zenon DEF Stepped, good, wanted
<1> QED
  BY <1>2, <1>3, <1>5, <1>6, Zenon DEF wanted

LEMMA PrefixGrows ==
  ASSUME NEW T, NEW t \in Seq(T), NEW c \in Nat, NEW n \in Nat, c + n <= Len(t)
  PROVE  /\ Prefix(t, c) \o SubSeq(t, c + 1, c + n) = Prefix(t, c + n)
         /\ Prefix(t, c + n) \in Seq(T) /\ Len(Prefix(t, c + n)) = c + n
<1> DEFINE x == Prefix(t, c)
           y == SubSeq(t, c + 1, c + n)
           z == Prefix(t, c + n)
<1>1. Len(t) \in Nat
  OBVIOUS
<1>2. x \in Seq(T) /\ Len(x) = c /\ \A i \in 1..c : x[i] = t[i]
  BY <1>1 DEF Prefix
<1>3. y \in Seq(T) /\ Len(y) = n /\ \A i \in 1..n : y[i] = t[c + i]
  <2>1. /\ c + 1 \in 1..Len(t) + 1 /\ c + n \in c + 1 - 1..Len(t)
        /\ c + n - (c + 1) + 1 = n
    BY <1>1
  <2>2. /\ y \in Seq(T) /\ Len(y) = n
        /\ \A i \in 1..n : y[i] = t[c + 1 + i - 1]
    BY <2>1, Slice
  <2>3. \A i \in 1..n : c + 1 + i - 1 = c + i
    OBVIOUS
  <2> QED
    BY <2>2, <2>3, Zenon
<1>4. z \in Seq(T) /\ Len(z) = c + n /\ \A i \in 1..c + n : z[i] = t[i]
  BY <1>1 DEF Prefix
<1> HIDE DEF x, y, z
<1>5. /\ x \o y \in Seq(T) /\ Len(x \o y) = Len(x) + Len(y)
      /\ \A i \in 1..Len(x) + Len(y) : (x \o y)[i] = IF i <= Len(x) THEN x[i] ELSE y[i - Len(x)]
  BY <1>2, <1>3, Joined, Zenon
<1>6. ASSUME NEW i \in 1..c + n PROVE (x \o y)[i] = z[i]
  <2>1. (x \o y)[i] = IF i <= c THEN x[i] ELSE y[i - c]
    BY <1>2, <1>3, <1>5
  <2>2. CASE i <= c
    <3>1. i \in 1..c
      BY <2>2
    <3> QED
      BY <2>1, <2>2, <3>1, <1>2, <1>4, Zenon
  <2>3. CASE ~(i <= c)
    <3>1. i - c \in 1..n /\ c + (i - c) = i
      BY <2>3
    <3>2. y[i - c] = t[c + (i - c)]
      BY <3>1, <1>3, Zenon
    <3> QED
      BY <2>1, <2>3, <3>1, <3>2, <1>4, Zenon
  <2> QED
    BY <2>2, <2>3, Zenon
<1>7. x \o y = z
  <2>1. Len(x \o y) = c + n
    BY <1>2, <1>3, <1>5
  <2> QED
    BY <2>1, <1>4, <1>5, <1>6, SeqSame, Zenon
<1> QED
  BY <1>4, <1>7, Zenon DEF x, y, z

-----------------------------------------------------------------------------
LEMMA Prepared ==
  ASSUME NEW s \in AdapterState, NEW tokens
  PROVE  prepare(s, tokens).tokens = tokens /\ prepare(s, tokens).hidden = s.hidden
BY DEF prepare, AdapterState

LEMMA LanesPrimed ==
  ASSUME \A l \in Lanes : job'[l].state # "none" =>
           OfLane(job'[l].adapter, l) /\ JobStands(job'[l], adapter'[job'[l].adapter])
  PROVE  LanesStand'
BY Zenon DEF LanesStand, OfLane, JobStands, Stands

LEMMA LanesStay == ASSUME LanesStand, UNCHANGED <<adapter, job>> PROVE LanesStand'
BY LanesPrimed, Zenon DEF LanesStand

LEMMA CapsuleStays == ASSUME CapsuleStood, UNCHANGED capsule PROVE CapsuleStood'
BY Zenon DEF CapsuleStood, Stood, Stands

LEMMA RequestFacts ==
  ASSUME NEW r \in Requests
  PROVE  /\ r.tokens \in Seq(TokensAsked) /\ Len(r.tokens) \in Nat
         /\ r.descriptor.work \in Nat /\ r.descriptor.work > 0
         /\ valid_job_descriptor(r.descriptor)
BY JobAssumption DEF valid_job_descriptor

\* What is known of the job a lane has.
LEMMA LaneFacts ==
  ASSUME JobInv, NEW l \in Lanes, job[l].state # "none"
  PROVE  /\ job[l] \in JobRecord /\ OfLane(job[l].adapter, l)
         /\ job[l].request \in Requests /\ job[l].adapter \in DOMAIN Adapters
         /\ job[l].completed \in Nat
         /\ adapter[job[l].adapter] \in AdapterState
         /\ Len(adapter[job[l].adapter].hidden) <= MaxPayload
         /\ JobStands(job[l], adapter[job[l].adapter])
<1>1. job[l] \in {NoJob} \cup JobRecord
  BY DEF JobInv, JobTypes
<1>2. job[l] # NoJob
  BY DEF NoJob
<1>3. job[l] \in JobRecord
  BY <1>1, <1>2, Zenon
<1>4. /\ job[l].request \in Requests /\ job[l].adapter \in DOMAIN Adapters
      /\ job[l].completed \in Nat
  BY <1>3 DEF JobRecord
<1> QED
  BY <1>3, <1>4, Zenon DEF JobInv, JobTypes, LanesStand

\* The invariant makes a job exact, able to go on and to be answered.
LEMMA JobMeans == JobInv => JobExact
<1> SUFFICES ASSUME JobInv PROVE JobExact
  OBVIOUS
<1>1. StreamExact
  <2> SUFFICES ASSUME NEW l \in Lanes, job[l].state \in {"kRunning", "kComplete"}
               PROVE  LET j == job[l] s == adapter[j.adapter] IN
                      /\ s.tokens = j.request.tokens /\ s.completed = j.completed
                      /\ s.engine = Prefix(s.tokens, s.completed) /\ result(s) = s.engine
    BY Zenon DEF StreamExact
  <2> DEFINE j == job[l]
             s == adapter[j.adapter]
  <2>1. Stands(j.state, j.completed, j.request, s) /\ j.completed \in Nat
    BY LaneFacts, Zenon DEF JobStands
  <2>2. /\ s.tokens = j.request.tokens /\ s.completed = j.completed
        /\ s.engine = Prefix(j.request.tokens, j.completed)
        /\ j.completed # 0 => s.hidden = s.engine
    BY <2>1, Zenon DEF Stands
  <2>3. Prefix(j.request.tokens, 0) = <<>>
    BY DEF Prefix
  <2>4. result(s) = s.engine
    BY <2>2, <2>3, Zenon DEF result
  <2> QED
    BY <2>2, <2>4, Zenon
<1>2. EndedHasAnswer
  <2> SUFFICES ASSUME NEW l \in Lanes, terminal(job[l].state) PROVE Answer(l)
    BY DEF EndedHasAnswer
  <2> DEFINE j == job[l]
             s == adapter[j.adapter]
             d == j.request.descriptor
  <2>1. j.state \in {"kComplete", "kCancelled", "kFailed"} /\ j.state # "none"
    BY DEF terminal
  <2>2. /\ j.request \in Requests /\ s \in AdapterState /\ Len(s.hidden) <= MaxPayload
        /\ ResultSize <= MaxPayload /\ Stands(j.state, j.completed, j.request, s)
    BY <2>1, LaneFacts, Zenon DEF JobStands, OfLane
  <2>3. Len(result(s)) <= MaxPayload
    BY <2>2, NothingFits, Zenon DEF result
  <2>4. d.work \in Nat /\ valid_job_descriptor(d)
    BY <2>2, RequestFacts
  <2>5. valid_job_progress(d, progress(j))
    BY <2>1, <2>2, <2>4, Zenon DEF valid_job_progress, progress, Stands
  <2>6. result_code(j.state) \in ResultCodes /\ CompatibleResult(result_code(j.state), progress(j).state)
    BY <2>1 DEF result_code, terminal, ResultCodes, CompatibleResult, progress
  <2>7. valid_job_service_class(0)
    BY DEF valid_job_service_class
  <2> QED
    BY <2>2, <2>3, <2>4, <2>5, <2>6, <2>7, Zenon DEF Answer, MakesResult
<1>3. RunningGoesOn
  <2> SUFFICES ASSUME NEW l \in Lanes, job[l].state = "kRunning", NEW b \in Budgets \ {0}
               PROVE  ~AdvanceRefused(adapter[job[l].adapter], b)
    BY ZenonT(40) DEF RunningGoesOn
  <2> DEFINE j == job[l]
             s == adapter[j.adapter]
  <2>1. /\ j.request \in Requests /\ j.completed \in Nat
        /\ Stands(j.state, j.completed, j.request, s) /\ s.prepared /\ ~s.cancelled
    BY LaneFacts, ZenonT(40) DEF JobStands
  <2>2. s.tokens = j.request.tokens /\ s.completed = j.completed /\ j.completed < Len(j.request.tokens)
    BY <2>1, ZenonT(40) DEF Stands
  <2>3. ~(s.completed >= Len(s.tokens))
    <3>1. Len(j.request.tokens) \in Nat
      BY <2>1, RequestFacts, Zenon
    <3> QED
      BY <2>1, <2>2, <3>1, NotReached, Zenon
  <2> QED
    BY <2>1, <2>3, Zenon DEF AdvanceRefused
<1> QED
  BY <1>1, <1>2, <1>3 DEF JobExact

LEMMA JobStarts == JobInit => JobInv
<1> SUFFICES ASSUME JobInit PROVE JobInv
  OBVIOUS
<1>1. \A R : <<>> \in Seq(R)
  OBVIOUS
<1>2. Opened \in AdapterState
  <2>1. <<>> \in Tokens_
    BY <1>1, Zenon DEF Tokens_
  <2> HIDE DEF Tokens_
  <2> QED
    BY <2>1 DEF Opened, AdapterState
<1>3. Len(Opened.hidden) <= MaxPayload
  BY WireAssumption DEF Opened
<1>4. registry \in [Lanes -> Seq(DOMAIN Adapters)]
  BY <1>1, Zenon DEF JobInit
<1>5. \A l \in Lanes : \A i \in DOMAIN registry[l] : OfLane(registry[l][i], l)
  BY DEF JobInit
<1>6. /\ adapter \in [DOMAIN Adapters -> AdapterState]
      /\ \A a \in DOMAIN Adapters : Len(adapter[a].hidden) <= MaxPayload
  BY <1>2, <1>3, Zenon DEF JobInit
<1>7. job \in [Lanes -> {NoJob} \cup JobRecord] /\ \A l \in Lanes : job[l].state = "none"
  BY DEF JobInit, NoJob
<1>8. capsule = NoCapsule
  BY DEF JobInit
<1> QED
  BY <1>4, <1>5, <1>6, <1>7, <1>8, Zenon DEF JobInv, JobTypes, LanesStand, CapsuleStood

-----------------------------------------------------------------------------
\* One lane's job and adapter change; the others have adapters of their own.
LEMMA BecomeKeeps ==
  ASSUME JobInv, NEW l \in Lanes, job[l].state # "none", NEW j \in JobRecord,
         NEW s \in AdapterState, Become(l, j, s), j.adapter = job[l].adapter,
         Len(s.hidden) <= MaxPayload, JobStands(j, s)
  PROVE  JobInv'
<1> DEFINE a == job[l].adapter
<1>1. a \in DOMAIN Adapters /\ OfLane(a, l)
  BY LaneFacts
<1>2. /\ job' = [job EXCEPT ![l] = j] /\ adapter' = [adapter EXCEPT ![a] = s]
      /\ registry' = registry /\ capsule' = capsule
  BY DEF Become
<1> HIDE DEF a
<1>3. JobTypes'
  <2>1. /\ job \in [Lanes -> {NoJob} \cup JobRecord]
        /\ adapter \in [DOMAIN Adapters -> AdapterState]
        /\ \A b \in DOMAIN Adapters : Len(adapter[b].hidden) <= MaxPayload
    BY DEF JobInv, JobTypes
  <2>2. job' \in [Lanes -> {NoJob} \cup JobRecord]
    BY <1>2, <2>1, Zenon
  <2>3. adapter' \in [DOMAIN Adapters -> AdapterState]
    BY <1>1, <1>2, <2>1, Zenon
  <2>4. \A b \in DOMAIN Adapters : Len(adapter'[b].hidden) <= MaxPayload
    BY <1>1, <1>2, <2>1, Zenon
  <2> QED
    BY <1>2, <2>2, <2>3, <2>4, Zenon DEF JobInv, JobTypes
<1>4. LanesStand'
  <2> SUFFICES ASSUME NEW m \in Lanes, job'[m].state # "none"
               PROVE  OfLane(job'[m].adapter, m) /\ JobStands(job'[m], adapter'[job'[m].adapter])
    BY LanesPrimed, Zenon
  <2>1. job \in [Lanes -> {NoJob} \cup JobRecord] /\ adapter \in [DOMAIN Adapters -> AdapterState]
    BY DEF JobInv, JobTypes
  <2>2. CASE m = l
    <3>1. job'[m] = j /\ adapter'[a] = s /\ j.adapter = a
      BY <1>1, <1>2, <2>1, <2>2, Zenon DEF a
    <3> QED
      BY <1>1, <2>2, <3>1, Zenon
  <2>3. CASE m # l
    <3>1. job'[m] = job[m]
      BY <1>2, <2>1, <2>3, Zenon
    <3>2. OfLane(job[m].adapter, m) /\ JobStands(job[m], adapter[job[m].adapter])
      BY <3>1, LaneFacts, Zenon
    <3>3. job[m].adapter \in DOMAIN Adapters /\ job[m].adapter # a
      BY <1>1, <2>3, <3>2, Zenon DEF OfLane
    <3>4. adapter'[job[m].adapter] = adapter[job[m].adapter]
      BY <1>2, <2>1, <3>3, Zenon
    <3> QED
      BY <3>1, <3>2, <3>4, Zenon
  <2> QED
    BY <2>2, <2>3, Zenon
<1>5. CapsuleStood'
  BY <1>2, CapsuleStays DEF JobInv
<1> QED
  BY <1>3, <1>4, <1>5, Zenon DEF JobInv

\* A lane gives its job up.
LEMMA GivesUp ==
  ASSUME JobInv, NEW l \in Lanes, job' = [job EXCEPT ![l] = NoJob],
         UNCHANGED <<registry, adapter>>, CapsuleStood'
  PROVE  JobInv'
<1>1. job \in [Lanes -> {NoJob} \cup JobRecord]
  BY DEF JobInv, JobTypes
<1>2. job' \in [Lanes -> {NoJob} \cup JobRecord]
  BY <1>1, Zenon
<1>3. JobTypes'
  BY <1>2, Zenon DEF JobInv, JobTypes
<1>4. ASSUME NEW m \in Lanes, job'[m].state # "none"
      PROVE  OfLane(job'[m].adapter, m) /\ JobStands(job'[m], adapter'[job'[m].adapter])
  <2>1. NoJob.state = "none"
    BY DEF NoJob
  <2>2. m # l /\ job'[m] = job[m]
    BY <1>1, <1>4, <2>1, Zenon
  <2> QED
    BY <1>4, <2>2, LaneFacts, Zenon
<1>5. LanesStand'
  BY <1>4, LanesPrimed, Zenon
<1> QED
  BY <1>3, <1>5 DEF JobInv

LEMMA KeepStart ==
  ASSUME JobInv, NEW l \in Lanes, start(l)
  PROVE  JobInv'
<1> DEFINE j == job[l]
           s == adapter[j.adapter]
           x == IF CanBegin(s) THEN [j EXCEPT !.state = "kRunning"] ELSE [j EXCEPT !.state = "kFailed"]
           y == IF CanBegin(s) THEN begin(s) ELSE s
<1>1. j.state = "kReady" /\ j.state # "none" /\ Become(l, x, y)
  BY DEF start
<1>2. /\ j \in JobRecord /\ j.request \in Requests /\ s \in AdapterState
      /\ Len(s.hidden) <= MaxPayload /\ JobStands(j, s)
  BY <1>1, LaneFacts
<1>3. /\ j.completed = 0 /\ s.tokens = j.request.tokens /\ j.request.tokens # <<>>
      /\ Len(j.request.tokens) <= MaxPayload
      /\ j.request.tokens \in Seq(TokensAsked) /\ Len(j.request.tokens) \in Nat
      /\ j.request.descriptor.work \in Nat /\ j.request.descriptor.work > 0
  BY <1>1, <1>2, RequestFacts DEF JobStands
<1> HIDE DEF j, s
<1>4. CASE CanBegin(s)
  <2>1. x = [j EXCEPT !.state = "kRunning"] /\ y = begin(s)
    BY <1>4
  <2>2. x \in JobRecord /\ x.adapter = j.adapter /\ x.state = "kRunning" /\ x.completed = 0
        /\ x.request = j.request
    BY <1>2, <1>3, <2>1 DEF JobRecord
  <2>3. /\ y.engine = <<>> /\ y.hidden = <<>> /\ y.completed = 0 /\ y.cancelled = FALSE
        /\ y.tokens = s.tokens /\ y.prepared = s.prepared
    BY <1>2, <2>1, Zenon DEF begin, AdapterState
  <2>4. s.prepared
    BY <1>4 DEF CanBegin
  <2>5. y \in AdapterState
    <3>1. <<>> \in Tokens_
      BY DEF Tokens_
    <3> HIDE DEF Tokens_
    <3> QED
      BY <1>2, <2>1, <3>1, Zenon DEF begin, AdapterState
  <2>6. Prefix(j.request.tokens, 0) = <<>> /\ Len(j.request.tokens) > 0 /\ Len(<<>>) <= MaxPayload
    BY <1>3, NoneTaken, NothingFits, Zenon
  <2>7. Stands("kRunning", 0, j.request, y)
    BY <1>3, <2>3, <2>6 DEF Stands
  <2>8. JobStands(x, y)
    BY <1>3, <2>2, <2>3, <2>4, <2>7, Zenon DEF JobStands
  <2> QED
    BY <1>1, <2>2, <2>3, <2>5, <2>6, <2>8, BecomeKeeps, Zenon DEF j
<1>5. CASE ~CanBegin(s)
  <2>1. x = [j EXCEPT !.state = "kFailed"] /\ y = s
    BY <1>5
  <2>2. x \in JobRecord /\ x.adapter = j.adapter /\ x.state = "kFailed" /\ x.completed = 0
        /\ x.request = j.request
    BY <1>2, <1>3, <2>1 DEF JobRecord
  <2>3. JobStands(x, y)
    BY <1>3, <2>2 DEF JobStands, Stands
  <2> QED
    BY <1>1, <1>2, <2>1, <2>2, <2>3, BecomeKeeps, Zenon DEF j, s
<1> QED
  BY <1>4, <1>5

LEMMA KeepCancelled ==
  ASSUME JobInv, NEW l \in Lanes, job[l].state # "none", Cancelled(l)
  PROVE  JobInv'
<1> DEFINE j == job[l]
           s == adapter[j.adapter]
           x == [j EXCEPT !.state = "kCancelled"]
           y == [s EXCEPT !.cancelled = TRUE]
<1>1. Become(l, x, y)
  BY DEF Cancelled
<1>2. /\ j \in JobRecord /\ j.request \in Requests /\ s \in AdapterState
      /\ Len(s.hidden) <= MaxPayload /\ JobStands(j, s)
  BY LaneFacts, Zenon
<1> HIDE DEF j, s
<1>3. x \in JobRecord /\ x.adapter = j.adapter /\ x.state = "kCancelled"
      /\ x.completed = j.completed /\ x.request = j.request
  BY <1>2 DEF JobRecord
<1>4. y \in AdapterState /\ y.hidden = s.hidden
  BY <1>2, Zenon DEF AdapterState
<1>5. JobStands(x, y)
  BY <1>2, <1>3 DEF JobStands, Stands
<1> QED
  BY <1>1, <1>2, <1>3, <1>4, <1>5, BecomeKeeps, Zenon DEF j

\* What the adapter reports of one call, for a job that runs.
Advances(b, r, done, quota) ==
  /\ b.adapter \in AdapterState /\ Len(b.adapter.hidden) <= MaxPayload
  /\ b.adapter.prepared /\ ~b.adapter.cancelled
  /\ b.completed \in Nat /\ b.completed <= quota
  /\ b.step # "kFailed" =>
       /\ b.completed > 0 /\ done + b.completed <= Len(r.tokens)
       /\ b.step = "kComplete" <=> done + b.completed = Len(r.tokens)
       /\ b.adapter.tokens = r.tokens /\ b.adapter.completed = done + b.completed
       /\ b.adapter.engine = Prefix(r.tokens, done + b.completed)
       /\ b.adapter.hidden = b.adapter.engine

LEMMA BackendAdvances ==
  ASSUME NEW s \in AdapterState, NEW r \in Requests, NEW done, NEW quota \in Nat, quota > 0,
         Stands("kRunning", done, r, s), s.prepared, ~s.cancelled, Len(r.tokens) <= MaxPayload,
         Len(s.hidden) <= MaxPayload
  PROVE  Advances(backend_advance(s, quota), r, done, quota)
<1> DEFINE n == Stepped(s, quota)
           wanted == Least(quota, Len(s.tokens) - s.completed)
           engine == s.engine \o SubSeq(s.tokens, s.completed + 1, s.completed + n)
           after == Step(s, n)
           b == backend_advance(s, quota)
<1>1. /\ r.tokens \in Seq(TokensAsked) /\ Len(r.tokens) \in Nat
  BY RequestFacts
<1>2. /\ done \in Nat /\ done < Len(r.tokens) /\ s.tokens = r.tokens /\ s.completed = done
      /\ s.engine = Prefix(r.tokens, done)
  BY DEF Stands
<1>3. n \in 0..wanted /\ wanted \in Nat
  <2>1. s.completed <= Len(s.tokens)
    BY <1>1, <1>2
  <2> QED
    BY <2>1, SteppedBounded, Zenon
<1>4. wanted <= quota /\ wanted <= Len(r.tokens) - done /\ wanted > 0
  BY <1>1, <1>2 DEF Least
<1> HIDE DEF n, wanted
<1>5. n \in Nat /\ done + n <= Len(r.tokens) /\ n <= quota
  BY <1>1, <1>2, <1>3, <1>4
<1>6. /\ engine = Prefix(r.tokens, done + n) /\ engine \in Seq(TokensAsked)
      /\ Len(engine) = done + n
  <2>1. engine = Prefix(r.tokens, done) \o SubSeq(r.tokens, done + 1, done + n)
    BY <1>2, Zenon
  <2>2. /\ Prefix(r.tokens, done) \o SubSeq(r.tokens, done + 1, done + n)
             = Prefix(r.tokens, done + n)
        /\ Prefix(r.tokens, done + n) \in Seq(TokensAsked) /\ Len(Prefix(r.tokens, done + n)) = done + n
    BY <1>1, <1>2, <1>5, PrefixGrows, Zenon
  <2> HIDE DEF engine
  <2> QED
    BY <2>1, <2>2, Zenon
<1> HIDE DEF engine
<1>7. after = [s EXCEPT !.engine = engine, !.completed = s.completed + n,
                        !.hidden = IF n = 0 THEN s.hidden ELSE engine]
  BY DEF Step, engine
<1> HIDE DEF after
<1>8. /\ after.engine = engine /\ after.completed = done + n /\ after.tokens = r.tokens
      /\ after.hidden = (IF n = 0 THEN s.hidden ELSE engine)
      /\ after.prepared = s.prepared /\ after.cancelled = s.cancelled
  BY <1>2, <1>7, Zenon DEF AdapterState
<1>9. after \in AdapterState
  <2>1. engine \in Tokens_
    BY <1>6 DEF Tokens_
  <2> HIDE DEF Tokens_
  <2>2. s.completed + n \in Nat
    BY <1>2, <1>5
  <2>3. (IF n = 0 THEN s.hidden ELSE engine) \in Tokens_
    BY <2>1, Zenon DEF AdapterState
  <2> QED
    BY <1>7, <2>1, <2>2, <2>3, Zenon DEF AdapterState
<1>10. Len(after.hidden) <= MaxPayload
  BY <1>1, <1>2, <1>5, <1>6, <1>8, WireAssumption
<1>11. ~AdvanceRefused(s, quota)
  <2>1. ~(s.completed >= Len(s.tokens)) /\ quota # 0
    BY <1>1, <1>2
  <2> QED
    BY <2>1, Zenon DEF AdvanceRefused
<1>12. b = IF n < wanted THEN [adapter |-> after, step |-> "kFailed", completed |-> 0]
           ELSE [adapter |-> after, completed |-> n,
                 step |-> IF after.completed = Len(s.tokens) THEN "kComplete" ELSE "kInProgress"]
  BY <1>11, Zenon DEF backend_advance, n, wanted, after
<1> HIDE DEF b
<1>13. CASE n < wanted
  <2>1. b.adapter = after /\ b.completed = 0 /\ b.step = "kFailed"
    BY <1>12, <1>13
  <2>2. 0 \in Nat /\ 0 <= quota
    OBVIOUS
  <2> QED
    BY <1>8, <1>9, <1>10, <2>1, <2>2, Zenon DEF Advances, b
<1>14. CASE ~(n < wanted)
  <2>1. n > 0
    BY <1>3, <1>4, <1>14
  <2>2. /\ b.adapter = after /\ b.completed = n
        /\ b.step = IF done + n = Len(r.tokens) THEN "kComplete" ELSE "kInProgress"
    BY <1>2, <1>8, <1>12, <1>14, Zenon
  <2>3. after.hidden = after.engine
    BY <1>8, <2>1
  <2>4. b.step = "kComplete" <=> done + b.completed = Len(r.tokens)
    BY <2>2
  <2> QED
    BY <1>5, <1>6, <1>8, <1>9, <1>10, <2>1, <2>2, <2>3, <2>4, Zenon DEF Advances, b
<1> QED
  BY <1>13, <1>14, Zenon

LEMMA KeepAdvance ==
  ASSUME JobInv, NEW l \in Lanes, NEW work_budget \in Budgets, NEW g, advance(l, work_budget, g)
  PROVE  JobInv'
<1> DEFINE j == job[l]
           s == adapter[j.adapter]
           work == j.request.descriptor.work
           quota == Least(work - j.completed, work_budget)
           b == backend_advance(s, quota)
           x == Advanced(j, b, quota)
<1>1. j.state = "kRunning" /\ j.state # "none"
  BY ZenonT(40) DEF advance
<1>2. CASE g > j.request.generation
  BY <1>1, <1>2, KeepCancelled, Zenon DEF advance
<1>3. CASE ~(g > j.request.generation)
  <2>1. work_budget > 0 /\ Become(l, x, b.adapter)
    BY <1>3, ZenonT(40) DEF advance
  <2> HIDE DEF b, x
  <2>2. /\ j \in JobRecord /\ j.request \in Requests /\ s \in AdapterState
        /\ Len(s.hidden) <= MaxPayload /\ JobStands(j, s) /\ j.completed \in Nat
    BY <1>1, LaneFacts, ZenonT(40)
  <2>3. /\ Stands("kRunning", j.completed, j.request, s) /\ s.prepared /\ ~s.cancelled
        /\ Len(j.request.tokens) <= MaxPayload
    BY <1>1, <2>2, ZenonT(40) DEF JobStands
  <2>4. work \in Nat /\ j.completed < work /\ work_budget \in Nat
    BY <2>2, <2>3, RequestFacts, JobAssumption, ZenonT(40) DEF Stands
  <2>5. quota \in Nat /\ quota > 0 /\ quota <= work - j.completed
    BY <2>1, <2>2, <2>4, QuantumLeft, Zenon
  <2> HIDE DEF quota
  <2>6. Advances(b, j.request, j.completed, quota)
    BY <2>2, <2>3, <2>5, BackendAdvances, Zenon DEF b
  <2> DEFINE done == j.completed + b.completed
  <2> HIDE DEF j, s
  <2>7. done \in Nat /\ done <= work /\ ~(b.completed > quota)
    BY <2>2, <2>4, <2>5, <2>6 DEF Advances
  <2> HIDE DEF done, work
  <2>8. CASE b.step = "kFailed" \/ b.completed = 0
    <3>1. x = [j EXCEPT !.state = "kFailed"]
      BY <2>8 DEF Advanced, x
    <3>2. x \in JobRecord /\ x.adapter = j.adapter /\ x.state = "kFailed"
          /\ x.completed = j.completed /\ x.request = j.request
      BY <2>2, <3>1, Zenon DEF JobRecord
    <3>3. JobStands(x, b.adapter)
      BY <2>3, <3>2 DEF JobStands, Stands
    <3> QED
      BY <1>1, <2>1, <2>6, <3>2, <3>3, BecomeKeeps, Zenon DEF j, Advances
  <2>9. CASE ~(b.step = "kFailed" \/ b.completed = 0)
    <3> DEFINE state == IF (b.step = "kComplete") # (done = work) THEN "kFailed"
                        ELSE IF done = work THEN "kComplete" ELSE "kRunning"
    <3>1. x = [j EXCEPT !.completed = done, !.state = state]
      BY <2>7, <2>9, Zenon DEF Advanced, x, done, work
    <3>2. state \in {"kRunning", "kComplete", "kFailed"}
      OBVIOUS
    <3>3. x \in JobRecord /\ x.adapter = j.adapter /\ x.state = state
          /\ x.completed = done /\ x.request = j.request
      BY <2>2, <2>7, <3>1, <3>2, Zenon DEF JobRecord
    <3>4. /\ done <= Len(j.request.tokens)
          /\ b.step = "kComplete" <=> done = Len(j.request.tokens)
          /\ b.adapter.tokens = j.request.tokens /\ b.adapter.completed = done
          /\ b.adapter.engine = Prefix(j.request.tokens, done)
          /\ b.adapter.hidden = b.adapter.engine
      BY <2>6, <2>9 DEF done, Advances
    <3>5. ASSUME state = "kRunning" PROVE done < work /\ done < Len(j.request.tokens)
      <4>1. done # work /\ b.step # "kComplete"
        BY <3>5
      <4>2. Len(j.request.tokens) \in Nat /\ done # Len(j.request.tokens)
        BY <2>2, <3>4, <4>1, RequestFacts, Zenon
      <4> QED
        BY <2>4, <2>7, <3>4, <4>1, <4>2, Short, Zenon
    <3>6. state = "kComplete" => done = work
      BY Zenon
    <3> HIDE DEF state
    <3>7. Stands(state, done, j.request, b.adapter)
      BY <2>7, <3>4, <3>5, <3>6, Zenon DEF Stands, work
    <3>8. JobStands(x, b.adapter)
      BY <2>3, <2>6, <3>2, <3>3, <3>7, Zenon DEF JobStands, Advances
    <3> QED
      BY <1>1, <2>1, <2>6, <3>3, <3>8, BecomeKeeps, Zenon DEF j, Advances
  <2> QED
    BY <2>8, <2>9
<1> QED
  BY <1>2, <1>3

\* A capsule tells what stood, whatever happens to it.
LEMMA KeepExport ==
  ASSUME JobInv, NEW l \in Lanes, NEW storage, export_capsule(l, storage)
  PROVE  JobInv'
<1> DEFINE j == job[l]
           s == adapter[j.adapter]
           m == [descriptor |-> j.request.descriptor, generation |-> j.request.generation,
                 route |-> j.request.route, state |-> j.state, completed |-> j.completed]
           p == save_state(j.adapter, s)
           n == state_bytes(s)
<1>1. /\ j.state \notin {"none", "kReady"} /\ capsule' = write_state_capsule(m, p, n)
      /\ job' = [job EXCEPT ![l] = NoJob] /\ UNCHANGED <<registry, adapter>>
  BY Zenon DEF export_capsule
<1>2. /\ j \in JobRecord /\ j.request \in Requests /\ s \in AdapterState
      /\ Len(s.hidden) <= MaxPayload /\ Stands(j.state, j.completed, j.request, s)
  BY <1>1, LaneFacts, Zenon DEF JobStands
<1>3. j.state \in {"kRunning", "kComplete", "kCancelled", "kFailed"}
  BY <1>1, <1>2 DEF JobRecord
<1>4. "checksum" \in DOMAIN capsule' /\ capsule'.checksum[1] = m /\ capsule'.checksum[2] = p
  BY <1>1, ZenonT(40) DEF write_state_capsule
<1>5. /\ m.state = j.state /\ m.completed = j.completed /\ same_descriptor(j.request, m)
  BY DEF same_descriptor
<1> HIDE DEF j, s
<1>6. LET q == load_state(Opened, p) IN
      /\ q.engine = s.engine /\ q.tokens = s.tokens /\ q.hidden = s.hidden
      /\ q.completed = s.completed /\ p.hidden = s.hidden
  BY ZenonT(40) DEF load_state, save_state
<1>7. load_state(Opened, p) \in AdapterState
  <2> HIDE DEF Tokens_
  <2> QED
    BY <1>2, Zenon DEF load_state, save_state, AdapterState
<1> HIDE DEF p, m
<1>8. Stands(j.state, j.completed, j.request, load_state(Opened, p))
  BY <1>2, <1>6, Zenon DEF Stands
<1>9. Stood(m, p)
  BY <1>2, <1>3, <1>5, <1>6, <1>7, <1>8, Zenon DEF Stood
<1>10. CapsuleStood'
  BY <1>4, <1>9, Zenon DEF CapsuleStood, Stood, Stands
<1> QED
  BY <1>1, <1>10, GivesUp, Zenon

LEMMA KeepDamage == ASSUME JobInv, Damage PROVE JobInv'
<1>1. capsule.size # 0 /\ capsule' \in Damaged(capsule) /\ UNCHANGED <<registry, adapter, job>>
  BY DEF Damage
<1>2. capsule # NoCapsule
  BY <1>1 DEF NoCapsule
<1>3. "checksum" \in DOMAIN capsule /\ Stood(capsule.checksum[1], capsule.checksum[2])
  BY <1>2 DEF JobInv, CapsuleStood
<1>4. "checksum" \in DOMAIN capsule' /\ capsule'.checksum = capsule.checksum
  BY <1>1, <1>3 DEF Damaged
<1>5. CapsuleStood'
  BY <1>3, <1>4, Zenon DEF CapsuleStood, Stood, Stands
<1>6. JobTypes' /\ LanesStand'
  BY <1>1, LanesStay, Zenon DEF JobInv, JobTypes
<1> QED
  BY <1>5, <1>6 DEF JobInv

LEMMA KeepRestore ==
  ASSUME JobInv, NEW l \in Lanes, restore_capsule(l)
  PROVE  JobInv'
<1> DEFINE j == job[l]
           m == capsule.meta
           p == capsule.payload
           x == Restored(j, m)
           y == load_state(Opened, p)
<1>1. /\ j.state = "kReady" /\ j.state # "none" /\ capsule.size # 0
      /\ Readable(capsule) /\ same_descriptor(j.request, m)
  BY Zenon DEF restore_capsule
<1>2. Become(l, x, y)
  BY ZenonT(40) DEF restore_capsule, load_state
<1>3. /\ j \in JobRecord /\ j.request \in Requests /\ Len(j.request.tokens) <= MaxPayload
  BY <1>1, LaneFacts, ZenonT(40) DEF JobStands
<1>4. capsule # NoCapsule
  BY <1>1 DEF NoCapsule
<1>5. capsule.checksum[1] = m /\ capsule.checksum[2] = p
  BY <1>1 DEF Readable
<1>6. Stood(m, p)
  BY <1>4, <1>5, Zenon DEF JobInv, CapsuleStood
<1>7. PICK r \in Requests : same_descriptor(r, m) /\ Stands(m.state, m.completed, r, y)
  BY <1>6 DEF Stood
<1>8. r = j.request
  <2>1. same_descriptor(r, j.request)
    BY <1>1, <1>7 DEF same_descriptor
  <2> QED
    BY <1>3, <1>7, <2>1, JobAssumption, Zenon
<1>9. /\ m.state \in {"kRunning", "kComplete", "kCancelled", "kFailed"}
      /\ y \in AdapterState /\ Len(p.hidden) <= MaxPayload /\ m.completed \in Nat
      /\ Stands(m.state, m.completed, j.request, y)
  BY <1>6, <1>7, <1>8, Zenon DEF Stood, Stands
<1>10. y.prepared = TRUE /\ y.cancelled = FALSE /\ y.hidden = p.hidden
  BY DEF load_state
<1> HIDE DEF j, m, p, y
<1>11. /\ x \in JobRecord /\ x.adapter = j.adapter /\ x.state = m.state
       /\ x.completed = m.completed /\ x.request = j.request
  BY <1>3, <1>9, Zenon DEF Restored, JobRecord
<1>12. JobStands(x, y)
  BY <1>3, <1>9, <1>10, <1>11, Zenon DEF JobStands
<1> QED
  BY <1>1, <1>2, <1>9, <1>10, <1>11, <1>12, BecomeKeeps, Zenon DEF j

LEMMA KeepAdd ==
  ASSUME JobInv, NEW a \in DOMAIN Adapters, Add(a)
  PROVE  JobInv'
<1> DEFINE l == Adapters[a].lane
<1>1. /\ l \in Lanes /\ OfLane(a, l)
      /\ registry' = [registry EXCEPT ![l] = Append(registry[l], a)]
      /\ UNCHANGED <<adapter, job, capsule>>
  BY JobAssumption, Zenon DEF Add, OfLane, max_request_bytes
<1>2. /\ registry \in [Lanes -> Seq(DOMAIN Adapters)]
      /\ \A k \in Lanes : \A i \in DOMAIN registry[k] : OfLane(registry[k][i], k)
  BY DEF JobInv, JobTypes
<1> HIDE DEF l
<1>3. /\ Append(registry[l], a) \in Seq(DOMAIN Adapters)
      /\ DOMAIN Append(registry[l], a) = 1..Len(registry[l]) + 1
      /\ DOMAIN registry[l] = 1..Len(registry[l]) /\ Len(registry[l]) \in Nat
      /\ \A i \in 1..Len(registry[l]) : Append(registry[l], a)[i] = registry[l][i]
      /\ Append(registry[l], a)[Len(registry[l]) + 1] = a
  BY <1>1, <1>2, AdapterAppended, Zenon DEF OfLane
<1>4. registry' \in [Lanes -> Seq(DOMAIN Adapters)]
  BY <1>1, <1>2, <1>3, Zenon
<1>5. ASSUME NEW k \in Lanes, NEW i \in DOMAIN registry'[k] PROVE OfLane(registry'[k][i], k)
  <2>1. CASE k = l
    <3>1. registry'[k] = Append(registry[l], a)
      BY <1>1, <1>2, <2>1, Zenon
    <3>2. i \in 1..Len(registry[l]) \/ i = Len(registry[l]) + 1
      <4>1. i \in 1..Len(registry[l]) + 1
        BY <1>3, <3>1, Zenon
      <4> QED
        BY <1>3, <4>1, LastOrEarlier, Zenon
    <3> QED
      BY <1>1, <1>2, <1>3, <2>1, <3>1, <3>2, Zenon
  <2>2. CASE k # l
    BY <1>1, <1>2, <1>5, <2>2, Zenon
  <2> QED
    BY <2>1, <2>2, Zenon
<1>6. JobTypes'
  BY <1>1, <1>4, <1>5, Zenon DEF JobInv, JobTypes, OfLane
<1>7. LanesStand' /\ CapsuleStood'
  BY <1>1, LanesStay, CapsuleStays DEF JobInv
<1> QED
  BY <1>6, <1>7 DEF JobInv

LEMMA KeepBind ==
  ASSUME JobInv, NEW l \in Lanes, NEW r \in Requests, Bind(l, r)
  PROVE  JobInv'
<1>1. PICK a \in Bound(l, r) :
        /\ job' = [job EXCEPT ![l] = [state |-> "kReady", completed |-> 0, request |-> r,
                                      adapter |-> a]]
        /\ adapter' = [adapter EXCEPT ![a] = prepare(adapter[a], r.tokens)]
  BY Zenon DEF Bind
<1>2. UNCHANGED <<registry, capsule>> /\ job[l].state = "none"
  BY DEF Bind
<1> DEFINE j == [state |-> "kReady", completed |-> 0, request |-> r, adapter |-> a]
           s == prepare(adapter[a], r.tokens)
<1>3. OfLane(a, l) /\ a \in DOMAIN Adapters
  <2>1. PICK i \in DOMAIN registry[l] : a = registry[l][i]
    BY <1>1, Zenon DEF Bound, find
  <2>2. OfLane(registry[l][i], l)
    BY <2>1, Zenon DEF JobInv, JobTypes
  <2> QED
    BY <2>1, <2>2, Zenon DEF OfLane
<1>4. r.tokens # <<>> /\ Len(r.tokens) <= Adapters[a].max_tokens
  BY <1>1 DEF Bound, CanPrepare, max_request_bytes
<1>5. /\ adapter \in [DOMAIN Adapters -> AdapterState] /\ adapter[a] \in AdapterState
      /\ job \in [Lanes -> {NoJob} \cup JobRecord]
      /\ \A b \in DOMAIN Adapters : Len(adapter[b].hidden) <= MaxPayload
  BY <1>3, Zenon DEF JobInv, JobTypes
<1>6. /\ r.tokens \in Seq(TokensAsked) /\ Len(r.tokens) \in Nat
      /\ r.descriptor.work \in Nat /\ r.descriptor.work > 0
  BY RequestFacts
<1>7. Len(r.tokens) <= MaxPayload
  <2>1. Adapters[a].max_tokens \in Nat /\ MaxPayload \in Nat
        /\ Adapters[a].max_tokens <= MaxPayload
    BY <1>3, JobAssumption, WireAssumption, Zenon DEF OfLane
  <2> QED
    BY <1>4, <1>6, <2>1, AtMost, Zenon
<1>8. /\ j \in JobRecord /\ j.state = "kReady" /\ j.completed = 0 /\ j.request = r
      /\ j.adapter = a
  BY <1>3 DEF JobRecord
<1>9. s \in AdapterState
  <2>1. r.tokens \in Tokens_
    BY <1>6 DEF Tokens_
  <2> HIDE DEF Tokens_
  <2> QED
    BY <1>5, <2>1, Zenon DEF prepare, AdapterState
<1>10. s.tokens = r.tokens /\ s.hidden = adapter[a].hidden
  BY <1>5, Prepared, Zenon
<1> HIDE DEF j, s
<1>11. JobStands(j, s)
  <2>1. 0 \in Nat /\ 0 <= r.descriptor.work
    BY <1>6
  <2> QED
    BY <1>4, <1>6, <1>7, <1>8, <1>10, <2>1, Zenon DEF JobStands, Stands
<1>12. job' = [job EXCEPT ![l] = j] /\ adapter' = [adapter EXCEPT ![a] = s]
  BY <1>1 DEF j, s
<1>13. JobTypes'
  <2>1. job' \in [Lanes -> {NoJob} \cup JobRecord] /\ adapter' \in [DOMAIN Adapters -> AdapterState]
    BY <1>3, <1>5, <1>8, <1>9, <1>12, Zenon
  <2>2. \A b \in DOMAIN Adapters : Len(adapter'[b].hidden) <= MaxPayload
    BY <1>3, <1>5, <1>10, <1>12, Zenon
  <2> QED
    BY <1>2, <2>1, <2>2, Zenon DEF JobInv, JobTypes, OfLane
<1>14. ASSUME NEW m \in Lanes, job'[m].state # "none"
       PROVE  OfLane(job'[m].adapter, m) /\ JobStands(job'[m], adapter'[job'[m].adapter])
  <2>1. CASE m = l
    BY <1>3, <1>5, <1>8, <1>11, <1>12, <2>1, Zenon
  <2>2. CASE m # l
    <3>1. job'[m] = job[m]
      BY <1>5, <1>12, <2>2, Zenon
    <3>2. OfLane(job[m].adapter, m) /\ JobStands(job[m], adapter[job[m].adapter])
      BY <1>14, <3>1, LaneFacts, Zenon
    <3>3. job[m].adapter \in DOMAIN Adapters /\ job[m].adapter # a
      BY <1>3, <2>2, <3>2, Zenon DEF OfLane
    <3>4. adapter'[job[m].adapter] = adapter[job[m].adapter]
      BY <1>5, <1>12, <3>3, Zenon
    <3> QED
      BY <3>1, <3>2, <3>4, Zenon
  <2> QED
    BY <2>1, <2>2, Zenon
<1>15. LanesStand'
  BY <1>14, LanesPrimed, Zenon
<1>16. CapsuleStood'
  BY <1>2, CapsuleStays DEF JobInv
<1> QED
  BY <1>13, <1>15, <1>16 DEF JobInv

LEMMA KeepJobs ==
  ASSUME JobInv, UNCHANGED <<registry, adapter, job, capsule>>
  PROVE  JobInv'
<1>1. JobTypes'
  BY Zenon DEF JobInv, JobTypes
<1>2. LanesStand' /\ CapsuleStood'
  BY LanesStay, CapsuleStays DEF JobInv
<1> QED
  BY <1>1, <1>2 DEF JobInv

LEMMA JobStep == JobInv /\ [JobNext]_jobVars => JobInv'
<1> SUFFICES ASSUME JobInv, [JobNext]_jobVars PROVE JobInv'
  OBVIOUS
<1>1. CASE UNCHANGED jobVars
  BY <1>1, KeepJobs DEF jobVars
<1>2. ASSUME NEW a \in DOMAIN Adapters, Add(a) PROVE JobInv'
  BY <1>2, KeepAdd
<1>3. CASE Damage
  BY <1>3, KeepDamage
<1>4. ASSUME NEW l \in Lanes, Freeze(l) PROVE JobInv'
  BY <1>4, KeepJobs DEF Freeze
<1>5. ASSUME NEW l \in Lanes, NEW r \in Requests, Bind(l, r) PROVE JobInv'
  BY <1>5, KeepBind
<1>6. ASSUME NEW l \in Lanes, start(l) PROVE JobInv'
  BY <1>6, KeepStart
<1>7. ASSUME NEW l \in Lanes, NEW b \in Budgets, NEW g \in Generations, advance(l, b, g)
      PROVE  JobInv'
  BY <1>7, KeepAdvance
<1>8. ASSUME NEW l \in Lanes, NEW g \in Generations, cancel_before(l, g) PROVE JobInv'
  <2>1. job[l].state # "none" /\ Cancelled(l)
    BY <1>8 DEF cancel_before
  <2> QED
    BY <2>1, KeepCancelled
<1>9. ASSUME NEW l \in Lanes, NEW storage, export_capsule(l, storage) PROVE JobInv'
  BY <1>9, KeepExport
<1>10. ASSUME NEW l \in Lanes, restore_capsule(l) PROVE JobInv'
  BY <1>10, KeepRestore
<1>11. ASSUME NEW l \in Lanes, write_result(l) PROVE JobInv'
  <2>1. CapsuleStood'
    BY <1>11, CapsuleStays DEF write_result, JobInv
  <2> QED
    BY <1>11, <2>1, GivesUp, Zenon DEF write_result
<1> QED
  BY <1>1, <1>2, <1>3, <1>4, <1>5, <1>6, <1>7, <1>8, <1>9, <1>10, <1>11 DEF JobNext

\* A cooperative job's stream is exact through every split, move, damaged capsule and
\* earlier job of its adapter; it goes on while it runs and has an answer when it ends.
THEOREM JobIsExact == JobSpec => []JobExact
<1> QED
  BY JobStarts, JobStep, JobMeans, PTL DEF JobSpec
=============================================================================
