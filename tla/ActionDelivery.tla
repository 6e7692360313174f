--------------------------- MODULE ActionDelivery ---------------------------
(***************************************************************************)
(* ActionDeliveryGate: the controller's side of the relay.  It turns a     *)
(* complete action into a chunk of control steps, replaces the chunk it    *)
(* plays by a newer one with a blended prefix, and publishes the step that *)
(* is due, inside the limits.  The caller gives the time of every call, in *)
(* any order.  Values are integers in units that divide the blends exactly.*)
(***************************************************************************)
EXTENDS Integers, Sequences

CONSTANTS ControlDim, StepCount,        \* the shape: model.action_dim / control_dim steps
          OverlapSteps, StepPeriod, MaxSourceAge,   \* ActionDeliveryConfig
          Lower, Upper, MaxDelta,       \* the limits of each component
          TimeMax,                      \* the largest std::uint64_t
          Times, Starts,                \* the times of the calls and of the chunks' starts
          Actions, Chunks               \* the actions and ready-made chunks offered

Components == 1..ControlDim

ASSUME GateAssumption ==                \* what create checks
  /\ ControlDim \in Nat \ {0} /\ StepPeriod \in Nat \ {0} /\ StepCount \in Nat \ {0}
  /\ OverlapSteps \in 0..StepCount /\ MaxSourceAge \in Nat
  /\ \A c \in Components :
       Lower[c] \in Int /\ Upper[c] \in Int /\ MaxDelta[c] \in Nat /\ Lower[c] <= Upper[c]

Vectors == Seq([Components -> Int])
ActionRecord ==
  [valid : BOOLEAN, complete : BOOLEAN, finite : BOOLEAN, dim : Nat, digest : Nat, gen : Nat,
   seq : Nat, session : Nat, source : Nat, deadline : Nat, values : Vectors]
ChunkRecord ==
  [steps : Nat, digest : Nat, seq : Nat, session : Nat, gen : Nat, source : Nat, deadline : Nat,
   produced : Nat, from : Nat, until : Nat, finite : BOOLEAN, values : Vectors]

ASSUME OfferAssumption ==
  /\ TimeMax \in Nat /\ Times \subseteq Nat /\ Starts \subseteq Nat
  /\ Actions \subseteq ActionRecord /\ Chunks \subseteq ChunkRecord

VARIABLES clamps,           \* config_.unsafe_policy is kClamp
          chunk,            \* active_chunk_ with active_values_
          active,           \* active_
          next_step, overlap,           \* next_step_; the overlap_values_ kept
          session,          \* session_id_ if session_bound_, else Unbound
          newest,           \* newest_generation_ and newest_sequence_
          output, last_publish, has_last_output,
          played            \* history: generation, sequence, step last published in this session

gateVars == <<clamps, chunk, active, next_step, overlap, session, newest, output, last_publish,
              has_last_output, played>>

NoChunk == [seq |-> 0]
Unbound == -1
Zero == [c \in Components |-> 0]

GateInit ==
  /\ clamps \in BOOLEAN /\ chunk = NoChunk /\ active = FALSE /\ next_step = 0 /\ overlap = <<>>
  /\ session = Unbound /\ newest = [gen |-> 0, seq |-> 0]
  /\ output = Zero /\ last_publish = 0 /\ has_last_output = FALSE
  /\ played = <<0, 0, 0>>

-----------------------------------------------------------------------------
\* make_action_chunk: why an action is no chunk, or "none".
ChunkError(a, now, from) ==
  LET start == IF from = 0 THEN now ELSE from
  IN  CASE ~a.valid -> "kInvalid"
        [] ~a.complete -> "kInvalid"
        [] a.dim % ControlDim # 0 -> "kInvalid"
        [] a.source # 0 /\ now < a.source -> "kInvalid"
        [] a.deadline # 0 /\ a.deadline < a.source -> "kInvalid"
        [] a.deadline # 0 /\ now > a.deadline -> "kExpired"
        [] a.dim \div ControlDim > (TimeMax - start) \div StepPeriod -> "kInvalid"
        [] start + (a.dim \div ControlDim) * StepPeriod <= now -> "kExpired"
        [] ~a.finite -> "kUnsafe"
        [] OTHER -> "none"

make_action_chunk(a, now, from) ==
  LET start == IF from = 0 THEN now ELSE from
  IN  [steps |-> a.dim \div ControlDim, digest |-> a.digest, seq |-> a.seq,
       session |-> a.session, gen |-> a.gen, source |-> a.source, deadline |-> a.deadline,
       produced |-> now, from |-> start, finite |-> TRUE, values |-> a.values,
       until |-> start + (a.dim \div ControlDim) * StepPeriod]

TooOld(c, now) == MaxSourceAge # 0 /\ c.source # 0 /\ now - c.source > MaxSourceAge

\* within_absolute_limits.
WithinLimits(values) ==
  \A s \in 1..Len(values) : \A c \in Components : values[s][c] \in Lower[c]..Upper[c]

IsStale(c) == session # Unbound /\ (c.gen <= newest.gen \/ c.seq <= newest.seq)

\* accept_impl: the checks in their order.  The model's digest is 1.
Verdict(c, now) ==
  CASE c.steps # StepCount \/ c.steps > (TimeMax - c.from) \div StepPeriod
       \/ Len(c.values) # c.steps \/ c.digest # 1 \/ c.produced > now
       \/ (c.source # 0 /\ c.produced < c.source) \/ c.until # c.from + c.steps * StepPeriod
       \/ (MaxSourceAge # 0 /\ c.source = 0) -> "kInvalid"
    [] ~c.finite -> "kUnsafe"
    [] (c.source # 0 /\ now < c.source) \/ (c.deadline # 0 /\ c.deadline < c.source) -> "kInvalid"
    [] now >= c.until \/ TooOld(c, now) \/ (c.deadline # 0 /\ now > c.deadline) -> "kExpired"
    [] ~clamps /\ ~WithinLimits(c.values) -> "kUnsafe"
    [] session # Unbound /\ c.session # session -> "kSessionMismatch"
    [] IsStale(c) -> "kStale"
    [] OTHER -> "kAccepted"

\* Mutation: the overlap starts at the timed step although it was published.
OldStepTimed(timed) == timed

\* The first step of the old chunk that may still be blended.
OldStep(timed) == IF next_step > timed THEN next_step ELSE timed

\* capture_overlap: the steps of the old chunk that the new one is blended with.
capture_overlap(c) ==
  IF ~active \/ OverlapSteps = 0 \/ c.from < chunk.from THEN <<>>
  ELSE LET old == OldStep((c.from - chunk.from) \div StepPeriod)
           left == chunk.steps - old
           count == IF left < OverlapSteps THEN left ELSE OverlapSteps
       IN  IF old >= chunk.steps THEN <<>>
           ELSE [s \in 1..count |-> [value |-> chunk.values[old + s], old |-> old + s - 1]]

accept_impl(c, now) ==
  /\ Verdict(c, now) = "kAccepted"
  /\ overlap' = capture_overlap(c)
  /\ chunk' = c /\ active' = TRUE /\ next_step' = 0
  /\ session' = c.session /\ newest' = [gen |-> c.gen, seq |-> c.seq]
  /\ UNCHANGED <<output, last_publish, has_last_output, played>>

\* accept(ActionMessage) and accept(ActionChunkView); a refusal changes only counters.
AcceptAction(a, now, from) ==
  ChunkError(a, now, from) = "none" /\ accept_impl(make_action_chunk(a, now, from), now)

AcceptChunk(c, now) == accept_impl(c, now)

-----------------------------------------------------------------------------

\* The control steps since the last output, at least one.
ElapsedSteps(now) ==
  IF has_last_output /\ (now - last_publish) \div StepPeriod > 1
  THEN (now - last_publish) \div StepPeriod ELSE 1

Clamp(v, lo, hi) == IF v < lo THEN lo ELSE IF v > hi THEN hi ELSE v

\* The candidate of a step: the fresh value, or its std::lerp with the overlap's.
Candidate(step) ==
  LET fresh == chunk.values[step + 1]
      old == overlap[step + 1].value
  IN  IF step >= Len(overlap) THEN fresh
      ELSE [c \in Components |-> old[c] + ((fresh[c] - old[c]) * (step + 1)) \div (Len(overlap) + 1)]

Unsafe(v, now) ==
  \E c \in Components :
    \/ v[c] \notin Lower[c]..Upper[c]
    \/ has_last_output /\ v[c] - output[c] \notin -(MaxDelta[c] * ElapsedSteps(now))..(MaxDelta[c] * ElapsedSteps(now))

\* Clamped to the limits, then around the last output, then to the limits again.
Safe(v, now) ==
  [c \in Components |->
     LET absolute == Clamp(v[c], Lower[c], Upper[c])
         reach == MaxDelta[c] * ElapsedSteps(now)
     IN  IF ~has_last_output THEN absolute
         ELSE Clamp(Clamp(absolute, output[c] - reach, output[c] + reach), Lower[c], Upper[c])]

StepDue(now) == (now - chunk.from) \div StepPeriod

\* next: why the gate gives no step now, or "none".
StepError(now) ==
  CASE ~active -> "kEmpty"
    [] has_last_output /\ now < last_publish -> "kInvalidTime"
    [] now < chunk.from -> "kNotReady"
    [] chunk.source # 0 /\ now < chunk.source -> "kInvalidTime"
    [] now >= chunk.until \/ TooOld(chunk, now) \/ StepDue(now) >= chunk.steps -> "kExpired"
    [] StepDue(now) < next_step -> "kNotReady"
    [] ~clamps /\ Unsafe(Candidate(StepDue(now)), now) -> "kUnsafe"
    [] OTHER -> "none"

next(now) ==
  /\ StepError(now) = "none"
  /\ output' = Safe(Candidate(StepDue(now)), now)
  /\ next_step' = StepDue(now) + 1 /\ last_publish' = now /\ has_last_output' = TRUE
  /\ active' = (next_step' # chunk.steps)
  /\ played' = <<chunk.gen, chunk.seq, next_step'>>
  /\ UNCHANGED <<chunk, overlap, session, newest>>

\* An expired chunk and an unsafe step deactivate; the other errors change nothing.
NextDeactivates(now) ==
  /\ StepError(now) \in {"kExpired", "kUnsafe"}
  /\ active' = FALSE
  /\ UNCHANGED <<chunk, next_step, overlap, session, newest, output, last_publish,
                 has_last_output, played>>

reset ==
  /\ active' = FALSE /\ session' = Unbound /\ has_last_output' = FALSE /\ next_step' = 0
  /\ overlap' = <<>> /\ newest' = [gen |-> 0, seq |-> 0] /\ last_publish' = 0
  /\ played' = <<0, 0, 0>>
  /\ UNCHANGED <<chunk, output>>

GateNext ==
  /\ \/ \E a \in Actions, now \in Times, from \in Starts : AcceptAction(a, now, from)
     \/ \E c \in Chunks, now \in Times : AcceptChunk(c, now)
     \/ \E now \in Times : next(now) \/ NextDeactivates(now)
     \/ reset
  /\ UNCHANGED clamps

-----------------------------------------------------------------------------
Publishes == next_step' > next_step

\* What next publishes lies inside the absolute limits and within the allowed change
\* per control step of the last published output, even across a replacement, a
\* blend, a skipped tick or a rejected chunk: the last output outlives its chunk.
OutputSafe ==
  [][Publishes =>
       \A c \in Components :
         /\ output'[c] \in Lower[c]..Upper[c]
         /\ has_last_output =>
              LET late == (last_publish' - last_publish) \div StepPeriod
                  reach == MaxDelta[c] * (IF late > 1 THEN late ELSE 1)
              IN  output'[c] - output[c] \in -reach..reach]_gateVars

\* A step is published only in its own control period, never after the chunk's
\* validity or past the age its observation may have, and never before the last
\* publication: a missed tick skips the obsolete steps.
StepInItsPeriod ==
  [][Publishes =>
       /\ last_publish' >= chunk.from + (next_step' - 1) * StepPeriod
       /\ last_publish' < chunk.from + next_step' * StepPeriod
       /\ last_publish' < chunk.until /\ ~TooOld(chunk, last_publish')
       /\ has_last_output => last_publish' >= last_publish]_gateVars

\* Within a session the controller never goes back: each published step is the first, or
\* later in its chunk, or comes from a chunk of a later generation and sequence.
NeverBackwards ==
  [][Publishes =>
       \/ played[3] = 0
       \/ played'[1] > played[1] /\ played'[2] > played[2]
       \/ played'[1] = played[1] /\ played'[2] = played[2] /\ played'[3] > played[3]]_gateVars

\* A replacement is blended with steps of the old chunk that were not published yet
\* and that were due no earlier than the new steps they are blended with.
BlendUnplayed ==
  [][overlap' # overlap /\ overlap' # <<>> =>
       \A s \in 1..Len(overlap') :
         /\ overlap'[s].old >= next_step
         /\ chunk.from + (overlap'[s].old + 1) * StepPeriod > chunk'.from + (s - 1) * StepPeriod]_gateVars

\* The gate as a whole: every output is safe, in its period, never older than one
\* before it, and blended only with what was still to come.
GateSafe == OutputSafe /\ StepInItsPeriod /\ NeverBackwards /\ BlendUnplayed
=============================================================================
