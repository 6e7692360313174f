--------------------------- MODULE CooperativeJob ---------------------------
(***************************************************************************)
(* A generic job on a lane: the registry routes a request to an adapter,   *)
(* the cooperative job drives the adapter in bounded steps, stops it on a  *)
(* newer generation, writes its state into a capsule and takes it up from  *)
(* one on another lane.  The adapter is the Mamba stream adapter: its      *)
(* engine's recurrent state, and the hidden vector it returns, are the     *)
(* sequence of tokens stepped since the engine was reset.  Sizes are in    *)
(* tokens; a checksum is the content it was computed from.                 *)
(***************************************************************************)
EXTENDS WireMessages, Sequences

CONSTANTS Lanes,
          Adapters,         \* adapter -> its lane, its model and its max_tokens
          RegistrySize,     \* the entries of a lane's registry
          Requests,         \* the requests: a descriptor, a route and the tokens
          Vocabulary,       \* the tokens the engine steps
          Budgets, Generations,
          StateHeader, ResultSize, SnapshotSize,    \* of the adapter's state
          CapsuleOverhead,  \* kStateCapsuleHeaderBytes + kStateCapsuleChecksumBytes
          MaxBinds, MaxDamages          \* bounds: jobs bound, capsules damaged

\* Requests come from validated messages; a descriptor, a generation and a route
\* name one request.
TokensAsked == UNION {{r.tokens[i] : i \in DOMAIN r.tokens} : r \in Requests}

same_descriptor(r, m) ==
  r.descriptor = m.descriptor /\ r.generation = m.generation /\ r.route = m.route

ASSUME JobAssumption ==
  /\ Budgets \subseteq Nat /\ ResultSize \in Nat
  /\ \A a \in DOMAIN Adapters : Adapters[a].lane \in Lanes /\ Adapters[a].max_tokens \in Nat
  /\ \A r \in Requests : /\ r.tokens \in Seq(TokensAsked) /\ r.descriptor.work \in Nat
                         /\ valid_job_descriptor(r.descriptor)
  /\ \A r, q \in Requests : same_descriptor(r, q) => r = q

VARIABLES registry, frozen, \* the lane's JobAdapterRegistry
          adapter,          \* the MambaStreamAdapter of each registration
          job,              \* the lane's RoutedJob
          capsule,          \* the last capsule exported
          binds, damages    \* how many there were

jobVars == <<registry, frozen, adapter, job, capsule, binds, damages>>

Prefix(s, n) == SubSeq(s, 1, n)
NoJob == [state |-> "none"]
NoCapsule == [size |-> 0]

-----------------------------------------------------------------------------
(* The stream adapter (mamba_stream_adapter.cc).                           *)

max_request_bytes(a) == Adapters[a].max_tokens

max_state_bytes(a) == StateHeader + max_request_bytes(a) + ResultSize + SnapshotSize

Opened == [engine |-> <<>>, tokens |-> <<>>, hidden |-> <<>>, completed |-> 0,
           prepared |-> FALSE, cancelled |-> FALSE]

CanPrepare(a, tokens) == tokens # <<>> /\ Len(tokens) <= max_request_bytes(a)

prepare(s, tokens) ==
  [s EXCEPT !.tokens = tokens, !.completed = 0, !.prepared = TRUE, !.cancelled = FALSE]

CanBegin(s) == s.prepared /\ s.tokens # <<>>

\* Mutation: the engine keeps the state of the stream it ran before.
BeginWithoutReset(s) == [s EXCEPT !.hidden = <<>>, !.completed = 0, !.cancelled = FALSE]

begin(s) ==
  [s EXCEPT !.engine = <<>>, !.hidden = <<>>, !.completed = 0, !.cancelled = FALSE]

\* The steps of one call: up to the budget, or to the first token that
\* fe_engine_step refuses.
Stepped(s, budget) ==
  LET wanted == Least(budget, Len(s.tokens) - s.completed)
      good == {n \in 0..wanted : \A i \in 1..n : s.tokens[s.completed + i] \in Vocabulary}
  IN  CHOOSE n \in good : \A k \in good : k <= n

Step(s, n) ==
  LET engine == s.engine \o SubSeq(s.tokens, s.completed + 1, s.completed + n)
  IN  [s EXCEPT !.engine = engine, !.completed = @ + n,
                !.hidden = IF n = 0 THEN @ ELSE engine]

AdvanceRefused(s, budget) ==
  ~s.prepared \/ s.cancelled \/ budget = 0 \/ s.completed >= Len(s.tokens)

\* The adapter after advance, the step it reports and the work it claims.
backend_advance(s, budget) ==
  LET n == Stepped(s, budget)
      after == Step(s, n)
  IN  IF AdvanceRefused(s, budget)
        THEN [adapter |-> s, step |-> "kFailed", completed |-> 0]
      ELSE IF n < Least(budget, Len(s.tokens) - s.completed)
        THEN [adapter |-> after, step |-> "kFailed", completed |-> 0]
      ELSE [adapter |-> after, completed |-> n,
            step |-> IF after.completed = Len(s.tokens) THEN "kComplete" ELSE "kInProgress"]

state_bytes(s) ==
  IF s.prepared THEN StateHeader + Len(s.tokens) + ResultSize + SnapshotSize ELSE 0

\* save_state, with the decode snapshot of fe_engine_export_decode_state.
save_state(a, s) ==
  [completed |-> s.completed, tokens |-> s.tokens, hidden |-> s.hidden,
   snapshot |-> [model |-> Adapters[a].model, state |-> s.engine]]

\* load_state and fe_engine_import_decode_state: the guards, then the adapter.
CanLoad(a, p) ==
  /\ p.tokens # <<>> /\ Len(p.tokens) <= Adapters[a].max_tokens
  /\ p.completed <= Len(p.tokens) /\ p.snapshot.model = Adapters[a].model

load_state(s, p) ==
  [engine |-> p.snapshot.state, tokens |-> p.tokens, hidden |-> p.hidden,
   completed |-> p.completed, prepared |-> TRUE, cancelled |-> FALSE]

result(s) == IF s.completed = 0 THEN <<>> ELSE s.hidden

-----------------------------------------------------------------------------
(* State capsules (state_capsule.cc).                                      *)

state_capsule_bytes(payload) == CapsuleOverhead + payload

ValidMetadata(m) ==
  /\ valid_job_descriptor(m.descriptor)
  /\ valid_job_progress(m.descriptor, [state |-> m.state, completed |-> m.completed,
                                       remaining |-> m.descriptor.work - m.completed])

write_state_capsule(meta, payload, size) ==
  [magic |-> TRUE, meta |-> meta, payload |-> payload, declared |-> size,
   size |-> state_capsule_bytes(size), checksum |-> <<meta, payload, size>>]

Readable(c) ==
  /\ c.size >= CapsuleOverhead /\ c.magic /\ c.size = state_capsule_bytes(c.declared)
  /\ c.checksum = <<c.meta, c.payload, c.declared>>
  /\ ValidMetadata(c.meta)

-----------------------------------------------------------------------------
(* The registry (job_registry.cc).                                         *)

RouteOf(a) == [kind |-> 2, model |-> Adapters[a].model]

\* add, to a registry that is not frozen, and freeze.
Add(a) ==
  LET l == Adapters[a].lane
  IN  /\ ~frozen[l]
      /\ max_request_bytes(a) <= MaxPayload /\ ResultSize <= MaxPayload
      /\ \A i \in DOMAIN registry[l] : RouteOf(registry[l][i]) # RouteOf(a)
      /\ Len(registry[l]) < RegistrySize
      /\ registry' = [registry EXCEPT ![l] = Append(@, a)]
      /\ UNCHANGED <<frozen, adapter, job, capsule, binds, damages>>

Freeze(l) ==
  /\ ~frozen[l] /\ frozen' = [frozen EXCEPT ![l] = TRUE]
  /\ UNCHANGED <<registry, adapter, job, capsule, binds, damages>>

find(l, r) ==
  {registry[l][i] : i \in {k \in DOMAIN registry[l] : RouteOf(registry[l][k]) = r.route}}

\* bind: "none" where the request gets no job; the adapter is prepared.
Bound(l, r) == {a \in find(l, r) : frozen[l] /\ CanPrepare(a, r.tokens)}

Bind(l, r) ==
  /\ job[l].state = "none"
  /\ \E a \in Bound(l, r) :
       /\ job' = [job EXCEPT ![l] = [state |-> "kReady", completed |-> 0, request |-> r,
                                     adapter |-> a]]
       /\ adapter' = [adapter EXCEPT ![a] = prepare(@, r.tokens)]
  /\ binds < MaxBinds /\ binds' = binds + 1
  /\ UNCHANGED <<registry, frozen, capsule, damages>>

-----------------------------------------------------------------------------
(* The cooperative job (cooperative_job.cc).                               *)

progress(j) ==
  [state |-> j.state, completed |-> j.completed,
   remaining |-> j.request.descriptor.work - j.completed]

Become(l, j, s) ==
  /\ job' = [job EXCEPT ![l] = j]
  /\ adapter' = [adapter EXCEPT ![job[l].adapter] = s]
  /\ UNCHANGED <<registry, frozen, capsule, binds, damages>>

start(l) ==
  LET j == job[l] s == adapter[j.adapter]
  IN  /\ j.state = "kReady"
      /\ IF CanBegin(s) THEN Become(l, [j EXCEPT !.state = "kRunning"], begin(s))
                        ELSE Become(l, [j EXCEPT !.state = "kFailed"], s)

\* What the job becomes when the adapter reports r.
Advanced(j, r, budget) ==
  LET done == j.completed + r.completed
      exhausted == done = j.request.descriptor.work
  IN  IF r.step = "kFailed" \/ r.completed = 0 \/ r.completed > budget
        THEN [j EXCEPT !.state = "kFailed"]
      ELSE IF (r.step = "kComplete") # exhausted
        THEN [j EXCEPT !.completed = done, !.state = "kFailed"]
      ELSE [j EXCEPT !.completed = done,
                     !.state = IF exhausted THEN "kComplete" ELSE "kRunning"]

Cancelled(l) ==
  LET j == job[l]
  IN  Become(l, [j EXCEPT !.state = "kCancelled"],
             [adapter[j.adapter] EXCEPT !.cancelled = TRUE])

advance(l, work_budget, cancel_generation) ==
  LET j == job[l]
      budget == Least(j.request.descriptor.work - j.completed, work_budget)
      r == backend_advance(adapter[j.adapter], budget)
  IN  /\ j.state = "kRunning"
      /\ IF cancel_generation > j.request.generation THEN Cancelled(l)
         ELSE work_budget > 0 /\ Become(l, Advanced(j, r, budget), r.adapter)

cancel_before(l, generation) ==
  /\ job[l].state \in {"kReady", "kRunning"} /\ generation > job[l].request.generation
  /\ Cancelled(l)

\* The storage the daemon gives a capsule, and the one the guide asks for.
DaemonStorage == {max_state_bytes(a) : a \in DOMAIN Adapters}
GuideStorage == {state_capsule_bytes(n) : n \in DaemonStorage}

capsule_bytes(l) == state_capsule_bytes(state_bytes(adapter[job[l].adapter]))

export_capsule(l, storage) ==
  LET j == job[l] s == adapter[j.adapter]
      meta == [descriptor |-> j.request.descriptor, generation |-> j.request.generation,
               route |-> j.request.route, state |-> j.state, completed |-> j.completed]
  IN  /\ j.state \notin {"none", "kReady"} /\ capsule_bytes(l) <= storage /\ s.prepared
      /\ ValidMetadata(meta)
      /\ capsule' = write_state_capsule(meta, save_state(j.adapter, s), state_bytes(s))
      /\ job' = [job EXCEPT ![l] = NoJob]       \* the lane hands the job off
      /\ UNCHANGED <<registry, frozen, adapter, binds, damages>>

Restored(j, m) == [j EXCEPT !.state = m.state, !.completed = m.completed]

restore_capsule(l) ==
  LET j == job[l] c == capsule
  IN  /\ j.state = "kReady" /\ c.size # 0
      /\ Readable(c) /\ c.meta.state # "kReady" /\ same_descriptor(j.request, c.meta)
      /\ CanLoad(j.adapter, c.payload)
      /\ Become(l, Restored(j, c.meta), load_state(adapter[j.adapter], c.payload))

\* RoutedJob::write_result.
Answer(l) ==
  LET j == job[l]
  IN  /\ Len(result(adapter[j.adapter])) <= MaxPayload /\ ResultSize <= MaxPayload
      /\ MakesResult(j.request.descriptor, progress(j), result_code(j.state), ResultSize, 0)

write_result(l) ==
  /\ terminal(job[l].state) /\ job' = [job EXCEPT ![l] = NoJob]
  /\ UNCHANGED <<registry, frozen, adapter, capsule, binds, damages>>

\* The stored bytes change or are cut short.
Damaged(c) ==
  {[c EXCEPT !.magic = FALSE], [c EXCEPT !.size = @ - 1], [c EXCEPT !.declared = @ - 1],
   [c EXCEPT !.meta.completed = 0], [c EXCEPT !.payload.snapshot.state = <<>>]}

Damage ==
  /\ capsule.size # 0 /\ damages < MaxDamages /\ damages' = damages + 1
  /\ capsule' \in Damaged(capsule) \ {capsule}
  /\ UNCHANGED <<registry, frozen, adapter, job, binds>>

-----------------------------------------------------------------------------
JobInit ==
  /\ registry = [l \in Lanes |-> <<>>] /\ frozen = [l \in Lanes |-> FALSE]
  /\ adapter = [a \in DOMAIN Adapters |-> Opened] /\ job = [l \in Lanes |-> NoJob]
  /\ capsule = NoCapsule /\ binds = 0 /\ damages = 0

JobNext ==
  \/ \E a \in DOMAIN Adapters : Add(a)
  \/ Damage
  \/ \E l \in Lanes :
       \/ Freeze(l)
       \/ \E r \in Requests : Bind(l, r)
       \/ start(l)
       \/ \E b \in Budgets, g \in Generations : advance(l, b, g)
       \/ \E g \in Generations : cancel_before(l, g)
       \/ \E storage \in DaemonStorage \cup GuideStorage : export_capsule(l, storage)
       \/ restore_capsule(l)
       \/ write_result(l)

JobSpec == JobInit /\ [][JobNext]_jobVars

-----------------------------------------------------------------------------
\* A stream is exact whatever it went through: the engine, the vector the
\* adapter would return and both counts of progress stand at the same prefix
\* of the request's own tokens, after any split into steps, any move to
\* another lane, any job the adapter ran before and any damaged or foreign
\* capsule it was offered.  So a job that is complete has stepped each of its
\* tokens once and in order.
StreamExact ==
  \A l \in Lanes :
    LET j == job[l] s == adapter[j.adapter] IN
    j.state \in {"kRunning", "kComplete"} =>
      /\ s.tokens = j.request.tokens /\ s.completed = j.completed
      /\ s.engine = Prefix(s.tokens, s.completed) /\ result(s) = s.engine

\* A job that ended has an answer: its progress is valid, agrees with the code
\* and fits the message, so write_result never turns a finished stream into a
\* failure, even one that the adapter's contract failed halfway.
EndedHasAnswer == \A l \in Lanes : terminal(job[l].state) => Answer(l)

\* A running job can go on: its adapter is prepared, is not cancelled and has
\* tokens left, so only a token outside the vocabulary or a request whose work
\* is not its number of tokens makes a running job fail.
RunningGoesOn ==
  \A l \in Lanes :
    LET j == job[l] s == adapter[j.adapter] IN
    j.state = "kRunning" => \A b \in Budgets \ {0} : ~AdvanceRefused(s, b)

\* The reserved storage holds the capsule of every running job, so that a
\* drain with a compatible target moves the job at its next boundary.
CapsuleFits ==
  \A l \in Lanes : \A storage \in DaemonStorage :
    job[l].state = "kRunning" => capsule_bytes(l) <= storage

\* A lane's job is exact, can go on while it runs and has an answer when it ends.
JobExact == StreamExact /\ EndedHasAnswer /\ RunningGoesOn
=============================================================================
