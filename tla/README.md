# FlowEdge: a verification project in TLA+

FlowEdge runs action policies of robots. *Core* (`src/src/core`) evaluates models; *Relay*
(`src/src/relay`) puts them behind shared-memory rings, deadlines and worker lanes. This directory
holds TLA+ models of that code, the TLC runs that check them on small instances, and TLAPS proofs
of what matters most for every instance. `PROJECT.json` ties each definition to the lines it
models (`map`), each property to a plausible bug that breaks it (`mutants`), and lists the places
where the code could go wrong in ways a test hardly reaches (`hazards`).

## The system and its models

| Part | What makes it hard | Modules |
|---|---|---|
| Generic worker pool (`relay/worker/job_worker_pool*`): queue, session watermarks, lanes with one atomic state and one thread each | cancellation racing completion, migration between lanes, quarantine, shutdown | `JobWorkerPool`, `JobAdmission` |
| Cooperative jobs, adapters, capsules (`relay/jobs`) | failure at every call, damaged state, resuming exactly | `CooperativeJob` |
| Job service, control service, daemon loop (`relay/worker/job_service.cc`, `job_control_service.cc`, `job_daemon.cc`) | full rings, a stop while work is in flight, a failing trace | `JobDaemon`, `JobPool` |
| Shared-memory ring (`relay/shared_memory`) | two processes without a lock, crash and restart, creation racing open | `SharedMemoryRing`, `BoundedFifo` |
| EDF scheduler, head worker pool, relay daemon (`relay/scheduler`, `relay/worker`, `relay/daemon`) | eviction, a borrowed slot, cancel racing begin, backpressure | `EdfScheduler`, `EdfAdmission`, `HeadWorkerPool`, `RelayDaemon` |
| Action gate, clients, tools, start-up | time, replacement, limits; names left behind by a crash | `ActionDelivery`, `RelayStartup`, `CommandLine` |
| Messages, metrics, traces, topology | validators, counters that must agree, torn files, CPU lists | `WireMessages`, `RelayMetrics`, `RelayTrace`, `WorkerTopology` |
| Thread pool and SPMC ring (`core/arena`) | lost wake-ups, slots reused too early, the barrier | `ThreadPool` |
| Engine runtime, plan selector (`core/runtime`) | a second thread that cancels, snapshots, partial state after a failure | `EngineRuntime`, `DeadlineFlow` |
| Slab sizing, loader, profiles, diffusion head | memory promised against memory used, a file that changes between passes | `EngineArena`, `ModelWeights`, `DeploymentProfile`, `DiffusionHead` |
| Kernels, hashing, bindings | numerics and byte layouts | not modelled |

A client pushes requests into a ring; a daemon's single coordinator thread polls the ring, submits
to the pool, and pushes results back. The pool's lanes run jobs in threads of their own, work
quantum by work quantum, on an engine whose kernels use the thread pool. `JobDaemon` composes the
service, the control service and the loop over `JobPool`, an abstract pool (queued, running,
ready, released) that keeps what the daemon can observe; `RelayDaemon` composes the loop with
`EdfScheduler` and `HeadWorkerPool` as they are.

How state and actions correspond to the code: a field is a variable of the same name (a function
of the lane, process, thread or mapping it belongs to); a call or handler is an action, split
where another actor can see what it has stored or change what it reads next. A thread has a `pc`;
`asleep` is `atomic::wait` or a condition variable, and waking it is part of the action that
notifies. A call that loops over lanes while threads move takes one step per lane it acts on. An
early return that changes nothing is a stuttering step and has no action of its own.

Abstractions, by module:

* `JobWorkerPool`: a request is its sequence number, which also stands for its time stamp (clients
  stamp both together). Payloads are one validity bit and a route. A capsule is its descriptor and
  completed units. `queue_order_` is a set because `earlier` orders it totally. Statistics and
  event payloads are left out. `session_id` and `generation` of a lane are the request they were
  copied from.
* `CooperativeJob`: bytes are sizes and sets of fields; a checksum detects every damage.
* `SharedMemoryRing`: a slot's header (length, checksum) and its body are two fields that agree
  when both stem from one message. A mapping outlives its name: `name` is what `shm_open` finds,
  `mapped` what a process has.
* `JobPool`: one session, whose newer generations supersede older jobs in the queue, on a lane and
  with a result ready. `pump` gives every idle lane a job at once; the code's cursor may leave a
  lane to the next pump, and the daemon pumps in every turn of its loop. How a lane computes is one
  step; that its thread has stored "nothing left" and not yet its result is a choice of the call
  that cancels it (`late`), since only that call looks.
* `ThreadPool`: positions do not wrap (64 bits); `compare_exchange_weak` failing spuriously adds
  no state.
* `DeploymentProfile`: a text is what `field()` finds of each key, with the keys whose numbers are
  quoted and what the normalisation parameters hold besides limits.
* `RelayStartup`, `JobDaemon`: sequence numbers, sessions and operations are the caller's, so that
  two invocations may be equal, as they are with the defaults of `relayctl` and `jobctl`.
* `RelayTrace`: a unit of the file is a header, metadata or payload block; a torn write ends
  between or inside units.
* `EngineRuntime`: an evaluation is an opaque step; which request's rows are in the cache and how
  far a solve has come is kept.
* `EngineArena`, `DiffusionHead`, `ModelWeights`: memory is counted in the code's own formulas,
  with small widths and, where sums saturate, a small machine word.

Atomics are sequentially consistent: weak-memory reorderings are not explored. The code's
acquire/release pairs sit on the variables the models use as hand-over points.

## Runs

| Run (`.cfg`) | Instance | What it shows |
|---|---|---|
| `PoolMoving` | 2 lanes, requests that supersede each other, cancel, drain with migration, failing export, session release | `TypeOK`; `OnePlace`: each request in one place; `CancelReaches`, `WatermarkCovers`: no stale job goes untold; `NoStrandedWork`; `WorkPreserved`: no unit of work lost or repeated; `NoLostWakeup`; `DecidedOnce` |
| `PoolScenarios` | 2 lanes with different routes, 3 requests with deadlines and service classes, a reserved slot, failing backends, quarantine, drain, resume, recovery, a moving clock | `QueueServed`, `QuarantineHolds` |
| `PoolLiveness` | 2 requests, drain, migration, `stop()` before the second request; fair | `Answered`, `DrainCompletes`, `StopReturns` |
| `RingFifo` | 2 mappings of 2 slots, 5 messages, sequences modulo 4, a crash, a damaged slot, an oversized message; fair | `RingSafe`; `IsBoundedFifo`: refinement of `BoundedFifo`; `Drained` |
| `Threads` | 2 workers, 2 slots, 2 calls of 3 tasks; fair | `TasksKept`, `ReturnIsBarrier`, `Terminates` |
| `RelayLoop` | rings of one message, device failures, expiry, eviction, newer generations, signal, shutdown; fair | `OwnedOnce`, `ResultKept`, `Drains`, `StopReturns` |
| `JobDaemon` | one lane, rings of one message, jobs that supersede each other, a client that may stop reading, control clients that time out and repeat a sequence number, a failing trace; fair | `Conservation`: jobs, orders and events are kept or counted; `AnswersTrue`: an answer is to an order like the process's own; `Settles` |
| `RelayParts` | parts of Relay without shared state, one at a time while the others rest | `StartsSound`: names have one owner, answers and options are what was asked, CPUs are spread; `MetricsAgree`, `TraceFaithful`, `MessagesSound`, `GateSafe`, `AdmissionHolds` |
| `EngineParts` | the same for Core and stream jobs | `JobExact`, `GenerationsHold`, `StateExact`, `EstimateInRange`, `ContractsHold`, `HeadSound`, `SlabLasts`, `LoadSound` |
| `RingReady`, `CapsuleFits`, `TokenSampling` | small instances | violations, see below |

`RelayParts` and `EngineParts` put several independent modules side by side. A behaviour picks one
part at the start; the variables of the others keep one legal initial value. The parts share no
variable and no action, so nothing is lost by not interleaving them.

Bounds, and why they are enough:

* Worker pool: a handoff has one source and one target, every loop treats lanes alike, and
  `can_remove_worker` needs one lane leaving while another serves, so two lanes; two or three
  requests give a job in a lane, one in the queue and one that supersedes; totals of one to three
  units with a quantum of one give a job that can be cancelled, exported and finished at different
  boundaries. `MaxTime` passes every deadline. A failing result
  (fault `result`) leaves a lane as a failing `advance` does and is in no instance; a `stop()` of
  `PoolLiveness` comes before the second request (`StopEarly`), which keeps the graph small enough
  for liveness. The theorems hold for any number, all faults and any moment of `stop()`.
* Ring: five messages through two slots wrap sequences modulo 4 (a multiple of the capacity, as
  2^64 is). `open` does not overlap the `create` of the same name except in `RingReady`, so that
  the run asks what happens besides that race.
* Thread pool: three tasks are one more than there are workers and slots, so the ring fills, a
  slot is reused in one call and again in the next. An idle worker spins `IdleSpin` = 0 times
  instead of 4096 before it reads the epoch.
* Daemons: rings of one message make every push meet backpressure; scripts of two to four
  messages hold a request, one that replaces it and a control message. Two of the scripts
  repeat a control sequence number, with the same operation and with others.
* Start-up: six client invocations, two of them equal and most with the default number; options:
  numbers up to a machine word of `IntMax`, a clock at `SentAt` and `Millisecond` clock units, so
  that a reserve, a sum of reserves or a deadline may pass the word.
* Action gate: times, deadlines and limits around each comparison of `accept` and `next`; metrics:
  counters of `Width` bits; trace: one failing write anywhere among the units of four records, two of
  the four conditions with one key.
* Engine: two generations, solves of up to three steps, caches of one row; slab shapes on both
  sides of every bound of `Covered`, lengths 1, 5 and 512; profile texts that differ from a valid
  one in up to two fields.

Deadlock is checked where the code loops for ever (`PoolMoving`, `PoolScenarios`,
`TokenSampling`); the other systems stop by themselves, after a shutdown, a join, or when the
bounded traffic has ended. In the ring a crash inside `create` leaves a name that can neither be
opened nor created.

Fairness:

* Worker pool: weak for each lane's thread (the operating system schedules it) and for the steps
  inside a call (calls return); strong for `ready_result` and `release_ready_result`, since the
  daemon polls in every iteration and returns early only while the result ring is full; none for
  submissions, cancellations, drains or resumes.
* Ring: weak for the consumer's calls (daemons and clients poll) and for finishing a `create` or
  `open` once begun; none for the producer, crashes or releases.
* Thread pool: weak for each worker and for the owner inside a call.
* Daemons: weak for the loop and the threads; the client's reads only as far as each liveness
  property says (a client that stops reading may hold up its own results, never administration).

## What disagrees with the documentation

Three runs end in a violation, each against a line of the documentation:

* `RingReady`, `AcceptedStays`: `docs/decisions/0013-relay-client-lifecycle.md:31` says a
  "successful client connection is therefore a readiness signal". `create` completes the header
  before it stores the two sequences, and `open` accepts a complete header: a request pushed in
  between is accepted and then wiped out.
* `CapsuleFits`: `flowedge-jobd` sizes its migration buffers by `max_state_bytes()`, without the
  capsule's own header and checksum that `docs/guides/cooperative-jobs.md:54` adds. A stream
  within 28 tokens of `max_tokens` cannot be moved.
* `TokenSampling`, `TokenSamplingFits`: `docs/api/c-abi.md:103` promises token-conditioned
  sampling of 1 to 512 tokens; the slab of a Transformer with a flow head has no room for the
  hidden states.

Three more are stated in the modules and not run:

* `OlderNotCurrent` (`JobWorkerPool`): `docs/guides/verification.md:76` says "Older generations
  cannot publish as current". A cancellation after a worker's last look at `cancel_generation` and
  before it stores `kReady` is accepted, and the old result is delivered as complete.
* `ViewStable` (`JobWorkerPool`): `job_worker_pool.h:159` says the view of `ready_result`
  "remains valid until release_ready_result()". `cancel_before` and a superseding `submit` rewrite
  it in place.
* `SupersededStops` (`RelayDaemon`): `head_worker_pool.cc` clears the cancellation of a slot when
  the thread begins (102-103) although `cancel_before` may already have stored it (246-247), so a
  superseded request may run to its end (ADR 0015, lines 25-26).

Seen while modelling, without a property:

* `pump` indexes lanes by a cursor that dispatching moves, so one call may visit a lane twice and
  skip another; an idle lane can wait for the next pump, and `QueueServed` shows there will be one.
* `stop()` stores `kRequested` on idle lanes after it set `stop_requested`, so a thread past its
  stop check may bind a request already delivered, to cancel it at once. Results in flight when
  `JobService` stops are dropped.
* A drained lane carries session id 0 and `release_session` counts every lane that is not idle, so
  session 0 cannot be released while any lane is drained.
* In a ring of one slot "full" and "free for the next round" are the same number, and `SpmcRing`
  would overwrite a queued task. The engine's ring is larger.
* `jobctl` never compares the sequence of a stream's result (`job_control.cc:273-293`), and a
  control answer left by a process that timed out is reported by the next process with the same
  sequence and operation; both tools number everything 1 by default. `AnswersTrue` and
  `StartsSound` allow exactly this. A client may open half of a ring pair across a daemon's
  restart; a crashed creator's name blocks `--create`; `relayctl` adds a deadline without an
  overflow check (`relay_control.cc:206-207`).
* Replay keeps one computed action per session and sequence (`trace_tool.cc:393`). Two requests
  with one key in flight together overwrite each other, and a right action is reported as a
  mismatch; `ReplayVerdict` speaks of traces where that did not happen (`reused`).
* After a failed trace append an event may be counted twice in the metrics, and later records of
  the file cannot be read. The metrics export reports success although its closing flush failed.
* `cancel_before` reports the preemption of a job that has stored its last unit and not yet its
  result as running with nothing left. That event does not validate, and `emit` drops it without a
  count; `EventsCounted` and `EventsValid` name it as the only one.
* `next` of the action gate does not check the source deadline again, and its limit on changes is
  per period, whatever time has passed.
* `DeadlineFlow`: an estimate stops decaying below 8 ns, and a plan whose estimate no longer fits
  is never measured again.
* The profile parser accepts numbers and arrays as quoted strings, and other normalisation keys
  with profile `none`, where `deployment-profile.md:37-38` asks for empty parameters.
  `AcceptsContract` says that these are its only liberties.
* `required_slab_bytes` leaves a fixed reserve for alignment padding, has no term for `dt_rank` and
  takes the SmolVLA expert's pinned widths as multiples of its own width: Transformers of many tiny
  layers, a `dt_rank` far above `d_inner` and experts narrower than about 608 are accepted by the
  loader and run out of memory. Only Mamba and the flow head use their buffers untested. `Covered`
  draws the line.
* A checkpoint replaced between the loader's passes keeps the old profile; capsules compare
  descriptors without tokens (`same_descriptor`).
* `EngineRuntime`: a newer generation after the last step still ends COMPLETE; `sample` replaces a
  cooperative solve; a failed Transformer prefill leaves a partial prefix; a step after a masked
  prefill attends to the padding rows.

## Proofs

The theorems hold for every value of the constants that the assumptions admit, not only for the
instances of the runs. Each states a property of a run. Each invariant was checked with
TLC before it was proved.

| Theorem | Module | States |
|---|---|---|
| `TypeCorrect`, `WakeupSafe`, `NothingStranded`, `PlaceUnique` | `JobWorkerPoolProofs` | `TypeOK`, `NoLostWakeup`, `NoStrandedWork`, `OnePlace` |
| `WatermarkSafe`, `CancelSafe`, `WorkSafe`, `DecidedSafe`, `QuarantineSafe` | `JobWorkerPoolSafety` | `WatermarkCovers`, `CancelReaches`, `WorkPreserved`, `DecidedOnce`, `QuarantineHolds` |
| `RingIsSafe`, `RingRefinesFifo` | `SharedMemoryRingProofs` | `RingSafe`, `IsBoundedFifo` |
| `TasksSafe`, `BarrierSafe` | `ThreadPoolProofs` | `TasksKept`, `ReturnIsBarrier` |
| `GenerationSafe`, `StateSafe`, `EstimateSound`, `JobIsExact` | `EngineProofs` | `GenerationsHold`, `StateExact`, `EstimateInRange`, `JobExact` |
| `NothingIsLost`, `AnswersAreTrue` | `JobDaemonProofs` | `Conservation`, `AnswersTrue` |
| `RequestsAreOwnedOnce`, `ReadyResultsAreKept` | `RelayDaemonProofs` | `OwnedOnce`, `ResultKept` |
| `GateIsSafe`, `TraceIsFaithful` | `RelayPartsProofs` | `GateSafe`, `TraceFaithful` |

**Worker pool.** Assumed: what `create()` checks of the configuration (`PoolAssumption`) and what
`validate` checks of a request (`RequestAssumption`). `TypeOK` alone is not inductive:
`remaining_work_units` could wrap. `Inv` adds `WorkLeft` (a job's completed and remaining units
are its total) and `LaneStates` (which `pc` of a thread goes with which lane state, and which
lanes hold a request). Everything else about the pool builds on `Inv`, one lemma per action:

* `NoLostWakeup` and `NoStrandedWork` are inductive over `Inv`. The second rests on
  `can_remove_worker`: it looks at the queue as it is, and nothing enters the queue that no lane
  in service accepts.
* `OnePlace` needs that a handoff's target is idle and that a lane's request is dropped in the
  step that moves it.
* `WorkPreserved` needs `WorkInv`: a request that has not started has no executed units, a capsule
  carries what its lane executed, and a lane between `import_state` and its first quantum carries
  the capsule's count. `DecidedOnce` needs `EventInv` (no terminal event for work that is still
  on a lane or queued), `QuarantineHolds` that a quarantined lane is marked for draining.
* `CancelReaches` is false in the middle of `cancel_before`, which visits the lanes one by one
  while threads move. `CancelInv` says it lane by lane: behind the visiting index every stale lane
  has been told, `Told` being the stored `cancel_generation`, a stale result, or a thread that
  will look at the watermark before it runs.

**Ring.** Assumed: at least two slots, and a sequence width that the capacity divides
(`RingAssumption`). The theorems take `EarlyOpen = FALSE`: `open` does not overlap `create`,
without which the property fails (`RingReady`). `RingInv` says which process has which mapping
(`Roles`, `Mappings`), that an unused mapping is empty (`Fresh`), what a process in the middle of
`try_push` or `try_pop` knows of the other's sequence (`PushInv`, `PopInv`: a stale read can only
make the ring look fuller to the producer and emptier to the consumer), and that published slots
agree with their headers unless damaged (`Published`). The arithmetic is that of distances modulo
`SequenceMod`, reduced to slots by `SequenceMod % Capacity = 0`. The refinement shows step by step
that only the two release stores and the damage of a published slot change `Contents`, each as one
`BoundedFifo` action.

**Thread pool.** Assumed: finitely many workers, a power of two as ring size (`PoolAssumption`);
the theorems take `RingSize > 1`. The current call's tasks have consecutive positions from `Base`,
so an index of the loop has one home position (`Home`) and is queued, held or done according to
where that position stands against `tail` and `head`. `Inv` says that positions between `tail` and
`head` carry their own task and number (`RingInv`), that workers hold different positions below
`tail`, that a slot's number is free or published for that slot (`SlotsInv`), that `pending_`
counts what is pushed, claimed and not finished (`PendingInv`), and that an index was run once
exactly when its home is done (`LoopInv`). A slot that `try_push` finds free cannot be the slot of
a queued or held position, since neighbouring positions have different slots; this is where one
slot would not do.

**Engine.** `GenerationsHold` follows from what each thread inside its compare-exchange loop
knows: a generation that was once the latest. `StateExact` needs `OwnInv`, which follows the solve
through begin, steps and return: the request of the solve begun last, its evaluations done and
left, the vector after each step as a function of the one before (by the least step at which they
would differ), and for the stream the rows fed since the last reset. `EstimateSound` holds step by
step: an observation takes at most an eighth off an estimate and never below the floor.

**Cooperative jobs.** Assumed: requests are validated messages, and a descriptor, a generation
and a route name one request (`JobAssumption`); without the last, a capsule would resume another
request's tokens, since `same_descriptor` does not compare them. `JobInv` says what stands of a job
in each of its states (`Stands`: the engine holds the prefix of the tokens counted as done), that
a job owns the adapter it was given (`OfLane`), and that a capsule whose checksum agrees was made
of a job that stood (`Stood`), so that importing one leaves the lane as if it had never moved.

**Job daemon.** Assumed: a client sends a job once (`TrafficAssumption`); any number of lanes, any
capacities, generations and sequence numbers. `DaemonInv` has five parts. `DataInv` is a ledger: a
job that was taken from the request ring is published once, or owned once by the pool, or held as
the one pending rejection, and the pool's own invariant says that its queue and lanes hold a job
once (`QueueOnce`, `LanesOnce`, `QueueOrLane`). `RejectionFirst` is what keeps the ledger balanced:
while a rejection is pending no other request is taken. Every call of the pool keeps the debt, the
events owed less those in the buffer and those `emit` lost (`SameDebt`). `ControlInv` says that the
orders asked are those answered, then the pending one, then those in the ring, each with its own
sequence and operation. Sequence numbers may repeat, so they cannot tell orders apart; `InLine`
does: answers reported, answers in the ring, the answer held and the orders in the ring follow each
other in the order of the processes that asked, none of them past the process now running. A
process therefore takes an answer that nobody took, to an order not after its own, and `OwnAnswer`
is inductive with it. `MainInv` says where the loop may be when it has failed. `pump` is proved
apart, as an injection of the due jobs into the idle lanes.

**Relay daemon.** Assumed: messages carry machine words, a good condition has a step, the client
numbers its messages (`DaemonAssumption`). `SchedInv` says that queued, free and lent slots add up
to the capacity, through every path of `submit` and `pop`; the displaced and the first request
exist because `later` orders finite sets (by the least counterexample). `RelayInv` puts a request
in at most one of six places: still coming, queued, in a worker's slot, displaced and not yet
answered, answered, or counted as unreported. Each step of the client, the loop and the threads
moves a request from one place to the next. `ResultKept` follows from `PoolInv`: no step of a
thread frees a slot, and the loop frees one only after publishing or when stopping.

**Action gate.** Assumed: what `create` checks (`GateAssumption`) and that offers have the fields
their types allow (`OfferAssumption`). `GateInv` says that the last output lies inside the limits,
that the active chunk is the newest accepted one and was valid when accepted, and how the steps
played so far stand to it; `GateSafe` is then a property of each step of `next`.

**Trace.** Assumed: events fit a record (`TraceAssumption`); keys may repeat. The layouts are shown
to overlap nowhere, so that decoding returns what was encoded. The file's invariant (`Holds`) names
a full file of which the file is a prefix: the first `k` messages stand in it one after the other,
and what follows the last is not a whole record and will never become one, whatever is appended
later (`Ending`, `Broken`). The reader is therefore always at the start of the next message of the
log or at something it rejects. For replay, `Prev` is the last message of the same key before a
place in the log. As long as no key was reused in flight, the message before an action is the
condition it answers (`AnswersFollow`), and a condition in flight is the last of its key
(`InflightOpen`); so the action the tool computed for a key is that of the condition to compare
with (`Computed`), and a mismatch was counted exactly when an action read so far was wrong.

## Only model-checked

* Liveness (`Answered`, `DrainCompletes`, both `StopReturns`, `Drained`, `Terminates`, `Drains`,
  `Settles`): fairness and `ENABLED` are beyond the proof system.
* `MessagesSound`, `StartsSound`, `LoadSound`, `HeadSound`, `SlabLasts`, `ContractsHold`,
  `MetricsAgree`: they compare what recursive or folded operators compute over messages, shapes,
  argument lists and counters, which needs induction over data.
* `AdmissionHolds` and `QueueServed`: the first is about list schedules, an exchange argument over
  the queue's order; the second depends on where the cursor of `pump` stands. Both are checked on
  the instances above and have no proof.

## Not modelled, and limits

* Kernels, hashing and model identity, the C and Python bindings: numerics, byte layouts and glue
  without a protocol. Windows branches and CUDA are left out throughout.
* `EngineArena`: two rounds of a layer stand for all of them. `SlabLasts` promises memory for the
  shapes of `Covered` alone; what an engine does after Mamba or the flow head wrote through a null
  pointer is not modelled.
* `DiffusionHead`: kernels wider than 5 may fall back to the direct loop; the clamping of samples
  is left out, and products of the packing sizes are unchecked in the code.
* `EngineRuntime`: solves without a generation ignore cancellation, as in the code.
* `WorkerTopology`: CPU numbers stop at `kMaxCpus` = 256.
* `RelayStartup`: `status` and `shutdown` with `--worker` are accepted by the parser and refused
  later.
