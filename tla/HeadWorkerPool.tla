--------------------------- MODULE HeadWorkerPool ---------------------------
(***************************************************************************)
(* HeadWorkerPool (relay/worker/head_worker_pool.cc) with the HeadWorker   *)
(* and the flow solver each slot owns.  One thread per slot runs run_slot; *)
(* the daemon's thread makes every other call.  Both sides meet in the     *)
(* atomics state, cancel_generation and stop_requested of a slot and in    *)
(* latest_generation of its engine, so their steps interleave between any  *)
(* two accesses to these.                                                  *)
(*                                                                         *)
(* run_slot stores kRunning with release order and then loads              *)
(* cancel_generation with acquire order: nothing orders a release store    *)
(* before a later load of another atomic, so the two may take effect in    *)
(* either order (arming holds the ones still to come).                     *)
(***************************************************************************)
EXTENDS EdfScheduler

CONSTANTS Workers,         \* worker_count(): slots 0..Workers - 1
          DeviceMayFail    \* whether a solve or a step may fail (the CUDA build)

ASSUME PoolAssumption == Workers \in 1..8 /\ DeviceMayFail \in BOOLEAN

Worker == 0..Workers - 1
NoWorker == Workers

VARIABLES
  state,               \* Slot::state
  request,             \* Slot::request; its gen is Slot::generation
  result,              \* Slot::result; "none" does not validate: begin failed
  remaining_nfe,       \* Slot::remaining_nfe, and the steps the solver has left
  cancel_generation,   \* Slot::cancel_generation
  stop_requested,      \* Slot::stop_requested
  tpc,                 \* where the slot's thread is in run_slot
  arming,              \* of {"running", "cancel"}: effects still to come
  latest_generation,   \* EngineRuntime::latest_generation_
  ready_index, ready_cursor, dispatch_cursor

threadVars == <<result, remaining_nfe, tpc, arming>>
poolVars == <<state, request, cancel_generation, stop_requested, latest_generation,
              threadVars, ready_index, ready_cursor, dispatch_cursor>>

PoolInit ==
  /\ state = [w \in Worker |-> "kIdle"]
  /\ request = [w \in Worker |-> NoMessage]
  /\ result = [w \in Worker |-> "none"]
  /\ remaining_nfe = [w \in Worker |-> 0]
  /\ cancel_generation = [w \in Worker |-> 0]
  /\ stop_requested = [w \in Worker |-> FALSE]
  /\ tpc = [w \in Worker |-> "check"]
  /\ arming = [w \in Worker |-> {}]
  /\ latest_generation = [w \in Worker |-> 0]
  /\ ready_index = NoWorker /\ ready_cursor = 0 /\ dispatch_cursor = 0

\* update_max and EngineRuntime::cancel_before.
Raise(f, w, generation) == [f EXCEPT ![w] = IF @ < generation THEN generation ELSE @]
Next1(w) == (w + 1) % Workers

-----------------------------------------------------------------------------
\* The daemon's variables, left alone by every step of a slot's thread.
ThreadOnly ==
  UNCHANGED <<request, cancel_generation, stop_requested, ready_index, ready_cursor,
              dispatch_cursor>>

Goto(w, label) == tpc' = [tpc EXCEPT ![w] = label]

\* while (!stop_requested)
CheckStop(w) ==
  /\ tpc[w] = "check"
  /\ Goto(w, IF stop_requested[w] THEN "exit" ELSE "load")
  /\ ThreadOnly
  /\ UNCHANGED <<state, latest_generation, result, remaining_nfe, arming>>

\* The load of state; wait returns once the state differs from the one read.
Waiting == [kIdle |-> "wait idle", kRunning |-> "wait running", kReady |-> "wait ready"]

LoadState(w) ==
  /\ tpc[w] = "load"
  /\ Goto(w, IF state[w] = "kRequested" THEN "begin" ELSE Waiting[state[w]])
  /\ ThreadOnly
  /\ UNCHANGED <<state, latest_generation, result, remaining_nfe, arming>>

\* Mutation: nobody notifies a thread that waits for a request.
WokenUnnotified(w) ==
  /\ \E s \in {"kRunning", "kReady"} : tpc[w] = Waiting[s] /\ state[w] # s
  /\ Goto(w, "check")
  /\ ThreadOnly
  /\ UNCHANGED <<state, latest_generation, result, remaining_nfe, arming>>

Woken(w) ==
  /\ \E s \in DOMAIN Waiting : tpc[w] = Waiting[s] /\ state[w] # s
  /\ Goto(w, "check")
  /\ ThreadOnly
  /\ UNCHANGED <<state, latest_generation, result, remaining_nfe, arming>>

\* HeadWorker::begin and flow_begin_request: a solve of the request, whose
\* generation becomes the newest one its engine has seen.
Begin(w) ==
  /\ tpc[w] = "begin"
  /\ result' = [result EXCEPT ![w] = "none"]
  /\ \/ /\ request[w] # NoMessage
        /\ latest_generation' = Raise(latest_generation, w, request[w].gen)
        /\ remaining_nfe' = [remaining_nfe EXCEPT ![w] = request[w].nfe]
        /\ arming' = [arming EXCEPT ![w] = {"running", "cancel"}]
        /\ Goto(w, "arm")
     \/ /\ DeviceMayFail \/ request[w] = NoMessage
        /\ remaining_nfe' = [remaining_nfe EXCEPT ![w] = 0]
        /\ Goto(w, "finish")
        /\ UNCHANGED <<latest_generation, arming>>
  /\ ThreadOnly
  /\ UNCHANGED state

\* state.store(kRunning)
StoreRunning(w) ==
  /\ tpc[w] = "arm" /\ "running" \in arming[w]
  /\ state' = [state EXCEPT ![w] = "kRunning"]
  /\ arming' = [arming EXCEPT ![w] = @ \ {"running"}]
  /\ Goto(w, IF arming'[w] = {} THEN "step" ELSE "arm")
  /\ ThreadOnly
  /\ UNCHANGED <<latest_generation, result, remaining_nfe>>

\* worker.cancel_before(cancel_generation.load())
LoadCancel(w) ==
  /\ tpc[w] = "arm" /\ "cancel" \in arming[w]
  /\ latest_generation' = Raise(latest_generation, w, cancel_generation[w])
  /\ arming' = [arming EXCEPT ![w] = @ \ {"cancel"}]
  /\ Goto(w, IF arming'[w] = {} THEN "step" ELSE "arm")
  /\ ThreadOnly
  /\ UNCHANGED <<state, result, remaining_nfe>>

\* The top of the advance loop and of sampler_advance: a stop ends the loop,
\* a newer generation cancels the solve, otherwise a step is computed.
StepStart(w) ==
  /\ tpc[w] = "step"
  /\ IF stop_requested[w] \/ latest_generation[w] > request[w].gen
     THEN result' = [result EXCEPT ![w] = "cancelled"] /\ Goto(w, "finish")
     ELSE UNCHANGED result /\ Goto(w, "compute")
  /\ ThreadOnly
  /\ UNCHANGED <<state, latest_generation, remaining_nfe, arming>>

\* The end of a solver step, whatever happened while it was computed.
StepEnd(w) ==
  /\ tpc[w] = "compute"
  /\ \/ /\ remaining_nfe' = [remaining_nfe EXCEPT ![w] = @ - 1]
        /\ IF remaining_nfe[w] = 1
           THEN result' = [result EXCEPT ![w] = "complete"] /\ Goto(w, "finish")
           ELSE UNCHANGED result /\ Goto(w, "step")
     \/ /\ DeviceMayFail
        /\ result' = [result EXCEPT ![w] = "failed"] /\ Goto(w, "finish")
        /\ UNCHANGED remaining_nfe
  /\ ThreadOnly
  /\ UNCHANGED <<state, latest_generation, arming>>

\* if (stop_requested) break;
Finish(w) ==
  /\ tpc[w] = "finish"
  /\ Goto(w, IF stop_requested[w] THEN "exit" ELSE "ready")
  /\ latest_generation' = IF stop_requested[w] /\ result[w] # "none"
                          THEN Raise(latest_generation, w, Top) ELSE latest_generation
  /\ ThreadOnly
  /\ UNCHANGED <<state, result, remaining_nfe, arming>>

\* state.store(kReady)
StoreReady(w) ==
  /\ tpc[w] = "ready"
  /\ state' = [state EXCEPT ![w] = "kReady"]
  /\ Goto(w, "check")
  /\ ThreadOnly
  /\ UNCHANGED <<latest_generation, result, remaining_nfe, arming>>

run_slot(w) ==
  \/ CheckStop(w) \/ LoadState(w) \/ Woken(w) \/ Begin(w)
  \/ StoreRunning(w) \/ LoadCancel(w) \/ StepStart(w) \/ StepEnd(w)
  \/ Finish(w) \/ StoreReady(w)

-----------------------------------------------------------------------------
(***************************************************************************)
(* The daemon's calls.  Each leaves threadVars alone except where noted.   *)
(***************************************************************************)
has_idle == \E w \in Worker : state[w] = "kIdle"

admission_context(now) ==
  [now |-> now,
   active |-> [w \in Worker |->
                 IF state[w] \in {"kRequested", "kRunning"}
                 THEN [gen |-> request[w].gen, nfe |-> remaining_nfe[w]]
                 ELSE [gen |-> 0, nfe |-> 0]]]

\* The first slot from a cursor on, cyclically, with a property.
FirstFrom(cursor, ws) ==
  CHOOSE w \in ws : \A v \in ws : (w - cursor) % Workers <= (v - cursor) % Workers

try_dispatch(m) ==
  LET w == FirstFrom(dispatch_cursor, {v \in Worker : state[v] = "kIdle"})
  IN  /\ request' = [request EXCEPT ![w] = m]
      /\ remaining_nfe' = [remaining_nfe EXCEPT ![w] = m.nfe]
      /\ state' = [state EXCEPT ![w] = "kRequested"]
      /\ dispatch_cursor' = Next1(w)
      /\ UNCHANGED <<cancel_generation, stop_requested, latest_generation, result,
                     tpc, arming, ready_index, ready_cursor>>

\* cancel_before on one slot: first the mark a thread will find ...
CancelMark(w, generation) ==
  /\ cancel_generation' = Raise(cancel_generation, w, generation)
  /\ UNCHANGED <<state, request, stop_requested, latest_generation, threadVars, ready_index,
                 ready_cursor, dispatch_cursor>>

\* Mutation: a waiting result is dropped whatever its generation.
CancelSlotAny(w, generation) ==
  /\ latest_generation' = IF state[w] = "kRunning" THEN Raise(latest_generation, w, generation)
                          ELSE latest_generation
  /\ IF state[w] = "kReady"
     THEN /\ state' = [state EXCEPT ![w] = "kIdle"]
          /\ ready_index' = IF ready_index = w THEN NoWorker ELSE ready_index
     ELSE UNCHANGED <<state, ready_index>>
  /\ UNCHANGED <<request, cancel_generation, stop_requested, threadVars, ready_cursor,
                 dispatch_cursor>>

\* ... then the running solve, or a result that waits to be published.
CancelSlot(w, generation) ==
  /\ latest_generation' = IF state[w] = "kRunning" THEN Raise(latest_generation, w, generation)
                          ELSE latest_generation
  /\ IF state[w] = "kReady" /\ request[w].gen < generation
     THEN /\ state' = [state EXCEPT ![w] = "kIdle"]
          /\ ready_index' = IF ready_index = w THEN NoWorker ELSE ready_index
     ELSE UNCHANGED <<state, ready_index>>
  /\ UNCHANGED <<request, cancel_generation, stop_requested, threadVars, ready_cursor,
                 dispatch_cursor>>

\* One slot of ready_action's scan: the slot it looks at, a failed slot that
\* is set free, and the slot whose result it returns.
Scanned(checked) == (ready_cursor + checked) % Workers

ScanFails(w) ==
  /\ state[w] = "kReady" /\ result[w] = "none"
  /\ state' = [state EXCEPT ![w] = "kIdle"]
  /\ ready_cursor' = Next1(w)
  /\ UNCHANGED <<request, cancel_generation, stop_requested, threadVars, latest_generation,
                 ready_index, dispatch_cursor>>

release_ready_action(w) ==
  /\ ready_cursor' = Next1(w)
  /\ ready_index' = NoWorker
  /\ remaining_nfe' = [remaining_nfe EXCEPT ![w] = 0]
  /\ state' = [state EXCEPT ![w] = "kIdle"]
  /\ UNCHANGED <<request, result, cancel_generation, stop_requested, tpc, arming,
                 latest_generation, dispatch_cursor>>

\* stop on one slot: the flag and the mark, then either the running solve is
\* cancelled or a waiting thread is woken by a state it does not wait for.
StopMark(w) ==
  /\ stop_requested' = [stop_requested EXCEPT ![w] = TRUE]
  /\ cancel_generation' = Raise(cancel_generation, w, Top)
  /\ UNCHANGED <<state, request, latest_generation, threadVars, ready_index, ready_cursor,
                 dispatch_cursor>>

\* Mutation: a sleeping thread is not woken.
StopWithoutWake(w, observed) ==
  /\ latest_generation' = IF observed = "kRunning" THEN Raise(latest_generation, w, Top)
                          ELSE latest_generation
  /\ UNCHANGED <<state, request, cancel_generation, stop_requested, threadVars, ready_index,
                 ready_cursor, dispatch_cursor>>

StopWake(w, observed) ==
  /\ IF observed = "kRunning"
     THEN latest_generation' = Raise(latest_generation, w, Top) /\ UNCHANGED state
     ELSE state' = [state EXCEPT ![w] = "kRequested"] /\ UNCHANGED latest_generation
  /\ UNCHANGED <<request, cancel_generation, stop_requested, threadVars, ready_index,
                 ready_cursor, dispatch_cursor>>
=============================================================================
