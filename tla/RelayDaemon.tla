---------------------------- MODULE RelayDaemon -----------------------------
(***************************************************************************)
(* flowedge-relayd (relay/worker/relay_daemon.cc): the event loop that     *)
(* joins the condition ring, the EDF scheduler, the worker pool and the    *)
(* action ring, with the RelayClient at the other ends of the rings.  The  *)
(* rings are the bounded queues SharedMemoryRing implements.  One pass of  *)
(* the loop drains conditions, publishes results and dispatches requests;  *)
(* the signal flag is read at the top of a pass only.                      *)
(***************************************************************************)
EXTENDS HeadWorkerPool

CONSTANTS Scripts,         \* what the client may submit: sequences of messages
          RingCapacity,    \* capacity of both rings
          MaxNow           \* bound of the clock

\* kind: "good", "incompatible" (does not match the model or its own size),
\* "damaged" (the ring reports the entry corrupt) or "shutdown".
RequestRecord == [kind : {"good", "incompatible", "damaged", "shutdown"},
                  seq : 0..Top, gen : 0..Top, deadline : 0..Top, nfe : 0..Top]
Requests == UNION {{script[i] : i \in DOMAIN script} : script \in Scripts}

\* A condition that validates has at least one solver step, and the client gives
\* every message a number of its own.
ASSUME DaemonAssumption ==
  /\ \A script \in Scripts : script \in Seq(RequestRecord)
  /\ \A r \in Requests : r.kind = "good" => r.nfe # 0
  /\ \A script \in Scripts : \A i, j \in DOMAIN script : script[i].seq = script[j].seq => i = j
  /\ RingCapacity \in Nat \ {0} /\ MaxNow \in Nat \ {0}

VARIABLES
  unsent, conditions, actions,   \* the client's messages and the two rings
  sched,                         \* the EdfScheduler
  now,                           \* monotonic_ns
  dpc,                           \* where the loop is
  count,                         \* iterations of the phase's own loop
  cursor,                        \* slot of cancel_before, ready_action, stop
  rejection,                     \* displaced request to report after a cancel
  signalled,                     \* the stop flag of the process
  observed,                      \* what stop() read of a slot's state
  outcomes,                      \* outcomes[seq]: what was published for it
  unreported                     \* sequences whose answer was dropped or failed

daemonVars == <<unsent, conditions, actions, sched, now, dpc, count, cursor, rejection,
                signalled, observed, outcomes, unreported>>
vars == <<poolVars, daemonVars>>

Good == {r \in Requests : r.kind = "good"}
Sequences_ == {r.seq : r \in Requests}
Message(r) == [seq |-> r.seq, gen |-> r.gen, deadline |-> r.deadline, nfe |-> r.nfe]

Init ==
  /\ PoolInit
  /\ unsent \in Scripts /\ conditions = <<>> /\ actions = <<>>
  /\ sched = InitScheduler
  /\ now = 1
  /\ dpc = "drain" /\ count = 0 /\ cursor = 0
  /\ rejection = NoMessage /\ signalled = FALSE /\ observed = "kIdle"
  /\ outcomes = [q \in Sequences_ |-> <<>>] /\ unreported = {}

-----------------------------------------------------------------------------
\* RelayClient::try_submit and try_shutdown: nothing happens on a full ring.
try_submit ==
  /\ unsent # <<>> /\ Len(conditions) < RingCapacity
  /\ unsent' = Tail(unsent)
  /\ conditions' = Append(conditions, Head(unsent))
  /\ UNCHANGED <<poolVars, actions, sched, now, dpc, count, cursor, rejection, signalled,
                 observed, outcomes, unreported>>

\* RelayClient::try_receive.
try_receive ==
  /\ actions # <<>>
  /\ actions' = Tail(actions)
  /\ UNCHANGED <<poolVars, unsent, conditions, sched, now, dpc, count, cursor, rejection,
                 signalled, observed, outcomes, unreported>>

\* SIGINT or SIGTERM.
request_stop ==
  /\ ~signalled /\ signalled' = TRUE
  /\ UNCHANGED <<poolVars, unsent, conditions, actions, sched, now, dpc, count, cursor,
                 rejection, observed, outcomes, unreported>>

Tick ==
  /\ now < MaxNow /\ now' = now + 1
  /\ UNCHANGED <<poolVars, unsent, conditions, actions, sched, dpc, count, cursor, rejection,
                 signalled, observed, outcomes, unreported>>

Client == try_submit \/ try_receive \/ request_stop \/ Tick

-----------------------------------------------------------------------------
\* What the loop publishes: an entry of the action ring for a request.
Publish(m, code) ==
  /\ actions' = Append(actions, m.seq)
  /\ outcomes' = [outcomes EXCEPT ![m.seq] = Append(@, code)]

\* publish_rejection: an outcome the ring has no room for is counted and lost.
publish_rejection(m, code) ==
  IF Len(actions) < RingCapacity
  THEN Publish(m, code) /\ UNCHANGED unreported
  ELSE unreported' = unreported \cup {m.seq} /\ UNCHANGED <<actions, outcomes>>

rejection_code == [kStale |-> "kRejectedStale", kDeadlineUnreachable |-> "kRejectedDeadline",
                   kFull |-> "kRejectedCapacity"]

\* A step of the loop: where it goes and what it never touches.
Loop(from, to) ==
  /\ dpc = from /\ dpc' = to
  /\ UNCHANGED <<unsent, now>>

DrainDone ==
  /\ conditions = <<>> \/ count = RingCapacity
  /\ Loop("drain", "publish")
  /\ count' = 0 /\ cursor' = 0
  /\ UNCHANGED <<poolVars, conditions, actions, sched, rejection, signalled, observed,
                 outcomes, unreported>>

Drain(to) ==
  /\ conditions # <<>> /\ count < RingCapacity
  /\ Loop("drain", to)
  /\ conditions' = Tail(conditions)

DrainDiscard ==
  /\ Drain("drain")
  /\ Head(conditions).kind \in {"damaged", "incompatible"}
  /\ count' = count + 1
  /\ UNCHANGED <<poolVars, actions, sched, cursor, rejection, signalled, observed, outcomes,
                 unreported>>

DrainShutdown ==
  /\ Drain("publish")
  /\ Head(conditions).kind = "shutdown"
  /\ signalled' = TRUE /\ count' = 0 /\ cursor' = 0
  /\ UNCHANGED <<poolVars, actions, sched, rejection, observed, outcomes, unreported>>

DrainSubmit ==
  /\ dpc = "drain" /\ conditions # <<>> /\ Head(conditions).kind = "good"
  /\ LET m == Message(Head(conditions))
         submitted == submit(sched, m, admission_context(now))
         refused == submitted.result \in DOMAIN rejection_code
     IN  /\ Drain(IF refused THEN "drain" ELSE "cancel")
         /\ sched' = submitted.sched
         /\ rejection' = submitted.displaced
         /\ count' = count + 1 /\ cursor' = 0
         /\ IF refused THEN publish_rejection(m, rejection_code[submitted.result])
            ELSE UNCHANGED <<actions, outcomes, unreported>>
  /\ UNCHANGED <<poolVars, signalled, observed>>

\* pool.cancel_before(scheduler.newest_generation()), slot after slot.
Mark ==
  /\ cursor < Workers /\ Loop("cancel", "cancel slot")
  /\ CancelMark(cursor, sched.newest_generation)
  /\ UNCHANGED <<conditions, actions, sched, count, cursor, rejection, signalled, observed,
                 outcomes, unreported>>

Cancel ==
  /\ Loop("cancel slot", "cancel")
  /\ CancelSlot(cursor, sched.newest_generation)
  /\ cursor' = cursor + 1
  /\ UNCHANGED <<conditions, actions, sched, count, rejection, signalled, observed, outcomes,
                 unreported>>

ReportDisplaced ==
  /\ cursor = Workers /\ Loop("cancel", "drain")
  /\ IF rejection # NoMessage THEN publish_rejection(rejection, "kRejectedCapacity")
     ELSE UNCHANGED <<actions, outcomes, unreported>>
  /\ rejection' = NoMessage
  /\ UNCHANGED <<poolVars, conditions, sched, count, cursor, signalled, observed>>

-----------------------------------------------------------------------------
\* ready_action: the result kept from an earlier pass, or one slot of a scan
\* (cursor counts the slots checked).
Offered == IF ready_index # NoWorker THEN ready_index ELSE Scanned(cursor)
OffersResult == state[Offered] = "kReady" /\ result[Offered] # "none"

PublishResult ==
  /\ OffersResult /\ Len(actions) < RingCapacity
  /\ Loop("publish", IF count + 1 = Workers THEN "dispatch" ELSE "publish")
  /\ Publish(request[Offered], result[Offered])
  /\ release_ready_action(Offered)
  /\ count' = IF count + 1 = Workers THEN 0 ELSE count + 1
  /\ cursor' = 0
  /\ UNCHANGED <<conditions, sched, rejection, signalled, observed, unreported>>

PublishBlocked ==
  /\ OffersResult /\ Len(actions) = RingCapacity
  /\ Loop("publish", "dispatch")
  /\ ready_index' = Offered
  /\ count' = 0 /\ cursor' = 0
  /\ UNCHANGED <<state, request, cancel_generation, stop_requested, latest_generation,
                 threadVars, ready_cursor, dispatch_cursor>>
  /\ UNCHANGED <<conditions, actions, sched, rejection, signalled, observed, outcomes,
                 unreported>>

\* A slot without a result: free it when its solve failed, and look further.
ScanOn ==
  /\ ~OffersResult /\ \E w \in Worker : state[w] = "kReady"
  /\ Loop("publish", IF cursor + 1 = Workers THEN "dispatch" ELSE "publish")
  /\ cursor' = (cursor + 1) % Workers
  /\ count' = IF cursor + 1 = Workers THEN 0 ELSE count
  /\ IF state[Offered] = "kReady"
     THEN ScanFails(Offered) /\ unreported' = unreported \cup {request[Offered].seq}
     ELSE UNCHANGED <<poolVars, unreported>>
  /\ UNCHANGED <<conditions, actions, sched, rejection, signalled, observed, outcomes>>

\* No slot was ready.
ScanNone ==
  /\ \A w \in Worker : state[w] # "kReady"
  /\ Loop("publish", "dispatch")
  /\ count' = 0 /\ cursor' = 0
  /\ UNCHANGED <<poolVars, conditions, actions, sched, rejection, signalled, observed,
                 outcomes, unreported>>

-----------------------------------------------------------------------------
\* The next pass, or the end of the loop.
NextPass == IF signalled THEN "stop" ELSE "drain"

DispatchDone ==
  /\ count = Workers \/ ~has_idle
  /\ Loop("dispatch", NextPass)
  /\ count' = 0 /\ cursor' = 0
  /\ UNCHANGED <<poolVars, conditions, actions, sched, rejection, signalled, observed,
                 outcomes, unreported>>

Dispatch ==
  /\ count < Workers /\ has_idle
  /\ LET popped == pop(sched, now)
         found == popped.request # NoMessage
         expired == popped.rejection # NoMessage
     IN  /\ Loop("dispatch", IF found \/ expired THEN "dispatch" ELSE NextPass)
         /\ sched' = popped.sched
         /\ count' = IF found THEN count + 1 ELSE IF expired THEN count ELSE 0
         /\ IF found THEN try_dispatch(popped.request) ELSE UNCHANGED poolVars
         /\ IF expired THEN publish_rejection(popped.rejection, "kExpired")
            ELSE UNCHANGED <<actions, outcomes, unreported>>
  /\ UNCHANGED <<conditions, cursor, rejection, signalled, observed>>

-----------------------------------------------------------------------------
\* HeadWorkerPool::stop, called by the destructor once the loop has ended.
StopSlot ==
  /\ cursor < Workers /\ Loop("stop", "stop load")
  /\ StopMark(cursor)
  /\ UNCHANGED <<conditions, actions, sched, count, cursor, rejection, signalled, observed,
                 outcomes, unreported>>

StopLoad ==
  /\ Loop("stop load", "stop wake")
  /\ observed' = state[cursor]
  /\ UNCHANGED <<poolVars, conditions, actions, sched, count, cursor, rejection, signalled,
                 outcomes, unreported>>

StopWakes ==
  /\ Loop("stop wake", "stop")
  /\ StopWake(cursor, observed)
  /\ cursor' = cursor + 1
  /\ UNCHANGED <<conditions, actions, sched, count, rejection, signalled, observed, outcomes,
                 unreported>>

Join ==
  /\ cursor = Workers /\ \A w \in Worker : tpc[w] = "exit"
  /\ Loop("stop", "stopped")
  /\ UNCHANGED <<poolVars, conditions, actions, sched, count, cursor, rejection, signalled,
                 observed, outcomes, unreported>>

main ==
  \/ DrainDone \/ DrainDiscard \/ DrainShutdown \/ DrainSubmit
  \/ Mark \/ Cancel \/ ReportDisplaced
  \/ PublishResult \/ PublishBlocked \/ ScanOn \/ ScanNone
  \/ DispatchDone \/ Dispatch
  \/ StopSlot \/ StopLoad \/ StopWakes \/ Join

Slot(w) == run_slot(w) /\ UNCHANGED daemonVars

Next == Client \/ main \/ \E w \in Worker : Slot(w)

\* The daemon's thread and the slots' threads are scheduled; a client that is
\* alive keeps receiving.  Nothing makes it submit or the process be stopped.
Fairness == WF_vars(main) /\ WF_vars(try_receive) /\ \A w \in Worker : WF_vars(Slot(w))

Spec == Init /\ [][Next]_vars /\ Fairness

-----------------------------------------------------------------------------
TypeOK ==
  /\ Len(conditions) <= RingCapacity /\ Len(actions) <= RingCapacity
  /\ sched.heap \subseteq {Message(r) : r \in Good}
  /\ now \in 1..MaxNow /\ count \in 0..RingCapacity + Workers /\ cursor \in 0..Workers
  /\ state \in [Worker -> {"kIdle", "kRequested", "kRunning", "kReady"}]
  /\ result \in [Worker -> {"none", "complete", "cancelled", "failed"}]
  /\ remaining_nfe \in [Worker -> Nat]
  /\ ready_index \in Worker \cup {NoWorker}
  /\ outcomes \in [Sequences_ -> Seq({"complete", "cancelled", "failed", "kExpired"} \cup
                                     {rejection_code[c] : c \in DOMAIN rejection_code})]

\* Every slot of the scheduler's storage is queued, free or lent to the caller
\* of pop: submit never takes a slot from an empty free list, and no path of
\* submit or pop loses one, so the queue keeps its capacity for ever.
StorageOwned ==
  /\ Cardinality(sched.heap) + sched.free_slots + sched.borrowed = Capacity
  /\ sched.free_slots >= 0

\* While the loop runs a request is in one place only: queued once, or held by
\* one slot, or answered, or counted as unreported; it is never solved twice
\* and never answered twice, whatever the order of cancel, finish and publish.
OneOwner ==
  dpc \notin {"stop", "stop load", "stop wake", "stopped"} =>
    \A q \in {r.seq : r \in Good} :
        Cardinality({x \in sched.heap : x.seq = q})
      + Cardinality({w \in Worker : state[w] # "kIdle" /\ request[w].seq = q})
      + (IF rejection # NoMessage /\ rejection.seq = q THEN 1 ELSE 0)
      + Len(outcomes[q])
      + (IF q \in unreported THEN 1 ELSE 0) <= 1

\* Neither a request nor the storage it was queued in is ever lost or doubled.
OwnedOnce == TypeOK /\ StorageOwned /\ OneOwner

\* "The slot retains its action while the output ring is full": a result that
\* validates leaves its slot only by being published or because a newer
\* generation was accepted, or because the pool is being stopped.
ResultKept ==
  [][\A w \in Worker :
       state[w] = "kReady" /\ result[w] # "none" /\ state'[w] # "kReady" =>
         \/ outcomes'[request[w].seq] = Append(outcomes[request[w].seq], result[w])
         \/ request[w].gen < sched.newest_generation
         \/ stop_requested[w]]_vars

\* ADR 0015: superseded work "will be cancelled before another complete solver
\* step".  Once cancel_before has returned, the solve of an older generation
\* is not about to start another step.
SupersededStops ==
  dpc \notin {"cancel", "cancel slot"} =>
    \A w \in Worker : tpc[w] = "step" /\ request[w].gen < sched.newest_generation =>
      latest_generation[w] > request[w].gen

\* What was submitted is always worked off: unless the daemon is stopped, the
\* rings and the queue run empty and every slot comes back to idle, so with
\* OneOwner every request was answered, superseded or counted as unreported.
Drains ==
  conditions # <<>> ~>
    \/ /\ conditions = <<>> /\ sched.heap = {} /\ actions = <<>>
       /\ \A w \in Worker : state[w] = "kIdle"
    \/ dpc = "stopped"

\* A signal or a shutdown message ends the daemon: stop() wakes every slot's
\* thread wherever it is in run_slot, and the joins return.
StopReturns == signalled ~> dpc = "stopped"
=============================================================================
