----------------------------- MODULE ThreadPool -----------------------------
(***************************************************************************)
(* core/arena: the engine's worker pool.  One owner thread splits a loop   *)
(* into tasks, publishes them through a single-producer multi-consumer     *)
(* ring with one sequence number per slot, and spins until none is         *)
(* pending; workers pop, spin a while when the ring is empty, and then     *)
(* sleep on an epoch counter.  A step ends where another thread can see or *)
(* change what the next one reads.  Only the owner reads head_ and         *)
(* pending_, and only it takes a slot's sequence away from the value that  *)
(* try_push waits for, so raising pending_, that test and filling the slot *)
(* are one step.  Positions start at zero and have 64 bits: they grow      *)
(* without bound here.                                                     *)
(*                                                                         *)
(* compare_exchange_weak may also fail spuriously; it then reloads tail_   *)
(* and repeats the test it has just passed, so that outcome adds no state. *)
(***************************************************************************)
EXTENDS Integers, FiniteSets

CONSTANTS
    Worker,        \* worker threads
    RingSize,      \* slots of the task ring
    IdleSpin,      \* k_idle_spin
    Loops,         \* [total, task_count] of the parallel_for calls made
    Bursts,        \* the same of tasks given to enqueue() directly
    MaxCalls,      \* bound: calls of both kinds
    MaxTasks       \* bound: tasks put into the ring by all of them

Totals == {f.total : f \in Loops \cup Bursts}
MaxTotal == CHOOSE n \in Totals : \A t \in Totals : t <= n

(* has_single_bit(): the number of slots is a power of two.  There are       *)
(* finitely many workers, and some call is the largest.                      *)
ASSUME PoolAssumption ==
    /\ IsFiniteSet(Worker)
    /\ RingSize \in Nat /\ \E k \in 0 .. RingSize : RingSize = 2 ^ k
    /\ Loops \subseteq [total : Nat, task_count : Nat]
    /\ Bursts \subseteq [total : Nat, task_count : Nat \ {0, 1}]
    /\ \E n \in Totals : \A t \in Totals : t <= n
    /\ IdleSpin \in Nat /\ MaxCalls \in Nat /\ MaxTasks \in Nat

VARIABLES
    head, tail, sequence, slots,       \* SpmcRing
    pending, work_epoch, stop,         \* ThreadPool
    owner,                             \* where the owner thread stands
    call, total, count, chunk,         \* the owner's parallel_for
    pc, pos, task, observed, spins,    \* per worker
    ran                                \* history: times each index was run

ring    == <<head, tail, sequence, slots>>
pool    == <<pending, work_epoch, stop>>
loop    == <<call, total, count, chunk>>
workers == <<pc, pos, task, observed, spins>>
vars    == <<ring, pool, owner, loop, workers, ran>>

Slot == 0 .. RingSize - 1
NoTask == [call |-> 0, lo |-> 0, hi |-> 0]
At(p) == p % RingSize

Init ==
    /\ head = 0 /\ tail = 0
    /\ sequence = [s \in Slot |-> s]
    /\ slots = [s \in Slot |-> NoTask]
    /\ pending = 0 /\ work_epoch = 0 /\ stop = FALSE
    /\ owner = "idle"
    /\ call = 0 /\ total = 0 /\ count = 0 /\ chunk = 0
    /\ pc = [w \in Worker |-> "pop"]
    /\ pos = [w \in Worker |-> 0]
    /\ task = [w \in Worker |-> NoTask]
    /\ observed = [w \in Worker |-> 0]
    /\ spins = [w \in Worker |-> 0]
    /\ ran = [i \in 0 .. MaxTotal - 1 |-> 0]

Covers(t, i) == t.call = call /\ t.lo <= i /\ i < t.hi

-----------------------------------------------------------------------------
(* parallel_for: how the iterations are cut.                               *)

Least(S) == CHOOSE m \in S : \A n \in S : m <= n
TaskCount(t, wanted) == Least({Cardinality(Worker), wanted, t})
ChunkSize == (total + count - 1) \div count
Lo == chunk * ChunkSize
Hi == Least({Lo + ChunkSize, total})
MoreChunks == chunk < count /\ Lo < total
ThisTask == [call |-> call, lo |-> Lo, hi |-> Hi]

(* The call begins.  One task or none is run by the owner itself, which    *)
(* touches nothing of the pool.                                            *)
ParallelFor(f) ==
    /\ owner = "idle" /\ call < MaxCalls
    /\ call' = call + 1 /\ total' = f.total /\ chunk' = 0
    /\ count' = TaskCount(f.total, f.task_count)
    /\ count' > 1 /\ head + count' <= MaxTasks
    /\ owner' = "chunk" /\ ran' = [i \in DOMAIN ran |-> 0]
    /\ UNCHANGED <<ring, pool, workers>>

(* A caller of its own: it enqueues its tasks, again when the ring is full, *)
(* and waits for all of them.  There may be more of them than workers.     *)
Burst(f) ==
    /\ owner = "idle" /\ call < MaxCalls /\ head + f.task_count <= MaxTasks
    /\ call' = call + 1 /\ total' = f.total /\ chunk' = 0 /\ count' = f.task_count
    /\ owner' = "chunk" /\ ran' = [i \in DOMAIN ran |-> 0]
    /\ UNCHANGED <<ring, pool, workers>>

(* enqueue(): pending_ is raised before the task can be seen.  A full ring *)
(* takes the count back and the caller spins, which changes nothing.       *)
SlotFree == sequence[At(head)] = head

Enqueue ==
    /\ owner = "chunk" /\ MoreChunks /\ SlotFree
    /\ pending' = pending + 1
    /\ slots' = [slots EXCEPT ![At(head)] = ThisTask]
    /\ owner' = "publish"
    /\ UNCHANGED <<head, tail, sequence, work_epoch, stop, loop, workers, ran>>

Publish ==
    /\ owner = "publish"
    /\ sequence' = [sequence EXCEPT ![At(head)] = head + 1]
    /\ head' = head + 1
    /\ owner' = "epoch"
    /\ UNCHANGED <<tail, slots, pool, loop, workers, ran>>

AdvanceEpoch ==
    /\ owner = "epoch"
    /\ work_epoch' = work_epoch + 1
    /\ owner' = "notify"
    /\ UNCHANGED <<ring, pending, stop, loop, workers, ran>>

Asleep == {w \in Worker : pc[w] = "asleep"}
Wake(W) == pc' = [w \in Worker |-> IF w \in W THEN "wait" ELSE pc[w]]

NotifyOne ==
    /\ owner = "notify"
    /\ \/ Asleep = {} /\ UNCHANGED pc
       \/ \E w \in Asleep : Wake({w})
    /\ chunk' = chunk + 1
    /\ owner' = "chunk"
    /\ UNCHANGED <<ring, pool, call, total, count, pos, task, observed, spins, ran>>

(* wait(): the barrier at the end of the call. *)
RingEmpty == head = tail
NonePending == pending = 0

Wait ==
    /\ owner = "chunk" /\ ~ MoreChunks
    /\ NonePending
    /\ owner' = "idle"
    /\ UNCHANGED <<ring, pool, loop, workers, ran>>

(* ~ThreadPool().                                                          *)
Stop ==
    /\ owner = "idle"
    /\ stop' = TRUE
    /\ owner' = "stop_epoch"
    /\ UNCHANGED <<ring, pending, work_epoch, loop, workers, ran>>

StopEpoch ==
    /\ owner = "stop_epoch"
    /\ work_epoch' = work_epoch + 1
    /\ owner' = "stop_notify"
    /\ UNCHANGED <<ring, pending, stop, loop, workers, ran>>

NotifyAllWakesOne ==
    /\ owner = "stop_notify"
    /\ \/ Asleep = {} /\ UNCHANGED pc
       \/ \E w \in Asleep : Wake({w})
    /\ owner' = "join"
    /\ UNCHANGED <<ring, pool, loop, pos, task, observed, spins, ran>>

NotifyAll ==
    /\ owner = "stop_notify"
    /\ Wake(Asleep)
    /\ owner' = "join"
    /\ UNCHANGED <<ring, pool, loop, pos, task, observed, spins, ran>>

Join ==
    /\ owner = "join"
    /\ \A w \in Worker : pc[w] = "exit"
    /\ owner' = "joined"
    /\ UNCHANGED <<ring, pool, loop, workers, ran>>

-----------------------------------------------------------------------------
(* worker_loop().  A worker whose idle spins are used up reads the epoch   *)
(* and tries the ring once more before it sleeps; idle_spins has then been *)
(* raised past its limit, which tells the second try from the first.       *)

Goto(w, where) == pc' = [pc EXCEPT ![w] = where]
Second(w) == spins[w] > IdleSpin

(* try_pop: load tail_.                                                    *)
PopLoad(w) ==
    /\ pc[w] = "pop"
    /\ pos' = [pos EXCEPT ![w] = tail]
    /\ Goto(w, "pop_test")
    /\ UNCHANGED <<ring, pool, owner, loop, task, observed, spins, ran>>

PopTest(w) ==
    /\ pc[w] = "pop_test"
    /\ Goto(w, IF sequence[At(pos[w])] = pos[w] + 1 THEN "pop_claim" ELSE "empty")
    /\ UNCHANGED <<ring, pool, owner, loop, pos, task, observed, spins, ran>>

ClaimUnchecked(w) == TRUE
Unclaimed(w) == tail = pos[w]

(* compare_exchange: claim the position, or go on with the current tail.   *)
PopClaim(w) ==
    /\ pc[w] = "pop_claim"
    /\ IF Unclaimed(w)
       THEN tail' = tail + 1 /\ Goto(w, "pop_read") /\ UNCHANGED pos
       ELSE pos' = [pos EXCEPT ![w] = tail] /\ Goto(w, "pop_test") /\ UNCHANGED tail
    /\ UNCHANGED <<head, sequence, slots, pool, owner, loop, task, observed, spins, ran>>

PopRead(w) ==
    /\ pc[w] = "pop_read"
    /\ task' = [task EXCEPT ![w] = slots[At(pos[w])]]
    /\ Goto(w, "run")
    /\ UNCHANGED <<ring, pool, owner, loop, pos, observed, spins, ran>>

(* The slot is free again and the task runs; its code touches nothing of   *)
(* the pool.                                                               *)
RunTask(w) ==
    /\ pc[w] = "run"
    /\ sequence' = [sequence EXCEPT ![At(pos[w])] = pos[w] + RingSize]
    /\ ran' = [i \in DOMAIN ran |-> IF Covers(task[w], i) THEN ran[i] + 1 ELSE ran[i]]
    /\ Goto(w, "done")
    /\ UNCHANGED <<head, tail, slots, pool, owner, loop, pos, task, observed, spins>>

Finish(w) ==
    /\ pc[w] = "done"
    /\ pending' = pending - 1
    /\ task' = [task EXCEPT ![w] = NoTask]
    /\ spins' = [spins EXCEPT ![w] = 0]
    /\ Goto(w, "pop")
    /\ UNCHANGED <<ring, work_epoch, stop, owner, loop, pos, observed, ran>>

(* The ring was empty: leave, spin, read the epoch for a last try, or wait. *)
Empty(w) ==
    /\ pc[w] = "empty"
    /\ IF stop THEN Goto(w, "exit") /\ UNCHANGED spins
       ELSE IF Second(w) THEN Goto(w, "wait") /\ UNCHANGED spins
       ELSE /\ spins' = [spins EXCEPT ![w] = @ + 1]
            /\ Goto(w, IF spins[w] < IdleSpin THEN "pop" ELSE "load_epoch")
    /\ UNCHANGED <<ring, pool, owner, loop, pos, task, observed, ran>>

LoadEpoch(w) ==
    /\ pc[w] = "load_epoch"
    /\ observed' = [observed EXCEPT ![w] = work_epoch]
    /\ Goto(w, "pop")
    /\ UNCHANGED <<ring, pool, owner, loop, pos, task, spins, ran>>

(* atomic::wait returns only when the value differs from the one observed; *)
(* a notification makes a sleeper compare again.                           *)
EpochWait(w) ==
    /\ pc[w] = "wait"
    /\ IF work_epoch # observed[w]
       THEN Goto(w, "pop") /\ spins' = [spins EXCEPT ![w] = 0]
       ELSE Goto(w, "asleep") /\ UNCHANGED spins
    /\ UNCHANGED <<ring, pool, owner, loop, pos, task, observed, ran>>

InCall ==
    \/ Enqueue \/ Publish \/ AdvanceEpoch \/ NotifyOne \/ Wait
    \/ StopEpoch \/ NotifyAll \/ Join

WorkerStep(w) ==
    \/ PopLoad(w) \/ PopTest(w) \/ PopClaim(w) \/ PopRead(w)
    \/ RunTask(w) \/ Finish(w) \/ Empty(w) \/ LoadEpoch(w) \/ EpochWait(w)

Next ==
    \/ \E f \in Loops : ParallelFor(f)
    \/ \E f \in Bursts : Burst(f)
    \/ Stop
    \/ InCall
    \/ \E w \in Worker : WorkerStep(w)

(* Each thread keeps running while it is inside a call. *)
Spec == Init /\ [][Next]_vars /\ WF_vars(InCall)
             /\ \A w \in Worker : WF_vars(WorkerStep(w))

-----------------------------------------------------------------------------
(* Properties.                                                             *)

Tasks == [call : 0 .. MaxCalls, lo : 0 .. MaxTotal, hi : 0 .. MaxTotal]

(* Every variable keeps its type; pending_, unsigned in the code, never    *)
(* drops below zero.                                                       *)
TypeOK ==
    /\ head \in Nat /\ tail \in 0 .. head
    /\ sequence \in [Slot -> Nat] /\ slots \in [Slot -> Tasks]
    /\ pending \in Nat /\ work_epoch \in Nat /\ stop \in BOOLEAN
    /\ owner \in {"idle", "chunk", "publish", "epoch", "notify", "stop_epoch", "stop_notify",
                  "join", "joined"}
    /\ call \in 0 .. MaxCalls /\ total \in 0 .. MaxTotal
    /\ count \in Nat /\ chunk \in 0 .. count
    /\ pc \in [Worker -> {"pop", "pop_test", "pop_claim", "pop_read", "run", "done",
                          "empty", "load_epoch", "wait", "asleep", "exit"}]
    /\ pos \in [Worker -> Nat] /\ task \in [Worker -> Tasks]
    /\ observed \in [Worker -> Nat] /\ spins \in [Worker -> 0 .. IdleSpin + 1]
    /\ ran \in [0 .. MaxTotal - 1 -> Nat]

Queued == {slots[At(tail + k)] : k \in 0 .. head - tail - 1}
Holding == {w \in Worker : pc[w] \in {"pop_read", "run"}}
Held(w) == IF pc[w] = "pop_read" THEN slots[At(pos[w])] ELSE task[w]

Handed(i) ==
    \/ i < Lo
    \/ owner \in {"epoch", "notify"} /\ i < Hi

(* Every index of the current call that has been handed to the             *)
(* pool is in exactly one place: run once, in one slot of the ring, or     *)
(* with one worker.  No task is lost, popped twice or overwritten before   *)
(* it is read, whatever the workers' interleaving in try_pop.              *)
EachIndexOnce ==
    \A i \in 0 .. total - 1 :
        ran[i] + Cardinality({t \in Queued : Covers(t, i)})
               + Cardinality({w \in Holding : Covers(Held(w), i)})
        = IF Handed(i) THEN 1 ELSE 0

(* enqueue: "false if the ring is full" (thread_pool.h).  A slot try_push  *)
(* has chosen holds no task that is still queued, and no worker that has   *)
(* claimed one has yet to copy it out of there.                            *)
FullIsReported ==
    owner = "publish" =>
        /\ head - tail < RingSize
        /\ \A w \in Worker : pc[w] = "pop_read" => At(pos[w]) # At(head)

(* No task is lost, run twice or overwritten between enqueue and its run.    *)
TasksKept == TypeOK /\ EachIndexOnce /\ FullIsReported

(* When parallel_for has returned, every iteration has been run exactly    *)
(* once and no worker or slot still refers to the caller's function: the   *)
(* pending_ count is a barrier (its increment precedes the publish and its *)
(* decrement follows the run).                                             *)
ReturnIsBarrier ==
    owner = "idle" =>
        /\ \A i \in 0 .. total - 1 : ran[i] = 1
        /\ Holding = {} /\ Queued = {}

(* A call returns, also when the ring is full on the way.                  *)
CallReturns == owner = "chunk" ~> owner = "idle"

(* ~ThreadPool() joins: no worker sleeps through the stop.                 *)
DestructorJoins == stop ~> owner = "joined"

(* A call returns and the destructor joins: no full ring, no spinning and    *)
(* no sleeping worker keeps the owner waiting for ever.                      *)
Terminates == CallReturns /\ DestructorJoins
=============================================================================
