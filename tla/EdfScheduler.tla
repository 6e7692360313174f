---------------------------- MODULE EdfScheduler ----------------------------
(***************************************************************************)
(* EdfScheduler (relay/scheduler/edf_scheduler.cc): the bounded queue of   *)
(* the head relay.  The scheduler is called by one thread, so its state is *)
(* one record and each call an operator from a record to the next one and  *)
(* to what the call returns.  A condition message keeps the fields the     *)
(* scheduler reads:                                                        *)
(*   seq (envelope.sequence), gen (metadata.generation),                   *)
(*   deadline (0: none) and nfe (remaining_nfe).                           *)
(* The queue is the set of the messages in the heap's slots, the free list *)
(* its length: which slot holds what cannot be seen from outside.          *)
(***************************************************************************)
EXTENDS Integers, Sequences, FiniteSets

CONSTANTS Capacity,             \* capacity_: slots of storage_
          NanosecondsPerNfe,    \* AdmissionPolicy: 0 disables admission
          ReserveNs,            \* AdmissionPolicy
          Top                   \* the largest std::uint64_t

ASSUME EdfAssumption == /\ Capacity \in Nat \ {0}
                        /\ NanosecondsPerNfe \in Nat
                        /\ ReserveNs \in Nat
                        /\ Top \in Nat

NoMessage == [seq |-> 0, gen |-> 0, deadline |-> 0, nfe |-> 0]

InitScheduler ==
  [heap |-> {}, free_slots |-> Capacity, borrowed |-> 0, newest_generation |-> 0,
   stats |-> [accepted |-> 0, stale |-> 0, unreachable |-> 0, expired |-> 0,
              evicted |-> 0, full |-> 0]]

deadline_key(m) == IF m.deadline = 0 THEN Top ELSE m.deadline

saturating_add(left, right) == IF left > Top - right THEN Top ELSE left + right

saturating_multiply(left, right) ==
  IF right # 0 /\ left > Top \div right THEN Top ELSE left * right

later(left, right) ==
  \/ deadline_key(left) > deadline_key(right)
  \/ /\ deadline_key(left) = deadline_key(right)
     /\ \/ left.gen < right.gen
        \/ left.gen = right.gen /\ left.seq > right.seq

earlier(left, right) == later(right, left)

\* std::ranges::max_element(heap_, earlier) and the top of the heap.
Worst(queue) == CHOOSE x \in queue : \A y \in queue : ~earlier(x, y)
First(queue) == CHOOSE x \in queue : \A y \in queue : ~earlier(y, x)

-----------------------------------------------------------------------------
(***************************************************************************)
(* Admission.  A context is now and active, the work of every lane:        *)
(* active[l] = [gen, nfe], nfe = 0 for a lane that is not at work.         *)
(***************************************************************************)
AvailableAt(m, context) ==
  [l \in DOMAIN context.active |->
     LET active == context.active[l]
     IN  IF active.nfe = 0 \/ active.gen < m.gen THEN context.now
         ELSE saturating_add(context.now, saturating_multiply(active.nfe, NanosecondsPerNfe))]

\* The candidate and the retained finite-deadline jobs, in deadline order.
AdmissionJobs(s, m) ==
  LET displaced == IF Cardinality(s.heap) >= Capacity /\ earlier(m, Worst(s.heap))
                   THEN {Worst(s.heap)} ELSE {}
      jobs == {m} \cup {q \in s.heap \ displaced : q.gen >= m.gen /\ q.deadline # 0}
  IN  CHOOSE order \in [1..Cardinality(jobs) -> jobs] :
        \A i, j \in 1..Cardinality(jobs) : i < j => earlier(order[i], order[j])

\* Mutation: the reserve is not asked for.
PlaceWithoutReserve(available, job) ==
  LET lane == CHOOSE l \in DOMAIN available :
                \A k \in DOMAIN available : available[l] <= available[k]
      finish == available[lane] + saturating_multiply(job.nfe, NanosecondsPerNfe)
  IN  IF finish > job.deadline THEN <<>> ELSE [available EXCEPT ![lane] = finish]

\* One job on the lane that is available first: the lanes after it, or
\* <<>> when the job and the reserve do not fit before its deadline.
Place(available, job) ==
  LET lane == CHOOSE l \in DOMAIN available :
                \A k \in DOMAIN available : available[l] <= available[k]
      duration == saturating_multiply(job.nfe, NanosecondsPerNfe)
      finish == available[lane] + duration
  IN  IF \/ available[lane] > job.deadline
         \/ duration > job.deadline - available[lane]
         \/ ReserveNs > job.deadline - finish
      THEN <<>>
      ELSE [available EXCEPT ![lane] = finish]

admissible(s, m, context) ==
  \/ NanosecondsPerNfe = 0 \/ context.now = 0 \/ m.deadline = 0
  \/ /\ m.deadline > context.now
     /\ LET jobs == AdmissionJobs(s, m)
            lanes[k \in 0..Len(jobs)] ==
              IF k = 0 THEN AvailableAt(m, context)
              ELSE IF lanes[k - 1] = <<>> THEN <<>> ELSE Place(lanes[k - 1], jobs[k])
        IN  lanes[Len(jobs)] # <<>>

-----------------------------------------------------------------------------
\* Mutation: the borrowed slot is forgotten instead of freed.
BorrowedLost(s) == [s EXCEPT !.borrowed = 0]

release_borrowed(s) == [s EXCEPT !.free_slots = @ + s.borrowed, !.borrowed = 0]

\* A newer generation prunes every queued request older than itself.
AdvanceGeneration(s, generation) ==
  IF generation <= s.newest_generation THEN s
  ELSE LET old == {x \in s.heap : x.gen < generation}
       IN  [s EXCEPT !.newest_generation = generation, !.heap = @ \ old,
                     !.free_slots = @ + Cardinality(old),
                     !.stats.stale = @ + Cardinality(old)]

\* submit of a message that validates: the scheduler after it, the result
\* and the request that was displaced (NoMessage when none was).
submit(s0, m, context) ==
  LET s == release_borrowed(s0)
      Is(sched, result, displaced) ==
        [sched |-> sched, result |-> result, displaced |-> displaced]
  IN  IF m.gen < s.newest_generation
      THEN Is([s EXCEPT !.stats.stale = @ + 1], "kStale", NoMessage)
      ELSE IF ~admissible(s, m, context)
      THEN Is([s EXCEPT !.stats.unreachable = @ + 1], "kDeadlineUnreachable", NoMessage)
      ELSE LET t == AdvanceGeneration(s, m.gen)
           IN  IF Cardinality(t.heap) < Capacity
               THEN Is([t EXCEPT !.heap = @ \cup {m}, !.free_slots = @ - 1,
                                 !.stats.accepted = @ + 1], "kAccepted", NoMessage)
               ELSE IF earlier(m, Worst(t.heap))
               THEN Is([t EXCEPT !.heap = (@ \ {Worst(t.heap)}) \cup {m},
                                 !.stats.accepted = @ + 1, !.stats.evicted = @ + 1],
                       "kAcceptedAndEvicted", Worst(t.heap))
               ELSE Is([t EXCEPT !.stats.full = @ + 1], "kFull", NoMessage)

\* pop with a place for a rejection: stale requests are skipped, the first
\* other one is lent to the caller, or reported when it has expired.
pop(s0, now) ==
  LET s == release_borrowed(s0)
      live == {x \in s.heap : x.gen >= s.newest_generation}
      m == First(live)
      stale == {x \in s.heap \ live : live = {} \/ ~earlier(m, x)}
      skipped == [s EXCEPT !.heap = @ \ stale, !.free_slots = @ + Cardinality(stale),
                           !.stats.stale = @ + Cardinality(stale)]
      Is(sched, request, rejection) ==
        [sched |-> sched, request |-> request, rejection |-> rejection]
  IN  IF live = {} THEN Is(skipped, NoMessage, NoMessage)
      ELSE IF m.deadline # 0 /\ m.deadline <= now
      THEN Is([skipped EXCEPT !.heap = @ \ {m}, !.free_slots = @ + 1, !.stats.expired = @ + 1],
              NoMessage, m)
      ELSE Is([skipped EXCEPT !.heap = @ \ {m}, !.borrowed = 1], m, NoMessage)
=============================================================================
