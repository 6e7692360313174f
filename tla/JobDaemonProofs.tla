--------------------------- MODULE JobDaemonProofs ---------------------------
(***************************************************************************)
(* Proofs about JobDaemon, for every number of lanes, every capacity and   *)
(* any traffic.                                                            *)
(***************************************************************************)
EXTENDS JobDaemon, FiniteSetTheorems, TLAPS

USE SMTT(20), ZenonT(20)

(* Numbers.                                                                *)

LEMMA OneRecordedMore ==
  ASSUME NEW e \in Nat, NEW k \in Nat, NEW n \in Nat, NEW m \in {n, n + 1}
  PROVE  (e + k) - m \in {((e - n) + k) - 1, (e - n) + k}
OBVIOUS

(* Sequences.                                                              *)

LEMMA SeqElement == ASSUME NEW S, NEW s \in Seq(S), NEW i \in 1..Len(s) PROVE s[i] \in S
OBVIOUS

LEMMA SeqEmpty ==
  ASSUME NEW S
  PROVE  /\ <<>> \in Seq(S) /\ Len(<<>>) = 0
         /\ \A s \in Seq(S) : s # <<>> => Len(s) \in Nat \ {0}
OBVIOUS

LEMMA SeqLen ==
  ASSUME NEW S, NEW s \in Seq(S)
  PROVE  Len(s) \in Nat /\ s \in [1..Len(s) -> S] /\ DOMAIN s = 1..Len(s)
OBVIOUS

LEMMA SeqSame ==
  ASSUME NEW S, NEW s \in Seq(S), NEW t \in Seq(S), Len(s) = Len(t),
         \A i \in 1..Len(s) : s[i] = t[i]
  PROVE  s = t
OBVIOUS

LEMMA Joined ==
  ASSUME NEW S, NEW s \in Seq(S), NEW t \in Seq(S)
  PROVE  /\ s \o t \in Seq(S) /\ Len(s \o t) = Len(s) + Len(t)
         /\ \A i \in 1..Len(s) + Len(t) :
              (s \o t)[i] = IF i <= Len(s) THEN s[i] ELSE t[i - Len(s)]
OBVIOUS

LEMMA JoinedEmpty == ASSUME NEW S, NEW s \in Seq(S) PROVE s \o <<>> = s /\ <<>> \o s = s
OBVIOUS

LEMMA JoinedTwice ==
  ASSUME NEW S, NEW s \in Seq(S), NEW t \in Seq(S), NEW u \in Seq(S)
  PROVE  (s \o t) \o u = s \o (t \o u)
OBVIOUS

LEMMA Slice ==
  ASSUME NEW S, NEW s, NEW m \in Int, NEW n \in Int, \A i \in m..n : s[i] \in S
  PROVE  /\ SubSeq(s, m, n) \in Seq(S)
         /\ Len(SubSeq(s, m, n)) = IF m <= n THEN n - m + 1 ELSE 0
         /\ \A i \in 1..n - m + 1 : SubSeq(s, m, n)[i] = s[m + i - 1]
OBVIOUS

LEMMA HeadAndTail ==
  ASSUME NEW S, NEW s \in Seq(S), s # <<>>
  PROVE  /\ Head(s) \in S /\ Tail(s) \in Seq(S) /\ Len(Tail(s)) = Len(s) - 1
         /\ \A i \in 1..Len(Tail(s)) : Tail(s)[i] = s[i + 1]
OBVIOUS

LEMMA Appended ==
  ASSUME NEW S, NEW s \in Seq(S), NEW e \in S
  PROVE  /\ Append(s, e) \in Seq(S) /\ Append(s, e) # <<>> /\ Len(Append(s, e)) = Len(s) + 1
         /\ \A i \in 1..Len(s) : Append(s, e)[i] = s[i]
         /\ Append(s, e)[Len(s) + 1] = e
OBVIOUS

LEMMA AppendedJoins ==
  ASSUME NEW S, NEW s \in Seq(S), NEW e \in S PROVE Append(s, e) = s \o <<e>>
OBVIOUS

(***************************************************************************)
(* The pool.                                                               *)
(***************************************************************************)
Codes == {"none", "kComplete", "kCancelled", "kFailed", "kRejectedStale"}
LaneRecord == [state : {"kIdle", "kRunning", "kReady", "kDrained"}, job : Jobs \cup {NoJob},
               failed : BOOLEAN, code : Codes]
Queues == Seq(Jobs)
LaneTable == [Lanes -> LaneRecord]
PoolRecord == [queue : Queues, lane : LaneTable, draining : SUBSET Lanes,
               quarantined : SUBSET Lanes, failures : [Lanes -> Nat],
               ready_index : Lanes \cup {NoLane}, watermark : Nat, events : Nat, owed : Int,
               skipped : Nat]

PoolBounds(p) == Len(p.queue) <= QueueCapacity /\ p.events <= EventCapacity

\* What stands of a lane: it holds a job exactly while it runs it or offers its
\* result, and a lane that was drained is still draining.
LaneFits(lane, drains) ==
  /\ lane.job = NoJob <=> lane.state \in {"kIdle", "kDrained"}
  /\ lane.state = "kDrained" => drains

LanesFit(p) == \A l \in Lanes : LaneFits(p.lane[l], l \in p.draining)

ReadyFits(p) == p.ready_index # NoLane => p.lane[p.ready_index].state = "kReady"

\* No job is in two places of the pool.
QueueOnce(p) == \A i, k \in 1..Len(p.queue) : p.queue[i] = p.queue[k] => i = k
LanesOnce(p) == \A l, k \in Lanes : p.lane[l].job = p.lane[k].job => l = k \/ p.lane[l].job = NoJob
QueueOrLane(p) == \A i \in 1..Len(p.queue), l \in Lanes : p.queue[i] # p.lane[l].job

PoolInv(p) ==
  /\ p \in PoolRecord /\ PoolBounds(p)
  /\ LanesFit(p) /\ ReadyFits(p) /\ p.quarantined \subseteq p.draining
  /\ QueueOnce(p) /\ LanesOnce(p) /\ QueueOrLane(p)

\* What no call that takes or gives back a job changes: the jobs owned and the
\* events not accounted for.
SameJobs(p, q) == \A j \in Jobs : j \in Owned(q) <=> j \in Owned(p)
SameDebt(p, q) == q.owed - (q.events + q.skipped) = p.owed - (p.events + p.skipped)

\* What a client sends.
JobMessage == [kind : {"job", "corrupt", "shutdown"}, job : Nat]
OrderMessage == [sequence : Nat, operation : Operations, worker : Nat]

LEMMA MessageFacts ==
  ASSUME NEW s \in Scripts, NEW i \in 1..Len(s.jobs)
  PROVE  /\ s.jobs \in Seq(JobMessage) /\ s.jobs[i] \in JobMessage /\ s.jobs[i].job \in Nat
         /\ s.jobs[i].kind = "job" => /\ s.jobs[i].job # NoJob /\ s.jobs[i].job \in Jobs
                                      /\ Generation[s.jobs[i].job] \in Nat
<1>1. s.jobs \in Seq(JobMessage)
  BY TrafficAssumption, Zenon DEF JobMessage
<1>2. i \in DOMAIN s.jobs /\ s.jobs[i] \in JobMessage
  BY <1>1
<1>3. s.jobs[i].job \in Nat
  BY <1>2 DEF JobMessage
<1>4. s.jobs[i].kind = "job" => s.jobs[i].job # NoJob /\ Generation[s.jobs[i].job] \in Nat
  BY <1>2, TrafficAssumption, Zenon
<1>5. s.jobs[i].kind = "job" => s.jobs[i].job \in Jobs
  <2> SUFFICES ASSUME s.jobs[i].kind = "job" PROVE s.jobs[i].job \in Jobs
    OBVIOUS
  <2>1. i \in {k \in DOMAIN s.jobs : s.jobs[k].kind = "job"}
    BY <1>2
  <2> DEFINE Of(t) == {t.jobs[k].job : k \in {k \in DOMAIN t.jobs : t.jobs[k].kind = "job"}}
  <2>2. s.jobs[i].job \in Of(s)
    BY <2>1, Zenon
  <2>3. Jobs = UNION {Of(t) : t \in Scripts}
    BY Zenon DEF Jobs
  <2> HIDE DEF Of
  <2> QED
    BY <2>2, <2>3, Zenon
<1> QED
  BY <1>1, <1>2, <1>3, <1>4, <1>5

LEMMA JobsFacts == NoJob \notin Jobs /\ Jobs \subseteq Nat /\ \A j \in Jobs : Generation[j] \in Nat
<1> SUFFICES ASSUME NEW j \in Jobs PROVE j # NoJob /\ j \in Nat /\ Generation[j] \in Nat
  BY Zenon
<1>1. PICK s \in Scripts : j \in {s.jobs[i].job : i \in {i \in DOMAIN s.jobs : s.jobs[i].kind = "job"}}
  BY Zenon DEF Jobs
<1>2. PICK i \in DOMAIN s.jobs : s.jobs[i].kind = "job" /\ j = s.jobs[i].job
  BY <1>1, Zenon
<1>3. s.jobs \in Seq(JobMessage)
  BY TrafficAssumption, Zenon DEF JobMessage
<1>4. i \in 1..Len(s.jobs)
  BY <1>3
<1> QED
  BY <1>2, <1>4, MessageFacts, Zenon

LEMMA OwnedFacts ==
  ASSUME NEW p, NEW j \in Jobs
  PROVE  j \in Owned(p) <=> (\E i \in 1..Len(p.queue) : p.queue[i] = j)
                            \/ (\E l \in Lanes : p.lane[l].job = j)
BY JobsFacts, Zenon DEF Owned

LEMMA PoolFields ==
  ASSUME NEW p \in PoolRecord
  PROVE  /\ p.queue \in Seq(Jobs) /\ p.lane \in [Lanes -> LaneRecord] /\ p.draining \subseteq Lanes
         /\ p.quarantined \subseteq Lanes /\ p.failures \in [Lanes -> Nat]
         /\ p.ready_index \in Lanes \cup {NoLane} /\ p.events \in Nat /\ p.owed \in Int
         /\ p.watermark \in Nat /\ p.skipped \in Nat
BY DEF PoolRecord, Queues, LaneTable

LEMMA LaneFields ==
  ASSUME NEW p \in PoolRecord, NEW l \in Lanes
  PROVE  /\ p.lane[l] \in LaneRecord
         /\ p.lane[l].state \in {"kIdle", "kRunning", "kReady", "kDrained"}
         /\ p.lane[l].job \in Jobs \cup {NoJob} /\ p.lane[l].failed \in BOOLEAN
         /\ p.lane[l].code \in Codes
BY PoolFields DEF LaneRecord

\* q is p but for the events.
Emitted(p, q) ==
  /\ q \in PoolRecord /\ q.queue = p.queue /\ q.lane = p.lane /\ q.draining = p.draining
  /\ q.quarantined = p.quarantined /\ q.ready_index = p.ready_index
  /\ q.watermark = p.watermark /\ PoolBounds(q) /\ SameDebt(p, q)

LEMMA EmitsFields ==
  ASSUME NEW p \in PoolRecord, NEW n \in Nat, PoolBounds(p)
  PROVE  Emitted(p, emits(p, n))
<1> DEFINE kept == IF n < EventCapacity - p.events THEN n ELSE EventCapacity - p.events
           q == [p EXCEPT !.owed = @ + kept, !.events = @ + kept]
<1>1. emits(p, n) = q
  BY DEF emits
<1>2. /\ p.events \in Nat /\ p.owed \in Int /\ p.events <= EventCapacity /\ EventCapacity \in Nat
      /\ p.skipped \in Nat
  BY PoolFields, PoolAssumption DEF PoolBounds
<1>3. kept \in Nat /\ p.events + kept <= EventCapacity
  BY <1>2
<1> HIDE DEF kept
<1>4. /\ q.queue = p.queue /\ q.lane = p.lane /\ q.draining = p.draining
      /\ q.quarantined = p.quarantined /\ q.ready_index = p.ready_index
      /\ q.events = p.events + kept /\ q.owed = p.owed + kept /\ q.skipped = p.skipped
      /\ q.watermark = p.watermark
  BY DEF PoolRecord
<1>5. p.events + kept \in Nat /\ p.owed + kept \in Int
  BY <1>2, <1>3
<1>6. q \in PoolRecord
  BY <1>5, Zenon DEF PoolRecord
<1> HIDE DEF q
<1>7. PoolBounds(q) /\ SameDebt(p, q)
  BY <1>2, <1>3, <1>4 DEF PoolBounds, SameDebt
<1> QED
  BY <1>1, <1>4, <1>6, <1>7, Zenon DEF Emitted

\* A call that moves no job.
LEMMA NoJobMoves ==
  ASSUME NEW p, NEW q, PoolInv(p), q \in PoolRecord, PoolBounds(q), q.queue = p.queue,
         \A l \in Lanes : q.lane[l].job = p.lane[l].job,
         LanesFit(q), ReadyFits(q), q.quarantined \subseteq q.draining
  PROVE  PoolInv(q) /\ SameJobs(p, q)
<1>1. QueueOnce(q)
  BY Zenon DEF PoolInv, QueueOnce
<1>2. LanesOnce(q)
  <2>1. LanesOnce(p)
    BY DEF PoolInv
  <2> QED
    BY <2>1, Zenon DEF LanesOnce
<1>3. QueueOrLane(q)
  <2>1. QueueOrLane(p)
    BY DEF PoolInv
  <2> QED
    BY <2>1, Zenon DEF QueueOrLane
<1>4. SameJobs(p, q)
  <2> SUFFICES ASSUME NEW j \in Jobs PROVE j \in Owned(q) <=> j \in Owned(p)
    BY Zenon DEF SameJobs
  <2>1. j \in Owned(p) <=> (\E i \in 1..Len(p.queue) : p.queue[i] = j)
                           \/ (\E l \in Lanes : p.lane[l].job = j)
    BY OwnedFacts, Zenon
  <2>2. j \in Owned(q) <=> (\E i \in 1..Len(q.queue) : q.queue[i] = j)
                           \/ (\E l \in Lanes : q.lane[l].job = j)
    BY OwnedFacts, Zenon
  <2> QED
    BY <2>1, <2>2, Zenon
<1> QED
  BY <1>1, <1>2, <1>3, <1>4, Zenon DEF PoolInv

\* A call that touches no lane either.
LEMMA AlikePools ==
  ASSUME NEW p, NEW q, PoolInv(p), q \in PoolRecord, PoolBounds(q), q.queue = p.queue,
         q.lane = p.lane, p.draining \subseteq q.draining, q.quarantined \subseteq q.draining,
         q.ready_index = p.ready_index
  PROVE  PoolInv(q) /\ SameJobs(p, q)
<1>1. LanesFit(p) /\ ReadyFits(p)
  BY DEF PoolInv
<1>2. LanesFit(q) /\ ReadyFits(q)
  BY <1>1, Zenon DEF LanesFit, LaneFits, ReadyFits
<1>3. \A l \in Lanes : q.lane[l].job = p.lane[l].job
  BY Zenon
<1> QED
  BY <1>2, <1>3, NoJobMoves, Zenon

LEMMA EmitsKeeps ==
  ASSUME NEW p, PoolInv(p), NEW n \in Nat
  PROVE  PoolInv(emits(p, n)) /\ SameJobs(p, emits(p, n)) /\ SameDebt(p, emits(p, n))
<1>1. p \in PoolRecord /\ PoolBounds(p) /\ p.quarantined \subseteq p.draining
  BY DEF PoolInv
<1>2. Emitted(p, emits(p, n))
  BY <1>1, EmitsFields, Zenon
<1>3. /\ p.draining \subseteq emits(p, n).draining
      /\ emits(p, n).quarantined \subseteq emits(p, n).draining
  BY <1>1, <1>2, Zenon DEF Emitted
<1>4. PoolInv(emits(p, n)) /\ SameJobs(p, emits(p, n))
  BY <1>2, <1>3, AlikePools, Zenon DEF Emitted
<1> QED
  BY <1>2, <1>4, Zenon DEF Emitted

(***************************************************************************)
(* pump: the first jobs of the queue go to idle lanes, one each.           *)
(***************************************************************************)
LEMMA TakersFacts ==
  ASSUME NEW p \in PoolRecord
  PROVE  /\ Due(p) \in Nat /\ Due(p) <= Len(p.queue)
         /\ Takers(p) \in [1..Due(p) -> Idle(p)]
         /\ \A i, j \in 1..Due(p) : Takers(p)[i] = Takers(p)[j] => i = j
<1> DEFINE c == Cardinality(Idle(p))
<1>1. IsFiniteSet(Idle(p))
  BY FS_Subset, PoolAssumption, Zenon DEF Idle
<1>2. c \in Nat /\ ExistsBijection(1..c, Idle(p))
  BY <1>1, FS_CardinalityType, Zenon
<1>3. PICK g \in [1..c -> Idle(p)] : \A i, j \in 1..c : g[i] = g[j] => i = j
  BY <1>2, Zenon DEF ExistsBijection, Bijection, Injection, IsInjective
<1>4. Len(p.queue) \in Nat
  BY PoolFields
<1> HIDE DEF c
<1>5. Due(p) \in Nat /\ Due(p) <= Len(p.queue) /\ Due(p) <= c
  BY <1>2, <1>4 DEF Due, c
<1> DEFINE f == [i \in 1..Due(p) |-> g[i]]
<1>6. \A i \in 1..Due(p) : i \in 1..c
  BY <1>2, <1>5
<1>7. f \in [1..Due(p) -> Idle(p)] /\ \A i, j \in 1..Due(p) : f[i] = f[j] => i = j
  BY <1>3, <1>6, Zenon
<1> HIDE DEF f
<1>8. /\ Takers(p) \in [1..Due(p) -> Idle(p)]
      /\ \A i, j \in 1..Due(p) : Takers(p)[i] = Takers(p)[j] => i = j
  BY <1>7, Zenon DEF Takers
<1> QED
  BY <1>5, <1>8

Served(p, q, n, f) ==
  /\ n \in Nat /\ n <= Len(p.queue)
  /\ f \in [1..n -> Idle(p)] /\ \A i, j \in 1..n : f[i] = f[j] => i = j
  /\ Len(q.queue) = Len(p.queue) - n
  /\ \A k \in 1..Len(q.queue) : q.queue[k] = p.queue[n + k]
  /\ \A i \in 1..n : q.lane[f[i]] = Dispatched(p, p.queue[i])
  /\ \A l \in Lanes : (\A i \in 1..n : f[i] # l) => q.lane[l] = p.lane[l]

LEMMA DispatchedFacts ==
  ASSUME NEW p, NEW j \in Jobs
  PROVE  /\ Dispatched(p, j) \in LaneRecord /\ Dispatched(p, j).state \in {"kRunning", "kReady"}
         /\ Dispatched(p, j).job = j
BY Zenon DEF Dispatched, Free, LaneRecord, Codes

LEMMA PumpIs ==
  ASSUME NEW p, PoolInv(p)
  PROVE  /\ pump(p) \in PoolRecord /\ PoolBounds(pump(p)) /\ SameDebt(p, pump(p))
         /\ pump(p).draining = p.draining /\ pump(p).quarantined = p.quarantined
         /\ pump(p).ready_index = p.ready_index
         /\ Served(p, pump(p), Due(p), Takers(p))
<1> DEFINE n == Due(p)
           f == Takers(p)
           taken(l) == {i \in 1..n : f[i] = l}
           lanes == [l \in Lanes |-> IF taken(l) = {} THEN p.lane[l]
                                     ELSE Dispatched(p, p.queue[CHOOSE i \in taken(l) : TRUE])]
           queue == SubSeq(p.queue, n + 1, Len(p.queue))
           q == [p EXCEPT !.lane = lanes, !.queue = queue]
<1>1. pump(p) = emits(q, n)
  BY Zenon DEF pump
<1>2. p \in PoolRecord /\ PoolBounds(p)
  BY DEF PoolInv
<1>3. /\ n \in Nat /\ n <= Len(p.queue) /\ f \in [1..n -> Idle(p)]
      /\ \A i, j \in 1..n : f[i] = f[j] => i = j
  BY <1>2, TakersFacts, Zenon
<1>4. p.queue \in Seq(Jobs) /\ p.lane \in [Lanes -> LaneRecord] /\ Len(p.queue) \in Nat
  BY <1>2, PoolFields
<1>5. \A i \in 1..n : p.queue[i] \in Jobs
  BY <1>3, <1>4
<1> HIDE DEF n, f
<1>6. \A l \in Lanes : lanes[l] \in LaneRecord
                      /\ ((\A i \in 1..n : f[i] # l) => lanes[l] = p.lane[l])
  <2> SUFFICES ASSUME NEW l \in Lanes
               PROVE  lanes[l] \in LaneRecord
                      /\ ((\A i \in 1..n : f[i] # l) => lanes[l] = p.lane[l])
    BY Zenon
  <2>1. CASE taken(l) = {}
    BY <2>1, <1>4, Zenon
  <2>2. CASE taken(l) # {}
    <3>1. (CHOOSE i \in taken(l) : TRUE) \in taken(l)
      BY <2>2, Zenon
    <3>2. p.queue[CHOOSE i \in taken(l) : TRUE] \in Jobs
      BY <3>1, <1>5, Zenon
    <3> QED
      BY <2>2, <3>1, <3>2, DispatchedFacts, Zenon
  <2> QED
    BY <2>1, <2>2
<1>7. \A i \in 1..n : lanes[f[i]] = Dispatched(p, p.queue[i])
  <2> SUFFICES ASSUME NEW i \in 1..n PROVE lanes[f[i]] = Dispatched(p, p.queue[i])
    BY Zenon
  <2>1. f[i] \in Lanes
    BY <1>3, Zenon DEF Idle
  <2>2. taken(f[i]) = {i}
    BY <1>3, Zenon
  <2>3. (CHOOSE k \in taken(f[i]) : TRUE) = i
    BY <2>2, Zenon
  <2> QED
    BY <2>1, <2>2, <2>3, Zenon
<1>8. lanes \in LaneTable
  BY <1>6, Zenon DEF LaneTable
<1> HIDE DEF lanes
<1>9. /\ queue \in Seq(Jobs) /\ Len(queue) = Len(p.queue) - n
      /\ \A k \in 1..Len(queue) : queue[k] = p.queue[n + k]
  <2>1. \A i \in (n + 1)..Len(p.queue) : p.queue[i] \in Jobs
    BY <1>3, <1>4
  <2>2. /\ queue \in Seq(Jobs)
        /\ Len(queue) = IF n + 1 <= Len(p.queue) THEN Len(p.queue) - (n + 1) + 1 ELSE 0
        /\ \A i \in 1..(Len(p.queue) - (n + 1) + 1) : queue[i] = p.queue[n + 1 + i - 1]
    BY <1>3, <1>4, <2>1, Slice
  <2> HIDE DEF queue
  <2> QED
    BY <1>3, <1>4, <2>2
<1> HIDE DEF queue
<1>10. q \in PoolRecord
  BY <1>2, <1>8, <1>9, Zenon DEF PoolRecord, Queues
<1>11. /\ q.lane = lanes /\ q.queue = queue /\ q.draining = p.draining
       /\ q.quarantined = p.quarantined /\ q.ready_index = p.ready_index
       /\ q.events = p.events /\ q.owed = p.owed /\ q.skipped = p.skipped
  BY <1>2 DEF PoolRecord
<1> HIDE DEF q
<1>12. PoolBounds(q)
  BY <1>2, <1>3, <1>4, <1>9, <1>11, PoolAssumption DEF PoolBounds
<1>13. /\ pump(p) \in PoolRecord /\ PoolBounds(pump(p)) /\ SameDebt(q, pump(p))
       /\ pump(p).lane = lanes /\ pump(p).queue = queue /\ pump(p).draining = p.draining
       /\ pump(p).quarantined = p.quarantined /\ pump(p).ready_index = p.ready_index
  <2>1. Emitted(q, pump(p))
    BY <1>1, <1>3, <1>10, <1>12, EmitsFields, Zenon
  <2> QED
    BY <2>1, <1>11, Zenon DEF Emitted
<1>14. SameDebt(p, pump(p))
  BY <1>11, <1>13, Zenon DEF SameDebt
<1>15. Served(p, pump(p), n, f)
  BY <1>3, <1>6, <1>7, <1>9, <1>13, Zenon DEF Served
<1> QED
  BY <1>13, <1>14, <1>15 DEF n, f

\* A lane that was given a job, and one that was not.
LaneServed(p, q, n, f, l) ==
  \/ \E i \in 1..n : /\ f[i] = l /\ i \in 1..Len(p.queue) /\ p.queue[i] \in Jobs
                     /\ q.lane[l] = Dispatched(p, p.queue[i]) /\ q.lane[l].job = p.queue[i]
                     /\ p.lane[l].job = NoJob /\ p.lane[l].state = "kIdle"
  \/ q.lane[l] = p.lane[l]

LEMMA ServedLanes ==
  ASSUME NEW p, PoolInv(p), NEW q, NEW n, NEW f, Served(p, q, n, f), NEW l \in Lanes
  PROVE  LaneServed(p, q, n, f, l)
<1>1. CASE \A i \in 1..n : f[i] # l
  BY <1>1, Zenon DEF Served, LaneServed
<1>2. CASE \E i \in 1..n : f[i] = l
  <2>1. PICK i \in 1..n : f[i] = l
    BY <1>2
  <2>2. n \in Nat /\ n <= Len(p.queue) /\ f[i] \in Idle(p) /\ q.lane[l] = Dispatched(p, p.queue[i])
    BY <2>1, Zenon DEF Served
  <2>3. p.queue \in Seq(Jobs)
    BY PoolFields, Zenon DEF PoolInv
  <2>4. i \in 1..Len(p.queue) /\ p.queue[i] \in Jobs
    BY <2>2, <2>3
  <2>5. l \notin p.draining /\ p.lane[l].state = "kIdle" /\ p.lane[l].job = NoJob
    BY <2>1, <2>2, Zenon DEF Idle, PoolInv, LanesFit, LaneFits
  <2>6. q.lane[l].job = p.queue[i]
    BY <2>2, <2>4, DispatchedFacts, Zenon
  <2> QED
    BY <2>1, <2>2, <2>4, <2>5, <2>6, Zenon DEF LaneServed
<1> QED
  BY <1>1, <1>2

QueueServed(p, q, n) ==
  /\ \A k \in 1..Len(q.queue) : /\ n + k \in 1..Len(p.queue) /\ n + k > n
                                /\ q.queue[k] = p.queue[n + k]
  /\ \A i \in 1..Len(p.queue) : i \in 1..n \/ \E k \in 1..Len(q.queue) : i = n + k

LEMMA ServedQueue ==
  ASSUME NEW p, PoolInv(p), NEW q, NEW n, NEW f, Served(p, q, n, f)
  PROVE  QueueServed(p, q, n)
<1>1. /\ n \in Nat /\ n <= Len(p.queue) /\ Len(q.queue) = Len(p.queue) - n
      /\ \A k \in 1..Len(q.queue) : q.queue[k] = p.queue[n + k]
  BY Zenon DEF Served
<1>2. Len(p.queue) \in Nat
  BY PoolFields DEF PoolInv
<1>3. ASSUME NEW k \in 1..Len(q.queue) PROVE n + k \in 1..Len(p.queue) /\ n + k > n
  BY <1>1, <1>2
<1>4. ASSUME NEW i \in 1..Len(p.queue), i \notin 1..n PROVE \E k \in 1..Len(q.queue) : i = n + k
  <2>1. i - n \in 1..Len(q.queue) /\ i = n + (i - n)
    BY <1>1, <1>2, <1>4
  <2> QED
    BY <2>1, Zenon
<1> QED
  BY <1>1, <1>3, <1>4, Zenon DEF QueueServed

LEMMA RunsJob ==
  ASSUME NEW p, NEW q, NEW n, NEW f, Served(p, q, n, f), NEW i \in 1..n, p.queue[i] \in Jobs
  PROVE  f[i] \in Lanes /\ q.lane[f[i]].job = p.queue[i]
<1>1. f[i] \in Lanes /\ q.lane[f[i]] = Dispatched(p, p.queue[i])
  BY Zenon DEF Served, Idle
<1>2. q.lane[f[i]].job = p.queue[i]
  BY <1>1, DispatchedFacts, Zenon
<1> QED
  BY <1>1, <1>2, Zenon

LEMMA PumpKeeps ==
  ASSUME NEW p, PoolInv(p)
  PROVE  PoolInv(pump(p)) /\ SameJobs(p, pump(p)) /\ SameDebt(p, pump(p))
<1> DEFINE q == pump(p)
           n == Due(p)
           f == Takers(p)
<1>1. /\ q \in PoolRecord /\ PoolBounds(q) /\ SameDebt(p, q) /\ q.draining = p.draining
      /\ q.quarantined = p.quarantined /\ q.ready_index = p.ready_index /\ Served(p, q, n, f)
  BY PumpIs, Zenon
<1> HIDE DEF q, n, f
<1>2. p \in PoolRecord /\ LanesFit(p) /\ ReadyFits(p) /\ p.quarantined \subseteq p.draining
      /\ QueueOnce(p) /\ LanesOnce(p) /\ QueueOrLane(p)
  BY DEF PoolInv
<1>3a. \A l \in Lanes : LaneServed(p, q, n, f, l)
  BY <1>1, ServedLanes, Zenon
<1>3b. QueueServed(p, q, n)
  BY <1>1, ServedQueue, Zenon
<1>3. LanesFit(q)
  <2> SUFFICES ASSUME NEW l \in Lanes PROVE LaneFits(q.lane[l], l \in p.draining)
    BY <1>1, Zenon DEF LanesFit
  <2>1. CASE q.lane[l] = p.lane[l]
    BY <2>1, <1>2, Zenon DEF LanesFit
  <2>2. CASE q.lane[l] # p.lane[l]
    <3>1. PICK i \in 1..n : q.lane[l] = Dispatched(p, p.queue[i]) /\ p.queue[i] \in Jobs
      BY <2>2, <1>3a, Zenon DEF LaneServed
    <3>2. PICK j \in Jobs : j = p.queue[i]
      BY <3>1
    <3>3. q.lane[l].state \in {"kRunning", "kReady"} /\ q.lane[l].job = j
      BY <3>1, <3>2, DispatchedFacts
    <3>4. j # NoJob
      BY JobsFacts, Zenon
    <3> QED
      BY <3>3, <3>4 DEF LaneFits
  <2> QED
    BY <2>1, <2>2
<1>4. ReadyFits(q)
  <2> SUFFICES ASSUME p.ready_index # NoLane PROVE q.lane[p.ready_index].state = "kReady"
    BY <1>1, Zenon DEF ReadyFits
  <2>1. p.ready_index \in Lanes /\ p.lane[p.ready_index].state = "kReady"
    BY <1>2, PoolFields, Zenon DEF ReadyFits
  <2>2. p.lane[p.ready_index].state # "kIdle"
    BY <2>1
  <2> QED
    BY <2>1, <2>2, <1>3a, Zenon DEF LaneServed
<1>5. /\ \A k \in 1..Len(q.queue) : /\ n + k \in 1..Len(p.queue) /\ n + k > n
                                    /\ q.queue[k] = p.queue[n + k]
      /\ \A i \in 1..Len(p.queue) : i \in 1..n \/ \E k \in 1..Len(q.queue) : i = n + k
  BY <1>3b, Zenon DEF QueueServed
<1>6. \A l \in Lanes : \/ q.lane[l] = p.lane[l]
                      \/ \E i \in 1..n : i \in 1..Len(p.queue) /\ q.lane[l].job = p.queue[i]
                                        /\ f[i] = l /\ p.lane[l].job = NoJob
  BY <1>3a, Zenon DEF LaneServed
<1>7. n \in Nat
  BY <1>1, Zenon DEF Served
<1>8. QueueOnce(q)
  <2> SUFFICES ASSUME NEW i \in 1..Len(q.queue), NEW k \in 1..Len(q.queue),
                      q.queue[i] = q.queue[k]
               PROVE  i = k
    BY Zenon DEF QueueOnce
  <2>1. \A a, b \in 1..Len(p.queue) : p.queue[a] = p.queue[b] => a = b
    BY <1>2, Zenon DEF QueueOnce
  <2>2. n + i = n + k
    BY <1>5, <2>1, Zenon
  <2> QED
    BY <2>2, <1>7
<1>9. LanesOnce(q)
  <2> SUFFICES ASSUME NEW l \in Lanes, NEW k \in Lanes, q.lane[l].job = q.lane[k].job,
                      q.lane[l].job # NoJob
               PROVE  l = k
    BY Zenon DEF LanesOnce
  <2>1. \A i \in 1..Len(p.queue) : p.queue[i] # p.lane[l].job /\ p.queue[i] # p.lane[k].job
    BY <1>2, Zenon DEF QueueOrLane
  <2>2. CASE q.lane[l] = p.lane[l] /\ q.lane[k] = p.lane[k]
    BY <2>2, <1>2, Zenon DEF LanesOnce
  <2>3. CASE q.lane[l] = p.lane[l] /\ q.lane[k] # p.lane[k]
    <3>1. PICK b \in 1..n : b \in 1..Len(p.queue) /\ q.lane[k].job = p.queue[b]
      BY <2>3, <1>6, Zenon
    <3> QED
      BY <3>1, <2>1, <2>3, Zenon
  <2>4. CASE q.lane[l] # p.lane[l] /\ q.lane[k] = p.lane[k]
    <3>1. PICK a \in 1..n : a \in 1..Len(p.queue) /\ q.lane[l].job = p.queue[a]
      BY <2>4, <1>6, Zenon
    <3> QED
      BY <3>1, <2>1, <2>4, Zenon
  <2>5. CASE q.lane[l] # p.lane[l] /\ q.lane[k] # p.lane[k]
    <3>1. PICK a \in 1..n : a \in 1..Len(p.queue) /\ q.lane[l].job = p.queue[a] /\ f[a] = l
      BY <2>5, <1>6, Zenon
    <3>2. PICK b \in 1..n : b \in 1..Len(p.queue) /\ q.lane[k].job = p.queue[b] /\ f[b] = k
      BY <2>5, <1>6, Zenon
    <3> QED
      BY <3>1, <3>2, <1>2, Zenon DEF QueueOnce
  <2> QED
    BY <2>2, <2>3, <2>4, <2>5
<1>10. QueueOrLane(q)
  <2> SUFFICES ASSUME NEW k \in 1..Len(q.queue), NEW l \in Lanes, q.queue[k] = q.lane[l].job
               PROVE  FALSE
    BY Zenon DEF QueueOrLane
  <2>1. n + k \in 1..Len(p.queue) /\ n + k > n /\ q.queue[k] = p.queue[n + k]
    BY <1>5, Zenon
  <2>2. CASE q.lane[l] = p.lane[l]
    <3>1. p.queue[n + k] # p.lane[l].job
      BY <1>2, <2>1, Zenon DEF QueueOrLane
    <3> QED
      BY <2>1, <2>2, <3>1, Zenon
  <2>3. CASE q.lane[l] # p.lane[l]
    <3>1. PICK i \in 1..n : i \in 1..Len(p.queue) /\ q.lane[l].job = p.queue[i]
      BY <1>6, <2>3, Zenon
    <3>2. i = n + k
      BY <1>2, <2>1, <3>1, Zenon DEF QueueOnce
    <3> QED
      BY <2>1, <3>2, <1>7
  <2> QED
    BY <2>2, <2>3
<1>11. SameJobs(p, q)
  <2> SUFFICES ASSUME NEW j \in Jobs PROVE j \in Owned(q) <=> j \in Owned(p)
    BY Zenon DEF SameJobs
  <2>1. j \in Owned(p) <=> (\E i \in 1..Len(p.queue) : p.queue[i] = j)
                           \/ (\E l \in Lanes : p.lane[l].job = j)
    BY OwnedFacts, Zenon
  <2>2. j \in Owned(q) <=> (\E i \in 1..Len(q.queue) : q.queue[i] = j)
                           \/ (\E l \in Lanes : q.lane[l].job = j)
    BY OwnedFacts, Zenon
  <2>3. ASSUME NEW k \in 1..Len(q.queue), q.queue[k] = j PROVE j \in Owned(p)
    BY <2>1, <2>3, <1>5, Zenon
  <2>4. ASSUME NEW l \in Lanes, q.lane[l].job = j PROVE j \in Owned(p)
    BY <2>1, <2>4, <1>6, Zenon
  <2>5. ASSUME NEW l \in Lanes, p.lane[l].job = j PROVE j \in Owned(q)
    BY <2>2, <2>5, <1>6, JobsFacts, Zenon
  <2>6. ASSUME NEW i \in 1..Len(p.queue), p.queue[i] = j PROVE j \in Owned(q)
    <3>1. CASE i \in 1..n
      <4>0. Served(p, q, n, f) /\ p.queue[i] \in Jobs
        BY <2>6, <1>1
      <4>1. f[i] \in Lanes /\ q.lane[f[i]].job = p.queue[i]
        BY <4>0, <3>1, RunsJob
      <4> QED
        BY <4>1, <2>2, <2>6, Zenon
    <3>2. CASE i \notin 1..n
      BY <3>2, <2>2, <2>6, <1>5, Zenon
    <3> QED
      BY <3>1, <3>2
  <2> QED
    BY <2>1, <2>2, <2>3, <2>4, <2>5, <2>6, Zenon
<1> QED
  BY <1>1, <1>2, <1>3, <1>4, <1>8, <1>9, <1>10, <1>11, Zenon DEF PoolInv, q
\* Two calls, one after the other.
LEMMA Chained ==
  ASSUME NEW p, NEW q, NEW r, SameJobs(p, q), SameJobs(q, r), SameDebt(p, q), SameDebt(q, r)
  PROVE  SameJobs(p, r) /\ SameDebt(p, r)
<1>1. SameJobs(p, r)
  BY Zenon DEF SameJobs
<1>2. SameDebt(p, r)
  BY Zenon DEF SameDebt
<1> QED
  BY <1>1, <1>2

\* Events that do not validate are owed, and known to be.
LEMMA SkipsKeeps ==
  ASSUME NEW p, PoolInv(p), NEW n \in Nat
  PROVE  PoolInv(skips(p, n)) /\ SameJobs(p, skips(p, n)) /\ SameDebt(p, skips(p, n))
<1> DEFINE owed == p.owed + n
           gone == p.skipped + n
           q == [p EXCEPT !.owed = owed, !.skipped = gone]
<1>1. skips(p, n) = q
  BY Zenon DEF skips
<1>2. p \in PoolRecord /\ PoolBounds(p) /\ p.quarantined \subseteq p.draining
  BY DEF PoolInv
<1>3. p.owed \in Int /\ p.events \in Nat /\ p.skipped \in Nat
  BY <1>2, PoolFields
<1>4. owed \in Int /\ gone \in Nat
      /\ owed - (p.events + gone) = p.owed - (p.events + p.skipped)
  BY <1>3
<1> HIDE DEF owed, gone
<1>5. q \in PoolRecord
  BY <1>2, <1>4, Zenon DEF PoolRecord
<1>6. /\ q.queue = p.queue /\ q.lane = p.lane /\ q.draining = p.draining
      /\ q.quarantined = p.quarantined /\ q.ready_index = p.ready_index
      /\ q.events = p.events /\ q.owed = owed /\ q.skipped = gone
  BY <1>2 DEF PoolRecord
<1> HIDE DEF q
<1>7. PoolBounds(q) /\ SameDebt(p, q)
  BY <1>2, <1>4, <1>6, Zenon DEF PoolBounds, SameDebt
<1>8. PoolInv(q) /\ SameJobs(p, q)
  BY <1>2, <1>5, <1>6, <1>7, AlikePools, Zenon
<1> QED
  BY <1>1, <1>7, <1>8

\* A newer generation changes results and watermark, and moves no job.
LEMMA CancelKeeps ==
  ASSUME NEW p, PoolInv(p), NEW j \in Jobs, NEW late
  PROVE  /\ PoolInv(cancel_before(p, j, late)) /\ SameJobs(p, cancel_before(p, j, late))
         /\ SameDebt(p, cancel_before(p, j, late))
<1> DEFINE running == Older(p, j, "kRunning")
           reject(l) == [p.lane[l] EXCEPT !.code = "kRejectedStale"]
           lane == [l \in Lanes |-> IF l \in Older(p, j, "kReady") THEN reject(l) ELSE p.lane[l]]
           q == [p EXCEPT !.watermark = Generation[j], !.lane = lane]
           n == Cardinality(running \ late)
           m == Cardinality(running \cap late)
<1>1. cancel_before(p, j, late) = skips(emits(q, n), m)
  BY Zenon DEF cancel_before
<1>2. p \in PoolRecord /\ PoolBounds(p) /\ LanesFit(p) /\ ReadyFits(p)
      /\ p.quarantined \subseteq p.draining
  BY DEF PoolInv
<1>3. n \in Nat /\ m \in Nat
  <2>1. running \ late \subseteq Lanes /\ running \cap late \subseteq Lanes
    BY Zenon DEF Older
  <2>2. IsFiniteSet(running \ late) /\ IsFiniteSet(running \cap late)
    BY <2>1, FS_Subset, PoolAssumption, Zenon
  <2> QED
    BY <2>2, FS_CardinalityType, Zenon
<1> HIDE DEF n, m
<1>4. p.lane \in [Lanes -> LaneRecord]
  BY <1>2, PoolFields
<1>5. \A l \in Lanes : /\ lane[l] \in LaneRecord /\ lane[l].state = p.lane[l].state
                       /\ lane[l].job = p.lane[l].job
  <2> SUFFICES ASSUME NEW l \in Lanes
               PROVE  /\ lane[l] \in LaneRecord /\ lane[l].state = p.lane[l].state
                      /\ lane[l].job = p.lane[l].job
    BY Zenon
  <2>1. p.lane[l] \in LaneRecord
    BY <1>4, Zenon
  <2>2. /\ reject(l) \in LaneRecord /\ reject(l).state = p.lane[l].state
        /\ reject(l).job = p.lane[l].job
    BY <2>1, Zenon DEF LaneRecord, Codes
  <2>3. lane[l] \in {reject(l), p.lane[l]}
    BY Zenon
  <2> QED
    BY <2>1, <2>2, <2>3, Zenon
<1>6. lane \in LaneTable
  BY <1>5, Zenon DEF LaneTable
<1> HIDE DEF lane
<1>7. q \in PoolRecord
  BY <1>2, <1>6, JobsFacts, Zenon DEF PoolRecord
<1>8. /\ q.queue = p.queue /\ q.lane = lane /\ q.draining = p.draining
      /\ q.quarantined = p.quarantined /\ q.ready_index = p.ready_index
      /\ q.events = p.events /\ q.owed = p.owed /\ q.skipped = p.skipped
  BY <1>2 DEF PoolRecord
<1> HIDE DEF q
<1>9. PoolBounds(q) /\ SameDebt(p, q) /\ q.quarantined \subseteq q.draining
  BY <1>2, <1>8, Zenon DEF PoolBounds, SameDebt
<1>10. LanesFit(q) /\ \A l \in Lanes : q.lane[l].job = p.lane[l].job
  BY <1>2, <1>5, <1>8, Zenon DEF LanesFit, LaneFits
<1>11. ReadyFits(q)
  <2>1. p.ready_index # NoLane => p.ready_index \in Lanes
    BY <1>2, PoolFields
  <2> QED
    BY <1>2, <1>5, <1>8, <2>1, Zenon DEF ReadyFits
<1>12. PoolInv(q) /\ SameJobs(p, q)
  BY <1>7, <1>8, <1>9, <1>10, <1>11, NoJobMoves, Zenon
<1> DEFINE e == emits(q, n)
<1>13. PoolInv(e) /\ SameJobs(q, e) /\ SameDebt(q, e)
  BY <1>3, <1>12, EmitsKeeps
<1> HIDE DEF e
<1>14. PoolInv(skips(e, m)) /\ SameJobs(e, skips(e, m)) /\ SameDebt(e, skips(e, m))
  BY <1>3, <1>13, SkipsKeeps
<1>15. SameJobs(p, e) /\ SameDebt(p, e)
  BY <1>9, <1>12, <1>13, Chained, Zenon
<1>16. SameJobs(p, skips(e, m)) /\ SameDebt(p, skips(e, m))
  BY <1>14, <1>15, Chained, Zenon
<1> QED
  BY <1>1, <1>14, <1>16 DEF e

\* A job taken: the queue with it, before pump.
LEMMA SubmitKeeps ==
  ASSUME NEW p, PoolInv(p), NEW j \in Jobs, j \notin Owned(p), submit_accepts(p, j), NEW late
  PROVE  /\ PoolInv(submit(p, j, late)) /\ SameDebt(p, submit(p, j, late))
         /\ \A k \in Jobs : k \in Owned(submit(p, j, late)) <=> k \in Owned(p) \/ k = j
<1> DEFINE queue == Append(p.queue, j)
           q == [p EXCEPT !.queue = queue]
<1>1. \/ submit(p, j, late) = pump(emits(q, 1))
      \/ submit(p, j, late) = pump(cancel_before(emits(q, 1), j, late))
  BY Zenon DEF submit, emit
<1>2. p \in PoolRecord /\ PoolBounds(p) /\ LanesFit(p) /\ ReadyFits(p)
      /\ p.quarantined \subseteq p.draining /\ QueueOnce(p) /\ LanesOnce(p) /\ QueueOrLane(p)
  BY DEF PoolInv
<1>3. p.queue \in Seq(Jobs) /\ Len(p.queue) \in Nat /\ Len(p.queue) < QueueCapacity
  BY <1>2, PoolFields DEF submit_accepts
<1>4. /\ queue \in Seq(Jobs) /\ Len(queue) = Len(p.queue) + 1 /\ queue[Len(p.queue) + 1] = j
      /\ \A i \in 1..Len(p.queue) : queue[i] = p.queue[i]
  BY <1>3, Appended
<1>5. \A i \in 1..Len(queue) : i \in 1..Len(p.queue) \/ i = Len(queue)
  BY <1>3, <1>4
<1>6. Len(queue) \in 1..Len(queue) /\ queue[Len(queue)] = j
      /\ \A i \in 1..Len(p.queue) : i \in 1..Len(queue)
  BY <1>3, <1>4
<1> HIDE DEF queue
<1>7. q \in PoolRecord
  BY <1>2, <1>4, Zenon DEF PoolRecord, Queues
<1>8. /\ q.queue = queue /\ q.lane = p.lane /\ q.draining = p.draining
      /\ q.quarantined = p.quarantined /\ q.ready_index = p.ready_index
      /\ q.events = p.events /\ q.owed = p.owed /\ q.skipped = p.skipped
  BY <1>2 DEF PoolRecord
<1> HIDE DEF q
<1>9. PoolBounds(q)
  BY <1>2, <1>3, <1>4, <1>8, PoolAssumption DEF PoolBounds
<1>10. (\A i \in 1..Len(p.queue) : p.queue[i] # j) /\ (\A l \in Lanes : p.lane[l].job # j)
  BY OwnedFacts, Zenon
<1>11. QueueOnce(q)
  <2> SUFFICES ASSUME NEW i \in 1..Len(queue), NEW k \in 1..Len(queue), queue[i] = queue[k]
               PROVE  i = k
    BY <1>8, Zenon DEF QueueOnce
  <2>1. CASE i \in 1..Len(p.queue) /\ k \in 1..Len(p.queue)
    BY <2>1, <1>2, <1>4, Zenon DEF QueueOnce
  <2>2. CASE i = Len(queue) \/ k = Len(queue)
    BY <2>2, <1>4, <1>5, <1>6, <1>10, Zenon
  <2> QED
    BY <2>1, <2>2, <1>5, Zenon
<1>12. QueueOrLane(q)
  <2> SUFFICES ASSUME NEW i \in 1..Len(queue), NEW l \in Lanes PROVE queue[i] # p.lane[l].job
    BY <1>8, Zenon DEF QueueOrLane
  <2>1. CASE i \in 1..Len(p.queue)
    BY <2>1, <1>2, <1>4, Zenon DEF QueueOrLane
  <2>2. CASE i = Len(queue)
    BY <2>2, <1>6, <1>10, Zenon
  <2> QED
    BY <2>1, <2>2, <1>5, Zenon
<1>13. LanesFit(q) /\ ReadyFits(q) /\ q.quarantined \subseteq q.draining /\ LanesOnce(q)
  BY <1>2, <1>8, Zenon DEF LanesFit, ReadyFits, LanesOnce
<1>14. PoolInv(q) /\ SameDebt(p, q)
  BY <1>7, <1>8, <1>9, <1>11, <1>12, <1>13, Zenon DEF PoolInv, SameDebt
<1>15. \A k \in Jobs : k \in Owned(q) <=> k \in Owned(p) \/ k = j
  <2> SUFFICES ASSUME NEW k \in Jobs PROVE k \in Owned(q) <=> k \in Owned(p) \/ k = j
    BY Zenon
  <2>1. k \in Owned(p) <=> (\E i \in 1..Len(p.queue) : p.queue[i] = k)
                           \/ (\E l \in Lanes : p.lane[l].job = k)
    BY OwnedFacts, Zenon
  <2>2. k \in Owned(q) <=> (\E i \in 1..Len(queue) : queue[i] = k)
                           \/ (\E l \in Lanes : p.lane[l].job = k)
    <3>1. k \in Owned(q) <=> (\E i \in 1..Len(q.queue) : q.queue[i] = k)
                             \/ (\E l \in Lanes : q.lane[l].job = k)
      BY OwnedFacts, Zenon
    <3> QED
      BY <3>1, <1>8, Zenon
  <2>3. (\E i \in 1..Len(queue) : queue[i] = k)
          <=> (\E i \in 1..Len(p.queue) : p.queue[i] = k) \/ k = j
    BY <1>4, <1>5, <1>6, Zenon
  <2> QED
    BY <2>1, <2>2, <2>3, Zenon
<1>16. /\ PoolInv(emits(q, 1)) /\ SameJobs(q, emits(q, 1)) /\ SameDebt(q, emits(q, 1))
  BY <1>14, EmitsKeeps
<1> DEFINE e == emits(q, 1)
           c == cancel_before(e, j, late)
           t == submit(p, j, late)
<1>17. PoolInv(t) /\ SameJobs(e, t) /\ SameDebt(e, t)
  <2>1. PoolInv(c) /\ SameJobs(e, c) /\ SameDebt(e, c)
    BY <1>16, CancelKeeps
  <2> HIDE DEF c, e
  <2>2. CASE t = pump(e)
    BY <2>2, <1>16, PumpKeeps, Zenon DEF e
  <2>3. CASE t = pump(c)
    <3>1. PoolInv(t) /\ SameJobs(c, t) /\ SameDebt(c, t)
      BY <2>1, <2>3, PumpKeeps, Zenon
    <3> QED
      BY <2>1, <3>1, Chained, Zenon
  <2> QED
    BY <1>1, <2>2, <2>3, Zenon DEF c, e
<1>18. SameJobs(q, t) /\ SameDebt(p, t)
  BY <1>14, <1>16, <1>17, Zenon DEF SameJobs, SameDebt
<1> QED
  BY <1>15, <1>17, <1>18, Zenon DEF SameJobs
(***************************************************************************)
(* The other calls.                                                        *)
(***************************************************************************)
LEMMA FailureKeeps ==
  ASSUME NEW p, PoolInv(p), NEW l \in Lanes
  PROVE  /\ PoolInv(record_worker_failure(p, l)) /\ SameJobs(p, record_worker_failure(p, l))
         /\ SameDebt(p, record_worker_failure(p, l))
         /\ record_worker_failure(p, l).lane = p.lane
         /\ record_worker_failure(p, l).ready_index = p.ready_index
<1> DEFINE n == IF p.failures[l] < FailureThreshold THEN p.failures[l] + 1 ELSE FailureThreshold
           failures == [p.failures EXCEPT ![l] = n]
           c == [p EXCEPT !.failures = failures]
           wide == p.draining \cup {l}
           shut == p.quarantined \cup {l}
           q == [c EXCEPT !.quarantined = shut, !.draining = wide]
<1>1. record_worker_failure(p, l) \in {c, q}
  BY Zenon DEF record_worker_failure
<1>2. p \in PoolRecord /\ PoolBounds(p) /\ p.quarantined \subseteq p.draining
  BY DEF PoolInv
<1>3. p.failures \in [Lanes -> Nat] /\ p.draining \subseteq Lanes /\ p.quarantined \subseteq Lanes
  BY <1>2, PoolFields
<1>4. n \in Nat
  BY <1>3, PoolAssumption
<1> HIDE DEF n
<1>5. failures \in [Lanes -> Nat]
  BY <1>3, <1>4, Zenon
<1> HIDE DEF failures
<1>6. c \in PoolRecord
  BY <1>2, <1>5, Zenon DEF PoolRecord
<1>7. /\ c.queue = p.queue /\ c.lane = p.lane /\ c.draining = p.draining
      /\ c.quarantined = p.quarantined /\ c.ready_index = p.ready_index
      /\ c.events = p.events /\ c.owed = p.owed /\ c.skipped = p.skipped
  BY <1>2 DEF PoolRecord
<1> HIDE DEF c
<1>8. PoolBounds(c) /\ SameDebt(p, c)
  BY <1>2, <1>7, Zenon DEF PoolBounds, SameDebt
<1>9. PoolInv(c) /\ SameJobs(p, c)
  BY <1>2, <1>6, <1>7, <1>8, AlikePools, Zenon
<1>10. wide \in SUBSET Lanes /\ shut \in SUBSET Lanes /\ p.draining \subseteq wide
       /\ shut \subseteq wide
  BY <1>2, <1>3
<1> HIDE DEF wide, shut
<1>11. q \in PoolRecord
  BY <1>6, <1>10, Zenon DEF PoolRecord
<1>12. /\ q.queue = p.queue /\ q.lane = p.lane /\ q.draining = wide
       /\ q.quarantined = shut /\ q.ready_index = p.ready_index
       /\ q.events = p.events /\ q.owed = p.owed /\ q.skipped = p.skipped
  BY <1>6, <1>7 DEF PoolRecord
<1> HIDE DEF q
<1>13. PoolBounds(q) /\ SameDebt(p, q)
  BY <1>2, <1>12, Zenon DEF PoolBounds, SameDebt
<1>14. PoolInv(q) /\ SameJobs(p, q)
  BY <1>10, <1>11, <1>12, <1>13, AlikePools, Zenon
<1>15. CASE record_worker_failure(p, l) = c
  BY <1>7, <1>8, <1>9, <1>15, Zenon
<1>16. CASE record_worker_failure(p, l) = q
  BY <1>12, <1>13, <1>14, <1>16, Zenon
<1> QED
  BY <1>1, <1>15, <1>16

\* A result that is offered first: its lane is ready, and stays so.
LEMMA OfferKeeps ==
  ASSUME NEW p, PoolInv(p)
  PROVE  /\ PoolInv(ready_result(p)) /\ SameJobs(p, ready_result(p))
         /\ SameDebt(p, ready_result(p))
<1> DEFINE ready == {k \in Lanes : p.lane[k].state = "kReady"}
           l == CHOOSE k \in ready : TRUE
           calm == [p.failures EXCEPT ![l] = 0]
           easy == [p EXCEPT !.failures = calm]
           judged == IF p.lane[l].failed THEN record_worker_failure(p, l)
                     ELSE IF p.lane[l].code = "kComplete" THEN easy ELSE p
           n == IF p.lane[l].code = "kRejectedStale" THEN 1 ELSE 2
           e == emits(judged, n)
           lane == [e.lane EXCEPT ![l].failed = FALSE]
           q == [e EXCEPT !.ready_index = l, !.lane = lane]
<1>1. CASE ready = {} \/ p.ready_index # NoLane
  <2>1. ready_result(p) = p
    BY <1>1, Zenon DEF ready_result
  <2> QED
    BY <2>1, Zenon DEF SameJobs, SameDebt
<1>2. CASE ready # {} /\ p.ready_index = NoLane
  <2>1. ready_result(p) = q
    BY <1>2, ZenonT(40) DEF ready_result
  <2>2. l \in Lanes /\ p.lane[l].state = "kReady"
    BY <1>2, Zenon
  <2> HIDE DEF l, ready
  <2>3. p \in PoolRecord /\ PoolBounds(p) /\ p.quarantined \subseteq p.draining
    BY DEF PoolInv
  <2>4. p.failures \in [Lanes -> Nat]
    BY <2>3, PoolFields
  <2>5. calm \in [Lanes -> Nat]
    BY <2>4, Zenon
  <2> HIDE DEF calm
  <2>6. easy \in PoolRecord
    BY <2>3, <2>5, Zenon DEF PoolRecord
  <2>7. /\ easy.queue = p.queue /\ easy.lane = p.lane /\ easy.draining = p.draining
        /\ easy.quarantined = p.quarantined /\ easy.ready_index = p.ready_index
        /\ easy.events = p.events /\ easy.owed = p.owed /\ easy.skipped = p.skipped
    BY <2>3 DEF PoolRecord
  <2> HIDE DEF easy
  <2>8. PoolBounds(easy) /\ SameDebt(p, easy)
    BY <2>3, <2>7, Zenon DEF PoolBounds, SameDebt
  <2>9. PoolInv(easy) /\ SameJobs(p, easy)
    BY <2>3, <2>6, <2>7, <2>8, AlikePools, Zenon
  <2>10. PoolInv(judged) /\ SameJobs(p, judged) /\ SameDebt(p, judged) /\ judged.lane = p.lane
         /\ judged.ready_index = p.ready_index
    <3>1. SameJobs(p, p) /\ SameDebt(p, p)
      BY Zenon DEF SameJobs, SameDebt
    <3> QED
      BY <2>2, <2>7, <2>8, <2>9, <3>1, FailureKeeps, Zenon
  <2>11. n \in Nat
    OBVIOUS
  <2> HIDE DEF judged, n
  <2>13. PoolInv(e) /\ SameJobs(judged, e) /\ SameDebt(judged, e) /\ e.lane = judged.lane
    <3>1. judged \in PoolRecord /\ PoolBounds(judged)
      BY <2>10, Zenon DEF PoolInv
    <3>2. Emitted(judged, e)
      BY <3>1, <2>11, EmitsFields
    <3>3. PoolInv(e) /\ SameJobs(judged, e) /\ SameDebt(judged, e)
      BY <2>10, <2>11, EmitsKeeps
    <3> QED
      BY <3>2, <3>3, Zenon DEF Emitted
  <2> HIDE DEF e
  <2>14. SameJobs(p, e) /\ SameDebt(p, e) /\ e.lane[l].state = "kReady"
    BY <2>2, <2>10, <2>13, Chained, Zenon
  <2>15. e \in PoolRecord /\ PoolBounds(e) /\ LanesFit(e) /\ e.quarantined \subseteq e.draining
    BY <2>13 DEF PoolInv
  <2>16. e.lane \in [Lanes -> LaneRecord]
    BY <2>15, PoolFields
  <2>17. lane \in [Lanes -> LaneRecord]
         /\ \A k \in Lanes : lane[k].state = e.lane[k].state /\ lane[k].job = e.lane[k].job
    BY <2>2, <2>16, Zenon DEF LaneRecord
  <2> HIDE DEF lane
  <2>18. q \in PoolRecord
    BY <2>2, <2>15, <2>17, Zenon DEF PoolRecord, LaneTable
  <2>19. /\ q.queue = e.queue /\ q.lane = lane /\ q.draining = e.draining
         /\ q.quarantined = e.quarantined /\ q.ready_index = l
         /\ q.events = e.events /\ q.owed = e.owed /\ q.skipped = e.skipped
    BY <2>15 DEF PoolRecord
  <2> HIDE DEF q
  <2>20. PoolBounds(q) /\ SameDebt(e, q) /\ ReadyFits(q)
    BY <2>2, <2>14, <2>15, <2>17, <2>19, Zenon DEF PoolBounds, SameDebt, ReadyFits
  <2>21. LanesFit(q)
    BY <2>15, <2>17, <2>19, Zenon DEF LanesFit, LaneFits
  <2>22. PoolInv(q) /\ SameJobs(e, q)
    <3>1. \A k \in Lanes : q.lane[k].job = e.lane[k].job
      BY <2>17, <2>19, Zenon
    <3>2. q.queue = e.queue /\ q.quarantined \subseteq q.draining
      BY <2>15, <2>19, Zenon
    <3> QED
      BY <2>13, <2>18, <2>20, <2>21, <3>1, <3>2, NoJobMoves, Zenon
  <2> QED
    BY <2>1, <2>14, <2>20, <2>22, Chained, Zenon
<1> QED
  BY <1>1, <1>2

\* A result that was published: its lane is free again, or drained.
LEMMA ReleaseKeeps ==
  ASSUME NEW p, PoolInv(p), p.ready_index # NoLane
  PROVE  /\ PoolInv(release_ready_result(p)) /\ SameDebt(p, release_ready_result(p))
         /\ p.lane[p.ready_index].job \in Jobs
         /\ p.lane[p.ready_index].job \in Owned(p)
         /\ \A j \in Jobs : j \in Owned(release_ready_result(p))
                            <=> j \in Owned(p) /\ j # p.lane[p.ready_index].job
<1> DEFINE l == p.ready_index
           bare == [Free EXCEPT !.state = IF l \in p.draining THEN "kDrained" ELSE "kIdle"]
           lane == [p.lane EXCEPT ![l] = bare]
           q == [p EXCEPT !.ready_index = NoLane, !.lane = lane]
<1>1. release_ready_result(p) = pump(q)
  BY Zenon DEF release_ready_result
<1>2. p \in PoolRecord /\ PoolBounds(p) /\ LanesFit(p) /\ ReadyFits(p)
      /\ p.quarantined \subseteq p.draining /\ QueueOnce(p) /\ LanesOnce(p) /\ QueueOrLane(p)
  BY DEF PoolInv
<1>3. l \in Lanes /\ p.lane \in [Lanes -> LaneRecord]
  BY <1>2, PoolFields
<1>4. p.lane[l].job \in Jobs
  <2>1. p.lane[l].state = "kReady"
    BY <1>2, Zenon DEF ReadyFits
  <2>2. p.lane[l].job # NoJob
    BY <1>2, <1>3, <2>1 DEF LanesFit, LaneFits
  <2> QED
    BY <1>2, <1>3, <2>2, LaneFields, Zenon
<1>5. /\ bare \in LaneRecord /\ bare.job = NoJob
      /\ bare.state = IF l \in p.draining THEN "kDrained" ELSE "kIdle"
  BY Zenon DEF Free, LaneRecord, Codes
<1> HIDE DEF bare, l
<1>6. lane \in [Lanes -> LaneRecord] /\ lane[l] = bare
      /\ \A k \in Lanes : k # l => lane[k] = p.lane[k]
  BY <1>3, <1>5, Zenon
<1> HIDE DEF lane
<1>7. q \in PoolRecord
  BY <1>2, <1>6, Zenon DEF PoolRecord, LaneTable
<1>8. /\ q.queue = p.queue /\ q.lane = lane /\ q.draining = p.draining
      /\ q.quarantined = p.quarantined /\ q.ready_index = NoLane
      /\ q.events = p.events /\ q.owed = p.owed /\ q.skipped = p.skipped
  BY <1>2 DEF PoolRecord
<1> HIDE DEF q
<1>9. PoolBounds(q) /\ SameDebt(p, q) /\ ReadyFits(q) /\ q.quarantined \subseteq q.draining
  BY <1>2, <1>8, Zenon DEF PoolBounds, SameDebt, ReadyFits
<1>10. LanesFit(q)
  <2> SUFFICES ASSUME NEW k \in Lanes PROVE LaneFits(lane[k], k \in p.draining)
    BY <1>8, Zenon DEF LanesFit
  <2>1. CASE k = l
    BY <2>1, <1>5, <1>6 DEF LaneFits
  <2>2. CASE k # l
    BY <2>2, <1>2, <1>6, Zenon DEF LanesFit
  <2> QED
    BY <2>1, <2>2
<1>11. QueueOnce(q)
  BY <1>2, <1>8, Zenon DEF QueueOnce
<1>12. LanesOnce(q)
  <2> SUFFICES ASSUME NEW k \in Lanes, NEW m \in Lanes, lane[k].job = lane[m].job,
                      lane[k].job # NoJob
               PROVE  k = m
    BY <1>8, Zenon DEF LanesOnce
  <2>1. k # l /\ m # l
    BY <1>5, <1>6, Zenon
  <2>2. p.lane[k].job = p.lane[m].job /\ p.lane[k].job # NoJob
    BY <2>1, <1>6, Zenon
  <2> QED
    BY <2>2, <1>2, Zenon DEF LanesOnce
<1>13. QueueOrLane(q)
  <2> SUFFICES ASSUME NEW i \in 1..Len(p.queue), NEW k \in Lanes PROVE p.queue[i] # lane[k].job
    BY <1>8, Zenon DEF QueueOrLane
  <2>1. p.queue[i] \in Jobs
    BY <1>2, PoolFields
  <2>2. p.queue[i] # NoJob
    BY <2>1, JobsFacts, Zenon
  <2>3. CASE k = l
    BY <2>2, <2>3, <1>5, <1>6, Zenon
  <2>4. CASE k # l
    BY <2>4, <1>2, <1>6, Zenon DEF QueueOrLane
  <2> QED
    BY <2>3, <2>4
<1>14. PoolInv(q)
  BY <1>7, <1>9, <1>10, <1>11, <1>12, <1>13 DEF PoolInv
<1>15. \A j \in Jobs : j \in Owned(q) <=> j \in Owned(p) /\ j # p.lane[l].job
  <2> SUFFICES ASSUME NEW j \in Jobs PROVE j \in Owned(q) <=> j \in Owned(p) /\ j # p.lane[l].job
    BY Zenon
  <2>1. j \in Owned(p) <=> (\E i \in 1..Len(p.queue) : p.queue[i] = j)
                           \/ (\E k \in Lanes : p.lane[k].job = j)
    BY OwnedFacts, Zenon
  <2>2. j \in Owned(q) <=> (\E i \in 1..Len(p.queue) : p.queue[i] = j)
                           \/ (\E k \in Lanes : lane[k].job = j)
    <3>1. j \in Owned(q) <=> (\E i \in 1..Len(q.queue) : q.queue[i] = j)
                             \/ (\E k \in Lanes : q.lane[k].job = j)
      BY OwnedFacts, Zenon
    <3> QED
      BY <3>1, <1>8, Zenon
  <2>3. CASE j = p.lane[l].job
    <3>1. \A i \in 1..Len(p.queue) : p.queue[i] # j
      BY <2>3, <1>2, <1>3, Zenon DEF QueueOrLane
    <3>2. \A k \in Lanes : lane[k].job # j
      <4> SUFFICES ASSUME NEW k \in Lanes, lane[k].job = j PROVE FALSE
        BY Zenon
      <4>1. k # l
        BY <1>5, <1>6, JobsFacts, Zenon
      <4>2. p.lane[k].job = p.lane[l].job /\ p.lane[k].job # NoJob
        BY <4>1, <2>3, <1>6, JobsFacts, Zenon
      <4> QED
        BY <4>1, <4>2, <1>2, <1>3, Zenon DEF LanesOnce
    <3> QED
      BY <2>2, <2>3, <3>1, <3>2, Zenon
  <2>4. CASE j # p.lane[l].job
    <3>1. (\E k \in Lanes : lane[k].job = j) <=> (\E k \in Lanes : p.lane[k].job = j)
      BY <2>4, <1>5, <1>6, JobsFacts, Zenon
    <3> QED
      BY <2>1, <2>2, <2>4, <3>1, Zenon
  <2> QED
    BY <2>3, <2>4
<1>16. p.lane[l].job \in Owned(p)
  BY <1>3, <1>4, OwnedFacts, Zenon
<1>17. PoolInv(pump(q)) /\ SameJobs(q, pump(q)) /\ SameDebt(q, pump(q))
  BY <1>14, PumpKeeps
<1>18. SameDebt(p, pump(q))
  BY <1>9, <1>17, Zenon DEF SameDebt
<1>19. \A j \in Jobs : j \in Owned(pump(q)) <=> j \in Owned(p) /\ j # p.lane[l].job
  BY <1>15, <1>17, Zenon DEF SameJobs
<1> QED
  BY <1>1, <1>4, <1>16, <1>17, <1>18, <1>19 DEF l

\* One lane takes another state and keeps its job.
LEMMA LaneTurns ==
  ASSUME NEW p, PoolInv(p), NEW q, q \in PoolRecord, NEW l \in Lanes, NEW lane \in LaneRecord,
         q.lane = [p.lane EXCEPT ![l] = lane], lane.job = p.lane[l].job,
         LaneFits(lane, l \in q.draining), l = p.ready_index => lane.state = "kReady",
         \A k \in p.draining : k = l \/ k \in q.draining, q.quarantined \subseteq q.draining,
         q.queue = p.queue, q.ready_index = p.ready_index, q.events = p.events, q.owed = p.owed,
         q.skipped = p.skipped
  PROVE  PoolInv(q) /\ SameJobs(p, q) /\ SameDebt(p, q)
<1>1. p \in PoolRecord /\ PoolBounds(p) /\ LanesFit(p) /\ ReadyFits(p)
  BY DEF PoolInv
<1>2. p.lane \in [Lanes -> LaneRecord] /\ p.ready_index \in Lanes \cup {NoLane}
  BY <1>1, PoolFields
<1>3. q.lane[l] = lane /\ \A k \in Lanes : k # l => q.lane[k] = p.lane[k]
  BY <1>2, Zenon
<1>4. \A k \in Lanes : q.lane[k].job = p.lane[k].job
  BY <1>3, Zenon
<1>5. LanesFit(q)
  <2> SUFFICES ASSUME NEW k \in Lanes PROVE LaneFits(q.lane[k], k \in q.draining)
    BY Zenon DEF LanesFit
  <2>1. CASE k = l
    BY <2>1, <1>3, Zenon
  <2>2. CASE k # l
    <3>1. LaneFits(p.lane[k], k \in p.draining)
      BY <1>1, Zenon DEF LanesFit
    <3> QED
      BY <2>2, <3>1, <1>3, Zenon DEF LaneFits
  <2> QED
    BY <2>1, <2>2
<1>6. ReadyFits(q)
  BY <1>1, <1>2, <1>3, Zenon DEF ReadyFits
<1>7. PoolBounds(q) /\ SameDebt(p, q)
  BY <1>1, Zenon DEF PoolBounds, SameDebt
<1> QED
  BY <1>4, <1>5, <1>6, <1>7, NoJobMoves, Zenon

LEMMA FinishKeeps ==
  ASSUME NEW p, PoolInv(p), NEW l \in Lanes, NEW code \in Codes, p.lane[l].state = "kRunning"
  PROVE  /\ PoolInv(Finish(p, l, code)) /\ SameJobs(p, Finish(p, l, code))
         /\ SameDebt(p, Finish(p, l, code))
<1> DEFINE lane == [p.lane[l] EXCEPT !.state = "kReady", !.code = code, !.failed = (code = "kFailed")]
           lanes == [p.lane EXCEPT ![l] = lane]
           q == [p EXCEPT !.lane = lanes]
<1>1. p \in PoolRecord /\ p.quarantined \subseteq p.draining /\ LanesFit(p)
  BY DEF PoolInv
<1>2. p.lane \in [Lanes -> LaneRecord] /\ p.lane[l] \in LaneRecord
  BY <1>1, PoolFields
<1>3. Finish(p, l, code) = q
  BY <1>1, <1>2, ZenonT(40) DEF Finish, PoolRecord, LaneTable, LaneRecord
<1>4. lane \in LaneRecord /\ lane.job = p.lane[l].job /\ lane.state = "kReady"
  BY <1>2, Zenon DEF LaneRecord
<1>5. LaneFits(lane, l \in p.draining)
  <2>1. p.lane[l].job # NoJob
    BY <1>1 DEF LanesFit, LaneFits
  <2> QED
    BY <2>1, <1>4 DEF LaneFits
<1> HIDE DEF lane
<1>6. lanes \in LaneTable
  BY <1>2, <1>4, Zenon DEF LaneTable
<1> HIDE DEF lanes
<1>7. q \in PoolRecord
  BY <1>1, <1>6, Zenon DEF PoolRecord
<1>8. /\ q.queue = p.queue /\ q.lane = lanes /\ q.draining = p.draining
      /\ q.quarantined = p.quarantined /\ q.ready_index = p.ready_index
      /\ q.events = p.events /\ q.owed = p.owed /\ q.skipped = p.skipped
  BY <1>1 DEF PoolRecord
<1> HIDE DEF q
<1>9. q.lane = [p.lane EXCEPT ![l] = lane]
  BY <1>8, Zenon DEF lanes
<1> QED
  BY <1>1, <1>3, <1>4, <1>5, <1>7, <1>8, <1>9, LaneTurns, Zenon

LEMMA DrainKeeps ==
  ASSUME NEW p, PoolInv(p), NEW l
  PROVE  /\ PoolInv(request_worker_drain(p, l)) /\ SameJobs(p, request_worker_drain(p, l))
         /\ SameDebt(p, request_worker_drain(p, l))
<1> DEFINE state == IF p.lane[l].state = "kIdle" THEN "kDrained" ELSE p.lane[l].state
           lane == [p.lane[l] EXCEPT !.state = state]
           lanes == [p.lane EXCEPT ![l] = lane]
           wide == p.draining \cup {l}
           q == [p EXCEPT !.draining = wide, !.lane = lanes]
<1>1. CASE DrainResult(p, l) # "kSuccess"
  BY <1>1, Zenon DEF request_worker_drain, SameJobs, SameDebt
<1>2. CASE DrainResult(p, l) = "kSuccess"
  <2>1. l \in Lanes
    BY <1>2 DEF DrainResult
  <2>2. p \in PoolRecord /\ p.quarantined \subseteq p.draining /\ LanesFit(p) /\ ReadyFits(p)
    BY DEF PoolInv
  <2>3. p.lane \in [Lanes -> LaneRecord] /\ p.lane[l] \in LaneRecord /\ p.draining \subseteq Lanes
        /\ p.lane[l].state \in {"kIdle", "kRunning", "kReady", "kDrained"}
    BY <2>1, <2>2, PoolFields, LaneFields
  <2>4. request_worker_drain(p, l) = pump(q)
    BY <1>2, <2>2, <2>3, Zenon DEF request_worker_drain, PoolRecord, LaneTable, LaneRecord
  <2>5. lane \in LaneRecord /\ lane.job = p.lane[l].job /\ lane.state = state
    BY <2>3, Zenon DEF LaneRecord
  <2>6. LaneFits(lane, TRUE)
    <3>1. LaneFits(p.lane[l], l \in p.draining)
      BY <2>1, <2>2, Zenon DEF LanesFit
    <3> QED
      BY <2>3, <2>5, <3>1 DEF LaneFits
  <2>7. l = p.ready_index => lane.state = "kReady"
    BY <2>1, <2>2, <2>5, PoolAssumption DEF ReadyFits, NoLane
  <2> HIDE DEF lane
  <2>8. lanes \in LaneTable
    BY <2>3, <2>5, Zenon DEF LaneTable
  <2>9. wide \in SUBSET Lanes /\ l \in wide /\ p.draining \subseteq wide
        /\ p.quarantined \subseteq wide
    BY <2>1, <2>2, <2>3
  <2> HIDE DEF lanes, wide
  <2>10. q \in PoolRecord
    BY <2>2, <2>8, <2>9, Zenon DEF PoolRecord
  <2>11. /\ q.queue = p.queue /\ q.lane = lanes /\ q.draining = wide
         /\ q.quarantined = p.quarantined /\ q.ready_index = p.ready_index
         /\ q.events = p.events /\ q.owed = p.owed /\ q.skipped = p.skipped
    BY <2>2 DEF PoolRecord
  <2> HIDE DEF q
  <2>12. q.lane = [p.lane EXCEPT ![l] = lane]
    BY <2>11, Zenon DEF lanes
  <2>13. LaneFits(lane, l \in q.draining)
    BY <2>6, <2>9, <2>11 DEF LaneFits
  <2>14. (\A k \in p.draining : k = l \/ k \in q.draining) /\ q.quarantined \subseteq q.draining
    BY <2>9, <2>11, Zenon
  <2>15. PoolInv(q) /\ SameJobs(p, q) /\ SameDebt(p, q)
    BY <2>1, <2>5, <2>7, <2>10, <2>11, <2>12, <2>13, <2>14, LaneTurns, Zenon
  <2> QED
    BY <2>4, <2>15, PumpKeeps, Chained, Zenon
<1> QED
  BY <1>1, <1>2

LEMMA ReopenKeeps ==
  ASSUME NEW p, PoolInv(p), NEW l \in Lanes, p.lane[l].state = "kDrained", l \notin p.quarantined
  PROVE  PoolInv(Reopened(p, l)) /\ SameJobs(p, Reopened(p, l)) /\ SameDebt(p, Reopened(p, l))
<1> DEFINE lanes == [p.lane EXCEPT ![l] = Free]
           rest == p.draining \ {l}
           q == [p EXCEPT !.draining = rest, !.lane = lanes]
<1>1. Reopened(p, l) = pump(q)
  BY Zenon DEF Reopened
<1>2. p \in PoolRecord /\ p.quarantined \subseteq p.draining /\ LanesFit(p) /\ ReadyFits(p)
  BY DEF PoolInv
<1>3. p.lane \in [Lanes -> LaneRecord] /\ p.draining \subseteq Lanes
  BY <1>2, PoolFields
<1>4. Free \in LaneRecord /\ Free.job = NoJob /\ Free.state = "kIdle"
  BY Zenon DEF Free, LaneRecord, Codes
<1>5. Free.job = p.lane[l].job /\ LaneFits(Free, FALSE)
  BY <1>2, <1>4 DEF LanesFit, LaneFits
<1>6. l # p.ready_index
  BY <1>2, PoolAssumption DEF ReadyFits, NoLane
<1>7. lanes \in LaneTable
  BY <1>3, <1>4, Zenon DEF LaneTable
<1>8. /\ rest \in SUBSET Lanes /\ l \notin rest /\ p.quarantined \subseteq rest
      /\ \A k \in p.draining : k = l \/ k \in rest
  BY <1>2, <1>3
<1> HIDE DEF lanes, rest
<1>9. q \in PoolRecord
  BY <1>2, <1>7, <1>8, Zenon DEF PoolRecord
<1>10. /\ q.queue = p.queue /\ q.lane = lanes /\ q.draining = rest
       /\ q.quarantined = p.quarantined /\ q.ready_index = p.ready_index
       /\ q.events = p.events /\ q.owed = p.owed /\ q.skipped = p.skipped
  BY <1>2 DEF PoolRecord
<1> HIDE DEF q
<1>11. q.lane = [p.lane EXCEPT ![l] = Free]
  BY <1>10, Zenon DEF lanes
<1>12. LaneFits(Free, l \in q.draining)
  BY <1>5, <1>8, <1>10 DEF LaneFits
<1>13. PoolInv(q) /\ SameJobs(p, q) /\ SameDebt(p, q)
  BY <1>4, <1>5, <1>6, <1>8, <1>9, <1>10, <1>11, <1>12, LaneTurns, Zenon
<1> QED
  BY <1>1, <1>13, PumpKeeps, Chained, Zenon

LEMMA ResumeKeeps ==
  ASSUME NEW p, PoolInv(p), NEW l
  PROVE  /\ PoolInv(resume_worker(p, l)) /\ SameJobs(p, resume_worker(p, l))
         /\ SameDebt(p, resume_worker(p, l))
<1>1. CASE ResumeResult(p, l) # "kSuccess"
  BY <1>1, Zenon DEF resume_worker, SameJobs, SameDebt
<1>2. CASE ResumeResult(p, l) = "kSuccess"
  <2>1. l \in Lanes /\ p.lane[l].state = "kDrained" /\ l \notin p.quarantined
    BY <1>2 DEF ResumeResult
  <2>2. resume_worker(p, l) = Reopened(p, l)
    BY <1>2, Zenon DEF resume_worker
  <2> QED
    BY <2>1, <2>2, ReopenKeeps, Zenon
<1> QED
  BY <1>1, <1>2

LEMMA RecoverKeeps ==
  ASSUME NEW p, PoolInv(p), NEW l
  PROVE  /\ PoolInv(recover_worker(p, l)) /\ SameJobs(p, recover_worker(p, l))
         /\ SameDebt(p, recover_worker(p, l))
<1> DEFINE rest == p.quarantined \ {l}
           calm == [p.failures EXCEPT ![l] = 0]
           q == [p EXCEPT !.quarantined = rest, !.failures = calm]
<1>1. CASE RecoverResult(p, l) # "kSuccess"
  BY <1>1, Zenon DEF recover_worker, SameJobs, SameDebt
<1>2. CASE RecoverResult(p, l) = "kSuccess"
  <2>1. l \in Lanes /\ p.lane[l].state = "kDrained"
    BY <1>2 DEF RecoverResult
  <2>2. recover_worker(p, l) = Reopened(q, l)
    BY <1>2, Zenon DEF recover_worker
  <2>3. p \in PoolRecord /\ PoolBounds(p) /\ p.quarantined \subseteq p.draining
    BY DEF PoolInv
  <2>4. p.failures \in [Lanes -> Nat] /\ p.quarantined \subseteq Lanes
    BY <2>3, PoolFields
  <2>5. calm \in [Lanes -> Nat]
    BY <2>4, Zenon
  <2>6. rest \in SUBSET Lanes /\ l \notin rest /\ rest \subseteq p.draining
    BY <2>3, <2>4
  <2> HIDE DEF calm, rest
  <2>7. q \in PoolRecord
    BY <2>3, <2>5, <2>6, Zenon DEF PoolRecord
  <2>8. /\ q.queue = p.queue /\ q.lane = p.lane /\ q.draining = p.draining
        /\ q.quarantined = rest /\ q.ready_index = p.ready_index
        /\ q.events = p.events /\ q.owed = p.owed /\ q.skipped = p.skipped
    BY <2>3 DEF PoolRecord
  <2> HIDE DEF q
  <2>9. PoolBounds(q) /\ SameDebt(p, q)
    BY <2>3, <2>8, Zenon DEF PoolBounds, SameDebt
  <2>10. PoolInv(q) /\ SameJobs(p, q)
    BY <2>6, <2>7, <2>8, <2>9, AlikePools, Zenon
  <2>11. /\ PoolInv(Reopened(q, l)) /\ SameJobs(q, Reopened(q, l))
         /\ SameDebt(q, Reopened(q, l))
    BY <2>1, <2>6, <2>8, <2>10, ReopenKeeps, Zenon
  <2> QED
    BY <2>2, <2>9, <2>10, <2>11, Chained, Zenon
<1> QED
  BY <1>1, <1>2

LEMMA RecordKeeps ==
  ASSUME NEW p, PoolInv(p), NEW n \in Nat, NEW m \in 0..p.events
  PROVE  /\ PoolInv(Recorded(p, n, m)) /\ SameJobs(p, Recorded(p, n, m))
         /\ Recorded(p, n, m).owed = p.owed - n /\ Recorded(p, n, m).events = p.events - m
         /\ Recorded(p, n, m).skipped = p.skipped
         /\ p.owed \in Int /\ p.events \in Nat /\ p.skipped \in Nat
<1> DEFINE left == p.events - m
           owed == p.owed - n
           q == [p EXCEPT !.owed = owed, !.events = left]
<1>1. Recorded(p, n, m) = q
  BY Zenon DEF Recorded
<1>2. p \in PoolRecord /\ PoolBounds(p) /\ p.quarantined \subseteq p.draining
  BY DEF PoolInv
<1>3. p.owed \in Int /\ p.events \in Nat /\ p.skipped \in Nat
  BY <1>2, PoolFields
<1>4. left \in Nat /\ left <= p.events /\ owed \in Int
  BY <1>3
<1>5. left <= EventCapacity
  BY <1>2, <1>3, <1>4, PoolAssumption DEF PoolBounds
<1> HIDE DEF left, owed
<1>6. q \in PoolRecord
  BY <1>2, <1>4, Zenon DEF PoolRecord
<1>7. /\ q.queue = p.queue /\ q.lane = p.lane /\ q.draining = p.draining
      /\ q.quarantined = p.quarantined /\ q.ready_index = p.ready_index
      /\ q.events = left /\ q.owed = owed /\ q.skipped = p.skipped
  BY <1>2 DEF PoolRecord
<1> HIDE DEF q
<1>8. PoolBounds(q)
  BY <1>2, <1>5, <1>7, Zenon DEF PoolBounds
<1>9. PoolInv(q) /\ SameJobs(p, q)
  BY <1>2, <1>6, <1>7, <1>8, AlikePools, Zenon
<1> QED
  BY <1>1, <1>3, <1>7, <1>9 DEF left, owed

LEMMA ApplyKeeps ==
  ASSUME PoolInv(pool), NEW order
  PROVE  PoolInv(Apply(order)) /\ SameJobs(pool, Apply(order)) /\ SameDebt(pool, Apply(order))
<1>1. Apply(order) \in {request_worker_drain(pool, order.worker), pool,
                        resume_worker(pool, order.worker), recover_worker(pool, order.worker)}
  BY Zenon DEF Apply
<1>2. CASE Apply(order) = pool
  BY <1>2, Zenon DEF SameJobs, SameDebt
<1>3. CASE Apply(order) = request_worker_drain(pool, order.worker)
  BY <1>3, DrainKeeps, Zenon
<1>4. CASE Apply(order) = resume_worker(pool, order.worker)
  BY <1>4, ResumeKeeps, Zenon
<1>5. CASE Apply(order) = recover_worker(pool, order.worker)
  BY <1>5, RecoverKeeps, Zenon
<1> QED
  BY <1>1, <1>2, <1>3, <1>4, <1>5

(***************************************************************************)
(* The data side.  Of the entries of the script the first Taken were taken *)
(* from the request ring, the ring holds the ones after them, and every    *)
(* job is in one place exactly when it was taken.                          *)
(***************************************************************************)
Taken == Len(script.jobs) - unsent - Len(requests)

WasTaken(j) == \E i \in 1..Taken : script.jobs[i].kind = "job" /\ script.jobs[i].job = j

Requests ==
  /\ script \in Scripts /\ unsent \in Nat /\ requests \in Seq(JobMessage)
  /\ Len(requests) + unsent <= Len(script.jobs) /\ Len(requests) <= RingCapacity
  /\ \A i \in 1..Len(requests) : requests[i] = script.jobs[Taken + i]

Results == results \in Seq(Jobs) /\ Len(results) <= RingCapacity

\* The places of a job: how often published, in the pool, in the rejection.
Placed(taken, published, owned, rejected) ==
  \/ ~taken /\ published = 0 /\ ~owned /\ ~rejected
  \/ taken /\ published = 1 /\ ~owned /\ ~rejected
  \/ taken /\ published = 0 /\ owned /\ ~rejected
  \/ taken /\ published = 0 /\ ~owned /\ rejected

Ledger ==
  /\ delivered \in [Jobs -> Nat] /\ rejection \in Jobs \cup {NoJob}
  /\ \A j \in Jobs : Placed(WasTaken(j), delivered[j], j \in Owned(pool), rejection = j)

\* A kept rejection keeps the service from taking another request.
RejectionFirst == dpc \in {"result", "request"} => rejection = NoJob

DataInv == Requests /\ Results /\ PoolInv(pool) /\ Ledger /\ RejectionFirst

(***************************************************************************)
(* The control side: what is in the rings and in response_ is the order,   *)
(* or the answer to it, of the process it names.                           *)
(***************************************************************************)
OrderIn(s, e) ==
  /\ e.of \in 1..Len(s.orders)
  /\ e.sequence = s.orders[e.of].sequence /\ e.operation = s.orders[e.of].operation

OrderEntry == [of : Nat, sequence : Nat, operation : Operations, worker : Nat]
AnswerEntry == [of : Nat, sequence : Nat, operation : Operations,
                code : {"kSuccess", "kInvalidWorker", "kAlreadyDraining", "kWouldStrandWork",
                        "kWorkerQuarantined", "kWorkerNotDrained", "kWorkerNotQuarantined"}]

OrderRing == /\ orders \in Seq(OrderEntry) /\ Len(orders) <= RingCapacity
             /\ \A i \in 1..Len(orders) : OrderIn(script, orders[i])
AnswerRing == /\ responses \in Seq(AnswerEntry) /\ Len(responses) <= RingCapacity
              /\ \A i \in 1..Len(responses) : OrderIn(script, responses[i])
AnswerKept == response = NoResponse \/ (response \in AnswerEntry /\ OrderIn(script, response))
Processes == invocation \in Nat \ {0} /\ (waiting => invocation <= Len(script.orders))
Histories == asked \in Seq(Nat) /\ answered \in Seq(Nat)

ControlInv ==
  /\ script \in Scripts /\ OrderRing /\ AnswerRing /\ AnswerKept /\ Processes /\ Histories
  /\ AcknowledgedStop /\ OrdersKept

\* Orders and answers stand in line: the answers reported are of earlier
\* processes than those in the ring, these than the one kept in response_, and
\* this one than the orders still to be answered; none is of a later process than
\* the one that runs, or of this one before it has submitted.
Told == {r[2] : r \in reports}
Held == IF response = NoResponse THEN {} ELSE {response.of}
Ofs(s) == {s[i].of : i \in 1..Len(s)}
Rising(s) == \A i, k \in 1..Len(s) : i < k => s[i].of < s[k].of
Below(A, B) == \A a \in A : \A b \in B : a < b
Line(T, R, H, O) == /\ Below(T, R) /\ Below(T, H) /\ Below(T, O)
                    /\ Below(R, H) /\ Below(R, O) /\ Below(H, O)
Within(A, n, w) == \A x \in A : x \in Nat /\ x <= n /\ (x = n => w)
InLine ==
  /\ Rising(responses) /\ Rising(orders) /\ Line(Told, Ofs(responses), Held, Ofs(orders))
  /\ Within(Told, invocation, waiting) /\ Within(Ofs(responses), invocation, waiting)
  /\ Within(Held, invocation, waiting) /\ Within(Ofs(orders), invocation, waiting)

\* The daemon leaves its loop when it fails.
MainInv ==
  /\ dpc \in {"rejection", "result", "request", "control", "events", "final", "exited"}
  /\ failed => dpc \in {"final", "exited"}
  /\ EventsCounted

-----------------------------------------------------------------------------
LEMMA RequestsStay ==
  ASSUME Requests, UNCHANGED <<script, unsent, requests>>
  PROVE  Requests' /\ \A j \in Jobs : WasTaken(j)' <=> WasTaken(j)
<1>1. Taken' = Taken
  BY Zenon DEF Taken
<1> QED
  BY <1>1, Zenon DEF Requests, WasTaken

LEMMA LengthFacts ==
  ASSUME Requests
  PROVE  /\ Len(script.jobs) \in Nat /\ unsent \in Nat /\ Len(requests) \in Nat /\ Taken \in Nat
         /\ Taken + Len(requests) + unsent = Len(script.jobs)
         /\ script.jobs \in Seq(JobMessage) /\ requests \in Seq(JobMessage)
<1>1. script.jobs \in Seq(JobMessage)
  BY TrafficAssumption, Zenon DEF JobMessage, Requests
<1>2. /\ Len(script.jobs) \in Nat /\ unsent \in Nat /\ Len(requests) \in Nat
      /\ Len(requests) + unsent <= Len(script.jobs) /\ requests \in Seq(JobMessage)
  BY <1>1, SeqLen DEF Requests
<1> QED
  BY <1>1, <1>2 DEF Taken

LEMMA SubmitStep ==
  ASSUME Requests, Submit
  PROVE  Requests' /\ \A j \in Jobs : WasTaken(j)' <=> WasTaken(j)
<1> DEFINE n == Len(script.jobs) - unsent + 1
<1>1. /\ unsent > 0 /\ Len(requests) < RingCapacity /\ script' = script
      /\ requests' = Append(requests, script.jobs[n]) /\ unsent' = unsent - 1
  BY DEF Submit
<1>2. /\ Len(script.jobs) \in Nat /\ unsent \in Nat /\ Len(requests) \in Nat /\ Taken \in Nat
      /\ Taken + Len(requests) + unsent = Len(script.jobs)
  BY LengthFacts, Zenon
<1>2a. script.jobs \in Seq(JobMessage) /\ requests \in Seq(JobMessage)
  BY LengthFacts, Zenon
<1>2b. unsent > 0
  BY <1>1
<1>3. n \in 1..Len(script.jobs) /\ n = Taken + (Len(requests) + 1)
  BY <1>2, <1>2b
<1> HIDE DEF n
<1>4. script.jobs[n] \in JobMessage
  BY <1>2a, <1>3, SeqElement, Zenon
<1>5. /\ requests' \in Seq(JobMessage) /\ Len(requests') = Len(requests) + 1
      /\ \A i \in 1..Len(requests) : requests'[i] = requests[i]
      /\ requests'[Len(requests) + 1] = script.jobs[n]
  BY <1>1, <1>2a, <1>4, Appended
<1>6. unsent' \in Nat /\ Len(requests') + unsent' <= Len(script.jobs)
      /\ Len(requests') <= RingCapacity
      /\ Len(script.jobs) - unsent' - Len(requests') = Len(script.jobs) - unsent - Len(requests)
  BY <1>1, <1>2, <1>5, TrafficAssumption
<1>7. Taken' = Taken
  BY <1>1, <1>6, Zenon DEF Taken
<1>8. \A i \in 1..Len(requests') : requests'[i] = script.jobs[Taken + i]
  <2> SUFFICES ASSUME NEW i \in 1..Len(requests') PROVE requests'[i] = script.jobs[Taken + i]
    BY Zenon
  <2>1. i \in 1..Len(requests) \/ i = Len(requests) + 1
    BY <1>2, <1>5
  <2>2. CASE i \in 1..Len(requests)
    BY <2>2, <1>5, Zenon DEF Requests
  <2>3. CASE i = Len(requests) + 1
    BY <2>3, <1>3, <1>5, Zenon
  <2> QED
    BY <2>1, <2>2, <2>3
<1>9. Requests'
  BY <1>1, <1>5, <1>6, <1>7, <1>8, Zenon DEF Requests
<1> QED
  BY <1>1, <1>7, <1>9, Zenon DEF WasTaken

LEMMA TakeStep ==
  ASSUME Requests, requests # <<>>, requests' = Tail(requests), UNCHANGED <<script, unsent>>
  PROVE  /\ Requests'
         /\ Head(requests).kind # "job" => \A j \in Jobs : WasTaken(j)' <=> WasTaken(j)
         /\ Head(requests).kind = "job" =>
              /\ Head(requests).job \in Jobs /\ ~WasTaken(Head(requests).job)
              /\ \A j \in Jobs : WasTaken(j)' <=> WasTaken(j) \/ j = Head(requests).job
<1> DEFINE h == Head(requests)
<1>1. /\ Len(script.jobs) \in Nat /\ unsent \in Nat /\ Len(requests) \in Nat /\ Taken \in Nat
      /\ Taken + Len(requests) + unsent = Len(script.jobs)
      /\ script.jobs \in Seq(JobMessage) /\ requests \in Seq(JobMessage)
  BY LengthFacts
<1>2. /\ requests' \in Seq(JobMessage) /\ Len(requests') = Len(requests) - 1
      /\ \A i \in 1..Len(requests') : requests'[i] = requests[i + 1]
  BY <1>1, HeadAndTail, Zenon
<1>3. Len(requests) > 0
  BY <1>1, SeqEmpty
<1>4. h = requests[1] /\ 1 \in 1..Len(requests)
  BY <1>1, <1>3
<1>5. h = script.jobs[Taken + 1]
  BY <1>4, Zenon DEF Requests
<1>6. /\ Len(requests') + unsent <= Len(script.jobs) /\ Len(requests') <= RingCapacity
      /\ Len(script.jobs) - unsent - Len(requests') = Len(script.jobs) - unsent - Len(requests) + 1
      /\ Taken + 1 \in 1..Len(script.jobs)
  BY <1>1, <1>2, <1>3, TrafficAssumption DEF Requests
<1>7. Taken' = Taken + 1
  BY <1>6, Zenon DEF Taken
<1>8. \A i \in 1..Len(requests') : requests'[i] = script.jobs[(Taken + 1) + i]
  <2> SUFFICES ASSUME NEW i \in 1..Len(requests')
               PROVE  requests'[i] = script.jobs[(Taken + 1) + i]
    BY Zenon
  <2>1. i + 1 \in 1..Len(requests) /\ Taken + (i + 1) = (Taken + 1) + i
    BY <1>1, <1>2
  <2>2. requests[i + 1] = script.jobs[Taken + (i + 1)]
    BY <2>1, Zenon DEF Requests
  <2> QED
    BY <2>1, <2>2, <1>2, Zenon
<1>9. Requests'
  BY <1>1, <1>2, <1>6, <1>7, <1>8, Zenon DEF Requests
<1>10. \A i : i \in 1..(Taken + 1) <=> i \in 1..Taken \/ i = Taken + 1
  BY <1>1
<1>11. \A j : WasTaken(j)' <=> WasTaken(j) \/ (h.kind = "job" /\ h.job = j)
  BY <1>5, <1>7, <1>10, Zenon DEF WasTaken
<1>12. ASSUME h.kind = "job" PROVE h.job \in Jobs /\ ~WasTaken(h.job)
  <2>1. h.job \in Jobs
    BY <1>5, <1>6, <1>12, MessageFacts, Zenon DEF Requests
  <2>2. ASSUME WasTaken(h.job) PROVE FALSE
    <3>1. PICK i \in 1..Taken : script.jobs[i].kind = "job" /\ script.jobs[i].job = h.job
      BY <2>2, Zenon DEF WasTaken
    <3>2. i \in DOMAIN script.jobs /\ Taken + 1 \in DOMAIN script.jobs /\ i # Taken + 1
      BY <1>1, <1>6
    <3>3. script \in Scripts
      BY DEF Requests
    <3>4. script.jobs[Taken + 1].job = script.jobs[i].job => i = Taken + 1
      BY <3>1, <3>2, <3>3, TrafficAssumption, Zenon
    <3> QED
      BY <3>1, <3>2, <3>4, <1>5, Zenon
  <2> QED
    BY <2>1, <2>2
<1> QED
  BY <1>9, <1>11, <1>12, Zenon

LEMMA LedgerStays ==
  ASSUME Ledger, SameJobs(pool, pool'), UNCHANGED <<delivered, rejection>>,
         \A j \in Jobs : WasTaken(j)' <=> WasTaken(j)
  PROVE  Ledger'
<1>1. ASSUME NEW j \in Jobs
      PROVE  Placed(WasTaken(j)', delivered'[j], j \in Owned(pool'), rejection' = j)
  <2>1. /\ j \in Owned(pool') <=> j \in Owned(pool)
        /\ Placed(WasTaken(j), delivered[j], j \in Owned(pool), rejection = j)
        /\ WasTaken(j)' <=> WasTaken(j)
    BY Zenon DEF SameJobs, Ledger
  <2> QED
    BY <2>1, Zenon DEF Placed
<1> QED
  BY <1>1, Zenon DEF Ledger

\* A result put in the ring, of a job that is in no other place after that.
LEMMA PublishStep ==
  ASSUME Results, Ledger, Room, NEW j \in Jobs, Publish(j), delivered[j] = 0,
         rejection' \in Jobs \cup {NoJob}, rejection' # j, j \notin Owned(pool'),
         \A k \in Jobs \ {j} : /\ WasTaken(k)' <=> WasTaken(k)
                               /\ k \in Owned(pool') <=> k \in Owned(pool)
                               /\ rejection' = k <=> rejection = k,
         WasTaken(j)'
  PROVE  Results' /\ Ledger'
<1>1. results \in Seq(Jobs) /\ Len(results) < RingCapacity /\ results' = Append(results, j)
  BY DEF Results, Room, Publish
<1>2. results' \in Seq(Jobs) /\ Len(results') = Len(results) + 1 /\ Len(results) \in Nat
  BY <1>1, Appended, SeqLen
<1>3. Results'
  BY <1>1, <1>2, TrafficAssumption DEF Results
<1>4. delivered \in [Jobs -> Nat]
  BY DEF Ledger
<1>5. delivered' = [delivered EXCEPT ![j] = delivered[j] + 1]
  BY DEF Publish
<1>6. delivered[j] + 1 = 1
  OBVIOUS
<1>7. /\ delivered' \in [Jobs -> Nat] /\ delivered'[j] = 1
      /\ \A k \in Jobs \ {j} : delivered'[k] = delivered[k]
  BY <1>4, <1>5, <1>6
<1>8. ASSUME NEW k \in Jobs
      PROVE  Placed(WasTaken(k)', delivered'[k], k \in Owned(pool'), rejection' = k)
  <2>1. CASE k = j
    BY <2>1, <1>7, Zenon DEF Placed
  <2>2. CASE k # j
    <3>1. k \in Jobs \ {j}
      BY <2>2
    <3>2. /\ WasTaken(k)' <=> WasTaken(k)
          /\ k \in Owned(pool') <=> k \in Owned(pool)
          /\ rejection' = k <=> rejection = k
          /\ delivered'[k] = delivered[k]
      BY <3>1, <1>7, Zenon
    <3>3. Placed(WasTaken(k), delivered[k], k \in Owned(pool), rejection = k)
      BY Zenon DEF Ledger
    <3> QED
      BY <3>2, <3>3, Zenon DEF Placed
  <2> QED
    BY <2>1, <2>2
<1> QED
  BY <1>3, <1>7, <1>8, Zenon DEF Ledger

LEMMA PlacedFacts ==
  ASSUME Ledger, NEW j \in Jobs
  PROVE  /\ rejection = j => WasTaken(j) /\ delivered[j] = 0 /\ j \notin Owned(pool)
         /\ j \in Owned(pool) => WasTaken(j) /\ delivered[j] = 0 /\ rejection # j
         /\ ~WasTaken(j) => delivered[j] = 0 /\ rejection # j /\ j \notin Owned(pool)
<1>1. Placed(WasTaken(j), delivered[j], j \in Owned(pool), rejection = j)
  BY Zenon DEF Ledger
<1> QED
  BY <1>1 DEF Placed

LEMMA PollRejectionData ==
  ASSUME DataInv, PollRejection
  PROVE  DataInv'
<1>1. Requests /\ Results /\ PoolInv(pool) /\ Ledger
  BY DEF DataInv
<1>2. UNCHANGED <<script, unsent, requests, pool>> /\ dpc' \in {"result", "control"}
  BY DEF PollRejection, Return, dataVars, clientVars
<1>3. Requests' /\ \A j \in Jobs : WasTaken(j)' <=> WasTaken(j)
  BY <1>1, <1>2, RequestsStay, Zenon
<1>4. PoolInv(pool)' /\ SameJobs(pool, pool')
  BY <1>1, <1>2, Zenon DEF SameJobs
<1>5. CASE UNCHANGED <<results, delivered, rejection>> /\ (rejection = NoJob \/ dpc' = "control")
  <2>1. Results'
    BY <1>1, <1>5, Zenon DEF Results
  <2>2. Ledger'
    BY <1>1, <1>3, <1>4, <1>5, LedgerStays, Zenon
  <2>3. RejectionFirst'
    BY <1>5 DEF RejectionFirst
  <2> QED
    BY <1>3, <1>4, <2>1, <2>2, <2>3, Zenon DEF DataInv
<1>6. CASE rejection # NoJob /\ Room /\ Publish(rejection) /\ rejection' = NoJob
  <2>1. rejection \in Jobs
    BY <1>1, <1>6, Zenon DEF Ledger
  <2>2. WasTaken(rejection) /\ delivered[rejection] = 0 /\ rejection \notin Owned(pool)
    BY <1>1, <2>1, PlacedFacts, Zenon
  <2>3. rejection' # rejection /\ rejection' \in Jobs \cup {NoJob}
    BY <1>6, Zenon
  <2>4. ASSUME NEW k \in Jobs \ {rejection}
        PROVE  /\ WasTaken(k)' <=> WasTaken(k)
               /\ k \in Owned(pool') <=> k \in Owned(pool)
               /\ rejection' = k <=> rejection = k
    BY <1>2, <1>3, <1>6, JobsFacts, Zenon
  <2>5. rejection \notin Owned(pool')
    BY <1>2, <2>2, Zenon
  <2>6. Results' /\ Ledger'
    BY <1>1, <1>3, <1>6, <2>1, <2>2, <2>3, <2>4, <2>5, PublishStep, Zenon
  <2>7. RejectionFirst'
    BY <1>6, Zenon DEF RejectionFirst
  <2> QED
    BY <1>3, <1>4, <2>6, <2>7, Zenon DEF DataInv
<1>7. \/ UNCHANGED <<results, delivered, rejection>> /\ (rejection = NoJob \/ dpc' = "control")
      \/ rejection # NoJob /\ Room /\ Publish(rejection) /\ rejection' = NoJob
  BY Zenon DEF PollRejection, Return, dataVars
<1> QED
  BY <1>5, <1>6, <1>7

LEMMA PollResultData ==
  ASSUME DataInv, PollResult
  PROVE  DataInv'
<1> DEFINE offered == ready_result(pool)
           job == offered.lane[offered.ready_index].job
<1>1. Requests /\ Results /\ PoolInv(pool) /\ Ledger /\ RejectionFirst
  BY DEF DataInv
<1>2. UNCHANGED <<script, unsent, requests, rejection>> /\ dpc = "result"
  BY DEF PollResult, Return, dataVars, clientVars
<1>3. Requests' /\ \A j \in Jobs : WasTaken(j)' <=> WasTaken(j)
  BY <1>1, <1>2, RequestsStay, Zenon
<1>4. RejectionFirst'
  BY <1>1, <1>2, Zenon DEF RejectionFirst
<1>5. PoolInv(offered) /\ SameJobs(pool, offered)
  BY <1>1, OfferKeeps, Zenon
<1>6. \/ UNCHANGED <<pool, results, delivered>>
      \/ /\ offered.ready_index # NoLane /\ Room /\ Publish(job)
         /\ pool' = release_ready_result(offered)
      \/ pool' = offered /\ UNCHANGED <<results, delivered>>
  BY Zenon DEF PollResult, dataVars
<1> HIDE DEF offered
<1>7. CASE UNCHANGED <<results, delivered>> /\ PoolInv(pool') /\ SameJobs(pool, pool')
  <2>1. Results'
    BY <1>1, <1>7, Zenon DEF Results
  <2>2. Ledger'
    BY <1>1, <1>2, <1>3, <1>7, LedgerStays, Zenon
  <2> QED
    BY <1>3, <1>4, <1>7, <2>1, <2>2, Zenon DEF DataInv
<1>8. CASE /\ offered.ready_index # NoLane /\ Room /\ Publish(job)
           /\ pool' = release_ready_result(offered)
  <2>1. /\ PoolInv(pool') /\ job \in Jobs /\ job \in Owned(offered)
        /\ \A j \in Jobs : j \in Owned(pool') <=> j \in Owned(offered) /\ j # job
    BY <1>5, <1>8, ReleaseKeeps, Zenon
  <2> HIDE DEF job
  <2>1a. PICK j \in Jobs : j = job
    BY <2>1, Zenon
  <2>2. j \in Owned(pool) /\ j \notin Owned(pool')
    BY <1>5, <2>1, <2>1a, Zenon DEF SameJobs
  <2>3. WasTaken(j) /\ delivered[j] = 0 /\ rejection # j
    BY <1>1, <2>1, <2>1a, <2>2, PlacedFacts, Zenon
  <2>4. ASSUME NEW k \in Jobs \ {j}
        PROVE  /\ WasTaken(k)' <=> WasTaken(k)
               /\ k \in Owned(pool') <=> k \in Owned(pool)
               /\ rejection' = k <=> rejection = k
    BY <1>2, <1>3, <1>5, <2>1, <2>1a, Zenon DEF SameJobs
  <2>5. rejection' \in Jobs \cup {NoJob} /\ rejection' # j /\ WasTaken(j)'
    BY <1>1, <1>2, <1>3, <2>1, <2>1a, <2>3, Zenon DEF Ledger
  <2>6. Results' /\ Ledger'
    BY <1>1, <1>8, <2>1, <2>1a, <2>2, <2>3, <2>4, <2>5, PublishStep, Zenon
  <2> QED
    BY <1>3, <1>4, <2>1, <2>1a, <2>6, Zenon DEF DataInv
<1>9. CASE UNCHANGED <<pool, results, delivered>>
  BY <1>1, <1>7, <1>9, Zenon DEF SameJobs
<1>10. CASE pool' = offered /\ UNCHANGED <<results, delivered>>
  BY <1>5, <1>7, <1>10, Zenon
<1> QED
  BY <1>6, <1>8, <1>9, <1>10, Zenon

\* A job the pool accepts is in the pool; one it refuses is in the ring or kept.
LEMMA PollRequestData ==
  ASSUME DataInv, PollRequest
  PROVE  DataInv'
<1>1. Requests /\ Results /\ PoolInv(pool) /\ Ledger /\ rejection = NoJob
  BY DEF DataInv, RejectionFirst, PollRequest
<1>2. UNCHANGED <<script, unsent>> /\ dpc' = "control"
  BY DEF PollRequest, Return, clientVars
<1>3. RejectionFirst'
  BY <1>2 DEF RejectionFirst
<1>4. CASE requests = <<>> /\ UNCHANGED dataVars
  <2>1. Requests' /\ \A j \in Jobs : WasTaken(j)' <=> WasTaken(j)
    BY <1>1, <1>2, <1>4, RequestsStay, Zenon DEF dataVars
  <2>2. PoolInv(pool') /\ SameJobs(pool, pool') /\ Results'
    BY <1>1, <1>4, Zenon DEF SameJobs, dataVars, Results
  <2>3. Ledger'
    BY <1>1, <1>4, <2>1, <2>2, LedgerStays, Zenon DEF dataVars
  <2> QED
    BY <1>3, <2>1, <2>2, <2>3, Zenon DEF DataInv
<1>5. CASE requests # <<>> /\ requests' = Tail(requests)
  <2> DEFINE h == Head(requests)
  <2>1. /\ Requests'
        /\ h.kind # "job" => \A j \in Jobs : WasTaken(j)' <=> WasTaken(j)
        /\ h.kind = "job" => /\ h.job \in Jobs /\ ~WasTaken(h.job)
                             /\ \A j \in Jobs : WasTaken(j)' <=> WasTaken(j) \/ j = h.job
    BY <1>1, <1>2, <1>5, TakeStep, Zenon
  <2>2. \/ h.kind # "job" /\ UNCHANGED <<results, pool, rejection, delivered>>
        \/ /\ h.kind = "job" /\ submit_accepts(pool, h.job)
           /\ \E late \in SUBSET Lanes : pool' = submit(pool, h.job, late)
           /\ UNCHANGED <<results, rejection, delivered>>
        \/ /\ h.kind = "job" /\ ~submit_accepts(pool, h.job)
           /\ pool' = submit(pool, h.job, {})
           /\ Reject(h.job)
    <3>1. "corrupt" # "job" /\ "shutdown" # "job"
      OBVIOUS
    <3> QED
      BY <1>5, <3>1, Zenon DEF PollRequest
  <2> HIDE DEF h
  <2>3. CASE h.kind # "job" /\ UNCHANGED <<results, pool, rejection, delivered>>
    <3>1. PoolInv(pool') /\ SameJobs(pool, pool') /\ Results'
      BY <1>1, <2>3, Zenon DEF SameJobs, Results
    <3>2. Ledger'
      BY <1>1, <2>1, <2>3, <3>1, LedgerStays, Zenon
    <3> QED
      BY <1>3, <2>1, <3>1, <3>2, Zenon DEF DataInv
  <2>4. ASSUME h.kind = "job"
        PROVE  \E j \in Jobs : /\ j = h.job /\ ~WasTaken(j) /\ delivered[j] = 0
                               /\ j \notin Owned(pool)
                               /\ \A k \in Jobs : WasTaken(k)' <=> WasTaken(k) \/ k = j
    <3>1. PICK j \in Jobs : j = h.job
      BY <2>1, <2>4, Zenon
    <3>2. ~WasTaken(j) /\ \A k \in Jobs : WasTaken(k)' <=> WasTaken(k) \/ k = j
      BY <2>1, <2>4, <3>1, Zenon
    <3>3. delivered[j] = 0 /\ j \notin Owned(pool)
      BY <1>1, <3>2, PlacedFacts, Zenon
    <3> QED
      BY <3>1, <3>2, <3>3, Zenon
  <2>5. CASE /\ h.kind = "job" /\ submit_accepts(pool, h.job)
             /\ \E late \in SUBSET Lanes : pool' = submit(pool, h.job, late)
             /\ UNCHANGED <<results, rejection, delivered>>
    <3>1. PICK j \in Jobs : /\ j = h.job /\ ~WasTaken(j) /\ delivered[j] = 0
                            /\ j \notin Owned(pool)
                            /\ \A k \in Jobs : WasTaken(k)' <=> WasTaken(k) \/ k = j
      BY <2>4, <2>5, Zenon
    <3>2. /\ PoolInv(pool')
          /\ \A k \in Jobs : k \in Owned(pool') <=> k \in Owned(pool) \/ k = j
      <4>1. PICK late : pool' = submit(pool, j, late)
        BY <2>5, <3>1, Zenon
      <4>2. submit_accepts(pool, j) /\ PoolInv(pool) /\ j \notin Owned(pool)
        BY <1>1, <2>5, <3>1, Zenon
      <4> QED
        BY <4>1, <4>2, SubmitKeeps, Zenon
    <3>3. ASSUME NEW k \in Jobs
          PROVE  Placed(WasTaken(k)', delivered'[k], k \in Owned(pool'), rejection' = k)
      <4>1. Placed(WasTaken(k), delivered[k], k \in Owned(pool), rejection = k) /\ rejection # k
        BY <1>1, JobsFacts, Zenon DEF Ledger
      <4>2. CASE k = j
        BY <4>2, <2>5, <3>1, <3>2, <4>1, Zenon DEF Placed
      <4>3. CASE k # j
        <5>1. (WasTaken(k)' <=> WasTaken(k)) /\ (k \in Owned(pool') <=> k \in Owned(pool))
              /\ delivered'[k] = delivered[k] /\ (rejection' = k <=> rejection = k)
          BY <4>3, <2>5, <3>1, <3>2, Zenon
        <5> QED
          BY <5>1, <4>1, Zenon DEF Placed
      <4> QED
        BY <4>2, <4>3
    <3>4. Ledger' /\ Results'
      BY <1>1, <2>5, <3>3, Zenon DEF Ledger, Results
    <3> QED
      BY <1>3, <2>1, <3>2, <3>4, Zenon DEF DataInv
  <2>6. CASE /\ h.kind = "job" /\ ~submit_accepts(pool, h.job)
             /\ pool' = submit(pool, h.job, {})
             /\ Reject(h.job)
    <3>1. PICK j \in Jobs : /\ j = h.job /\ ~WasTaken(j) /\ delivered[j] = 0
                            /\ j \notin Owned(pool)
                            /\ \A k \in Jobs : WasTaken(k)' <=> WasTaken(k) \/ k = j
      BY <2>4, <2>6, Zenon
    <3>2. pool' = emits(pool, 1)
      BY <2>6, Zenon DEF submit, emit
    <3>3. PoolInv(pool') /\ SameJobs(pool, pool')
      BY <1>1, <3>2, EmitsKeeps
    <3>4. ASSUME NEW k \in Jobs, k # j
          PROVE  (WasTaken(k)' <=> WasTaken(k)) /\ (k \in Owned(pool') <=> k \in Owned(pool))
      BY <3>1, <3>3, <3>4, Zenon DEF SameJobs
    <3>5. j \notin Owned(pool') /\ WasTaken(j)' /\ delivered[j] = 0
      BY <3>1, <3>3, Zenon DEF SameJobs
    <3>6. ASSUME NEW k \in Jobs, k # j
          PROVE  Placed(WasTaken(k)', delivered[k], k \in Owned(pool'), FALSE)
      <4>1. Placed(WasTaken(k), delivered[k], k \in Owned(pool), rejection = k) /\ rejection # k
        BY <1>1, JobsFacts, Zenon DEF Ledger
      <4> QED
        BY <3>4, <3>6, <4>1, Zenon DEF Placed
    <3>7. CASE ~Room
      <4>1. rejection' = j /\ UNCHANGED <<results, delivered>>
        BY <2>6, <3>1, <3>7, Zenon DEF Reject
      <4>2. ASSUME NEW k \in Jobs
            PROVE  Placed(WasTaken(k)', delivered'[k], k \in Owned(pool'), rejection' = k)
        <5>1. CASE k = j
          BY <5>1, <3>5, <4>1, Zenon DEF Placed
        <5>2. CASE k # j
          BY <5>2, <3>6, <4>1, Zenon DEF Placed
        <5> QED
          BY <5>1, <5>2
      <4>3. Ledger' /\ Results'
        BY <1>1, <4>1, <4>2, Zenon DEF Ledger, Results
      <4> QED
        BY <1>3, <2>1, <3>3, <4>3, Zenon DEF DataInv
    <3>8. CASE Room
      <4>1. Publish(j) /\ rejection' = NoJob
        BY <1>1, <2>6, <3>1, <3>8, Zenon DEF Reject
      <4>2. ASSUME NEW k \in Jobs \ {j}
            PROVE  /\ WasTaken(k)' <=> WasTaken(k)
                   /\ k \in Owned(pool') <=> k \in Owned(pool)
                   /\ rejection' = k <=> rejection = k
        BY <1>1, <3>4, <4>1, Zenon
      <4>3. rejection' \in Jobs \cup {NoJob} /\ rejection' # j
        BY <4>1, JobsFacts, Zenon
      <4>4. Results' /\ Ledger'
        BY <1>1, <3>5, <3>8, <4>1, <4>2, <4>3, PublishStep, Zenon
      <4> QED
        BY <1>3, <2>1, <3>3, <4>4, Zenon DEF DataInv
    <3> QED
      BY <3>7, <3>8
  <2> QED
    BY <2>2, <2>3, <2>5, <2>6
<1>6. (requests = <<>> /\ UNCHANGED dataVars) \/ (requests # <<>> /\ requests' = Tail(requests))
  BY Zenon DEF PollRequest
<1> QED
  BY <1>4, <1>5, <1>6

\* What the other steps do to the pool.
LEMMA OtherPools ==
  ASSUME PoolInv(pool),
         PollControl \/ DrainEvents \/ FinalDrain \/ \E l \in Lanes : Work(l)
  PROVE  PoolInv(pool') /\ SameJobs(pool, pool')
<1>1. CASE PollControl
  <2>1. pool' = pool \/ pool' = Apply(Head(orders))
    BY <1>1, Zenon DEF PollControl, ControlPoll
  <2> QED
    BY <2>1, ApplyKeeps, Zenon DEF SameJobs
<1>2. pool.events \in Nat
  BY PoolFields DEF PoolInv
<1>3. CASE DrainEvents
  <2>1. \E n \in Nat, m \in 0..pool.events : pool' = Recorded(pool, n, m)
    <3>1. pool.events \in 0..pool.events
      BY <1>2
    <3>2. \A n \in 0..pool.events : n \in Nat /\ n + 1 \in Nat
      BY <1>2
    <3> QED
      BY <1>2, <1>3, <3>1, <3>2, Zenon DEF DrainEvents
  <2> QED
    BY <2>1, RecordKeeps, Zenon
<1>4. CASE FinalDrain
  <2>1. pool.events \in 0..pool.events /\ pool' = Recorded(pool, pool.events, pool.events)
    BY <1>2, <1>4 DEF FinalDrain
  <2> QED
    BY <1>2, <2>1, RecordKeeps, Zenon
<1>5. CASE \E l \in Lanes : Work(l)
  <2>1. PICK l \in Lanes : Work(l)
    BY <1>5
  <2>2. pool.lane[l].state = "kRunning" /\ \E code \in Codes : pool' = Finish(pool, l, code)
    BY <2>1, Zenon DEF Work, Outcomes, Codes
  <2> QED
    BY <2>2, FinishKeeps, Zenon
<1> QED
  BY <1>1, <1>3, <1>4, <1>5

LEMMA DataInit ==
  ASSUME Init PROVE DataInv
<1>1. /\ script \in Scripts /\ unsent = Len(script.jobs) /\ requests = <<>> /\ results = <<>>
      /\ pool = InitPool /\ rejection = NoJob /\ delivered = [j \in Jobs |-> 0]
  BY DEF Init
<1>2. script.jobs \in Seq(JobMessage) /\ Len(script.jobs) \in Nat
  BY <1>1, TrafficAssumption DEF JobMessage
<1>3. Len(requests) = 0 /\ requests \in Seq(JobMessage) /\ Len(results) = 0 /\ results \in Seq(Jobs)
  BY <1>1, SeqEmpty
<1>4. Taken = 0
  <2>1. \A n \in Nat : n - n - 0 = 0
    OBVIOUS
  <2> QED
    BY <1>1, <1>2, <1>3, <2>1, Zenon DEF Taken
<1>5. Requests
  <2>1. /\ unsent \in Nat /\ Len(requests) + unsent <= Len(script.jobs)
        /\ Len(requests) <= RingCapacity /\ \A i : i \notin 1..Len(requests)
    BY <1>1, <1>2, <1>3, TrafficAssumption
  <2> QED
    BY <1>1, <1>3, <2>1, Zenon DEF Requests
<1>6. Results
  BY <1>3, TrafficAssumption DEF Results
<1>7. /\ pool.queue = <<>> /\ pool.lane = [l \in Lanes |-> Free] /\ pool.draining = {}
      /\ pool.quarantined = {} /\ pool.failures = [l \in Lanes |-> 0]
      /\ pool.ready_index = NoLane /\ pool.events = 0 /\ pool.owed = 0 /\ pool.skipped = 0
  BY <1>1, Zenon DEF InitPool
<1>8. Free \in LaneRecord /\ Free.job = NoJob /\ Free.state = "kIdle"
  BY Zenon DEF Free, LaneRecord, Codes
<1>9. pool \in PoolRecord
  <2>1. /\ <<>> \in Queues /\ [l \in Lanes |-> Free] \in LaneTable
        /\ [l \in Lanes |-> 0] \in [Lanes -> Nat]
    BY <1>8, SeqEmpty DEF Queues, LaneTable
  <2> QED
    BY <1>1, <2>1 DEF InitPool, PoolRecord
<1>10. \A l \in Lanes : pool.lane[l] = Free
  BY <1>7, Zenon
<1>11. Len(pool.queue) = 0
  BY <1>7
<1>12. PoolBounds(pool)
  BY <1>7, <1>11, PoolAssumption DEF PoolBounds
<1>13. LanesFit(pool) /\ ReadyFits(pool) /\ LanesOnce(pool)
  BY <1>7, <1>8, <1>10 DEF LanesFit, LaneFits, ReadyFits, LanesOnce
<1>14. \A i : i \notin 1..Len(pool.queue)
  BY <1>11
<1>15. QueueOnce(pool) /\ QueueOrLane(pool)
  BY <1>14, Zenon DEF QueueOnce, QueueOrLane
<1>16. PoolInv(pool)
  BY <1>7, <1>9, <1>12, <1>13, <1>15, Zenon DEF PoolInv
<1>17. ASSUME NEW j \in Jobs
       PROVE  Placed(WasTaken(j), delivered[j], j \in Owned(pool), rejection = j)
  <2>1. j # NoJob /\ rejection # j
    BY <1>1, JobsFacts, Zenon
  <2>2. \A l \in Lanes : pool.lane[l].job # j
    BY <1>8, <1>10, <2>1, Zenon
  <2>3. j \notin Owned(pool)
    BY <1>14, <2>2, OwnedFacts, Zenon
  <2>4. delivered[j] = 0
    BY <1>1, Zenon
  <2>5. \A i : i \notin 1..Taken
    BY <1>4
  <2>6. ~WasTaken(j)
    BY <2>5, Zenon DEF WasTaken
  <2> QED
    BY <2>1, <2>3, <2>4, <2>6, Zenon DEF Placed
<1>18. Ledger
  <2>1. delivered \in [Jobs -> Nat]
    BY <1>1
  <2> QED
    BY <1>1, <1>17, <2>1, Zenon DEF Ledger
<1>19. RejectionFirst
  BY <1>1, Zenon DEF RejectionFirst
<1> QED
  BY <1>5, <1>6, <1>16, <1>18, <1>19 DEF DataInv

LEMMA DataStep ==
  ASSUME DataInv, [Next]_vars PROVE DataInv'
<1>1. Requests /\ Results /\ PoolInv(pool) /\ Ledger /\ RejectionFirst
  BY DEF DataInv
<1>2. ASSUME Requests', \A j \in Jobs : WasTaken(j)' <=> WasTaken(j), Results', PoolInv(pool'),
             SameJobs(pool, pool'), UNCHANGED <<delivered, rejection>>,
             dpc' = dpc \/ dpc' \notin {"result", "request"}
      PROVE  DataInv'
  <2>1. Ledger'
    BY <1>1, <1>2, LedgerStays, Zenon
  <2>2. RejectionFirst'
    BY <1>1, <1>2, Zenon DEF RejectionFirst
  <2> QED
    BY <1>2, <2>1, <2>2, Zenon DEF DataInv
<1>3. ASSUME UNCHANGED <<script, unsent, requests, results, delivered, rejection>>,
             PoolInv(pool'), SameJobs(pool, pool'), dpc' = dpc \/ dpc' \notin {"result", "request"}
      PROVE  DataInv'
  <2>1. Requests' /\ \A j \in Jobs : WasTaken(j)' <=> WasTaken(j)
    BY <1>1, <1>3, RequestsStay, Zenon
  <2>2. Results'
    BY <1>1, <1>3, Zenon DEF Results
  <2> QED
    BY <1>2, <1>3, <2>1, <2>2, Zenon
<1>4. SameJobs(pool, pool)
  BY Zenon DEF SameJobs
<1>5. CASE PollRejection
  BY <1>5, PollRejectionData
<1>6. CASE PollResult
  BY <1>6, PollResultData
<1>7. CASE PollRequest
  BY <1>7, PollRequestData
<1>8. CASE PollControl \/ DrainEvents \/ FinalDrain \/ \E l \in Lanes : Work(l)
  <2>1. PoolInv(pool') /\ SameJobs(pool, pool')
    BY <1>1, <1>8, OtherPools, Zenon
  <2>2. UNCHANGED <<script, unsent, requests, results, delivered, rejection>>
    BY <1>8, Zenon DEF PollControl, DrainEvents, FinalDrain, Work, clientVars
  <2>3. dpc' = dpc \/ dpc' \notin {"result", "request"}
    <3>1. CASE PollControl
      BY <3>1 DEF PollControl, ControlPoll, Judge
    <3>2. CASE DrainEvents \/ FinalDrain
      BY <3>2, Zenon DEF DrainEvents, FinalDrain
    <3>3. CASE \E l \in Lanes : Work(l)
      BY <3>3, Zenon DEF Work, mainVars
    <3> QED
      BY <1>8, <3>1, <3>2, <3>3
  <2> QED
    BY <1>3, <2>1, <2>2, <2>3, Zenon
<1>9. CASE LeaveLoop
  <2>1. UNCHANGED <<script, unsent, requests, results, delivered, rejection, pool>>
        /\ dpc' \notin {"result", "request"}
    BY <1>9 DEF LeaveLoop, dataVars, clientVars
  <2> QED
    BY <1>1, <1>3, <1>4, <2>1, Zenon
<1>10. CASE request_stop \/ ControlSubmit \/ ControlReceive \/ ControlTimeout \/ UNCHANGED vars
  <2>1. UNCHANGED <<script, unsent, requests, results, delivered, rejection, pool, dpc>>
    BY <1>10, Zenon DEF request_stop, ControlSubmit, ControlReceive, ControlTimeout, vars,
                        dataVars, clientVars, mainVars
  <2> QED
    BY <1>1, <1>3, <1>4, <2>1, Zenon
<1>11. CASE Submit
  <2>1. UNCHANGED <<results, delivered, rejection, pool, dpc>>
    BY <1>11, Zenon DEF Submit, mainVars
  <2>2. Results'
    BY <1>1, <2>1, Zenon DEF Results
  <2>3. Requests' /\ \A j \in Jobs : WasTaken(j)' <=> WasTaken(j)
    BY <1>1, <1>11, SubmitStep, Zenon
  <2> QED
    BY <1>1, <1>2, <1>4, <2>1, <2>2, <2>3, Zenon
<1>12. CASE Receive
  <2>1. /\ UNCHANGED <<script, unsent, requests, delivered, rejection, pool, dpc>>
        /\ results # <<>> /\ results' = Tail(results)
    BY <1>12, Zenon DEF Receive, clientVars, mainVars
  <2>2. Len(results) \in Nat /\ Len(results') = Len(results) - 1 /\ results' \in Seq(Jobs)
    BY <1>1, <2>1, HeadAndTail, SeqLen DEF Results
  <2>3. Results'
    BY <1>1, <2>2, TrafficAssumption DEF Results
  <2>4. Requests' /\ \A j \in Jobs : WasTaken(j)' <=> WasTaken(j)
    BY <1>1, <2>1, RequestsStay, Zenon
  <2> QED
    BY <1>1, <1>2, <1>4, <2>1, <2>3, <2>4, Zenon
<1> QED
  BY <1>5, <1>6, <1>7, <1>8, <1>9, <1>10, <1>11, <1>12, Zenon DEF Next, Daemon

(***************************************************************************)
(* The lifecycle events.                                                   *)
(***************************************************************************)
LEMMA DebtStays ==
  ASSUME PoolInv(pool), PoolInv(pool'), EventsCounted, SameDebt(pool, pool'), failed => failed'
  PROVE  EventsCounted'
<1> DEFINE kept == pool.events + pool.skipped
           now == pool'.events + pool'.skipped
<1>1. pool.owed \in Int /\ kept \in Int /\ pool'.owed \in Int /\ now \in Int
  <2>1. /\ pool.owed \in Int /\ pool.events \in Nat /\ pool.skipped \in Nat
        /\ pool'.owed \in Int /\ pool'.events \in Nat /\ pool'.skipped \in Nat
    BY PoolFields, Zenon DEF PoolInv
  <2> QED
    BY <2>1
<1>2. pool'.owed - now = pool.owed - kept
  BY Zenon DEF SameDebt
<1>3. pool.owed \in (IF failed THEN {kept - 1, kept} ELSE {kept})
  BY Zenon DEF EventsCounted
<1>4. ASSUME pool'.owed \in (IF failed' THEN {now - 1, now} ELSE {now}) PROVE EventsCounted'
  BY <1>4, Zenon DEF EventsCounted
<1> HIDE DEF kept, now
<1>5. (pool.owed = kept => pool'.owed = now) /\ (pool.owed = kept - 1 => pool'.owed = now - 1)
  BY <1>1, <1>2
<1>6. pool'.owed \in (IF failed' THEN {now - 1, now} ELSE {now})
  BY <1>3, <1>5, Zenon
<1> QED
  BY <1>4, <1>6

LEMMA PollDebt ==
  ASSUME DataInv, PollRejection \/ PollResult \/ PollRequest
  PROVE  SameDebt(pool, pool')
<1>1. Requests /\ PoolInv(pool) /\ Ledger
  BY DEF DataInv
<1>2. CASE PollRejection
  BY <1>2, Zenon DEF PollRejection, dataVars, SameDebt
<1>3. CASE PollResult
  <2> DEFINE offered == ready_result(pool)
  <2>1. PoolInv(offered) /\ SameDebt(pool, offered)
    BY <1>1, OfferKeeps, Zenon
  <2>2. \/ pool' = pool \/ pool' = offered
        \/ offered.ready_index # NoLane /\ pool' = release_ready_result(offered)
    BY <1>3, Zenon DEF PollResult, dataVars
  <2> HIDE DEF offered
  <2>3. CASE offered.ready_index # NoLane /\ pool' = release_ready_result(offered)
    <3>1. SameDebt(offered, pool')
      BY <2>1, <2>3, ReleaseKeeps, Zenon
    <3> QED
      BY <2>1, <3>1, Zenon DEF SameDebt
  <2> QED
    BY <2>1, <2>2, <2>3, Zenon DEF SameDebt
<1>4. CASE PollRequest
  <2> DEFINE h == Head(requests)
  <2>1. CASE pool' = pool
    BY <2>1, Zenon DEF SameDebt
  <2>2. CASE pool' # pool
    <3>1. /\ requests # <<>> /\ requests' = Tail(requests) /\ h.kind = "job"
          /\ \E late \in SUBSET Lanes : pool' = submit(pool, h.job, late)
          /\ UNCHANGED <<script, unsent>>
      BY <1>4, <2>2, Zenon DEF PollRequest, dataVars, clientVars
    <3>2. h.job \in Jobs /\ ~WasTaken(h.job)
      BY <1>1, <3>1, TakeStep, Zenon
    <3>3. h.job \notin Owned(pool)
      BY <1>1, <3>2, PlacedFacts, Zenon
    <3>4. CASE submit_accepts(pool, h.job)
      <4>1. PICK j \in Jobs : j = h.job
        BY <3>2
      <4>2. PICK late : pool' = submit(pool, j, late)
        BY <3>1, <4>1, Zenon
      <4>3. submit_accepts(pool, j) /\ PoolInv(pool) /\ j \notin Owned(pool)
        BY <1>1, <3>3, <3>4, <4>1, Zenon
      <4> QED
        BY <4>2, <4>3, SubmitKeeps, Zenon
    <3>5. CASE ~submit_accepts(pool, h.job)
      <4>1. pool' = emits(pool, 1)
        BY <3>1, <3>5, Zenon DEF submit, emit
      <4> QED
        BY <1>1, <4>1, EmitsKeeps
    <3> QED
      BY <3>4, <3>5
  <2> QED
    BY <2>1, <2>2
<1> QED
  BY <1>2, <1>3, <1>4

LEMMA MainInit ==
  ASSUME Init PROVE MainInv
<1>1. dpc = "rejection" /\ failed = FALSE /\ pool = InitPool
  BY DEF Init
<1>2. pool.owed = 0 /\ pool.events = 0 /\ pool.skipped = 0
  BY <1>1, Zenon DEF InitPool
<1> QED
  BY <1>1, <1>2 DEF MainInv, EventsCounted

LEMMA MainStep ==
  ASSUME DataInv, DataInv', MainInv, [Next]_vars PROVE MainInv'
<1>1. PoolInv(pool) /\ PoolInv(pool')
  BY Zenon DEF DataInv
<1>2. /\ dpc \in {"rejection", "result", "request", "control", "events", "final", "exited"}
      /\ failed => dpc \in {"final", "exited"}
      /\ EventsCounted
  BY DEF MainInv
<1>3. ASSUME SameDebt(pool, pool'), failed' = failed,
             \/ dpc' = dpc
             \/ /\ dpc \notin {"final", "exited"}
                /\ dpc' \in {"rejection", "result", "request", "control", "events", "final"}
      PROVE  MainInv'
  <2>1. EventsCounted'
    BY <1>1, <1>2, <1>3, DebtStays, Zenon
  <2> QED
    BY <1>2, <1>3, <2>1 DEF MainInv
<1>4. CASE PollRejection \/ PollResult \/ PollRequest
  <2>1. SameDebt(pool, pool')
    BY <1>4, PollDebt, ZenonT(40)
  <2>2. failed' = failed /\ dpc \in {"rejection", "result", "request"}
        /\ dpc' \in {"result", "request", "control"}
    BY <1>4 DEF PollRejection, PollResult, PollRequest, Return
  <2> QED
    BY <1>3, <2>1, <2>2
<1>5. CASE PollControl
  <2>1. pool' = pool \/ pool' = Apply(Head(orders))
    BY <1>5, Zenon DEF PollControl, ControlPoll
  <2>2. SameDebt(pool, pool')
    BY <1>1, <2>1, ApplyKeeps, Zenon DEF SameDebt
  <2>3. dpc = "control" /\ (Judge(TRUE) \/ Judge(FALSE))
    BY <1>5, Zenon DEF PollControl, ControlPoll
  <2>4. ~failed
    BY <1>2, <2>3
  <2>5. EventsCounted'
    BY <1>1, <1>2, <2>2, <2>4, DebtStays, Zenon
  <2>6. (failed' /\ dpc' = "final") \/ (~failed' /\ dpc' = "events")
    BY <2>3, Zenon DEF Judge
  <2> QED
    BY <2>5, <2>6 DEF MainInv
<1>6. CASE DrainEvents
  <2>1. pool.owed = pool.events + pool.skipped /\ ~failed
    <3>1. dpc = "events"
      BY <1>6, Zenon DEF DrainEvents
    <3>2. ~failed
      BY <1>2, <3>1, ZenonT(40)
    <3> QED
      BY <1>2, <3>2, Zenon DEF EventsCounted
  <2>2. pool.events \in Nat /\ pool.events \in 0..pool.events /\ pool.skipped \in Nat
    BY <1>1, PoolFields DEF PoolInv
  <2>3. CASE /\ pool' = Recorded(pool, pool.events, pool.events)
             /\ dpc' = "rejection" /\ UNCHANGED failed
    <3>1. pool'.owed = pool.owed - pool.events /\ pool'.events = pool.events - pool.events
          /\ pool'.skipped = pool.skipped
      BY <1>1, <2>2, <2>3, RecordKeeps, Zenon
    <3>2. pool'.owed = pool'.events + pool'.skipped
      BY <2>1, <2>2, <3>1
    <3> QED
      BY <2>1, <2>3, <3>2 DEF MainInv, EventsCounted
  <2>4. CASE /\ \E n \in 0..pool.events :
                  pool' = Recorded(pool, IF n < pool.events THEN n + 1 ELSE n, n)
             /\ failed' = TRUE /\ dpc' = "final"
    <3>1. PICK n \in 0..pool.events :
            pool' = Recorded(pool, IF n < pool.events THEN n + 1 ELSE n, n)
      BY <2>4
    <3> DEFINE m == IF n < pool.events THEN n + 1 ELSE n
    <3>2. m \in Nat /\ m \in {n, n + 1} /\ n \in Nat
      BY <2>2
    <3> HIDE DEF m
    <3>3. pool' = Recorded(pool, m, n)
      BY <3>1 DEF m
    <3>4. /\ pool'.owed = pool.owed - m /\ pool'.events = pool.events - n
          /\ pool'.skipped = pool.skipped
      BY <1>1, <3>2, <3>3, RecordKeeps, Zenon
    <3>5. pool'.owed \in {(pool'.events + pool'.skipped) - 1, pool'.events + pool'.skipped}
      BY <2>1, <2>2, <3>2, <3>4, OneRecordedMore
    <3>6. EventsCounted'
      <4>1. failed'
        BY <2>4
      <4> QED
        BY <3>5, <4>1 DEF EventsCounted
    <3> QED
      BY <2>4, <3>6, Zenon DEF MainInv
  <2> QED
    BY <1>6, <2>3, <2>4, Zenon DEF DrainEvents
<1>7. CASE FinalDrain
  <2>1. /\ pool' = Recorded(pool, pool.events, pool.events) /\ dpc' = "exited"
        /\ failed => failed'
    BY <1>7, ZenonT(40) DEF FinalDrain
  <2>2. pool.events \in Nat /\ pool.events \in 0..pool.events
    BY <1>1, PoolFields DEF PoolInv
  <2>3. /\ pool'.owed = pool.owed - pool.events /\ pool'.events = pool.events - pool.events
        /\ pool'.skipped = pool.skipped
    BY <1>1, <2>1, <2>2, RecordKeeps, Zenon
  <2>4. SameDebt(pool, pool')
    <3>1. pool.owed \in Int /\ pool.skipped \in Nat
      BY <1>1, PoolFields DEF PoolInv
    <3> QED
      BY <2>2, <2>3, <3>1 DEF SameDebt
  <2>5. EventsCounted'
    BY <1>1, <1>2, <2>1, <2>4, DebtStays, Zenon
  <2> QED
    BY <2>1, <2>5 DEF MainInv
<1>8. CASE \E l \in Lanes : Work(l)
  <2>1. PICK l \in Lanes : Work(l)
    BY <1>8
  <2>2. pool.lane[l].state = "kRunning" /\ \E code \in Codes : pool' = Finish(pool, l, code)
    BY <2>1, Zenon DEF Work, Outcomes, Codes
  <2>3. SameDebt(pool, pool')
    BY <1>1, <2>2, FinishKeeps, Zenon
  <2> QED
    BY <1>3, <2>1, <2>3, Zenon DEF Work, mainVars
<1>9. CASE LeaveLoop
  <2>1. pool' = pool /\ failed' = failed /\ dpc = "rejection" /\ dpc' = "final"
    BY <1>9 DEF LeaveLoop, dataVars
  <2>2. SameDebt(pool, pool')
    BY <2>1, Zenon DEF SameDebt
  <2> QED
    BY <1>3, <2>1, <2>2
<1>10. CASE \/ request_stop \/ Submit \/ Receive \/ ControlSubmit \/ ControlReceive
            \/ ControlTimeout \/ UNCHANGED vars
  <2>1. pool' = pool /\ failed' = failed /\ dpc' = dpc
    BY <1>10, Zenon DEF request_stop, Submit, Receive, ControlSubmit, ControlReceive,
                        ControlTimeout, vars, dataVars, mainVars
  <2>2. SameDebt(pool, pool')
    BY <2>1, Zenon DEF SameDebt
  <2> QED
    BY <1>3, <2>1, <2>2, Zenon
<1> QED
  BY <1>4, <1>5, <1>6, <1>7, <1>8, <1>9, <1>10, Zenon DEF Next, Daemon

(***************************************************************************)
(* The orders and their answers.                                           *)
(***************************************************************************)
LEMMA NamedFacts ==
  ASSUME NEW s \in Seq(OrderEntry)
  PROVE  /\ Named(s) \in Seq(Nat) /\ Len(Named(s)) = Len(s)
         /\ \A i \in 1..Len(s) : Named(s)[i] = s[i].of
<1>1. Len(s) \in Nat /\ \A i \in 1..Len(s) : s[i] \in OrderEntry
  BY SeqLen, SeqElement
<1>2. \A i \in 1..Len(s) : s[i].of \in Nat
  BY <1>1, Zenon DEF OrderEntry
<1>3. Named(s) \in [1..Len(s) -> Nat] /\ \A i \in 1..Len(s) : Named(s)[i] = s[i].of
  BY <1>2, Zenon DEF Named
<1>4. Named(s) \in Seq(Nat)
  BY <1>1, <1>3
<1>5. Len(Named(s)) = Len(s)
  BY <1>1, <1>3
<1> QED
  BY <1>3, <1>4, <1>5

LEMMA NamedAppend ==
  ASSUME NEW s \in Seq(OrderEntry), NEW e \in OrderEntry
  PROVE  Named(Append(s, e)) = Named(s) \o <<e.of>>
<1> DEFINE t == Append(s, e)
<1>1. t \in Seq(OrderEntry) /\ Len(t) = Len(s) + 1 /\ t[Len(s) + 1] = e
      /\ \A i \in 1..Len(s) : t[i] = s[i]
  BY Appended
<1>2. e.of \in Nat /\ Len(s) \in Nat
  BY SeqLen DEF OrderEntry
<1> HIDE DEF t
<1>3. /\ Named(s) \in Seq(Nat) /\ Len(Named(s)) = Len(s)
      /\ \A i \in 1..Len(s) : Named(s)[i] = s[i].of
  BY NamedFacts, Zenon
<1>4. /\ Named(t) \in Seq(Nat) /\ Len(Named(t)) = Len(t)
      /\ \A i \in 1..Len(t) : Named(t)[i] = t[i].of
  BY <1>1, NamedFacts, Zenon
<1> DEFINE u == Append(Named(s), e.of)
<1>5. /\ u \in Seq(Nat) /\ Len(u) = Len(s) + 1 /\ u[Len(s) + 1] = e.of
      /\ \A i \in 1..Len(s) : u[i] = Named(s)[i]
  BY <1>2, <1>3, Appended
<1>6. u = Named(s) \o <<e.of>>
  BY <1>2, <1>3, AppendedJoins, Zenon
<1> HIDE DEF u
<1>7. \A i \in 1..Len(u) : i \in 1..Len(t) /\ (i \in 1..Len(s) \/ i = Len(s) + 1)
  BY <1>1, <1>2, <1>5
<1>8. \A i \in 1..Len(u) : u[i] = Named(t)[i]
  <2> SUFFICES ASSUME NEW i \in 1..Len(u) PROVE u[i] = Named(t)[i]
    BY Zenon
  <2>1. CASE i \in 1..Len(s)
    BY <2>1, <1>1, <1>3, <1>4, <1>5, <1>7, ZenonT(40)
  <2>2. CASE i = Len(s) + 1
    BY <2>2, <1>1, <1>4, <1>5, <1>7, Zenon
  <2> QED
    BY <2>1, <2>2, <1>7
<1>9. u = Named(t)
  <2>1. Len(u) = Len(Named(t))
    BY <1>1, <1>4, <1>5, Zenon
  <2> QED
    BY <1>4, <1>5, <1>8, <2>1, SeqSame, Zenon
<1> QED
  BY <1>6, <1>9 DEF t

LEMMA NamedHead ==
  ASSUME NEW s \in Seq(OrderEntry), s # <<>>
  PROVE  /\ Head(s) \in OrderEntry /\ Tail(s) \in Seq(OrderEntry) /\ Head(s).of \in Nat
         /\ Named(s) = <<Head(s).of>> \o Named(Tail(s))
<1> DEFINE t == Tail(s)
           x == Head(s).of
           u == <<x>> \o Named(t)
<1>1. /\ Head(s) \in OrderEntry /\ t \in Seq(OrderEntry) /\ Len(t) = Len(s) - 1
      /\ \A i \in 1..Len(t) : t[i] = s[i + 1]
  BY HeadAndTail
<1>2. x \in Nat /\ <<x>> \in Seq(Nat) /\ Len(<<x>>) = 1 /\ <<x>>[1] = x
  <2>1. x \in Nat
    BY <1>1, Zenon DEF OrderEntry
  <2> HIDE DEF x
  <2> QED
    BY <2>1
<1>3. Len(s) \in Nat /\ Len(s) > 0
  BY SeqLen, SeqEmpty
<1>4. x = s[1].of
  BY <1>3
<1> HIDE DEF t, x
<1>5. /\ Named(s) \in Seq(Nat) /\ Len(Named(s)) = Len(s)
      /\ \A i \in 1..Len(s) : Named(s)[i] = s[i].of
  BY NamedFacts, Zenon
<1>6. /\ Named(t) \in Seq(Nat) /\ Len(Named(t)) = Len(t)
      /\ \A i \in 1..Len(t) : Named(t)[i] = t[i].of
  BY <1>1, NamedFacts, Zenon
<1>7. /\ u \in Seq(Nat) /\ Len(u) = 1 + Len(t)
      /\ \A i \in 1..(1 + Len(t)) : u[i] = IF i <= 1 THEN <<x>>[i] ELSE Named(t)[i - 1]
  BY <1>2, <1>6, Joined
<1> HIDE DEF u
<1>8. Len(u) = Len(s)
  BY <1>1, <1>3, <1>7
<1>9. ASSUME NEW i \in 1..Len(s) PROVE u[i] = Named(s)[i]
  <2>1. CASE i = 1
    <3>1. u[i] = x
      BY <2>1, <1>2, <1>7, <1>8
    <3> QED
      BY <2>1, <3>1, <1>4, <1>5, Zenon
  <2>2. CASE i # 1
    <3>1. i - 1 \in 1..Len(t) /\ (i - 1) + 1 = i /\ u[i] = Named(t)[i - 1]
      BY <2>2, <1>1, <1>3, <1>7, <1>8
    <3> QED
      BY <3>1, <1>1, <1>5, <1>6, Zenon
  <2> QED
    BY <2>1, <2>2
<1>10. u = Named(s)
  BY <1>5, <1>7, <1>8, <1>9, SeqSame, Zenon
<1> QED
  BY <1>1, <1>2, <1>10 DEF t, x, u

\* An answer goes to the ring or to response_.
LEMMA PublishPending ==
  ASSUME script \in Scripts, AnswerRing, Histories, AcknowledgedStop, script' = script,
         NEW e \in AnswerEntry, OrderIn(script, e), publish_pending(e),
         NEW rest \in Seq(Nat), asked = (answered \o <<e.of>>) \o rest
  PROVE  /\ AnswerRing' /\ AnswerKept' /\ AcknowledgedStop' /\ answered' \in Seq(Nat)
         /\ asked = (answered' \o Pending') \o rest
<1>1. e.of \in Nat /\ e.of \in 1..Len(script.orders) /\ e.operation = script.orders[e.of].operation
  BY Zenon DEF AnswerEntry, OrderIn
<1>2. answered \in Seq(Nat)
  BY DEF Histories
<1>3. /\ responses \in Seq(AnswerEntry) /\ Len(responses) \in Nat /\ Len(responses) <= RingCapacity
      /\ \A i \in 1..Len(responses) : OrderIn(script, responses[i])
  BY SeqLen DEF AnswerRing
<1>4. e # NoResponse
  BY <1>1 DEF NoResponse
<1>5. CASE Len(responses) < RingCapacity
  <2>1. /\ responses' = Append(responses, e) /\ answered' = Append(answered, e.of)
        /\ response' = NoResponse /\ control_stopped' = (e.operation = "kShutdown")
    BY <1>5, Zenon DEF publish_pending
  <2>2. /\ responses' \in Seq(AnswerEntry) /\ Len(responses') = Len(responses) + 1
        /\ \A i \in 1..Len(responses) : responses'[i] = responses[i]
        /\ responses'[Len(responses) + 1] = e
    BY <1>3, <2>1, Appended
  <2>3. \A i \in 1..Len(responses') : i \in 1..Len(responses) \/ i = Len(responses) + 1
    BY <1>3, <2>2
  <2>4. \A i \in 1..Len(responses') : OrderIn(script, responses'[i])
    BY <1>3, <2>2, <2>3, ZenonT(40)
  <2>5. Len(responses') <= RingCapacity
    BY <1>3, <1>5, <2>2, TrafficAssumption
  <2>6. AnswerRing' /\ AnswerKept'
    BY <2>1, <2>2, <2>4, <2>5, Zenon DEF AnswerRing, AnswerKept
  <2>7. /\ answered' \in Seq(Nat) /\ Len(answered') = Len(answered) + 1 /\ Len(answered) \in Nat
        /\ answered'[Len(answered) + 1] = e.of
    BY <1>1, <1>2, <2>1, Appended, SeqLen
  <2>8. AcknowledgedStop'
    <3>1. Len(answered) + 1 \in 1..Len(answered')
      BY <2>7
    <3>2. e.of \in Elements(answered')
      BY <2>7, <3>1, Zenon DEF Elements
    <3>3. control_stopped' => script'.orders[e.of].operation = "kShutdown"
      BY <1>1, <2>1, Zenon
    <3> QED
      BY <3>2, <3>3, Zenon DEF AcknowledgedStop
  <2>9. answered' = answered \o <<e.of>> /\ answered' \o <<>> = answered'
    BY <1>1, <1>2, <2>1, <2>7, AppendedJoins, JoinedEmpty
  <2>10. Pending' = <<>>
    BY <2>1, Zenon DEF Pending
  <2> QED
    BY <2>6, <2>7, <2>8, <2>9, <2>10, Zenon
<1>6. CASE ~(Len(responses) < RingCapacity)
  <2>1. response' = e /\ UNCHANGED <<responses, answered, control_stopped>>
    BY <1>6, Zenon DEF publish_pending
  <2>2. AnswerRing' /\ AnswerKept'
    BY <2>1, Zenon DEF AnswerRing, AnswerKept
  <2>3. AcknowledgedStop'
    BY <2>1, Zenon DEF AcknowledgedStop
  <2>4. Pending' = <<e.of>>
    BY <1>4, <2>1, Zenon DEF Pending
  <2> QED
    BY <1>2, <2>1, <2>2, <2>3, <2>4, Zenon
<1> QED
  BY <1>5, <1>6, Zenon

LEMMA AnswerOf ==
  ASSUME NEW order \in OrderEntry, OrderIn(script, order)
  PROVE  /\ build_response(order) \in AnswerEntry /\ OrderIn(script, build_response(order))
         /\ build_response(order).of = order.of
<1>1. Code(order) \in {"kSuccess", "kInvalidWorker", "kAlreadyDraining", "kWouldStrandWork",
                       "kWorkerQuarantined", "kWorkerNotDrained", "kWorkerNotQuarantined"}
  <2>1. DrainResult(pool, order.worker) \in {"kSuccess", "kInvalidWorker", "kAlreadyDraining",
                                             "kWouldStrandWork"}
    BY Zenon DEF DrainResult
  <2>2. ResumeResult(pool, order.worker) \in {"kSuccess", "kInvalidWorker", "kWorkerQuarantined",
                                              "kWorkerNotDrained"}
    BY Zenon DEF ResumeResult
  <2>3. RecoverResult(pool, order.worker) \in {"kSuccess", "kInvalidWorker",
                                               "kWorkerNotQuarantined", "kWorkerNotDrained"}
    BY Zenon DEF RecoverResult
  <2>4. Code(order) \in {"kSuccess", DrainResult(pool, order.worker),
                         ResumeResult(pool, order.worker), RecoverResult(pool, order.worker)}
    BY Zenon DEF Code
  <2> QED
    BY <2>1, <2>2, <2>3, <2>4, Zenon
<1> DEFINE a == build_response(order)
<1>2. /\ a.of = order.of /\ a.sequence = order.sequence /\ a.operation = order.operation
  BY Zenon DEF build_response
<1>3. order.of \in Nat /\ order.sequence \in Nat /\ order.operation \in Operations
  BY Zenon DEF OrderEntry
<1>4. a \in AnswerEntry
  BY <1>1, <1>3, Zenon DEF build_response, AnswerEntry
<1> HIDE DEF a
<1>5. OrderIn(script, a)
  BY <1>2, Zenon DEF OrderIn
<1> QED
  BY <1>2, <1>4, <1>5 DEF a

LEMMA ControlInit ==
  ASSUME Init PROVE ControlInv
<1>1. /\ script \in Scripts /\ orders = <<>> /\ responses = <<>> /\ response = NoResponse
      /\ control_stopped = FALSE /\ invocation = 1 /\ waiting = FALSE /\ reports = {}
      /\ asked = <<>> /\ answered = <<>>
  BY DEF Init
<1>2. /\ orders \in Seq(OrderEntry) /\ Len(orders) = 0 /\ responses \in Seq(AnswerEntry)
      /\ Len(responses) = 0 /\ asked \in Seq(Nat) /\ answered \in Seq(Nat)
  BY <1>1, SeqEmpty
<1>3. \A i : i \notin 1..Len(orders) /\ i \notin 1..Len(responses)
  BY <1>2
<1>4. 0 <= RingCapacity /\ 1 \in Nat \ {0}
  BY TrafficAssumption
<1>5. OrderRing /\ AnswerRing /\ AnswerKept /\ Processes /\ Histories
  BY <1>1, <1>2, <1>3, <1>4, Zenon DEF OrderRing, AnswerRing, AnswerKept, Processes, Histories
<1>6. AcknowledgedStop
  BY <1>1, Zenon DEF AcknowledgedStop
<1>7. OrdersKept
  <2>1. Named(orders) \in Seq(Nat) /\ Len(Named(orders)) = 0
    BY <1>2, NamedFacts, Zenon
  <2>2. Named(orders) = <<>>
    BY <2>1, SeqEmpty
  <2>3. Pending = <<>>
    BY <1>1, Zenon DEF Pending
  <2>4. <<>> \in Seq(Nat)
    BY SeqEmpty
  <2>5. <<>> \o <<>> = <<>>
    BY <2>4, JoinedEmpty, Zenon
  <2> QED
    BY <1>1, <2>2, <2>3, <2>5, Zenon DEF OrdersKept
<1> QED
  BY <1>1, <1>5, <1>6, <1>7, Zenon DEF ControlInv

LEMMA Regroup ==
  ASSUME NEW s \in Seq(Nat), NEW t \in Seq(Nat), NEW u \in Seq(Nat)
  PROVE  s \o (t \o u) = (s \o t) \o u
<1> DEFINE Joins(S) == \A a \in Seq(S) : \A b \in Seq(S) : \A c \in Seq(S) :
                         (a \o b) \o c = a \o (b \o c)
<1>1. \A S : Joins(S)
  BY JoinedTwice, Zenon
<1> HIDE DEF Joins
<1>2. Joins(Nat)
  BY <1>1, Zenon
<1>3. (s \o t) \o u = s \o (t \o u)
  BY <1>2, Zenon DEF Joins
<1> QED
  BY <1>3, Zenon

\* The head of the order ring is taken.
LEMMA TakeOrder ==
  ASSUME ControlInv, response = NoResponse, orders # <<>>, orders' = Tail(orders), script' = script
  PROVE  /\ OrderRing' /\ Head(orders) \in OrderEntry /\ OrderIn(script, Head(orders))
         /\ Named(orders') \in Seq(Nat)
         /\ asked = (answered \o <<Head(orders).of>>) \o Named(orders')
<1>1. /\ orders \in Seq(OrderEntry) /\ Len(orders) <= RingCapacity
      /\ \A i \in 1..Len(orders) : OrderIn(script, orders[i])
  BY Zenon DEF ControlInv, OrderRing
<1>2. /\ Head(orders) \in OrderEntry /\ orders' \in Seq(OrderEntry) /\ Head(orders).of \in Nat
      /\ Named(orders) = <<Head(orders).of>> \o Named(orders')
  BY <1>1, NamedHead, Zenon
<1>3. /\ Len(orders) \in Nat /\ Len(orders) > 0 /\ Len(orders') = Len(orders) - 1
      /\ \A i \in 1..Len(orders') : orders'[i] = orders[i + 1]
  <2>1. /\ Len(orders') = Len(orders) - 1
        /\ \A i \in 1..Len(orders') : orders'[i] = orders[i + 1]
    BY <1>1, HeadAndTail, Zenon
  <2>2. Len(orders) \in Nat \ {0}
    BY <1>1, SeqEmpty, Zenon
  <2> QED
    BY <2>1, <2>2
<1>4. Head(orders) = orders[1] /\ 1 \in 1..Len(orders)
  BY <1>1, <1>3
<1>5. OrderIn(script, Head(orders))
  BY <1>1, <1>4, Zenon
<1>6. \A i \in 1..Len(orders') : i + 1 \in 1..Len(orders)
  BY <1>3
<1>7. Len(orders') <= RingCapacity
  BY <1>1, <1>3, TrafficAssumption
<1>8. OrderRing'
  BY <1>1, <1>2, <1>3, <1>6, <1>7, Zenon DEF OrderRing
<1> DEFINE x == Head(orders).of
           t == Named(orders')
<1>9. t \in Seq(Nat)
  BY <1>2, NamedFacts, Zenon
<1>10. answered \in Seq(Nat) /\ asked = (answered \o <<>>) \o (<<x>> \o t)
  BY <1>2, Zenon DEF ControlInv, Histories, OrdersKept, Pending
<1>11. x \in Nat
  BY <1>2
<1> HIDE DEF x, t
<1>12. <<x>> \in Seq(Nat)
  BY <1>11
<1>13. answered \o <<>> = answered
  BY <1>10, JoinedEmpty, Zenon
<1> DEFINE one == <<x>>
<1> HIDE DEF one
<1>14. answered \o (one \o t) = (answered \o one) \o t
  <2>1. answered \in Seq(Nat) /\ one \in Seq(Nat) /\ t \in Seq(Nat)
    BY <1>9, <1>10, <1>12, Zenon DEF one
  <2> QED
    BY <2>1, Regroup, Zenon
<1> QED
  BY <1>2, <1>5, <1>8, <1>9, <1>10, <1>13, <1>14, Zenon DEF x, t, one

LEMMA ControlPollStep ==
  ASSUME ControlInv, PollControl
  PROVE  ControlInv'
<1>1. /\ script \in Scripts /\ OrderRing /\ AnswerRing /\ AnswerKept /\ Processes /\ Histories
      /\ AcknowledgedStop /\ OrdersKept
  BY DEF ControlInv
<1>2. UNCHANGED <<script, invocation, waiting, reports, asked>>
  BY DEF PollControl, clientVars
<1>3. script' \in Scripts /\ Processes'
  BY <1>1, <1>2, Zenon DEF Processes
<1>4. asked \in Seq(Nat) /\ answered \in Seq(Nat)
  BY <1>1, Zenon DEF Histories
<1>5. ASSUME OrderRing', AnswerRing', AnswerKept', AcknowledgedStop', answered' \in Seq(Nat),
             asked = (answered' \o Pending') \o Named(orders')
      PROVE  ControlInv'
  <2>1. Histories'
    BY <1>2, <1>4, <1>5, Zenon DEF Histories
  <2>2. OrdersKept'
    BY <1>2, <1>5, Zenon DEF OrdersKept
  <2> QED
    BY <1>3, <1>5, <2>1, <2>2 DEF ControlInv
<1>6. CASE response # NoResponse /\ publish_pending(response) /\ UNCHANGED orders
  <2>1. PICK e \in AnswerEntry : e = response
    BY <1>1, <1>6, Zenon DEF AnswerKept
  <2>2. OrderIn(script, e) /\ publish_pending(e)
    BY <1>1, <1>6, <2>1, Zenon DEF AnswerKept
  <2>3. Named(orders) \in Seq(Nat)
    BY <1>1, NamedFacts, Zenon DEF OrderRing
  <2>4. asked = (answered \o <<e.of>>) \o Named(orders)
    BY <1>1, <1>6, <2>1, Zenon DEF OrdersKept, Pending
  <2>5. /\ AnswerRing' /\ AnswerKept' /\ AcknowledgedStop' /\ answered' \in Seq(Nat)
        /\ asked = (answered' \o Pending') \o Named(orders)
    BY <1>1, <1>2, <2>2, <2>3, <2>4, PublishPending, Zenon
  <2>6. OrderRing'
    BY <1>1, <1>2, <1>6, Zenon DEF OrderRing
  <2> QED
    BY <1>5, <1>6, <2>5, <2>6, Zenon
<1>7. CASE response = NoResponse /\ UNCHANGED controlVars
  <2>1. OrderRing' /\ AnswerRing' /\ AnswerKept'
    BY <1>1, <1>2, <1>7, Zenon DEF OrderRing, AnswerRing, AnswerKept, controlVars
  <2>2. AcknowledgedStop' /\ answered' \in Seq(Nat)
    BY <1>1, <1>2, <1>4, <1>7, Zenon DEF AcknowledgedStop, controlVars
  <2>3. asked = (answered' \o Pending') \o Named(orders')
    BY <1>1, <1>7, Zenon DEF OrdersKept, Pending, controlVars
  <2> QED
    BY <1>5, <2>1, <2>2, <2>3
<1>8. ASSUME response = NoResponse, orders # <<>>, orders' = Tail(orders)
      PROVE  /\ OrderRing' /\ Head(orders) \in OrderEntry /\ OrderIn(script, Head(orders))
             /\ Named(orders') \in Seq(Nat)
             /\ asked = (answered \o <<Head(orders).of>>) \o Named(orders')
  BY <1>2, <1>8, TakeOrder, Zenon
<1>9. CASE /\ response = NoResponse /\ orders # <<>> /\ orders' = Tail(orders)
           /\ answered' = Append(answered, Head(orders).of)
           /\ UNCHANGED <<responses, response, control_stopped>>
  <2>1. PICK x \in Nat : x = Head(orders).of
    BY <1>8, <1>9, Zenon DEF OrderEntry
  <2>2. /\ answered' \in Seq(Nat) /\ Len(answered') = Len(answered) + 1
        /\ \A i \in 1..Len(answered) : answered'[i] = answered[i]
        /\ Len(answered) \in Nat /\ answered' = answered \o <<x>>
    BY <1>4, <1>9, <2>1, Appended, AppendedJoins, SeqLen
  <2>3. AnswerRing' /\ AnswerKept'
    BY <1>1, <1>2, <1>9, Zenon DEF AnswerRing, AnswerKept
  <2>4. AcknowledgedStop'
    <3>1. \A i \in 1..Len(answered) : i \in 1..Len(answered')
      BY <2>2
    <3>2. \A x1 \in Elements(answered) : x1 \in Elements(answered')
      BY <2>2, <3>1, Zenon DEF Elements
    <3> QED
      BY <1>1, <1>2, <1>9, <3>2, Zenon DEF AcknowledgedStop
  <2>5. answered' \o Pending' = answered \o <<x>>
    <3>1. Pending' = <<>>
      BY <1>9, Zenon DEF Pending
    <3>2. answered' \o <<>> = answered'
      BY <2>2, JoinedEmpty, Zenon
    <3> QED
      BY <2>2, <3>1, <3>2, Zenon
  <2> QED
    BY <1>5, <1>8, <1>9, <2>1, <2>2, <2>3, <2>4, <2>5, Zenon
<1>10. CASE /\ response = NoResponse /\ orders # <<>> /\ orders' = Tail(orders)
            /\ publish_pending(build_response(Head(orders)))
  <2>1. /\ OrderRing' /\ Head(orders) \in OrderEntry /\ OrderIn(script, Head(orders))
        /\ Named(orders') \in Seq(Nat)
        /\ asked = (answered \o <<Head(orders).of>>) \o Named(orders')
    BY <1>8, <1>10, Zenon
  <2>2. /\ build_response(Head(orders)) \in AnswerEntry
        /\ OrderIn(script, build_response(Head(orders)))
        /\ build_response(Head(orders)).of = Head(orders).of
    BY <2>1, AnswerOf, Zenon
  <2>3. PICK e \in AnswerEntry : e = build_response(Head(orders))
    BY <2>2, Zenon
  <2>4. OrderIn(script, e) /\ publish_pending(e) /\ e.of = Head(orders).of
    BY <1>10, <2>2, <2>3, Zenon
  <2>5. PICK rest \in Seq(Nat) : rest = Named(orders')
    BY <2>1, Zenon
  <2>6. asked = (answered \o <<e.of>>) \o rest
    BY <2>1, <2>4, <2>5, Zenon
  <2>7. /\ AnswerRing' /\ AnswerKept' /\ AcknowledgedStop' /\ answered' \in Seq(Nat)
        /\ asked = (answered' \o Pending') \o rest
    BY <1>1, <1>2, <2>4, <2>6, PublishPending, Zenon
  <2> QED
    BY <1>5, <2>1, <2>5, <2>7, Zenon
<1>11. \/ response # NoResponse /\ publish_pending(response) /\ UNCHANGED orders
       \/ response = NoResponse /\ UNCHANGED controlVars
       \/ /\ response = NoResponse /\ orders # <<>> /\ orders' = Tail(orders)
          /\ answered' = Append(answered, Head(orders).of)
          /\ UNCHANGED <<responses, response, control_stopped>>
       \/ /\ response = NoResponse /\ orders # <<>> /\ orders' = Tail(orders)
          /\ publish_pending(build_response(Head(orders)))
  BY Zenon DEF PollControl, ControlPoll
<1> QED
  BY <1>6, <1>7, <1>9, <1>10, <1>11, Zenon

LEMMA ControlSubmitStep ==
  ASSUME ControlInv, ControlSubmit
  PROVE  ControlInv'
<1> DEFINE e == [of |-> invocation, sequence |-> Current.sequence,
                 operation |-> Current.operation, worker |-> Current.worker]
<1>1. /\ script \in Scripts /\ OrderRing /\ AnswerRing /\ AnswerKept /\ Processes /\ Histories
      /\ AcknowledgedStop /\ OrdersKept
  BY DEF ControlInv
<1>2. /\ invocation <= Len(script.orders) /\ Len(orders) < RingCapacity
      /\ orders' = Append(orders, e) /\ asked' = Append(asked, invocation) /\ waiting' = TRUE
      /\ UNCHANGED <<responses, response, control_stopped, answered, script, invocation, reports>>
  BY Zenon DEF ControlSubmit
<1>3a. script.orders \in Seq(OrderMessage)
  BY <1>1, TrafficAssumption, Zenon DEF OrderMessage
<1>3. script.orders \in Seq(OrderMessage) /\ Len(script.orders) \in Nat
  BY <1>3a, SeqLen, Zenon
<1>4. invocation \in Nat \ {0}
  BY <1>1 DEF Processes
<1>5. invocation \in 1..Len(script.orders)
  BY <1>2, <1>3, <1>4
<1>6. Current \in OrderMessage
  BY <1>3, <1>5, SeqElement, Zenon DEF Current
<1>7. Current.sequence \in Nat /\ Current.operation \in Operations /\ Current.worker \in Nat
  BY <1>6, Zenon DEF OrderMessage
<1>8. e \in OrderEntry
  BY <1>4, <1>7, Zenon DEF OrderEntry
<1>9. e.of = invocation /\ e.sequence = Current.sequence /\ e.operation = Current.operation
  BY Zenon
<1> HIDE DEF e
<1>10. OrderIn(script, e)
  BY <1>5, <1>9, Zenon DEF OrderIn, Current
<1>11. /\ orders \in Seq(OrderEntry) /\ Len(orders) \in Nat
       /\ \A i \in 1..Len(orders) : OrderIn(script, orders[i])
  BY <1>1, SeqLen, Zenon DEF OrderRing
<1>12. /\ orders' \in Seq(OrderEntry) /\ Len(orders') = Len(orders) + 1
       /\ \A i \in 1..Len(orders) : orders'[i] = orders[i]
       /\ orders'[Len(orders) + 1] = e
  BY <1>2, <1>8, <1>11, Appended
<1>13. \A i \in 1..Len(orders') : i \in 1..Len(orders) \/ i = Len(orders) + 1
  BY <1>11, <1>12
<1>14. Len(orders') <= RingCapacity
  BY <1>2, <1>11, <1>12, TrafficAssumption
<1>15. OrderRing'
  BY <1>2, <1>10, <1>11, <1>12, <1>13, <1>14, Zenon DEF OrderRing
<1>16. AnswerRing' /\ AnswerKept' /\ AcknowledgedStop' /\ script' \in Scripts
  BY <1>1, <1>2, Zenon DEF AnswerRing, AnswerKept, AcknowledgedStop
<1>17. Processes'
  BY <1>2, <1>4, Zenon DEF Processes
<1>18. asked \in Seq(Nat) /\ answered \in Seq(Nat)
  BY <1>1, Zenon DEF Histories
<1>19. asked' = asked \o <<invocation>> /\ asked' \in Seq(Nat)
  BY <1>2, <1>4, <1>18, AppendedJoins, Appended
<1>20. Histories'
  BY <1>2, <1>18, <1>19, Zenon DEF Histories
<1> DEFINE front == answered \o Pending
           back == Named(orders)
           one == <<invocation>>
<1>21. Pending \in Seq(Nat)
  <2>1. response # NoResponse => response.of \in Nat
    BY <1>1, Zenon DEF AnswerKept, AnswerEntry
  <2>2. <<>> \in Seq(Nat) /\ (response # NoResponse => <<response.of>> \in Seq(Nat))
    BY <2>1
  <2> QED
    BY <2>2, Zenon DEF Pending
<1>22. front \in Seq(Nat) /\ back \in Seq(Nat) /\ one \in Seq(Nat)
  BY <1>4, <1>11, <1>18, <1>21, Joined, NamedFacts
<1>23. Named(orders') = back \o one
  BY <1>2, <1>8, <1>9, <1>11, NamedAppend, Zenon
<1>24. asked = front \o back /\ asked' = asked \o one
  BY <1>1, <1>19, Zenon DEF OrdersKept
<1>25. answered' \o Pending' = front
  BY <1>2, Zenon DEF Pending
<1> HIDE DEF front, back, one
<1>26. front \o (back \o one) = (front \o back) \o one
  BY <1>22, Regroup, Zenon
<1>27. OrdersKept'
  BY <1>23, <1>24, <1>25, <1>26, Zenon DEF OrdersKept
<1> QED
  BY <1>15, <1>16, <1>17, <1>20, <1>27 DEF ControlInv

\* A process that leaves, with an answer or without.
LEMMA LeaveStep ==
  ASSUME ControlInv, Leave, UNCHANGED <<script, orders, response, control_stopped, answered, asked>>,
         AnswerRing'
  PROVE  ControlInv'
<1>1. invocation' = invocation + 1 /\ waiting' = FALSE /\ invocation \in Nat \ {0}
  BY DEF Leave, ControlInv, Processes
<1>2. invocation' \in Nat \ {0}
  BY <1>1
<1>3. Processes' /\ Histories'
  BY <1>1, <1>2, Zenon DEF Processes, ControlInv, Histories
<1>4. OrderRing' /\ AnswerKept' /\ script' \in Scripts
  BY Zenon DEF ControlInv, OrderRing, AnswerKept
<1>5. AcknowledgedStop' /\ OrdersKept'
  BY Zenon DEF ControlInv, AcknowledgedStop, OrdersKept, Pending
<1> QED
  BY <1>3, <1>4, <1>5 DEF ControlInv

LEMMA ControlReceiveStep ==
  ASSUME ControlInv, ControlReceive
  PROVE  ControlInv'
<1> DEFINE a == Head(responses)
<1>1. AnswerRing
  BY DEF ControlInv
<1>2. /\ waiting /\ responses # <<>> /\ responses' = Tail(responses) /\ Leave
      /\ reports' = IF Accepts(a) THEN reports \cup {<<invocation, a.of>>} ELSE reports
      /\ UNCHANGED <<script, orders, response, control_stopped, answered, asked>>
  BY Zenon DEF ControlReceive
<1>3. /\ responses \in Seq(AnswerEntry) /\ Len(responses) <= RingCapacity
      /\ \A i \in 1..Len(responses) : OrderIn(script, responses[i])
  BY <1>1 DEF AnswerRing
<1>4. /\ responses' \in Seq(AnswerEntry) /\ Len(responses') = Len(responses) - 1
      /\ \A i \in 1..Len(responses') : responses'[i] = responses[i + 1]
  BY <1>2, <1>3, HeadAndTail, Zenon
<1>5. Len(responses) \in Nat \ {0}
  BY <1>2, <1>3, SeqEmpty, Zenon
<1>6. a = responses[1] /\ 1 \in 1..Len(responses)
  BY <1>3, <1>5
<1>7. OrderIn(script, a)
  BY <1>3, <1>6, Zenon
<1> HIDE DEF a
<1>8. AnswerRing'
  <2>1. \A i \in 1..Len(responses') : i + 1 \in 1..Len(responses)
    BY <1>4, <1>5
  <2>2. Len(responses') <= RingCapacity
    BY <1>3, <1>4, <1>5, TrafficAssumption
  <2> QED
    BY <1>2, <1>3, <1>4, <2>1, <2>2, Zenon DEF AnswerRing
<1> QED
  BY <1>2, <1>8, LeaveStep, Zenon

LEMMA ControlStep ==
  ASSUME ControlInv, [Next]_vars PROVE ControlInv'
<1>1. CASE PollControl
  BY <1>1, ControlPollStep
<1>2. CASE ControlSubmit
  BY <1>2, ControlSubmitStep
<1>3. CASE ControlReceive
  BY <1>3, ControlReceiveStep
<1>4. CASE ControlTimeout
  <2>1. Leave /\ UNCHANGED <<script, orders, responses, response, control_stopped, answered, asked,
                             reports>>
    BY <1>4, Zenon DEF ControlTimeout, controlVars
  <2>2. AnswerRing'
    BY <2>1, Zenon DEF ControlInv, AnswerRing
  <2> QED
    BY <2>1, <2>2, LeaveStep, Zenon
<1>5. CASE UNCHANGED <<controlVars, script, invocation, waiting, reports, asked>>
  <2>1. UNCHANGED <<orders, responses, response, control_stopped, answered, script, invocation,
                    waiting, reports, asked>>
    BY <1>5, Zenon DEF controlVars
  <2>2. OrderRing' /\ AnswerRing' /\ AnswerKept' /\ script' \in Scripts
    BY <2>1, Zenon DEF ControlInv, OrderRing, AnswerRing, AnswerKept
  <2>3. Processes' /\ Histories' /\ AcknowledgedStop'
    BY <2>1, Zenon DEF ControlInv, Processes, Histories, AcknowledgedStop
  <2>4. OrdersKept'
    BY <2>1, Zenon DEF ControlInv, OrdersKept, Pending
  <2> QED
    BY <2>2, <2>3, <2>4 DEF ControlInv
<1>6. CASE PollRejection \/ PollResult \/ PollRequest \/ DrainEvents \/ LeaveLoop \/ FinalDrain
  BY <1>5, <1>6, Zenon DEF PollRejection, PollResult, PollRequest, DrainEvents, LeaveLoop,
                           FinalDrain, clientVars
<1>7. CASE request_stop \/ (\E l \in Lanes : Work(l)) \/ Submit \/ Receive \/ UNCHANGED vars
  BY <1>5, <1>7, Zenon DEF request_stop, Work, Submit, Receive, clientVars, vars
<1> QED
  BY <1>1, <1>2, <1>3, <1>4, <1>6, <1>7, Zenon DEF Next, Daemon

(***************************************************************************)
(* Orders and answers in line.                                             *)
(***************************************************************************)
LEMMA OfsAppend ==
  ASSUME NEW S, NEW s \in Seq(S), NEW e \in S, Rising(s), Below(Ofs(s), {e.of})
  PROVE  Ofs(Append(s, e)) = Ofs(s) \cup {e.of} /\ Rising(Append(s, e))
<1> DEFINE t == Append(s, e)
           n == Len(s)
<1>1. n \in Nat /\ Len(t) = n + 1 /\ t[n + 1] = e /\ \A i \in 1..n : t[i] = s[i]
  BY Appended, SeqLen
<1> HIDE DEF t, n
<1>2. /\ \A i \in 1..Len(t) : i \in 1..n \/ i = n + 1
      /\ \A i \in 1..n : i \in 1..Len(t)
      /\ n + 1 \in 1..Len(t)
      /\ \A i, k \in 1..Len(t) : i < k => i \in 1..n
  BY <1>1
<1>3. Ofs(t) \subseteq Ofs(s) \cup {e.of}
  BY <1>1, <1>2, Zenon DEF Ofs, n
<1>4. Ofs(s) \cup {e.of} \subseteq Ofs(t)
  BY <1>1, <1>2, Zenon DEF Ofs, n
<1>5. ASSUME NEW i \in 1..Len(t), NEW k \in 1..Len(t), i < k PROVE t[i].of < t[k].of
  <2>1. i \in 1..n /\ t[i] = s[i]
    BY <1>1, <1>2, <1>5, Zenon
  <2>2. CASE k \in 1..n
    BY <1>1, <1>5, <2>1, <2>2, Zenon DEF Rising, n
  <2>3. CASE k = n + 1
    <3>1. s[i].of \in Ofs(s)
      BY <2>1, Zenon DEF Ofs, n
    <3> QED
      BY <1>1, <2>1, <2>3, <3>1, Zenon DEF Below
  <2> QED
    BY <1>2, <2>2, <2>3, Zenon
<1> QED
  BY <1>3, <1>4, <1>5, Zenon DEF Rising, t

LEMMA OfsTail ==
  ASSUME NEW S, NEW s \in Seq(S), s # <<>>, Rising(s)
  PROVE  /\ Ofs(s) = {Head(s).of} \cup Ofs(Tail(s)) /\ Rising(Tail(s))
         /\ Below({Head(s).of}, Ofs(Tail(s)))
<1> DEFINE t == Tail(s)
<1>1. Len(s) \in Nat \ {0} /\ Len(t) = Len(s) - 1 /\ \A i \in 1..Len(t) : t[i] = s[i + 1]
  BY HeadAndTail, SeqEmpty, Zenon
<1>2. Head(s) = s[1]
  BY <1>1
<1> HIDE DEF t
<1>3. /\ 1 \in 1..Len(s)
      /\ \A i \in 1..Len(t) : i + 1 \in 1..Len(s) /\ 1 < i + 1
      /\ \A i, k \in 1..Len(t) : i < k => i + 1 < k + 1
      /\ \A i \in 1..Len(s) : i = 1 \/ \E k \in 1..Len(t) : i = k + 1
  <2>1. /\ 1 \in 1..Len(s)
        /\ \A i \in 1..Len(t) : i + 1 \in 1..Len(s) /\ 1 < i + 1
        /\ \A i, k \in 1..Len(t) : i < k => i + 1 < k + 1
    BY <1>1
  <2>2. ASSUME NEW i \in 1..Len(s), i # 1 PROVE \E k \in 1..Len(t) : i = k + 1
    <3>1. i - 1 \in 1..Len(t) /\ i = (i - 1) + 1
      BY <1>1, <2>2
    <3> QED
      BY <3>1
  <2> QED
    BY <2>1, <2>2, Zenon
<1>4. Ofs(s) \subseteq {Head(s).of} \cup Ofs(t)
  <2> SUFFICES ASSUME NEW i \in 1..Len(s) PROVE s[i].of \in {s[1].of} \cup Ofs(t)
    BY <1>2, Zenon DEF Ofs
  <2>1. CASE i = 1
    BY <2>1, Zenon
  <2>2. CASE i # 1
    <3>1. PICK k \in 1..Len(t) : i = k + 1
      BY <1>3, <2>2, Zenon
    <3>2. t[k] = s[i]
      BY <1>1, <3>1, Zenon
    <3> QED
      BY <3>2, Zenon DEF Ofs
  <2> QED
    BY <2>1, <2>2
<1>5. {Head(s).of} \cup Ofs(t) \subseteq Ofs(s)
  <2>1. s[1].of \in Ofs(s)
    BY <1>3, Zenon DEF Ofs
  <2>2. ASSUME NEW k \in 1..Len(t) PROVE t[k].of \in Ofs(s)
    <3>1. k + 1 \in 1..Len(s) /\ t[k] = s[k + 1]
      BY <1>1, <1>3, Zenon
    <3> QED
      BY <3>1, Zenon DEF Ofs
  <2>3. Ofs(t) \subseteq Ofs(s)
    BY <2>2, Zenon DEF Ofs
  <2> QED
    BY <1>2, <2>1, <2>3, Zenon
<1>6. Rising(t)
  BY <1>1, <1>3, Zenon DEF Rising
<1>7. Below({Head(s).of}, Ofs(t))
  <2> SUFFICES ASSUME NEW k \in 1..Len(t) PROVE s[1].of < t[k].of
    BY <1>2, Zenon DEF Below, Ofs
  <2> QED
    BY <1>1, <1>3, Zenon DEF Rising
<1> QED
  BY <1>4, <1>5, <1>6, <1>7, Zenon DEF t

LEMMA LineInit ==
  ASSUME Init PROVE InLine /\ OwnAnswer
<1>1. orders = <<>> /\ responses = <<>> /\ response = NoResponse /\ reports = {}
  BY DEF Init
<1>2. 1..Len(<<>>) = {}
  OBVIOUS
<1>3. Ofs(<<>>) = {} /\ Rising(<<>>)
  BY <1>2, Zenon DEF Ofs, Rising
<1>4. Told = {} /\ Held = {}
  BY <1>1, Zenon DEF Told, Held
<1>5. InLine
  BY <1>1, <1>3, <1>4, Zenon DEF InLine, Line, Below, Within
<1> QED
  BY <1>1, <1>5, Zenon DEF OwnAnswer

\* The answer e goes to the ring or to response_.
LEMMA LinePublish ==
  ASSUME NEW e \in AnswerEntry, publish_pending(e), responses \in Seq(AnswerEntry),
         UNCHANGED <<reports, invocation, waiting>>, Rising(responses), Rising(orders'),
         Line(Told, Ofs(responses), {e.of}, Ofs(orders')),
         Within(Told, invocation, waiting), Within(Ofs(responses), invocation, waiting),
         Within({e.of}, invocation, waiting), Within(Ofs(orders'), invocation, waiting)
  PROVE  InLine'
<1>1. Told' = Told
  BY Zenon DEF Told
<1>2. CASE Len(responses) < RingCapacity
  <2>1. responses' = Append(responses, e) /\ response' = NoResponse
    BY <1>2, Zenon DEF publish_pending
  <2>2. Held' = {}
    BY <2>1, Zenon DEF Held
  <2>3. Below(Ofs(responses), {e.of})
    BY Zenon DEF Line
  <2>4. Ofs(responses') = Ofs(responses) \cup {e.of} /\ Rising(responses')
    BY <2>1, <2>3, OfsAppend, ZenonT(40)
  <2>5. Line(Told, Ofs(responses'), {}, Ofs(orders'))
    BY <2>4, Zenon DEF Line, Below
  <2>6. Within(Ofs(responses'), invocation, waiting) /\ Within({}, invocation, waiting)
    BY <2>4, Zenon DEF Within
  <2> QED
    BY <1>1, <2>2, <2>4, <2>5, <2>6, Zenon DEF InLine
<1>3. CASE ~(Len(responses) < RingCapacity)
  <2>1. response' = e /\ responses' = responses
    BY <1>3, Zenon DEF publish_pending
  <2>2. e # NoResponse
    <3>1. e.operation \in Operations /\ NoResponse.operation = "none"
      BY Zenon DEF AnswerEntry, NoResponse
    <3>2. "none" \notin Operations
      BY DEF Operations
    <3> QED
      BY <3>1, <3>2, Zenon
  <2>3. Held' = {e.of}
    BY <2>1, <2>2, Zenon DEF Held
  <2> QED
    BY <1>1, <2>1, <2>3, Zenon DEF InLine
<1> QED
  BY <1>2, <1>3

LEMMA LinePoll ==
  ASSUME ControlInv, InLine, PollControl PROVE InLine'
<1>1. UNCHANGED <<reports, invocation, waiting>>
  BY DEF PollControl, clientVars
<1>2. /\ responses \in Seq(AnswerEntry) /\ orders \in Seq(OrderEntry)
      /\ response = NoResponse \/ response \in AnswerEntry
  BY Zenon DEF ControlInv, AnswerRing, OrderRing, AnswerKept
<1>3. /\ Rising(responses) /\ Rising(orders) /\ Line(Told, Ofs(responses), Held, Ofs(orders))
      /\ Within(Told, invocation, waiting) /\ Within(Ofs(responses), invocation, waiting)
      /\ Within(Held, invocation, waiting) /\ Within(Ofs(orders), invocation, waiting)
  BY Zenon DEF InLine
<1>4. Told' = Told
  BY <1>1, Zenon DEF Told
<1>5. CASE response # NoResponse /\ publish_pending(response) /\ UNCHANGED orders
  <2>1. PICK e \in AnswerEntry : e = response
    BY <1>2, <1>5, Zenon
  <2>2. publish_pending(e) /\ Held = {e.of}
    BY <1>5, <2>1, Zenon DEF Held
  <2> QED
    BY <1>1, <1>2, <1>3, <1>5, <2>2, LinePublish, Zenon
<1>6. CASE response = NoResponse /\ UNCHANGED controlVars
  <2>1. UNCHANGED <<orders, responses, response>>
    BY <1>6 DEF controlVars
  <2> QED
    BY <1>1, <1>3, <1>4, <2>1, Zenon DEF InLine, Held
<1>7. ASSUME response = NoResponse, orders # <<>>, orders' = Tail(orders), NEW x,
             x = Head(orders).of
      PROVE  /\ Rising(orders') /\ Line(Told, Ofs(responses), {x}, Ofs(orders'))
             /\ Line(Told, Ofs(responses), {}, Ofs(orders'))
             /\ Within({x}, invocation, waiting) /\ Within({}, invocation, waiting)
             /\ Within(Ofs(orders'), invocation, waiting)
  <2>1. Ofs(orders) = {x} \cup Ofs(orders') /\ Rising(orders') /\ Below({x}, Ofs(orders'))
    BY <1>2, <1>3, <1>7, OfsTail, Zenon
  <2>2. Line(Told, Ofs(responses), {x}, Ofs(orders'))
    BY <1>3, <2>1, Zenon DEF Line, Below
  <2>3. Line(Told, Ofs(responses), {}, Ofs(orders'))
    BY <2>2, Zenon DEF Line, Below
  <2>4. Within({x}, invocation, waiting) /\ Within(Ofs(orders'), invocation, waiting)
        /\ Within({}, invocation, waiting)
    BY <1>3, <2>1, Zenon DEF Within
  <2> QED
    BY <2>1, <2>2, <2>3, <2>4
<1>8. CASE /\ response = NoResponse /\ orders # <<>> /\ orders' = Tail(orders)
           /\ UNCHANGED <<responses, response>>
  <2>1. Held' = {}
    BY <1>8, Zenon DEF Held
  <2>2. /\ Rising(orders') /\ Line(Told, Ofs(responses), {}, Ofs(orders'))
        /\ Within({}, invocation, waiting) /\ Within(Ofs(orders'), invocation, waiting)
    BY <1>7, <1>8, Zenon
  <2> QED
    BY <1>1, <1>3, <1>4, <1>8, <2>1, <2>2, Zenon DEF InLine
<1>9. CASE /\ response = NoResponse /\ orders # <<>> /\ orders' = Tail(orders)
           /\ publish_pending(build_response(Head(orders)))
  <2>1. Head(orders) \in OrderEntry /\ OrderIn(script, Head(orders))
    <3>1. 1 \in 1..Len(orders) /\ Head(orders) = orders[1]
      BY <1>2, <1>9
    <3> QED
      BY <3>1, SeqElement, Zenon DEF ControlInv, OrderRing
  <2>2. PICK e \in AnswerEntry : e = build_response(Head(orders)) /\ e.of = Head(orders).of
    BY <2>1, AnswerOf, Zenon
  <2>3. publish_pending(e)
    BY <1>9, <2>2, Zenon
  <2>4. /\ Rising(orders') /\ Line(Told, Ofs(responses), {e.of}, Ofs(orders'))
        /\ Within({e.of}, invocation, waiting) /\ Within(Ofs(orders'), invocation, waiting)
    BY <1>7, <1>9, <2>2, Zenon
  <2> QED
    BY <1>1, <1>2, <1>3, <2>3, <2>4, LinePublish, Zenon
<1>10. \/ response # NoResponse /\ publish_pending(response) /\ UNCHANGED orders
       \/ response = NoResponse /\ UNCHANGED controlVars
       \/ /\ response = NoResponse /\ orders # <<>> /\ orders' = Tail(orders)
          /\ UNCHANGED <<responses, response>>
       \/ /\ response = NoResponse /\ orders # <<>> /\ orders' = Tail(orders)
          /\ publish_pending(build_response(Head(orders)))
  BY Zenon DEF PollControl, ControlPoll
<1> QED
  BY <1>5, <1>6, <1>8, <1>9, <1>10, Zenon

\* Whoever was within the line before a process leaves stays so.
LEMMA WithinLeaves ==
  ASSUME NEW A, NEW n \in Nat, NEW w, Within(A, n, w) PROVE Within(A, n + 1, FALSE)
<1> SUFFICES ASSUME NEW x \in A PROVE x \in Nat /\ x <= n + 1 /\ x # n + 1
  BY Zenon DEF Within
<1>1. x \in Nat /\ x <= n
  BY Zenon DEF Within
<1> QED
  BY <1>1

\* Before a process has submitted, all the others are earlier ones.
LEMMA WithinEarlier ==
  ASSUME NEW A, NEW n \in Nat, Within(A, n, FALSE)
  PROVE  Below(A, {n}) /\ Within(A, n, TRUE)
<1>1. ASSUME NEW x \in A PROVE x < n
  <2>1. x \in Nat /\ x <= n /\ x # n
    BY Zenon DEF Within
  <2> QED
    BY <2>1
<1>2. Within(A, n, TRUE)
  BY Zenon DEF Within
<1> QED
  BY <1>1, <1>2, Zenon DEF Below

LEMMA LineSubmit ==
  ASSUME ControlInv, InLine, ControlSubmit PROVE InLine'
<1> DEFINE e == [of |-> invocation, sequence |-> Current.sequence,
                 operation |-> Current.operation, worker |-> Current.worker]
<1>1. /\ ~waiting /\ orders' = Append(orders, e) /\ waiting' = TRUE
      /\ UNCHANGED <<responses, response, invocation, reports>>
  BY Zenon DEF ControlSubmit
<1>2. orders \in Seq(OrderEntry) /\ invocation \in Nat
  BY Zenon DEF ControlInv, OrderRing, Processes
<1>3. e.of = invocation /\ e \in OrderEntry \cup {e} /\ orders \in Seq(OrderEntry \cup {e})
  BY <1>2
<1> HIDE DEF e
<1>5. /\ Rising(responses) /\ Rising(orders) /\ Line(Told, Ofs(responses), Held, Ofs(orders))
      /\ Within(Told, invocation, FALSE) /\ Within(Ofs(responses), invocation, FALSE)
      /\ Within(Held, invocation, FALSE) /\ Within(Ofs(orders), invocation, FALSE)
  BY <1>1, Zenon DEF InLine, Within
<1>6. /\ Below(Told, {invocation}) /\ Below(Ofs(responses), {invocation})
      /\ Below(Held, {invocation}) /\ Below(Ofs(orders), {invocation})
      /\ Within(Told, invocation, TRUE) /\ Within(Ofs(responses), invocation, TRUE)
      /\ Within(Held, invocation, TRUE) /\ Within(Ofs(orders), invocation, TRUE)
  BY <1>2, <1>5, WithinEarlier, Zenon
<1>7. Ofs(orders') = Ofs(orders) \cup {invocation} /\ Rising(orders')
  BY <1>1, <1>3, <1>5, <1>6, OfsAppend, ZenonT(40)
<1>8. Line(Told, Ofs(responses), Held, Ofs(orders'))
  BY <1>5, <1>6, <1>7, Zenon DEF Line, Below
<1>9. invocation <= invocation
  BY <1>2
<1>10. Within(Ofs(orders'), invocation, TRUE)
  BY <1>2, <1>6, <1>7, <1>9, Zenon DEF Within
<1>11. Told' = Told /\ Held' = Held
  BY <1>1, Zenon DEF Told, Held
<1> QED
  BY <1>1, <1>5, <1>6, <1>7, <1>8, <1>10, <1>11, Zenon DEF InLine

\* The process takes the first answer of the ring, which nobody has reported.
LEMMA LineReceive ==
  ASSUME ControlInv, InLine, OwnAnswer, ControlReceive PROVE InLine' /\ OwnAnswer'
<1> DEFINE a == Head(responses)
<1>1. /\ waiting /\ responses # <<>> /\ responses' = Tail(responses)
      /\ invocation' = invocation + 1 /\ waiting' = FALSE
      /\ reports' = IF Accepts(a) THEN reports \cup {<<invocation, a.of>>} ELSE reports
      /\ UNCHANGED <<script, orders, response>>
  BY Zenon DEF ControlReceive, Leave
<1>2. responses \in Seq(AnswerEntry) /\ invocation \in Nat
  BY Zenon DEF ControlInv, AnswerRing, Processes
<1>3. OrderIn(script, a)
  <2>1. 1 \in 1..Len(responses) /\ a = responses[1]
    BY <1>1, <1>2
  <2> QED
    BY <2>1, Zenon DEF ControlInv, AnswerRing
<1> HIDE DEF a
<1>4. /\ Rising(responses) /\ Rising(orders) /\ Line(Told, Ofs(responses), Held, Ofs(orders))
      /\ Within(Told, invocation, waiting) /\ Within(Ofs(responses), invocation, waiting)
      /\ Within(Held, invocation, waiting) /\ Within(Ofs(orders), invocation, waiting)
  BY Zenon DEF InLine
<1>5. /\ Ofs(responses) = {a.of} \cup Ofs(responses') /\ Rising(responses')
      /\ Below({a.of}, Ofs(responses'))
  BY <1>1, <1>2, <1>4, OfsTail, Zenon DEF a
<1>6. /\ Line(Told \cup {a.of}, Ofs(responses'), Held, Ofs(orders))
      /\ Line(Told, Ofs(responses'), Held, Ofs(orders))
  BY <1>4, <1>5, Zenon DEF Line, Below
<1>7. /\ Within(Told \cup {a.of}, invocation, waiting)
      /\ Within(Ofs(responses'), invocation, waiting)
  BY <1>4, <1>5, Zenon DEF Within
<1>8. /\ Within(Told, invocation + 1, FALSE) /\ Within(Told \cup {a.of}, invocation + 1, FALSE)
      /\ Within(Ofs(responses'), invocation + 1, FALSE)
      /\ Within(Held, invocation + 1, FALSE) /\ Within(Ofs(orders), invocation + 1, FALSE)
  BY <1>2, <1>4, <1>7, WithinLeaves, Zenon
<1>9. <<invocation, a.of>>[1] = invocation /\ <<invocation, a.of>>[2] = a.of
  OBVIOUS
<1>10. Told' \in {Told, Told \cup {a.of}}
  BY <1>1, <1>9, Zenon DEF Told
<1>11. Held' = Held
  BY <1>1, Zenon DEF Held
<1>12. InLine'
  BY <1>1, <1>4, <1>5, <1>6, <1>8, <1>10, <1>11, Zenon DEF InLine
<1>13. a.of \in 1..invocation
  <2>1. a.of \in Nat /\ a.of <= invocation
    BY <1>7, Zenon DEF Within
  <2>2. a.of \in 1..Len(script.orders)
    BY <1>3, Zenon DEF OrderIn
  <2> QED
    BY <1>2, <2>1, <2>2
<1>14. Accepts(a) => SameOrder(invocation, a.of)
  BY <1>3, Zenon DEF Accepts, Current, OrderIn, SameOrder
<1>15. \A q \in reports : q[2] # a.of
  <2>1. ~(a.of < a.of)
    BY <1>13
  <2>2. \A q \in reports : q[2] < a.of
    BY <1>4, <1>5, Zenon DEF Line, Below, Told
  <2> QED
    BY <2>1, <2>2, Zenon
<1>16. OwnAnswer'
  <2>1. CASE reports' = reports
    BY <1>1, <2>1, Zenon DEF OwnAnswer, SameOrder
  <2>2. CASE Accepts(a) /\ reports' = reports \cup {<<invocation, a.of>>}
    <3> DEFINE new == <<invocation, a.of>>
    <3>2. new[1] = invocation /\ new[2] = a.of
      BY <1>9
    <3> HIDE DEF new
    <3>3. \A i, k : SameOrder(i, k) => (/\ script'.orders[i].sequence = script'.orders[k].sequence
                                        /\ script'.orders[i].operation = script'.orders[k].operation)
      BY <1>1, Zenon DEF SameOrder
    <3>4. ASSUME NEW r \in reports'
          PROVE  /\ r[2] \in 1..r[1] /\ SameOrder(r[1], r[2])
                 /\ \A q \in reports' : q[2] = r[2] => q = r
      BY <1>13, <1>14, <1>15, <2>2, <3>2, <3>4, Zenon DEF OwnAnswer, new
    <3> QED
      BY <3>3, <3>4, Zenon DEF OwnAnswer, SameOrder
  <2> QED
    BY <1>1, <2>1, <2>2, Zenon
<1> QED
  BY <1>12, <1>16

LEMMA LineStep ==
  ASSUME ControlInv, InLine, OwnAnswer, [Next]_vars PROVE InLine' /\ OwnAnswer'
<1>1. ASSUME UNCHANGED <<script, reports>> PROVE OwnAnswer'
  BY <1>1, Zenon DEF OwnAnswer, SameOrder
<1>2. CASE PollControl
  <2>1. UNCHANGED <<script, reports>>
    BY <1>2 DEF PollControl, clientVars
  <2> QED
    BY <1>1, <1>2, <2>1, LinePoll
<1>3. CASE ControlSubmit
  <2>1. UNCHANGED <<script, reports>>
    BY <1>3 DEF ControlSubmit
  <2> QED
    BY <1>1, <1>3, <2>1, LineSubmit
<1>4. CASE ControlReceive
  BY <1>4, LineReceive
<1>5. CASE ControlTimeout
  <2>1. /\ invocation' = invocation + 1 /\ waiting' = FALSE
        /\ UNCHANGED <<script, orders, responses, response, reports>>
    BY <1>5, Zenon DEF ControlTimeout, controlVars, Leave
  <2>2. invocation \in Nat
    BY Zenon DEF ControlInv, Processes
  <2>3. /\ Within(Told, invocation + 1, FALSE) /\ Within(Ofs(responses), invocation + 1, FALSE)
        /\ Within(Held, invocation + 1, FALSE) /\ Within(Ofs(orders), invocation + 1, FALSE)
    BY <2>2, WithinLeaves, Zenon DEF InLine
  <2>4. Told' = Told /\ Held' = Held
    BY <2>1, Zenon DEF Told, Held
  <2>5. InLine'
    BY <2>1, <2>3, <2>4, Zenon DEF InLine
  <2> QED
    BY <1>1, <2>1, <2>5
<1>6. CASE UNCHANGED <<controlVars, script, invocation, waiting, reports>>
  <2>1. UNCHANGED <<orders, responses, response, script, invocation, waiting, reports>>
    BY <1>6, Zenon DEF controlVars
  <2>2. Told' = Told /\ Held' = Held
    BY <2>1, Zenon DEF Told, Held
  <2>3. InLine'
    BY <2>1, <2>2, Zenon DEF InLine
  <2> QED
    BY <1>1, <2>1, <2>3
<1>7. CASE PollRejection \/ PollResult \/ PollRequest \/ DrainEvents \/ LeaveLoop \/ FinalDrain
  BY <1>6, <1>7, Zenon DEF PollRejection, PollResult, PollRequest, DrainEvents, LeaveLoop,
                           FinalDrain, clientVars
<1>8. CASE request_stop \/ (\E l \in Lanes : Work(l)) \/ Submit \/ Receive \/ UNCHANGED vars
  BY <1>6, <1>8, Zenon DEF request_stop, Work, Submit, Receive, clientVars, vars
<1> QED
  BY <1>2, <1>3, <1>4, <1>5, <1>7, <1>8, Zenon DEF Next, Daemon

-----------------------------------------------------------------------------
LEMMA JobsAreKept ==
  ASSUME DataInv PROVE JobsKept
<1> SUFFICES ASSUME NEW j \in Sent \ InRing
             PROVE  delivered[j] + (IF j \in Owned(pool) THEN 1 ELSE 0)
                      + (IF rejection = j THEN 1 ELSE 0) = 1
  BY Zenon DEF JobsKept
<1>1. Requests /\ Ledger
  BY DEF DataInv
<1>2. /\ Len(script.jobs) \in Nat /\ unsent \in Nat /\ Len(requests) \in Nat /\ Taken \in Nat
      /\ Taken + Len(requests) + unsent = Len(script.jobs)
      /\ script.jobs \in Seq(JobMessage)
  BY <1>1, LengthFacts, Zenon
<1>3. PICK i \in 1..(Len(script.jobs) - unsent) :
        script.jobs[i].kind = "job" /\ j = script.jobs[i].job
  BY Zenon DEF Sent
<1>4. i \in 1..Taken \/ i - Taken \in 1..Len(requests)
  BY <1>2, <1>3
<1>5. ASSUME i - Taken \in 1..Len(requests) PROVE FALSE
  <2>1. Taken + (i - Taken) = i
    BY <1>2, <1>3
  <2>2. requests[i - Taken] = script.jobs[i]
    BY <1>1, <1>5, <2>1, Zenon DEF Requests
  <2>3. j \in InRing
    BY <1>3, <1>5, <2>2, Zenon DEF InRing, Elements
  <2> QED
    BY <2>3
<1>6. WasTaken(j)
  BY <1>3, <1>4, <1>5, Zenon DEF WasTaken
<1>7. j \in Jobs
  <2>1. i \in 1..Len(script.jobs)
    BY <1>2, <1>3
  <2>2. DOMAIN script.jobs = 1..Len(script.jobs)
    BY <1>2, SeqLen, Zenon
  <2>3. script \in Scripts
    BY <1>1, Zenon DEF Requests
  <2> DEFINE carried == {i1 \in DOMAIN script.jobs : script.jobs[i1].kind = "job"}
             names == {script.jobs[i1].job : i1 \in carried}
  <2>4. i \in carried
    BY <1>3, <2>1, <2>2, Zenon
  <2>5. j \in names
    BY <1>3, <2>4, Zenon
  <2>6. names \subseteq Jobs
    BY <2>3, SMT DEF Jobs
  <2> QED
    BY <2>5, <2>6, Zenon
<1>8. Placed(WasTaken(j), delivered[j], j \in Owned(pool), rejection = j)
  BY <1>1, <1>7, Zenon DEF Ledger
<1>9. \/ delivered[j] = 1 /\ ~(j \in Owned(pool)) /\ ~(rejection = j)
      \/ delivered[j] = 0 /\ j \in Owned(pool) /\ ~(rejection = j)
      \/ delivered[j] = 0 /\ ~(j \in Owned(pool)) /\ rejection = j
  BY <1>6, <1>8, Zenon DEF Placed
<1> QED
  BY <1>9

LEMMA StatusIsValid ==
  ASSUME DataInv PROVE StatusValid
<1> SUFFICES ASSUME NEW order
             PROVE  LET s == capture_status(Apply(order))
                    IN  /\ s.accepting <= s.count /\ s.busy <= s.count
                        /\ s.drained \subseteq s.draining /\ s.quarantined \subseteq s.draining
  BY Zenon DEF StatusValid
<1> DEFINE p == Apply(order)
<1>1. PoolInv(p)
  BY ApplyKeeps, Zenon DEF DataInv
<1> HIDE DEF p
<1>2. p \in PoolRecord /\ LanesFit(p) /\ p.quarantined \subseteq p.draining
  BY <1>1, Zenon DEF PoolInv
<1> DEFINE open == Lanes \ p.draining
           busy == {l \in Lanes : p.lane[l].state \in {"kRunning"}}
           drained == {l \in Lanes : p.lane[l].state \in {"kDrained"}}
<1>3. drained \subseteq p.draining
  BY <1>2, Zenon DEF LanesFit, LaneFits
<1>4. open \subseteq Lanes /\ busy \subseteq Lanes /\ IsFiniteSet(Lanes)
  BY PoolAssumption, Zenon
<1>5. Cardinality(open) <= Cardinality(Lanes) /\ Cardinality(busy) <= Cardinality(Lanes)
  BY <1>4, FS_Subset, Zenon
<1>6. capture_status(p) = [count |-> Cardinality(Lanes), accepting |-> Cardinality(open),
                           busy |-> Cardinality(busy), draining |-> p.draining,
                           drained |-> drained, quarantined |-> p.quarantined]
  BY Zenon DEF capture_status
<1> HIDE DEF open, busy, drained
<1> DEFINE st == capture_status(p)
<1>7a. st.count = Cardinality(Lanes) /\ st.accepting = Cardinality(open) /\ st.busy = Cardinality(busy)
  BY <1>6, SMT
<1>7b. st.draining = p.draining /\ st.drained = drained /\ st.quarantined = p.quarantined
  BY <1>6, SMT
<1> HIDE DEF st
<1>7c. /\ st.accepting <= st.count /\ st.busy <= st.count
       /\ st.drained \subseteq st.draining /\ st.quarantined \subseteq st.draining
  BY <1>2, <1>3, <1>5, <1>7a, <1>7b, Zenon
<1>7. LET s == capture_status(p)
      IN  /\ s.accepting <= s.count /\ s.busy <= s.count
          /\ s.drained \subseteq s.draining /\ s.quarantined \subseteq s.draining
  BY <1>7c, Zenon DEF st
<1> QED
  BY <1>7, Zenon DEF p

LEMMA TypesHold ==
  ASSUME DataInv, MainInv, ControlInv PROVE TypeOK
<1>1. Requests /\ Results /\ PoolInv(pool) /\ OrderRing /\ AnswerRing
  BY DEF DataInv, ControlInv
<1>2. pool \in PoolRecord /\ PoolBounds(pool)
  BY <1>1, Zenon DEF PoolInv
<1>3. Len(requests) <= RingCapacity /\ Len(results) <= RingCapacity
  BY <1>1, Zenon DEF Requests, Results
<1>4. Len(orders) <= RingCapacity /\ Len(responses) <= RingCapacity
  BY <1>1, Zenon DEF OrderRing, AnswerRing
<1>5. pool.draining \subseteq Lanes /\ pool.ready_index \in Lanes \cup {NoLane}
  BY <1>2, PoolFields, Zenon
<1>6. \A l \in Lanes : pool.lane[l].state \in {"kIdle", "kRunning", "kReady", "kDrained"}
  BY <1>2, LaneFields, Zenon
<1>7. Len(pool.queue) <= QueueCapacity /\ pool.events <= EventCapacity
  BY <1>2, Zenon DEF PoolBounds
<1>8. dpc \in {"rejection", "result", "request", "control", "events", "final", "exited"}
  BY Zenon DEF MainInv
<1> QED
  BY <1>3, <1>4, <1>5, <1>6, <1>7, <1>8, Zenon DEF TypeOK

\* The inductive invariant: what the data loop holds of every job, what the
\* control rings hold of every order, that orders and answers stand in line, and
\* where the daemon's thread is.
DaemonInv == DataInv /\ ControlInv /\ InLine /\ OwnAnswer /\ MainInv

LEMMA DaemonInvariant == Spec => []DaemonInv
<1>1. Init => DaemonInv
  BY DataInit, ControlInit, LineInit, MainInit DEF DaemonInv
<1>2. DaemonInv /\ [Next]_vars => DaemonInv'
  BY DataStep, ControlStep, LineStep, MainStep DEF DaemonInv
<1> QED
  BY <1>1, <1>2, PTL DEF Spec

\* Whatever the clients send and whenever the worker lanes finish, JobService
\* neither loses nor doubles a job it took (JobService::poll), JobControlService
\* answers the orders in the order they were sent, each once
\* (JobControlService::poll, publish_pending), and every lifecycle event of the
\* pool that validates is buffered, counted as dropped or recorded (emit,
\* drain_events in jobd.cc); the others are preemptions that cancel_before reports
\* of a job with no work left.
THEOREM NothingIsLost == Spec => []Conservation
<1>1. DaemonInv => Conservation
  BY JobsAreKept, TypesHold DEF DaemonInv, Conservation, ControlInv, MainInv
<1> QED
  BY <1>1, DaemonInvariant, PTL

\* An answer jobctl accepts is the answer to an order with the sequence number and
\* the operation of its own, sent by it or by an earlier process, and no other
\* process has reported it, although earlier processes may have left answers behind
\* in the ring (send_control); the control service stops only once a shutdown has
\* been acknowledged; and the status the daemon would answer with is one that
\* validate_response accepts.
THEOREM AnswersAreTrue == Spec => []AnswersTrue
<1>1. DaemonInv => AnswersTrue
  BY StatusIsValid DEF DaemonInv, AnswersTrue, ControlInv
<1> QED
  BY <1>1, DaemonInvariant, PTL
=============================================================================
