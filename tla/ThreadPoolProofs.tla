-------------------------- MODULE ThreadPoolProofs --------------------------
(***************************************************************************)
(* The worker pool keeps every task, and wait() is a barrier, for every    *)
(* number of workers, every ring of two slots or more, and every sequence  *)
(* of parallel_for and enqueue calls.                                      *)
(*                                                                         *)
(* Positions of the ring name tasks: the current call pushes its chunks at *)
(* Base, Base + 1, ..., so that an index of the loop has one home position *)
(* and is in the ring, with a worker or done according to where that       *)
(* position stands.  A slot's sequence number tells the positions apart    *)
(* that share it, so that no arithmetic on the ring's size is needed but   *)
(* that neighbours have different slots.                                   *)
(***************************************************************************)
EXTENDS ThreadPool, FiniteSetTheorems, TLAPS

USE SMTT(20), ZenonT(20)

(* The position of the current call's first task. *)
Base == head - chunk - (IF owner \in {"epoch", "notify"} THEN 1 ELSE 0)

(* The task pushed at a position by the current call. *)
TaskAt(p) ==
    [call |-> call, lo |-> (p - Base) * ChunkSize,
     hi |-> Least({(p - Base) * ChunkSize + ChunkSize, total})]

(* The position of the task that an index of the loop belongs to. *)
Home(i) == Base + i \div ChunkSize

(* Tasks in the ring and with the workers: their slots carry their sequence  *)
(* number, and no two workers have claimed the same position.                *)
QueuedAt(p) == sequence[At(p)] = p + 1 /\ slots[At(p)] = TaskAt(p)

HeldAt(w) ==
    /\ Base <= pos[w] /\ pos[w] < tail
    /\ sequence[At(pos[w])] = pos[w] + 1
    /\ Held(w) = TaskAt(pos[w])

RingInv ==
    /\ Base \in Nat /\ Base <= tail
    /\ \A p \in tail .. head - 1 : QueuedAt(p)
    /\ \A w \in Holding : HeldAt(w)
    /\ \A w, v \in Holding : pos[w] = pos[v] => w = v

(* A slot is free for a position of its own or published for one below head. *)
SlotInv(s) ==
    \/ At(sequence[s]) = s
    \/ \E q \in 0 .. head - 1 : At(q) = s /\ sequence[s] = q + 1

SlotsInv ==
    /\ \A s \in Slot : SlotInv(s)
    /\ owner = "publish" => sequence[At(head)] = head /\ slots[At(head)] = TaskAt(head)
    /\ \A w \in Worker : pc[w] = "pop_claim" => pos[w] < head

(* pending_ counts the tasks pushed, claimed or about to be published.       *)
Busy == {w \in Worker : pc[w] \in {"pop_read", "run", "done"}}

PendingInv ==
    pending = head - tail + Cardinality(Busy) + (IF owner = "publish" THEN 1 ELSE 0)

(* The owner's loop. *)
Looping == {"chunk", "publish", "epoch", "notify"}

Done(i) == Home(i) < tail /\ \A w \in Holding : pos[w] # Home(i)

LoopInv ==
    /\ total = 0 \/ count >= 2
    /\ owner \in {"publish", "epoch", "notify"} => MoreChunks
    /\ owner \notin Looping => pending = 0 /\ \A i \in 0 .. total - 1 : Home(i) < head
    /\ \A i \in 0 .. total - 1 : ran[i] = IF Done(i) THEN 1 ELSE 0

Inv == TypeOK /\ RingInv /\ SlotsInv /\ PendingInv /\ LoopInv

-----------------------------------------------------------------------------
(* Arithmetic. *)

(* Division finds the one multiple of n below i. *)
LEMMA DivCut ==
  ASSUME NEW n \in Nat, n > 0, NEW i \in Nat, NEW c \in Nat
  PROVE  /\ i \div n \in Nat
         /\ c * n <= i /\ i < c * n + n <=> c = i \div n
<1> DEFINE q == i \div n
           y == i % n
<1>1. y \in 0 .. n - 1 /\ q \in Nat /\ i = n * q + y
  OBVIOUS
<1> HIDE DEF q, y
<1>2. ASSUME c < q PROVE c * n + n <= n * q
  <2>1. (c + 1) * n <= q * n
    BY <1>1, <1>2
  <2> QED
    BY <1>1, <2>1
<1>3. ASSUME q < c PROVE n * q + n <= c * n
  <2>1. (q + 1) * n <= c * n
    BY <1>1, <1>3
  <2> QED
    BY <1>1, <2>1
<1>4. CASE c < q
  BY <1>1, <1>2, <1>4
<1>5. CASE q < c
  BY <1>1, <1>3, <1>5
<1>6. CASE c = q
  <2>1. c * n = n * q
    BY <1>1, <1>6
  <2> QED
    BY <1>1, <1>6, <2>1
<1>7. q \in Nat /\ (c * n <= i /\ i < c * n + n <=> c = q)
  BY <1>1, <1>4, <1>5, <1>6
<1> QED
  BY <1>7 DEF q

LEMMA DivBelow ==
  ASSUME NEW n \in Nat, n > 0, NEW i \in Nat, NEW c \in Nat
  PROVE  i \div n < c <=> i < c * n
<1> DEFINE q == i \div n
<1>1. q \in Nat /\ q * n <= i /\ i < q * n + n
  BY DivCut
<1> HIDE DEF q
<1>2. ASSUME q < c PROVE i < c * n
  <2>1. (q + 1) * n <= c * n
    BY <1>1, <1>2
  <2>2. (q + 1) * n = q * n + n
    BY <1>1
  <2>3. q * n \in Nat /\ c * n \in Nat
    BY <1>1
  <2> QED
    BY <1>1, <2>1, <2>2, <2>3
<1>3. ASSUME c <= q PROVE c * n <= i
  <2>1. c * n <= q * n
    BY <1>1, <1>3
  <2>2. q * n \in Nat /\ c * n \in Nat
    BY <1>1
  <2> QED
    BY <1>1, <2>1, <2>2
<1>4. c * n \in Nat
  OBVIOUS
<1>5. q < c <=> i < c * n
  BY <1>1, <1>2, <1>3, <1>4
<1> QED
  BY <1>5 DEF q

(* Rounded up, count chunks are enough, and none is empty. *)
LEMMA CeilCovers ==
  ASSUME NEW t \in Nat, NEW c \in Nat, c > 0
  PROVE  /\ (t + c - 1) \div c \in Nat
         /\ t <= c * ((t + c - 1) \div c)
         /\ t > 0 => (t + c - 1) \div c > 0
<1> DEFINE q == (t + c - 1) \div c
           y == (t + c - 1) % c
<1>1. t + c - 1 \in Nat
  OBVIOUS
<1>2. y \in 0 .. c - 1 /\ q \in Nat /\ t + c - 1 = c * q + y
  BY <1>1
<1> HIDE DEF q, y
<1>3. c * q \in Nat
  BY <1>2
<1>4. t <= c * q
  BY <1>2, <1>3
<1>5. ASSUME t > 0, q = 0 PROVE FALSE
  <2>1. c * q = 0
    BY <1>5
  <2> QED
    BY <1>4, <1>5, <2>1
<1>6. q \in Nat /\ t <= c * q /\ (t > 0 => q > 0)
  BY <1>2, <1>4, <1>5
<1> QED
  BY <1>6 DEF q

(* A position's slot. *)
LEMMA AtSlot ==
  ASSUME RingSize > 0, NEW p \in Nat
  PROVE  At(p) \in Slot
<1>1. RingSize \in Nat
  BY PoolAssumption
<1> QED
  BY <1>1 DEF At, Slot

LEMMA AtNext ==
  ASSUME RingSize > 1, NEW p \in Nat
  PROVE  At(p + 1) # At(p)
<1> SUFFICES ASSUME At(p + 1) = At(p) PROVE FALSE
  OBVIOUS
<1>1. RingSize \in Nat /\ RingSize > 0
  BY PoolAssumption
<1> DEFINE q == p \div RingSize
           r == (p + 1) \div RingSize
           y == p % RingSize
<1>2. q \in Nat /\ r \in Nat /\ y \in Nat /\ p = RingSize * q + y /\ p + 1 = RingSize * r + y
  BY <1>1 DEF At
<1> HIDE DEF q, r, y
<1>3. RingSize * r = RingSize * q + 1
  BY <1>1, <1>2
<1>4. CASE r <= q
  <2>1. RingSize * r <= RingSize * q
    BY <1>1, <1>2, <1>4
  <2>2. RingSize * q \in Nat
    BY <1>1, <1>2
  <2> QED
    BY <1>3, <2>1, <2>2
<1>5. CASE r >= q + 1
  <2>1. RingSize * r >= RingSize * (q + 1)
    BY <1>1, <1>2, <1>5
  <2>2. RingSize * (q + 1) = RingSize * q + RingSize /\ RingSize * q \in Nat
    BY <1>1, <1>2
  <2> QED
    BY <1>1, <1>3, <2>1, <2>2
<1> QED
  BY <1>2, <1>4, <1>5

LEMMA AtRound ==
  ASSUME RingSize > 0, NEW p \in Nat
  PROVE  p + RingSize \in Nat /\ At(p + RingSize) = At(p)
<1>1. RingSize \in Nat
  BY PoolAssumption
<1> DEFINE q == p \div RingSize
           r == (p + RingSize) \div RingSize
           y == p % RingSize
           z == (p + RingSize) % RingSize
<1>2. /\ y \in 0 .. RingSize - 1 /\ z \in 0 .. RingSize - 1 /\ q \in Nat /\ r \in Nat
      /\ p = RingSize * q + y /\ p + RingSize = RingSize * r + z
  BY <1>1
<1> HIDE DEF q, r, y, z
<1>3. RingSize * q \in Nat /\ RingSize * r \in Nat
  BY <1>1, <1>2
<1>4. RingSize * (q + 1) = RingSize * q + RingSize
  BY <1>1, <1>2
<1>5. CASE r > q + 1
  <2>1. RingSize * r >= RingSize * (q + 2)
    BY <1>1, <1>2, <1>5
  <2>2. RingSize * (q + 2) = RingSize * q + RingSize + RingSize
    BY <1>1, <1>2
  <2> QED
    BY <1>1, <1>2, <1>3, <2>1, <2>2
<1>6. CASE r < q + 1
  <2>1. RingSize * r <= RingSize * q
    BY <1>1, <1>2, <1>6
  <2> QED
    BY <1>1, <1>2, <1>3, <2>1
<1>7. CASE r = q + 1
  <2>1. y = z
    BY <1>1, <1>2, <1>3, <1>4, <1>7
  <2> QED
    BY <1>1, <2>1 DEF At, y, z
<1> QED
  BY <1>1, <1>2, <1>5, <1>6, <1>7

LEMMA LeastTwo ==
  ASSUME NEW a \in Nat, NEW b \in Nat
  PROVE  Least({a, b}) \in Nat /\ Least({a, b}) = IF a <= b THEN a ELSE b
<1>1. \E m \in {a, b} : \A n \in {a, b} : m <= n
  OBVIOUS
<1>2. Least({a, b}) \in {a, b} /\ \A n \in {a, b} : Least({a, b}) <= n
  BY <1>1 DEF Least
<1> QED
  BY <1>2

-----------------------------------------------------------------------------
(* What the invariant says of one state. *)

LEMMA Sizes ==
  ASSUME Inv
  PROVE  /\ head \in Nat /\ tail \in Nat /\ tail <= head
         /\ Base \in Nat /\ Base <= tail /\ total \in Nat /\ chunk \in Nat /\ count \in Nat
         /\ chunk <= count
         /\ total > 0 => ChunkSize \in Nat /\ ChunkSize > 0 /\ total <= count * ChunkSize
<1>1. head \in Nat /\ tail \in Nat /\ tail <= head /\ Base \in Nat /\ Base <= tail
  BY DEF Inv, TypeOK, RingInv
<1>2. total \in Nat /\ count \in Nat /\ chunk \in Nat /\ chunk <= count
  BY DEF Inv, TypeOK
<1>3. total > 0 => count >= 2
  BY <1>2 DEF Inv, LoopInv
<1>4. ASSUME total > 0 PROVE ChunkSize \in Nat /\ ChunkSize > 0 /\ total <= count * ChunkSize
  BY <1>2, <1>3, <1>4, CeilCovers DEF ChunkSize
<1> QED
  BY <1>1, <1>2, <1>4

(* The task that covers an index is the one at its home. *)
LEMMA HomeCovers ==
  ASSUME Inv, NEW i \in 0 .. total - 1
  PROVE  /\ Home(i) \in Nat /\ Base <= Home(i)
         /\ \A p \in Nat : Base <= p => (Covers(TaskAt(p), i) <=> p = Home(i))
<1>1. /\ i \in Nat /\ i < total /\ total \in Nat /\ Base \in Nat
      /\ ChunkSize \in Nat /\ ChunkSize > 0
  BY Sizes
<1>2. i \div ChunkSize \in Nat
  BY <1>1, DivCut
<1>3. ASSUME NEW p \in Nat, Base <= p PROVE Covers(TaskAt(p), i) <=> p = Home(i)
  <2> DEFINE c == p - Base
             n == ChunkSize
             lo == c * n
  <2>1. c \in Nat /\ n \in Nat /\ n > 0 /\ lo \in Nat
    BY <1>1, <1>3
  <2>2. Covers(TaskAt(p), i) <=> lo <= i /\ i < Least({lo + n, total})
    BY DEF Covers, TaskAt
  <2>3. lo <= i /\ i < lo + n <=> c = i \div n
    BY <1>1, <2>1, DivCut
  <2>4. i < Least({lo + n, total}) <=> i < lo + n
    <3> HIDE DEF lo, n
    <3>1. lo + n \in Nat
      BY <2>1
    <3>2. Least({lo + n, total}) = IF lo + n <= total THEN lo + n ELSE total
      BY <1>1, <3>1, LeastTwo
    <3> QED
      BY <1>1, <3>1, <3>2
  <2>5. Covers(TaskAt(p), i) <=> c = i \div n
    BY <2>2, <2>3, <2>4
  <2> QED
    BY <1>1, <1>2, <1>3, <2>5 DEF Home
<1> QED
  BY <1>1, <1>2, <1>3 DEF Home

(* An index has been handed to the pool when its home is below head. *)
LEMMA HandedHome ==
  ASSUME Inv, NEW i \in 0 .. total - 1
  PROVE  Handed(i) <=> Home(i) < head
<1>1. /\ i \in Nat /\ i < total /\ total \in Nat /\ Base \in Nat /\ chunk \in Nat
      /\ ChunkSize \in Nat /\ ChunkSize > 0 /\ head \in Nat
  BY Sizes
<1> DEFINE n == ChunkSize
           q == i \div ChunkSize
<1>2. q \in Nat /\ (q < chunk <=> i < chunk * n) /\ (q < chunk + 1 <=> i < (chunk + 1) * n)
  BY <1>1, DivCut, DivBelow
<1>3. (chunk + 1) * n = chunk * n + n /\ chunk * n \in Nat /\ n \in Nat /\ n > 0
  BY <1>1
<1>4. Lo = chunk * n /\ Home(i) = Base + q
  BY DEF Lo, Home
<1>5. i < Hi <=> i < chunk * n + n
  <2>1. chunk * n + n \in Nat
    BY <1>3
  <2>2. Hi = IF chunk * n + n <= total THEN chunk * n + n ELSE total
    BY <1>1, <1>4, <2>1, LeastTwo DEF Hi
  <2> HIDE DEF n
  <2> QED
    BY <1>1, <2>1, <2>2
<1> HIDE DEF n, q
<1>6. CASE owner \in {"epoch", "notify"}
  <2>1. Base + chunk + 1 = head
    BY <1>1, <1>6 DEF Base
  <2>2. Handed(i) <=> i < chunk * n + n
    BY <1>1, <1>3, <1>4, <1>5, <1>6 DEF Handed
  <2> QED
    BY <1>1, <1>2, <1>3, <1>4, <2>1, <2>2
<1>7. CASE owner \notin {"epoch", "notify"}
  <2>1. Base + chunk = head
    BY <1>1, <1>7 DEF Base
  <2>2. Handed(i) <=> i < chunk * n
    BY <1>4, <1>7 DEF Handed
  <2> QED
    BY <1>1, <1>2, <1>4, <2>1, <2>2
<1> QED
  BY <1>6, <1>7

(* Positions that are in the ring or with a worker have slots of their own,  *)
(* and a slot that is free for head is none of theirs.                       *)
LEMMA HeldApart ==
  ASSUME Inv, NEW w \in Holding
  PROVE  /\ pos[w] \in Nat
         /\ \A p \in tail .. head - 1 : At(p) # At(pos[w])
         /\ \A v \in Holding : v # w => At(pos[v]) # At(pos[w])
<1>1. pos \in [Worker -> Nat] /\ head \in Nat /\ tail \in Nat /\ Holding \subseteq Worker
  BY DEF Inv, TypeOK, Holding
<1>2. \A v \in Holding : pos[v] \in Nat /\ pos[v] < tail /\ sequence[At(pos[v])] = pos[v] + 1
  BY <1>1 DEF Inv, RingInv, HeldAt
<1>3. ASSUME NEW p \in tail .. head - 1, At(p) = At(pos[w]) PROVE FALSE
  <2>1. sequence[At(p)] = p + 1
    BY DEF Inv, RingInv, QueuedAt
  <2> QED
    BY <1>1, <1>2, <1>3, <2>1
<1>4. ASSUME NEW v \in Holding, v # w, At(pos[v]) = At(pos[w]) PROVE FALSE
  <2>1. pos[v] = pos[w]
    BY <1>2, <1>4
  <2> QED
    BY <1>4, <2>1 DEF Inv, RingInv
<1> QED
  BY <1>1, <1>2, <1>3, <1>4

LEMMA FreeApart ==
  ASSUME RingSize > 1, Inv, sequence[At(head)] = head
  PROVE  /\ head - tail < RingSize
         /\ \A p \in tail .. head - 1 : At(p) # At(head)
         /\ \A w \in Holding : At(pos[w]) # At(head)
<1>1. pos \in [Worker -> Nat] /\ head \in Nat /\ tail \in Nat /\ Holding \subseteq Worker
  BY DEF Inv, TypeOK, Holding
<1>2. ASSUME NEW p \in Nat, sequence[At(p)] = p + 1, At(p) = At(head) PROVE FALSE
  <2>1. head = p + 1
    BY <1>2
  <2> QED
    BY <1>2, <2>1, AtNext
<1>3. \A p \in tail .. head - 1 : At(p) # At(head)
  BY <1>1, <1>2 DEF Inv, RingInv, QueuedAt
<1>4. \A w \in Holding : At(pos[w]) # At(head)
  BY <1>1, <1>2 DEF Inv, RingInv, HeldAt
<1>5. ASSUME head - tail >= RingSize PROVE FALSE
  <2>1. RingSize \in Nat /\ RingSize > 0
    BY PoolAssumption
  <2> DEFINE p == head - RingSize
  <2>2. p \in Nat /\ p \in tail .. head - 1 /\ head = p + RingSize
    BY <1>1, <1>5, <2>1
  <2> HIDE DEF p
  <2>3. At(p) = At(head)
    BY <2>1, <2>2, AtRound
  <2> QED
    BY <1>3, <2>2, <2>3
<1> QED
  BY <1>1, <1>3, <1>4, <1>5, PoolAssumption

-----------------------------------------------------------------------------
(* What the steps leave alone. *)

LEMMA CallStays ==
  ASSUME Base' = Base, UNCHANGED <<call, total, count>>
  PROVE  /\ ChunkSize' = ChunkSize
         /\ \A p : TaskAt(p)' = TaskAt(p)
         /\ \A i : Home(i)' = Home(i)
<1>1. ChunkSize' = ChunkSize
  BY DEF ChunkSize
<1> QED
  BY <1>1 DEF TaskAt, Home

(* A step that leaves the ring and what the workers hold of it alone. *)
LEMMA RingStays ==
  ASSUME Inv, UNCHANGED <<head, tail, sequence, slots>>, Base' = Base,
         UNCHANGED <<call, total, count>>, Holding' = Holding,
         \A w \in Holding : pos'[w] = pos[w] /\ Held(w)' = Held(w)
  PROVE  RingInv' /\ \A s \in Slot : SlotInv(s)'
<1>1. \A p : TaskAt(p)' = TaskAt(p)
  BY CallStays
<1>2. ASSUME NEW p \in tail .. head - 1 PROVE QueuedAt(p)'
  BY <1>1 DEF Inv, RingInv, QueuedAt
<1>3. ASSUME NEW w \in Holding PROVE HeldAt(w)'
  <2>1. HeldAt(w)
    BY DEF Inv, RingInv
  <2> QED
    BY <1>1, <2>1 DEF HeldAt
<1>4. ASSUME NEW s \in Slot PROVE SlotInv(s)'
  BY DEF Inv, SlotsInv, SlotInv
<1>5. \A w, v \in Holding' : pos'[w] = pos'[v] => w = v
  BY DEF Inv, RingInv
<1>6. Base' \in Nat /\ Base' <= tail'
  BY DEF Inv, RingInv
<1> QED
  BY <1>2, <1>3, <1>4, <1>5, <1>6 DEF RingInv

(* The same, for the indexes that have been run. *)
LEMMA RanStays ==
  ASSUME Inv, UNCHANGED <<tail, total, ran>>, Base' = Base,
         UNCHANGED <<call, total, count>>, Holding' = Holding,
         \A w \in Holding : pos'[w] = pos[w]
  PROVE  \A i \in 0 .. total' - 1 : ran'[i] = IF Done(i)' THEN 1 ELSE 0
<1>1. \A i : Home(i)' = Home(i)
  BY CallStays
<1>2. ASSUME NEW i \in 0 .. total - 1 PROVE Done(i)' <=> Done(i)
  BY <1>1 DEF Done
<1> QED
  BY <1>2 DEF Inv, LoopInv

(* A worker's step that neither takes a position nor gives one back. *)
LEMMA WorkerQuiet ==
  ASSUME Inv, UNCHANGED <<ring, pending, owner, loop, ran>>,
         Holding' = Holding, Busy' = Busy,
         \A w \in Holding : pos'[w] = pos[w] /\ Held(w)' = Held(w),
         \A w \in Worker : pc'[w] = "pop_claim" => pos'[w] < head
  PROVE  RingInv' /\ SlotsInv' /\ PendingInv' /\ LoopInv'
<1>1. /\ UNCHANGED <<head, tail, sequence, slots>> /\ UNCHANGED <<call, total, count, chunk>>
      /\ Base' = Base
  BY DEF ring, loop, Base
<1>2. RingInv' /\ \A s \in Slot : SlotInv(s)'
  BY <1>1, RingStays
<1>3. ChunkSize' = ChunkSize /\ (\A p : TaskAt(p)' = TaskAt(p)) /\ (\A i : Home(i)' = Home(i))
  BY <1>1, CallStays
<1>4. SlotsInv'
  BY <1>1, <1>2, <1>3 DEF Inv, SlotsInv
<1>5. PendingInv'
  BY <1>1 DEF Inv, PendingInv
<1>6. \A i \in 0 .. total' - 1 : ran'[i] = IF Done(i)' THEN 1 ELSE 0
  BY <1>1, RanStays
<1>7. LoopInv'
  BY <1>1, <1>3, <1>6 DEF Inv, LoopInv, MoreChunks, Lo
<1> QED
  BY <1>2, <1>4, <1>5, <1>7

(* A step of the owner that only moves it, and perhaps wakes a sleeper. *)
LEMMA OwnerQuiet ==
  ASSUME Inv, UNCHANGED <<head, tail, sequence, slots, pending, call, total, count, ran>>,
         UNCHANGED <<pos, task>>, Base' = Base, owner # "publish", owner' # "publish",
         \A w \in Worker : pc'[w] = pc[w] \/ (pc[w] = "asleep" /\ pc'[w] = "wait")
  PROVE  RingInv' /\ SlotsInv' /\ PendingInv'
         /\ \A i \in 0 .. total' - 1 : ran'[i] = IF Done(i)' THEN 1 ELSE 0
<1>1. Holding' = Holding /\ Busy' = Busy
  BY DEF Holding, Busy
<1>2. \A w \in Holding : pos'[w] = pos[w] /\ Held(w)' = Held(w)
  <2>1. \A w \in Holding : pc'[w] = pc[w]
    BY DEF Holding
  <2> QED
    BY <2>1 DEF Held
<1>3. RingInv' /\ \A s \in Slot : SlotInv(s)'
  BY <1>1, <1>2, RingStays
<1>4. SlotsInv'
  BY <1>3 DEF Inv, SlotsInv
<1>5. PendingInv'
  BY <1>1 DEF Inv, PendingInv
<1>6. \A i \in 0 .. total' - 1 : ran'[i] = IF Done(i)' THEN 1 ELSE 0
  BY <1>1, <1>2, RanStays
<1> QED
  BY <1>3, <1>4, <1>5, <1>6

-----------------------------------------------------------------------------
(* Types. *)

LEMMA TotalBounded ==
  MaxTotal \in Nat /\ \A f \in Loops \cup Bursts : f.total \in 0 .. MaxTotal
<1>1. \A f \in Loops \cup Bursts : f.total \in Nat
  BY PoolAssumption
<1>2. Totals \subseteq Nat /\ \E n \in Totals : \A t \in Totals : t <= n
  BY <1>1, PoolAssumption DEF Totals
<1>3. MaxTotal \in Totals /\ \A t \in Totals : t <= MaxTotal
  BY <1>2, Zenon DEF MaxTotal
<1>4. ASSUME NEW f \in Loops \cup Bursts PROVE f.total <= MaxTotal
  BY <1>3 DEF Totals
<1> QED
  BY <1>1, <1>2, <1>3, <1>4

LEMMA CountPositive ==
  ASSUME NEW f \in Loops
  PROVE  TaskCount(f.total, f.task_count) \in Nat
<1> DEFINE S == {Cardinality(Worker), f.task_count, f.total}
<1>1. Cardinality(Worker) \in Nat /\ f.task_count \in Nat /\ f.total \in Nat
  BY PoolAssumption, FS_CardinalityType
<1>2. \E m \in S : \A n \in S : m <= n
  BY <1>1
<1>3. Least(S) \in S
  BY <1>2 DEF Least
<1> QED
  BY <1>1, <1>3 DEF TaskCount

States == {"pop", "pop_test", "pop_claim", "pop_read", "run", "done",
           "empty", "load_epoch", "wait", "asleep", "exit"}

(* The part of the type that a worker's step changes. *)
LEMMA WorkerTyped ==
  ASSUME TypeOK, NEW w \in Worker, WorkerStep(w)
  PROVE  /\ pc' \in [Worker -> States]
         /\ pos' \in [Worker -> Nat]
         /\ observed' \in [Worker -> Nat] /\ spins' \in [Worker -> 0 .. IdleSpin + 1]
         /\ UNCHANGED <<head, slots, work_epoch, stop, owner, loop>>
<1>1. /\ pc \in [Worker -> States] /\ pos \in [Worker -> Nat]
      /\ observed \in [Worker -> Nat] /\ spins \in [Worker -> 0 .. IdleSpin + 1]
      /\ tail \in Nat /\ work_epoch \in Nat
  BY DEF TypeOK, States
<1>2. CASE PopLoad(w)
  BY <1>1, <1>2 DEF PopLoad, Goto, States, ring, pool
<1>3. CASE PopTest(w)
  BY <1>1, <1>3 DEF PopTest, Goto, States, ring, pool
<1>4. CASE PopClaim(w)
  BY <1>1, <1>4 DEF PopClaim, Goto, States, pool
<1>5. CASE PopRead(w)
  BY <1>1, <1>5 DEF PopRead, Goto, States, ring, pool
<1>6. CASE RunTask(w)
  BY <1>1, <1>6 DEF RunTask, Goto, States, pool
<1>7. CASE Finish(w)
  BY <1>1, <1>7, PoolAssumption DEF Finish, Goto, States, ring
<1>8. CASE Empty(w)
  <2>1. CASE UNCHANGED spins
    BY <1>1, <1>8, <2>1 DEF Empty, Goto, States, ring, pool
  <2>2. CASE spins' # spins
    <3>1. spins' = [spins EXCEPT ![w] = spins[w] + 1] /\ ~(spins[w] > IdleSpin)
      BY <1>8, <2>2 DEF Empty, Second
    <3>2. spins[w] + 1 \in 0 .. IdleSpin + 1
      BY <1>1, <3>1, PoolAssumption
    <3>3. spins' \in [Worker -> 0 .. IdleSpin + 1]
      BY <1>1, <3>1, <3>2
    <3> QED
      BY <1>1, <1>8, <2>2, <3>3 DEF Empty, Goto, States, ring, pool
  <2> QED
    BY <2>1, <2>2
<1>9. CASE LoadEpoch(w)
  BY <1>1, <1>9 DEF LoadEpoch, Goto, States, ring, pool
<1>10. CASE EpochWait(w)
  BY <1>1, <1>10, PoolAssumption DEF EpochWait, Goto, States, ring, pool
<1> QED
  BY <1>2, <1>3, <1>4, <1>5, <1>6, <1>7, <1>8, <1>9, <1>10 DEF WorkerStep

(* Together with what the step does to the ring. *)
LEMMA WorkerTypes ==
  ASSUME TypeOK, NEW w \in Worker, WorkerStep(w),
         tail' \in 0 .. head, sequence' \in [Slot -> Nat], pending' \in Nat,
         task' \in [Worker -> Tasks], ran' \in [0 .. MaxTotal - 1 -> Nat]
  PROVE  TypeOK'
<1>1. /\ pc' \in [Worker -> States] /\ pos' \in [Worker -> Nat]
      /\ observed' \in [Worker -> Nat] /\ spins' \in [Worker -> 0 .. IdleSpin + 1]
      /\ UNCHANGED <<head, slots, work_epoch, stop, owner, loop>>
  BY WorkerTyped
<1> QED
  BY <1>1, Zenon DEF TypeOK, States, loop, Tasks

-----------------------------------------------------------------------------
(* worker_loop(). *)

BusyAt == {"pop_read", "run", "done"}

(* A worker that goes from one place outside a task to another. *)
LEMMA IdleMove ==
  ASSUME Inv, NEW w \in Worker, WorkerStep(w), pc[w] \notin BusyAt, pc'[w] \notin BusyAt,
         UNCHANGED <<ring, pending, task, ran>>,
         \A v \in Worker \ {w} : pc'[v] = pc[v] /\ pos'[v] = pos[v],
         pc'[w] = "pop_claim" => pos'[w] < head
  PROVE  Inv'
<1>1. Holding' = Holding /\ Busy' = Busy /\ w \notin Holding
  BY DEF Holding, Busy, BusyAt
<1>2. \A v \in Holding : v \in Worker \ {w}
  BY <1>1 DEF Holding
<1>3. \A v \in Holding : pos'[v] = pos[v] /\ Held(v)' = Held(v)
  BY <1>2 DEF Held, ring
<1>4. \A v \in Worker : pc'[v] = "pop_claim" => pos'[v] < head
  BY DEF Inv, SlotsInv
<1>5. /\ tail' \in 0 .. head /\ sequence' \in [Slot -> Nat] /\ pending' \in Nat
      /\ task' \in [Worker -> Tasks] /\ ran' \in [0 .. MaxTotal - 1 -> Nat] /\ TypeOK
  BY DEF Inv, TypeOK, ring
<1>6. TypeOK'
  BY <1>5, WorkerTypes
<1>7. UNCHANGED <<owner, loop>>
  BY <1>5, WorkerTyped
<1> QED
  BY <1>1, <1>3, <1>4, <1>6, <1>7, WorkerQuiet DEF Inv

LEMMA LoadKeeps == ASSUME Inv, NEW w \in Worker, PopLoad(w) PROVE Inv'
<1>1. pc \in [Worker -> States] /\ pos \in [Worker -> Nat]
  BY DEF Inv, TypeOK, States
<1>2. pc[w] = "pop" /\ pc'[w] = "pop_test"
  BY <1>1 DEF PopLoad, Goto
<1>3. \A v \in Worker \ {w} : pc'[v] = pc[v] /\ pos'[v] = pos[v]
  BY <1>1 DEF PopLoad, Goto
<1>4. UNCHANGED <<ring, pending, task, ran>>
  BY DEF PopLoad, pool
<1> QED
  BY <1>2, <1>3, <1>4, IdleMove DEF WorkerStep, BusyAt

(* A slot whose sequence is a position's next one has that position published. *)
LEMMA PublishedBelow ==
  ASSUME RingSize > 1, Inv, NEW p \in Nat, sequence[At(p)] = p + 1
  PROVE  p < head
<1>1. At(p) \in Slot /\ At(p + 1) # At(p) /\ head \in Nat
  BY AtSlot, AtNext, PoolAssumption DEF Inv, TypeOK
<1>2. SlotInv(At(p))
  BY <1>1 DEF Inv, SlotsInv
<1>3. PICK q \in 0 .. head - 1 : At(q) = At(p) /\ sequence[At(p)] = q + 1
  BY <1>1, <1>2, Zenon DEF SlotInv
<1> QED
  BY <1>1, <1>3

LEMMA TestKeeps == ASSUME RingSize > 1, Inv, NEW w \in Worker, PopTest(w) PROVE Inv'
<1>1. pc \in [Worker -> States] /\ pos \in [Worker -> Nat]
  BY DEF Inv, TypeOK, States
<1>2. /\ pc[w] = "pop_test" /\ pos' = pos
      /\ pc'[w] = IF sequence[At(pos[w])] = pos[w] + 1 THEN "pop_claim" ELSE "empty"
  BY <1>1 DEF PopTest, Goto
<1>3. \A v \in Worker \ {w} : pc'[v] = pc[v] /\ pos'[v] = pos[v]
  BY <1>1 DEF PopTest, Goto
<1>4. UNCHANGED <<ring, pending, task, ran>>
  BY DEF PopTest, pool
<1>5. pc'[w] = "pop_claim" => pos'[w] < head
  BY <1>1, <1>2, PublishedBelow
<1>6. pc[w] \notin BusyAt /\ pc'[w] \notin BusyAt
  BY <1>2 DEF BusyAt
<1> QED
  BY <1>3, <1>4, <1>5, <1>6, IdleMove DEF WorkerStep

LEMMA LostKeeps == ASSUME Inv, NEW w \in Worker, PopClaim(w), ~Unclaimed(w) PROVE Inv'
<1>1. pc \in [Worker -> States] /\ pos \in [Worker -> Nat]
  BY DEF Inv, TypeOK, States
<1>2. pc[w] = "pop_claim" /\ pc'[w] = "pop_test"
  BY <1>1 DEF PopClaim, Goto
<1>3. \A v \in Worker \ {w} : pc'[v] = pc[v] /\ pos'[v] = pos[v]
  BY <1>1 DEF PopClaim, Goto
<1>4. UNCHANGED <<ring, pending, task, ran>>
  BY DEF PopClaim, pool, ring
<1> QED
  BY <1>2, <1>3, <1>4, IdleMove DEF WorkerStep, BusyAt

LEMMA IdleKeeps ==
  ASSUME Inv, NEW w \in Worker, Empty(w) \/ LoadEpoch(w) \/ EpochWait(w)
  PROVE  Inv'
<1>1. pc \in [Worker -> States]
  BY Zenon DEF Inv, TypeOK, States
<1>2. /\ pc[w] \in {"empty", "load_epoch", "wait"}
      /\ pc'[w] \in {"exit", "wait", "pop", "load_epoch", "asleep"}
      /\ \A v \in Worker \ {w} : pc'[v] = pc[v] /\ pos'[v] = pos[v]
      /\ UNCHANGED <<ring, pending, task, ran>>
  <2>1. CASE Empty(w)
    BY <1>1, <2>1 DEF Empty, Goto, pool
  <2>2. CASE LoadEpoch(w)
    BY <1>1, <2>2 DEF LoadEpoch, Goto, pool
  <2>3. CASE EpochWait(w)
    BY <1>1, <2>3 DEF EpochWait, Goto, pool
  <2> QED
    BY <2>1, <2>2, <2>3
<1>3. pc[w] \notin BusyAt /\ pc'[w] \notin BusyAt /\ pc'[w] # "pop_claim"
  BY <1>2 DEF BusyAt
<1> QED
  BY <1>2, <1>3, IdleMove DEF WorkerStep

(* Reading a claimed slot: what the worker holds is the same task. *)
LEMMA ReadKeeps == ASSUME RingSize > 1, Inv, NEW w \in Worker, PopRead(w) PROVE Inv'
<1>1. pc \in [Worker -> States] /\ task \in [Worker -> Tasks] /\ TypeOK
  BY DEF Inv, TypeOK, States
<1>2. /\ pc[w] = "pop_read" /\ pc'[w] = "run" /\ \A v \in Worker \ {w} : pc'[v] = pc[v]
      /\ task'[w] = slots[At(pos[w])] /\ \A v \in Worker \ {w} : task'[v] = task[v]
  BY <1>1 DEF PopRead, Goto
<1>3. UNCHANGED <<ring, pending, owner, loop, pos, ran>>
  BY DEF PopRead, pool
<1>4. Holding' = Holding /\ Busy' = Busy
  BY <1>2 DEF Holding, Busy
<1>5. ASSUME NEW v \in Holding PROVE pos'[v] = pos[v] /\ Held(v)' = Held(v)
  <2>1. CASE v = w
    BY <1>2, <1>3, <2>1, Zenon DEF Held
  <2>2. CASE v # w
    BY <1>2, <1>3, <2>2 DEF Held, Holding, ring
  <2> QED
    BY <2>1, <2>2, Zenon
<1>6. \A v \in Worker : pc'[v] = "pop_claim" => pos'[v] < head
  BY <1>2, <1>3, Zenon DEF Inv, SlotsInv
<1>7. TypeOK'
  <2>1. pos[w] \in Nat /\ RingSize > 0 /\ slots \in [Slot -> Tasks]
    BY <1>1, PoolAssumption DEF TypeOK
  <2>2. slots[At(pos[w])] \in Tasks
    BY <2>1, AtSlot
  <2>3. task' \in [Worker -> Tasks]
    BY <1>1, <2>2 DEF PopRead
  <2>4. /\ tail' \in 0 .. head /\ sequence' \in [Slot -> Nat] /\ pending' \in Nat
        /\ ran' \in [0 .. MaxTotal - 1 -> Nat]
    BY <1>1, <1>3 DEF TypeOK, ring
  <2> QED
    BY <1>1, <2>3, <2>4, WorkerTypes, Zenon DEF WorkerStep
<1> QED
  BY <1>3, <1>4, <1>5, <1>6, <1>7, WorkerQuiet DEF Inv

LEMMA BusyFinite == IsFiniteSet(Busy) /\ Cardinality(Busy) \in Nat
<1>1. IsFiniteSet(Worker) /\ Busy \subseteq Worker
  BY PoolAssumption DEF Busy
<1>2. IsFiniteSet(Busy)
  BY <1>1, FS_Subset
<1> QED
  BY <1>2, FS_CardinalityType

(* A worker that wins the compare-exchange holds the oldest task. *)
LEMMA ClaimKeeps == ASSUME Inv, NEW w \in Worker, PopClaim(w), Unclaimed(w) PROVE Inv'
<1>1. pc \in [Worker -> States] /\ pos \in [Worker -> Nat] /\ TypeOK
  BY DEF Inv, TypeOK, States
<1>2. /\ pc[w] = "pop_claim" /\ pc'[w] = "pop_read" /\ pos[w] = tail
      /\ tail' = tail + 1 /\ \A v \in Worker \ {w} : pc'[v] = pc[v]
  BY <1>1 DEF PopClaim, Goto, Unclaimed
<1>3. UNCHANGED <<head, sequence, slots, pending, owner, loop, pos, task, ran>>
  BY DEF PopClaim, Unclaimed, pool
<1>4. head \in Nat /\ tail \in Nat /\ tail < head /\ Base \in Nat /\ Base <= tail
  BY <1>1, <1>2, Sizes DEF Inv, SlotsInv
<1>5. Base' = Base /\ UNCHANGED <<call, total, count, chunk>>
  BY <1>3 DEF Base, loop
<1>6. ChunkSize' = ChunkSize /\ (\A p : TaskAt(p)' = TaskAt(p)) /\ (\A i : Home(i)' = Home(i))
  BY <1>5, CallStays
<1>7. /\ Holding' = Holding \cup {w} /\ w \notin Holding
      /\ Busy' = Busy \cup {w} /\ w \notin Busy
  BY <1>2 DEF Holding, Busy
<1>8. TypeOK'
  <2>1. /\ tail' \in 0 .. head /\ sequence' \in [Slot -> Nat] /\ pending' \in Nat
        /\ task' \in [Worker -> Tasks] /\ ran' \in [0 .. MaxTotal - 1 -> Nat]
    BY <1>1, <1>2, <1>3, <1>4 DEF TypeOK
  <2> QED
    BY <1>1, <2>1, WorkerTypes DEF WorkerStep
<1>9. RingInv'
  <2>1. ASSUME NEW p \in tail' .. head' - 1 PROVE QueuedAt(p)'
    <3>1. p \in tail .. head - 1
      BY <1>2, <1>3, <1>4
    <3> QED
      BY <1>3, <1>6, <3>1 DEF Inv, RingInv, QueuedAt
  <2>2. HeldAt(w)'
    <3>1. QueuedAt(tail)
      BY <1>4 DEF Inv, RingInv
    <3>2. Held(w)' = slots[At(tail)]
      BY <1>2, <1>3, Zenon DEF Held
    <3> QED
      BY <1>2, <1>3, <1>4, <1>5, <1>6, <3>1, <3>2 DEF HeldAt, QueuedAt
  <2>3. ASSUME NEW v \in Holding PROVE HeldAt(v)'
    <3>1. HeldAt(v) /\ v \in Worker \ {w}
      BY <1>7 DEF Inv, RingInv, Holding
    <3>2. Held(v)' = Held(v)
      BY <1>2, <1>3, <3>1 DEF Held
    <3>3. pos[v] \in Nat
      BY <1>1, <3>1
    <3> QED
      BY <1>2, <1>3, <1>4, <1>5, <1>6, <3>1, <3>2, <3>3 DEF HeldAt
  <2>4. \A v \in Holding : pos[v] # pos[w]
    BY <1>1, <1>2, <1>4 DEF Inv, RingInv, HeldAt, Holding
  <2>5. \A u, v \in Holding' : pos'[u] = pos'[v] => u = v
    BY <1>3, <1>7, <2>4, Zenon DEF Inv, RingInv
  <2> QED
    BY <1>2, <1>4, <1>5, <1>7, <2>1, <2>2, <2>3, <2>5 DEF RingInv
<1>10. SlotsInv'
  BY <1>2, <1>3, <1>6, Zenon DEF Inv, SlotsInv, SlotInv
<1>11. PendingInv'
  <2>1. Cardinality(Busy') = Cardinality(Busy) + 1
    BY <1>7, BusyFinite, FS_AddElement, Zenon
  <2> QED
    BY <1>2, <1>3, <1>4, <2>1, BusyFinite DEF Inv, PendingInv
<1>12. LoopInv'
  <2>1. ASSUME NEW i \in 0 .. total - 1 PROVE Done(i)' <=> Done(i)
    <3>1. Home(i) \in Nat
      BY HomeCovers
    <3>2. Done(i)' <=> /\ Home(i) < tail + 1 /\ tail # Home(i)
                       /\ \A v \in Holding : pos[v] # Home(i)
      BY <1>2, <1>3, <1>6, <1>7, Zenon DEF Done
    <3>3. Home(i) < tail + 1 /\ tail # Home(i) <=> Home(i) < tail
      BY <1>4, <3>1
    <3> QED
      BY <3>2, <3>3 DEF Done
  <2> QED
    BY <1>3, <1>5, <1>6, <2>1 DEF Inv, LoopInv, MoreChunks, Lo
<1> QED
  BY <1>8, <1>9, <1>10, <1>11, <1>12 DEF Inv

(* Running a task frees its slot and counts its indexes. *)
LEMMA RunKeeps == ASSUME RingSize > 1, Inv, NEW w \in Worker, RunTask(w) PROVE Inv'
<1>1. /\ pc \in [Worker -> States] /\ pos \in [Worker -> Nat] /\ TypeOK
      /\ ran \in [0 .. MaxTotal - 1 -> Nat] /\ sequence \in [Slot -> Nat]
  BY DEF Inv, TypeOK, States
<1>2. /\ pc[w] = "run" /\ pc'[w] = "done" /\ \A v \in Worker \ {w} : pc'[v] = pc[v]
  BY <1>1 DEF RunTask, Goto
<1>3. UNCHANGED <<head, tail, slots, pending, owner, loop, pos, task>>
  BY Zenon DEF RunTask, pool
<1>4. /\ Holding' = Holding \ {w} /\ w \in Holding /\ Busy' = Busy
  BY <1>2, Zenon DEF Holding, Busy
<1>5. Base' = Base /\ UNCHANGED <<call, total, count, chunk>>
  BY <1>3 DEF Base, loop
<1>6. ChunkSize' = ChunkSize /\ (\A p : TaskAt(p)' = TaskAt(p)) /\ (\A i : Home(i)' = Home(i))
  BY <1>5, CallStays
<1>7. /\ pos[w] \in Nat /\ At(pos[w]) \in Slot /\ pos[w] + RingSize \in Nat
      /\ At(pos[w] + RingSize) = At(pos[w])
  <2>1. pos[w] \in Nat
    BY <1>1
  <2>2. RingSize > 0
    BY PoolAssumption
  <2> QED
    BY <2>1, <2>2, AtSlot, AtRound
<1>8. /\ sequence' \in [Slot -> Nat] /\ sequence'[At(pos[w])] = pos[w] + RingSize
      /\ \A s \in Slot : s # At(pos[w]) => sequence'[s] = sequence[s]
  BY <1>1, <1>7 DEF RunTask
<1>9. head \in Nat /\ tail \in Nat /\ tail <= head /\ total \in Nat
  BY Sizes, Zenon
<1>10. HeldAt(w) /\ Held(w) = task[w]
  BY <1>2, <1>4, Zenon DEF Inv, RingInv, Held
<1>11. ran' \in [0 .. MaxTotal - 1 -> Nat]
  BY <1>1 DEF RunTask
<1>12. TypeOK'
  <2>1. tail' \in 0 .. head /\ pending' \in Nat /\ task' \in [Worker -> Tasks]
    BY <1>1, <1>3 DEF TypeOK
  <2> QED
    BY <1>1, <1>8, <1>11, <2>1, WorkerTypes, Zenon DEF WorkerStep
<1>13. RingInv'
  <2>1. ASSUME NEW p \in tail' .. head' - 1 PROVE QueuedAt(p)'
    <3>1. p \in tail .. head - 1 /\ p \in Nat
      BY <1>3, <1>9
    <3>2. At(p) # At(pos[w]) /\ At(p) \in Slot
      BY <1>4, <3>1, HeldApart, AtSlot, PoolAssumption
    <3> QED
      BY <1>3, <1>6, <1>8, <3>1, <3>2 DEF Inv, RingInv, QueuedAt
  <2>2. ASSUME NEW v \in Holding' PROVE HeldAt(v)'
    <3>1. v \in Holding /\ v # w /\ v \in Worker
      BY <1>4 DEF Holding
    <3>2. At(pos[v]) # At(pos[w]) /\ pos[v] \in Nat
      BY <1>4, <3>1, HeldApart
    <3>3. sequence'[At(pos[v])] = sequence[At(pos[v])]
      BY <1>8, <3>2, AtSlot, PoolAssumption
    <3>4. Held(v)' = Held(v)
      BY <1>2, <1>3, <3>1 DEF Held
    <3>5. HeldAt(v)
      BY <3>1 DEF Inv, RingInv
    <3> QED
      BY <1>3, <1>5, <1>6, <3>3, <3>4, <3>5 DEF HeldAt
  <2>3. \A u, v \in Holding' : pos'[u] = pos'[v] => u = v
    BY <1>3, <1>4 DEF Inv, RingInv
  <2> QED
    BY <1>3, <1>5, <2>1, <2>2, <2>3 DEF Inv, RingInv
<1>14. SlotsInv'
  <2>1. ASSUME NEW s \in Slot PROVE SlotInv(s)'
    <3>1. CASE s = At(pos[w])
      BY <1>7, <1>8, <3>1 DEF SlotInv, At
    <3>2. CASE s # At(pos[w])
      <4>1. SlotInv(s) /\ sequence'[s] = sequence[s]
        BY <1>8, <3>2 DEF Inv, SlotsInv
      <4> QED
        BY <1>3, <4>1 DEF SlotInv, At
    <3> QED
      BY <3>1, <3>2
  <2>2. ASSUME owner = "publish"
        PROVE  sequence'[At(head)] = head /\ slots[At(head)] = TaskAt(head)
    <3>1. sequence[At(head)] = head /\ slots[At(head)] = TaskAt(head)
      BY <2>2 DEF Inv, SlotsInv
    <3>2. At(pos[w]) # At(head) /\ At(head) \in Slot
      BY <1>4, <1>9, <3>1, FreeApart, AtSlot, PoolAssumption
    <3> QED
      BY <1>8, <3>1, <3>2
  <2>3. \A v \in Worker : pc'[v] = "pop_claim" => pos'[v] < head'
    BY <1>2, <1>3 DEF Inv, SlotsInv
  <2> QED
    BY <1>3, <1>6, <2>1, <2>2, <2>3 DEF SlotsInv, At
<1>15. PendingInv'
  BY <1>3, <1>4 DEF Inv, PendingInv
<1>16. LoopInv'
  <2>1. ASSUME NEW i \in 0 .. total - 1 PROVE ran'[i] = IF Done(i)' THEN 1 ELSE 0
    <3>1. Home(i) \in Nat /\ (Covers(task[w], i) <=> pos[w] = Home(i))
      BY <1>7, <1>10, HomeCovers, Zenon DEF HeldAt
    <3>2. i \in DOMAIN ran /\ ran[i] \in Nat /\ ran[i] = IF Done(i) THEN 1 ELSE 0
      <4>1. i \in 0 .. MaxTotal - 1
        BY <1>1, TotalBounded DEF TypeOK
      <4> QED
        BY <1>1, <4>1 DEF Inv, LoopInv
    <3>3. ran'[i] = IF Covers(task[w], i) THEN ran[i] + 1 ELSE ran[i]
      BY <3>2, Zenon DEF RunTask
    <3>4. CASE pos[w] = Home(i)
      <4>1. ~Done(i)
        BY <1>4, <3>4 DEF Done
      <4>2. Done(i)'
        <5>1. Home(i) < tail
          BY <1>10, <3>4 DEF HeldAt
        <5>2. \A v \in Holding' : pos[v] # Home(i)
          BY <1>4, <3>4, Zenon DEF Inv, RingInv
        <5> QED
          BY <1>3, <1>6, <5>1, <5>2 DEF Done
      <4> QED
        BY <3>1, <3>2, <3>3, <3>4, <4>1, <4>2
    <3>5. CASE pos[w] # Home(i)
      <4>1. Done(i)' <=> Done(i)
        BY <1>3, <1>4, <1>6, <3>5 DEF Done
      <4> QED
        BY <3>1, <3>2, <3>3, <3>5, <4>1
    <3> QED
      BY <3>4, <3>5, Zenon
  <2> QED
    BY <1>3, <1>5, <1>6, <2>1 DEF Inv, LoopInv, MoreChunks, Lo
<1> QED
  BY <1>12, <1>13, <1>14, <1>15, <1>16 DEF Inv

(* pending_ is lowered by a worker that is counted in it. *)
LEMMA FinishKeeps == ASSUME Inv, NEW w \in Worker, Finish(w) PROVE Inv'
<1>1. pc \in [Worker -> States] /\ TypeOK /\ task \in [Worker -> Tasks]
  BY DEF Inv, TypeOK, States
<1>2. /\ pc[w] = "done" /\ pc'[w] = "pop" /\ pending' = pending - 1
      /\ \A v \in Worker \ {w} : pc'[v] = pc[v] /\ task'[v] = task[v]
  BY <1>1 DEF Finish, Goto
<1>3. UNCHANGED <<ring, owner, loop, pos, ran>>
  BY DEF Finish
<1>4. Holding' = Holding /\ w \notin Holding /\ Busy' = Busy \ {w} /\ w \in Busy
  BY <1>2 DEF Holding, Busy
<1>5. Cardinality(Busy') = Cardinality(Busy) - 1 /\ Cardinality(Busy) > 0
  <2>1. Cardinality(Busy') = Cardinality(Busy) - 1
    BY <1>4, BusyFinite, FS_RemoveElement, Zenon
  <2>2. Cardinality(Busy') \in Nat
    BY <1>4, BusyFinite, FS_Subset, FS_CardinalityType
  <2> QED
    BY <2>1, <2>2, BusyFinite
<1>6. /\ UNCHANGED <<head, tail, sequence, slots, call, total, count, chunk>> /\ Base' = Base
  BY <1>3 DEF ring, loop, Base
<1>7. head \in Nat /\ tail \in Nat /\ tail <= head /\ pending \in Nat
  BY <1>1, Sizes DEF TypeOK
<1>8. pending > 0
  BY <1>5, <1>7, BusyFinite DEF Inv, PendingInv
<1>9. TypeOK'
  <2>1. NoTask \in Tasks
    BY TotalBounded, PoolAssumption DEF NoTask, Tasks
  <2>2. task' \in [Worker -> Tasks]
    BY <1>1, <2>1, Zenon DEF Finish
  <2>3. /\ tail' \in 0 .. head /\ sequence' \in [Slot -> Nat] /\ pending' \in Nat
        /\ ran' \in [0 .. MaxTotal - 1 -> Nat]
    BY <1>1, <1>2, <1>3, <1>6, <1>7, <1>8 DEF TypeOK
  <2> QED
    BY <1>1, <2>2, <2>3, WorkerTypes, Zenon DEF WorkerStep
<1>10. ASSUME NEW v \in Holding PROVE pos'[v] = pos[v] /\ Held(v)' = Held(v)
  BY <1>2, <1>4, <1>6, <1>3, Zenon DEF Held, Holding
<1>11. RingInv' /\ \A s \in Slot : SlotInv(s)'
  BY <1>4, <1>6, <1>10, RingStays, Zenon
<1>12. ChunkSize' = ChunkSize /\ (\A p : TaskAt(p)' = TaskAt(p)) /\ (\A i : Home(i)' = Home(i))
  BY <1>6, CallStays, Zenon
<1>13. SlotsInv'
  BY <1>2, <1>3, <1>6, <1>11, <1>12, Zenon DEF Inv, SlotsInv
<1>14. PendingInv'
  <2> DEFINE e == IF owner = "publish" THEN 1 ELSE 0
  <2>1. pending = head - tail + Cardinality(Busy) + e
    BY DEF Inv, PendingInv
  <2>2. e \in Nat /\ e' = e
    BY <1>3
  <2>3. PendingInv' <=> pending' = head' - tail' + Cardinality(Busy') + e'
    BY DEF PendingInv
  <2> HIDE DEF e
  <2> QED
    BY <1>2, <1>5, <1>6, <1>7, <2>1, <2>2, <2>3, BusyFinite
<1>15. \A i \in 0 .. total' - 1 : ran'[i] = IF Done(i)' THEN 1 ELSE 0
  BY <1>3, <1>4, <1>6, <1>10, RanStays, Zenon
<1>16. LoopInv'
  BY <1>3, <1>6, <1>8, <1>12, <1>15 DEF Inv, LoopInv, MoreChunks, Lo
<1> QED
  BY <1>9, <1>11, <1>13, <1>14, <1>16, Zenon DEF Inv

-----------------------------------------------------------------------------
(* The owner. *)

(* A call begins in an empty pool. *)
LEMMA BeginKeeps ==
  ASSUME Inv, NEW f \in Loops \cup Bursts, count' \in Nat, count' >= 2,
         owner = "idle", owner' = "chunk", call < MaxCalls, call' = call + 1,
         total' = f.total, chunk' = 0, ran' = [i \in DOMAIN ran |-> 0],
         UNCHANGED <<ring, pool, workers>>
  PROVE  Inv'
<1>1. TypeOK /\ MaxCalls \in Nat /\ f.total \in 0 .. MaxTotal /\ MaxTotal \in Nat
  BY PoolAssumption, TotalBounded DEF Inv
<1>2. UNCHANGED <<head, tail, sequence, slots, pending, work_epoch, stop, pc, pos, task, observed,
                  spins>>
  BY Zenon DEF ring, pool, workers
<1>3. TypeOK'
  <2>1. call' \in 0 .. MaxCalls /\ total' \in 0 .. MaxTotal /\ chunk' \in 0 .. count'
    BY <1>1 DEF TypeOK
  <2>2. ran' \in [0 .. MaxTotal - 1 -> Nat]
    BY <1>1 DEF TypeOK
  <2> QED
    BY <1>1, <1>2, <2>1, <2>2 DEF TypeOK, Tasks
<1>4. pending = 0 /\ head \in Nat /\ tail \in Nat /\ tail <= head
  BY Sizes DEF Inv, LoopInv, Looping
<1>5. head = tail /\ Cardinality(Busy) = 0
  BY <1>4, BusyFinite DEF Inv, PendingInv
<1>6. Busy = {}
  BY <1>5, BusyFinite, FS_EmptySet
<1>7. Holding' = {} /\ Busy' = Busy
  BY <1>2, <1>6 DEF Holding, Busy
<1>8. Base' = head
  BY <1>2, <1>4 DEF Base
<1>9. RingInv'
  BY <1>2, <1>4, <1>5, <1>7, <1>8 DEF RingInv
<1>10. SlotsInv'
  BY <1>2 DEF Inv, SlotsInv, SlotInv
<1>11. PendingInv'
  BY <1>2, <1>7 DEF Inv, PendingInv
<1>12. ASSUME NEW i \in 0 .. total' - 1 PROVE ran'[i] = 0 /\ ~Done(i)'
  <2>1. total' \in Nat /\ i \in Nat /\ total' > 0
    BY <1>1
  <2>2. i \in 0 .. MaxTotal - 1
    BY <1>1
  <2>3. DOMAIN ran = 0 .. MaxTotal - 1
    BY <1>1 DEF TypeOK
  <2>4. ChunkSize' \in Nat /\ ChunkSize' > 0
    BY <2>1, CeilCovers DEF ChunkSize
  <2>5. i \div ChunkSize' \in Nat
    BY <2>1, <2>4, DivCut, Zenon
  <2>6. Home(i)' >= head
    BY <1>4, <1>8, <2>5 DEF Home
  <2>7. Home(i)' \in Nat
    BY <1>4, <1>8, <2>5 DEF Home
  <2> QED
    BY <1>2, <1>4, <1>5, <2>2, <2>3, <2>6, <2>7 DEF Done
<1>13. LoopInv'
  BY <1>12 DEF LoopInv, Looping
<1> QED
  BY <1>3, <1>9, <1>10, <1>11, <1>13 DEF Inv

LEMMA ForKeeps == ASSUME Inv, NEW f \in Loops, ParallelFor(f) PROVE Inv'
<1>1. count' \in Nat /\ count' >= 2
  BY CountPositive DEF ParallelFor
<1> QED
  BY <1>1, BeginKeeps DEF ParallelFor

LEMMA BurstKeeps == ASSUME Inv, NEW f \in Bursts, Burst(f) PROVE Inv'
<1>1. count' \in Nat /\ count' >= 2
  BY PoolAssumption DEF Burst
<1> QED
  BY <1>1, BeginKeeps DEF Burst

(* enqueue() fills a slot that nobody reads. *)
LEMMA EnqueueKeeps == ASSUME RingSize > 1, Inv, Enqueue PROVE Inv'
<1>1. TypeOK /\ head \in Nat /\ tail \in Nat /\ tail <= head /\ At(head) \in Slot
  <2>1. RingSize > 0
    BY PoolAssumption
  <2> QED
    BY <2>1, Sizes, AtSlot DEF Inv
<1>2. /\ owner = "chunk" /\ owner' = "publish" /\ MoreChunks /\ sequence[At(head)] = head
      /\ pending' = pending + 1 /\ slots' = [slots EXCEPT ![At(head)] = ThisTask]
      /\ UNCHANGED <<head, tail, sequence, work_epoch, stop, loop, workers, ran>>
  BY DEF Enqueue, SlotFree
<1>3. /\ UNCHANGED <<call, total, count, chunk, pc, pos, task, observed, spins>>
      /\ Base' = Base /\ Base = head - chunk /\ Base \in Nat
  BY <1>2, Sizes DEF loop, workers, Base
<1>4. ChunkSize' = ChunkSize /\ (\A p : TaskAt(p)' = TaskAt(p)) /\ (\A i : Home(i)' = Home(i))
  BY <1>3, CallStays
<1>5. Holding' = Holding /\ Busy' = Busy
  BY <1>3 DEF Holding, Busy
<1>6. /\ chunk \in Nat /\ total \in Nat /\ Lo < total /\ ChunkSize \in Nat /\ total <= MaxTotal
  <2>1. Lo < total /\ total \in Nat /\ chunk \in Nat /\ count \in Nat /\ chunk < count
    BY <1>2, Sizes DEF MoreChunks
  <2>2. count > 0
    BY <2>1
  <2>3. ChunkSize \in Nat
    BY <2>1, <2>2, CeilCovers DEF ChunkSize
  <2> QED
    BY <1>1, <2>1, <2>3, TotalBounded DEF TypeOK
<1>7. Lo \in Nat /\ Hi \in Nat /\ Hi <= total
  <2>1. Lo \in Nat
    BY <1>6 DEF Lo
  <2>2. Lo + ChunkSize \in Nat
    BY <1>6, <2>1
  <2>3. Hi \in Nat /\ Hi = IF Lo + ChunkSize <= total THEN Lo + ChunkSize ELSE total
    BY <1>6, <2>2, LeastTwo DEF Hi
  <2> QED
    BY <1>6, <2>1, <2>2, <2>3
<1>8. ThisTask \in Tasks
  BY <1>1, <1>6, <1>7, TotalBounded DEF TypeOK, ThisTask, Tasks
<1>9. ThisTask = TaskAt(head)
  <2>1. head - Base = chunk
    BY <1>1, <1>3, <1>6
  <2> QED
    BY <2>1 DEF ThisTask, TaskAt, Lo, Hi
<1>10. /\ slots' \in [Slot -> Tasks] /\ slots'[At(head)] = TaskAt(head)
       /\ \A s \in Slot : s # At(head) => slots'[s] = slots[s]
  BY <1>1, <1>2, <1>8, <1>9, Zenon DEF TypeOK
<1>11. TypeOK'
  BY <1>1, <1>2, <1>3, <1>10 DEF TypeOK, Tasks
<1>12. RingInv'
  <2>1. ASSUME NEW p \in tail .. head - 1 PROVE QueuedAt(p)'
    <3>1. At(p) # At(head) /\ At(p) \in Slot
      <4>1. p \in Nat /\ RingSize > 0
        BY <1>1, PoolAssumption
      <4> QED
        BY <1>2, <4>1, FreeApart, AtSlot
    <3>2. QueuedAt(p)
      BY DEF Inv, RingInv
    <3> QED
      BY <1>2, <1>4, <1>10, <3>1, <3>2 DEF QueuedAt
  <2>2. ASSUME NEW w \in Holding PROVE HeldAt(w)'
    <3>1. HeldAt(w) /\ pos[w] \in Nat
      BY HeldApart DEF Inv, RingInv
    <3>2. At(pos[w]) # At(head) /\ At(pos[w]) \in Slot
      <4>1. RingSize > 0
        BY PoolAssumption
      <4> QED
        BY <1>2, <3>1, <4>1, FreeApart, AtSlot
    <3>3. Held(w)' = Held(w)
      BY <1>3, <1>10, <3>2, Zenon DEF Held
    <3> QED
      BY <1>2, <1>3, <1>4, <3>1, <3>3 DEF HeldAt
  <2> QED
    BY <1>2, <1>3, <1>5, <2>1, <2>2 DEF Inv, RingInv
<1>13. SlotsInv'
  BY <1>2, <1>3, <1>4, <1>10 DEF Inv, SlotsInv, SlotInv
<1>14. PendingInv'
  <2>1. pending = head - tail + Cardinality(Busy) /\ Cardinality(Busy) \in Nat
    BY <1>1, <1>2, BusyFinite DEF Inv, PendingInv
  <2> QED
    BY <1>1, <1>2, <1>5, <2>1 DEF PendingInv
<1>15. \A i \in 0 .. total' - 1 : ran'[i] = IF Done(i)' THEN 1 ELSE 0
  BY <1>2, <1>3, <1>5, RanStays, Zenon
<1>16. LoopInv'
  BY <1>2, <1>3, <1>4, <1>15 DEF Inv, LoopInv, MoreChunks, Lo, Looping
<1> QED
  BY <1>11, <1>12, <1>13, <1>14, <1>16 DEF Inv

LEMMA PublishKeeps == ASSUME RingSize > 1, Inv, Publish PROVE Inv'
<1>1. /\ TypeOK /\ head \in Nat /\ tail \in Nat /\ tail <= head /\ At(head) \in Slot
      /\ chunk \in Nat /\ Base \in Nat
  <2>1. RingSize > 0
    BY PoolAssumption
  <2> QED
    BY <2>1, Sizes, AtSlot, Zenon DEF Inv
<1>2. /\ owner = "publish" /\ owner' = "epoch" /\ head' = head + 1
      /\ sequence' = [sequence EXCEPT ![At(head)] = head + 1]
      /\ UNCHANGED <<tail, slots, pending, work_epoch, stop, call, total, count, chunk, pc, pos,
                     task, observed, spins, ran>>
  BY DEF Publish, pool, loop, workers
<1>3. Base' = Base
  BY <1>1, <1>2 DEF Base
<1>4. ChunkSize' = ChunkSize /\ (\A p : TaskAt(p)' = TaskAt(p)) /\ (\A i : Home(i)' = Home(i))
  BY <1>2, <1>3, CallStays, Zenon
<1>5. Holding' = Holding /\ Busy' = Busy /\ \A w : Held(w)' = Held(w)
  BY <1>2 DEF Holding, Busy, Held
<1>6. sequence[At(head)] = head /\ slots[At(head)] = TaskAt(head)
  BY <1>2 DEF Inv, SlotsInv
<1>7. /\ sequence' \in [Slot -> Nat] /\ sequence'[At(head)] = head + 1
      /\ \A s \in Slot : s # At(head) => sequence'[s] = sequence[s]
  BY <1>1, <1>2 DEF TypeOK
<1>8. TypeOK'
  BY <1>1, <1>2, <1>7 DEF TypeOK, Tasks
<1>9. RingInv'
  <2>1. ASSUME NEW p \in tail .. head PROVE QueuedAt(p)'
    <3>1. CASE p = head
      BY <1>2, <1>4, <1>6, <1>7, <3>1, Zenon DEF QueuedAt
    <3>2. CASE p # head
      <4>1. p \in tail .. head - 1 /\ p \in Nat /\ RingSize > 0
        BY <1>1, <3>2, PoolAssumption
      <4>2. At(p) # At(head) /\ At(p) \in Slot
        BY <1>6, <4>1, FreeApart, AtSlot
      <4>3. QueuedAt(p)
        BY <4>1 DEF Inv, RingInv
      <4> QED
        BY <1>2, <1>4, <1>7, <4>2, <4>3 DEF QueuedAt
    <3> QED
      BY <3>1, <3>2, Zenon
  <2>2. ASSUME NEW w \in Holding PROVE HeldAt(w)'
    <3>1. HeldAt(w) /\ pos[w] \in Nat
      BY HeldApart DEF Inv, RingInv
    <3>2. At(pos[w]) # At(head) /\ At(pos[w]) \in Slot
      <4>1. RingSize > 0
        BY PoolAssumption
      <4> QED
        BY <1>6, <3>1, <4>1, FreeApart, AtSlot
    <3> QED
      BY <1>2, <1>3, <1>4, <1>5, <1>7, <3>1, <3>2, Zenon DEF HeldAt
  <2>3. tail' .. head' - 1 = tail .. head
    BY <1>1, <1>2
  <2> QED
    BY <1>2, <1>3, <1>5, <2>1, <2>2, <2>3, Zenon DEF Inv, RingInv
<1>10. SlotsInv'
  <2>1. ASSUME NEW s \in Slot PROVE SlotInv(s)'
    <3>1. CASE s = At(head)
      <4>1. head \in 0 .. head' - 1
        BY <1>1, <1>2
      <4>2. At(head) = s /\ sequence'[s] = head + 1
        BY <1>7, <3>1
      <4> QED
        BY <4>1, <4>2 DEF SlotInv, At
    <3>2. CASE s # At(head)
      <4>1. SlotInv(s) /\ sequence'[s] = sequence[s]
        BY <1>7, <3>2, Zenon DEF Inv, SlotsInv
      <4>2. \A q \in 0 .. head - 1 : q \in 0 .. head' - 1
        BY <1>1, <1>2
      <4> QED
        BY <4>1, <4>2, Zenon DEF SlotInv, At
    <3> QED
      BY <3>1, <3>2
  <2>2. ASSUME NEW w \in Worker, pc'[w] = "pop_claim" PROVE pos'[w] < head'
    <3>1. pos[w] < head /\ pos[w] \in Nat
      BY <1>1, <1>2, <2>2 DEF Inv, SlotsInv, TypeOK
    <3> QED
      BY <1>1, <1>2, <3>1
  <2> QED
    BY <1>2, <2>1, <2>2, Zenon DEF SlotsInv
<1>11. PendingInv'
  <2>1. pending = head - tail + Cardinality(Busy) + 1 /\ Cardinality(Busy) \in Nat
    BY <1>2, BusyFinite DEF Inv, PendingInv
  <2> QED
    BY <1>1, <1>2, <1>5, <2>1 DEF PendingInv
<1>12. \A i \in 0 .. total' - 1 : ran'[i] = IF Done(i)' THEN 1 ELSE 0
  BY <1>2, <1>3, <1>5, RanStays, Zenon
<1>13. LoopInv'
  BY <1>2, <1>4, <1>12 DEF Inv, LoopInv, MoreChunks, Lo, Looping
<1> QED
  BY <1>8, <1>9, <1>10, <1>11, <1>13 DEF Inv

(* The owner's other steps leave the ring alone. *)
LEMMA EpochKeeps == ASSUME Inv, AdvanceEpoch PROVE Inv'
<1>1. /\ owner = "epoch" /\ owner' = "notify" /\ work_epoch' = work_epoch + 1
      /\ UNCHANGED <<head, tail, sequence, slots, pending, stop, call, total, count, chunk, pc,
                     pos, task, observed, spins, ran>>
  BY DEF AdvanceEpoch, ring, loop, workers
<1>2. Base' = Base
  BY <1>1 DEF Base
<1>3. /\ RingInv' /\ SlotsInv' /\ PendingInv'
      /\ \A i \in 0 .. total' - 1 : ran'[i] = IF Done(i)' THEN 1 ELSE 0
  BY <1>1, <1>2, OwnerQuiet, Zenon
<1>4. TypeOK'
  BY <1>1 DEF Inv, TypeOK, Tasks
<1>5. LoopInv'
  BY <1>1, <1>3 DEF Inv, LoopInv, MoreChunks, Lo, Looping, ChunkSize
<1> QED
  BY <1>3, <1>4, <1>5 DEF Inv

(* A notification moves sleeping workers only. *)
LEMMA WakeMoves ==
  ASSUME TypeOK, NEW W \in SUBSET Asleep, Wake(W)
  PROVE  /\ \A w \in Worker : pc'[w] = pc[w] \/ (pc[w] = "asleep" /\ pc'[w] = "wait")
         /\ pc' \in [Worker -> {"pop", "pop_test", "pop_claim", "pop_read", "run", "done",
                                "empty", "load_epoch", "wait", "asleep", "exit"}]
BY DEF TypeOK, Wake, Asleep

LEMMA NotifyKeeps == ASSUME Inv, NotifyOne PROVE Inv'
<1>1. /\ owner = "notify" /\ owner' = "chunk" /\ chunk' = chunk + 1
      /\ UNCHANGED <<head, tail, sequence, slots, pending, work_epoch, stop, call, total, count,
                     pos, task, observed, spins, ran>>
  BY DEF NotifyOne, ring, pool
<1>2. /\ \A w \in Worker : pc'[w] = pc[w] \/ (pc[w] = "asleep" /\ pc'[w] = "wait")
      /\ pc' \in [Worker -> {"pop", "pop_test", "pop_claim", "pop_read", "run", "done",
                             "empty", "load_epoch", "wait", "asleep", "exit"}]
  <2>1. CASE UNCHANGED pc
    BY <2>1 DEF Inv, TypeOK
  <2>2. CASE \E w \in Asleep : Wake({w})
    BY <2>2, WakeMoves, Zenon DEF Inv
  <2> QED
    BY <2>1, <2>2, Zenon DEF NotifyOne
<1>3. chunk \in Nat /\ count \in Nat /\ head \in Nat /\ chunk < count
  BY <1>1, Sizes DEF Inv, LoopInv, MoreChunks
<1>4. Base' = Base
  BY <1>1, <1>3 DEF Base
<1>5. /\ RingInv' /\ SlotsInv' /\ PendingInv'
      /\ \A i \in 0 .. total' - 1 : ran'[i] = IF Done(i)' THEN 1 ELSE 0
  BY <1>1, <1>2, <1>4, OwnerQuiet, Zenon
<1>6. TypeOK'
  BY <1>1, <1>2, <1>3 DEF Inv, TypeOK, Tasks
<1>7. LoopInv'
  BY <1>1, <1>5 DEF Inv, LoopInv, Looping
<1> QED
  BY <1>5, <1>6, <1>7 DEF Inv

(* wait() returns: every chunk has been pushed and has come back. *)
LEMMA WaitKeeps == ASSUME Inv, Wait PROVE Inv'
<1>1. /\ owner = "chunk" /\ owner' = "idle" /\ ~MoreChunks /\ pending = 0
      /\ UNCHANGED <<head, tail, sequence, slots, pending, work_epoch, stop, call, total, count,
                     chunk, pc, pos, task, observed, spins, ran>>
  BY DEF Wait, NonePending, ring, pool, loop, workers
<1>2. Base' = Base
  BY <1>1 DEF Base
<1>3. /\ RingInv' /\ SlotsInv' /\ PendingInv'
      /\ \A i \in 0 .. total' - 1 : ran'[i] = IF Done(i)' THEN 1 ELSE 0
  BY <1>1, <1>2, OwnerQuiet, Zenon
<1>4. TypeOK'
  BY <1>1 DEF Inv, TypeOK, Tasks
<1>5. ASSUME NEW i \in 0 .. total - 1 PROVE Home(i) < head
  <2>1. /\ i \in Nat /\ i < total /\ total \in Nat /\ chunk \in Nat /\ count \in Nat
        /\ ChunkSize \in Nat /\ ChunkSize > 0 /\ total <= count * ChunkSize /\ chunk <= count
    BY Sizes
  <2>2. chunk * ChunkSize \in Nat
    BY <2>1
  <2>3. total <= chunk * ChunkSize
    <3>1. CASE chunk = count
      BY <2>1, <3>1
    <3>2. CASE chunk < count
      BY <1>1, <2>1, <2>2, <3>2 DEF MoreChunks, Lo
    <3> QED
      BY <2>1, <3>1, <3>2
  <2>4. i < Lo
    BY <2>1, <2>2, <2>3 DEF Lo
  <2> QED
    BY <2>4, HandedHome DEF Handed
<1>6. \A i : Home(i)' = Home(i)
  BY <1>1, <1>2, CallStays, Zenon
<1>7. LoopInv'
  BY <1>1, <1>3, <1>5, <1>6 DEF Inv, LoopInv, Looping
<1> QED
  BY <1>3, <1>4, <1>7 DEF Inv

(* The destructor. *)
Leaving == {"idle", "stop_epoch", "stop_notify", "join", "joined"}

LEMMA LeaveKeeps ==
  ASSUME Inv, owner \in Leaving, owner' \in Leaving,
         UNCHANGED <<ring, pending, call, total, count, chunk, pos, task, observed, spins, ran>>,
         work_epoch' \in Nat, stop' \in BOOLEAN,
         \/ UNCHANGED pc
         \/ Wake(Asleep)
  PROVE  Inv'
<1>1. UNCHANGED <<head, tail, sequence, slots>>
  BY DEF ring
<1>2. /\ \A w \in Worker : pc'[w] = pc[w] \/ (pc[w] = "asleep" /\ pc'[w] = "wait")
      /\ pc' \in [Worker -> {"pop", "pop_test", "pop_claim", "pop_read", "run", "done",
                             "empty", "load_epoch", "wait", "asleep", "exit"}]
  <2>1. CASE UNCHANGED pc
    BY <2>1 DEF Inv, TypeOK
  <2>2. CASE Wake(Asleep)
    BY <2>2, WakeMoves DEF Inv
  <2> QED
    BY <2>1, <2>2, Zenon
<1>3. Base' = Base
  BY <1>1, Zenon DEF Base, Leaving
<1>4. /\ RingInv' /\ SlotsInv' /\ PendingInv'
      /\ \A i \in 0 .. total' - 1 : ran'[i] = IF Done(i)' THEN 1 ELSE 0
  BY <1>1, <1>2, <1>3, OwnerQuiet, Zenon DEF Leaving
<1>5. TypeOK'
  BY <1>1, <1>2 DEF Inv, TypeOK, Tasks, Leaving
<1>6. \A i : Home(i)' = Home(i)
  BY <1>3, CallStays, Zenon
<1>7. LoopInv'
  BY <1>1, <1>4, <1>6 DEF Inv, LoopInv, Looping, Leaving
<1> QED
  BY <1>4, <1>5, <1>7 DEF Inv

LEMMA StopKeeps == ASSUME Inv, Stop \/ StopEpoch \/ NotifyAll \/ Join PROVE Inv'
<1>1. work_epoch \in Nat /\ stop \in BOOLEAN
  BY DEF Inv, TypeOK
<1>2. CASE Stop
  BY <1>1, <1>2, LeaveKeeps, Zenon DEF Stop, Leaving, loop, workers
<1>3. CASE StopEpoch
  BY <1>1, <1>3, LeaveKeeps DEF StopEpoch, Leaving, loop, workers
<1>4. CASE NotifyAll
  BY <1>1, <1>4, LeaveKeeps, Zenon DEF NotifyAll, Leaving, loop, pool
<1>5. CASE Join
  BY <1>1, <1>5, LeaveKeeps DEF Join, Leaving, loop, pool, workers
<1> QED
  BY <1>2, <1>3, <1>4, <1>5

-----------------------------------------------------------------------------
(* The invariant holds throughout. *)

LEMMA InitHolds == ASSUME RingSize > 1, Init PROVE Inv
<1>1. MaxTotal \in Nat /\ MaxCalls \in Nat /\ IdleSpin \in Nat /\ RingSize \in Nat
  BY PoolAssumption, TotalBounded
<1>2. NoTask \in Tasks
  BY <1>1 DEF NoTask, Tasks
<1>3. TypeOK
  <2>1. /\ 0 \in 0 .. 0 /\ 0 \in 0 .. MaxCalls /\ 0 \in 0 .. MaxTotal
        /\ 0 \in 0 .. IdleSpin + 1 /\ Slot \subseteq Nat
    BY <1>1 DEF Slot
  <2>2. head \in Nat /\ tail \in 0 .. head /\ chunk \in 0 .. count /\ count \in Nat
    BY <2>1 DEF Init
  <2>3. sequence \in [Slot -> Nat] /\ slots \in [Slot -> Tasks]
    BY <1>2, <2>1 DEF Init
  <2>4. call \in 0 .. MaxCalls /\ total \in 0 .. MaxTotal /\ pending \in Nat /\ work_epoch \in Nat
    BY <2>1 DEF Init
  <2>5. pos \in [Worker -> Nat] /\ task \in [Worker -> Tasks] /\ observed \in [Worker -> Nat]
    BY <1>2 DEF Init
  <2>6. spins \in [Worker -> 0 .. IdleSpin + 1] /\ ran \in [0 .. MaxTotal - 1 -> Nat]
    BY <2>1 DEF Init
  <2>7. pc = [w \in Worker |-> "pop"] /\ owner = "idle" /\ stop = FALSE
    BY DEF Init
  <2> QED
    BY <2>2, <2>3, <2>4, <2>5, <2>6, <2>7, Zenon DEF TypeOK
<1>4. Holding = {} /\ Busy = {}
  BY DEF Init, Holding, Busy
<1>5. Base = 0
  <2>1. head = 0 /\ chunk = 0 /\ owner = "idle"
    BY DEF Init
  <2>2. Base = 0 - 0 - 0
    BY <2>1, Zenon DEF Base
  <2> QED
    BY <2>2
<1>6. RingInv
  BY <1>4, <1>5 DEF Init, RingInv
<1>7. ASSUME NEW s \in Slot PROVE SlotInv(s)
  <2>1. s \in Nat /\ s < RingSize
    BY <1>1 DEF Slot
  <2>2. s % RingSize = s
    BY <1>1, <2>1
  <2> QED
    BY <2>2 DEF Init, SlotInv, At
<1>8. SlotsInv
  BY <1>7 DEF Init, SlotsInv
<1>9. PendingInv
  BY <1>4, FS_EmptySet DEF Init, PendingInv
<1>10. LoopInv
  BY DEF Init, LoopInv, Looping
<1> QED
  BY <1>3, <1>6, <1>8, <1>9, <1>10 DEF Inv

LEMMA WorkerKeeps == ASSUME RingSize > 1, Inv, NEW w \in Worker, WorkerStep(w) PROVE Inv'
<1>1. CASE PopClaim(w)
  BY <1>1, ClaimKeeps, LostKeeps
<1>2. CASE Empty(w) \/ LoadEpoch(w) \/ EpochWait(w)
  BY <1>2, IdleKeeps
<1> QED
  BY <1>1, <1>2, LoadKeeps, TestKeeps, ReadKeeps, RunKeeps, FinishKeeps DEF WorkerStep

LEMMA NextKeeps == ASSUME RingSize > 1, Inv, [Next]_vars PROVE Inv'
<1>1. CASE UNCHANGED vars
  <2>1. UNCHANGED <<head, tail, sequence, slots, pending, work_epoch, stop, owner, call, total,
                    count, chunk, pc, pos, task, observed, spins, ran>>
    BY <1>1, Zenon DEF vars, ring, pool, loop, workers
  <2>2. Base' = Base /\ Holding' = Holding /\ Busy' = Busy /\ \A w : Held(w)' = Held(w)
    BY <2>1, Zenon DEF Base, Holding, Busy, Held
  <2>3. RingInv' /\ SlotsInv' /\ PendingInv' /\ LoopInv'
    <3>1. UNCHANGED <<ring, pending, owner, loop, ran>>
      BY <2>1, Zenon DEF ring, loop
    <3>2. \A w \in Worker : pc'[w] = "pop_claim" => pos'[w] < head
      BY <2>1, Zenon DEF Inv, SlotsInv
    <3> QED
      BY <2>1, <2>2, <3>1, <3>2, WorkerQuiet
  <2>4. TypeOK'
    BY <2>1 DEF Inv, TypeOK, Tasks
  <2> QED
    BY <2>3, <2>4 DEF Inv
<1>2. CASE \E f \in Loops : ParallelFor(f)
  BY <1>2, ForKeeps
<1>3. CASE \E f \in Bursts : Burst(f)
  BY <1>3, BurstKeeps
<1>4. CASE Stop \/ InCall
  BY <1>4, EnqueueKeeps, PublishKeeps, EpochKeeps, NotifyKeeps, WaitKeeps, StopKeeps, Zenon DEF InCall
<1>5. CASE \E w \in Worker : WorkerStep(w)
  BY <1>5, WorkerKeeps
<1> QED
  BY <1>1, <1>2, <1>3, <1>4, <1>5 DEF Next

-----------------------------------------------------------------------------
(* What the invariant means. *)

(* The tasks in the ring that cover an index: the one at its home. *)
LEMMA QueuedCovers ==
  ASSUME Inv, NEW i \in 0 .. total - 1
  PROVE  {t \in Queued : Covers(t, i)} =
           IF tail <= Home(i) /\ Home(i) < head THEN {TaskAt(Home(i))} ELSE {}
<1>1. /\ head \in Nat /\ tail \in Nat /\ Base \in Nat /\ Base <= tail /\ Home(i) \in Nat
      /\ Base <= Home(i)
  BY Sizes, HomeCovers
<1>2. ASSUME NEW t \in Queued PROVE \E p \in tail .. head - 1 : t = TaskAt(p)
  <2>1. PICK k \in 0 .. head - tail - 1 : t = slots[At(tail + k)]
    BY DEF Queued
  <2>2. tail + k \in tail .. head - 1
    BY <1>1
  <2> QED
    BY <2>1, <2>2 DEF Inv, RingInv, QueuedAt
<1>3. ASSUME NEW p \in tail .. head - 1 PROVE TaskAt(p) \in Queued
  <2>1. p - tail \in 0 .. head - tail - 1 /\ tail + (p - tail) = p
    BY <1>1
  <2>2. slots[At(p)] = TaskAt(p)
    BY DEF Inv, RingInv, QueuedAt
  <2> QED
    BY <2>1, <2>2 DEF Queued
<1>4. ASSUME NEW t \in Queued, Covers(t, i)
      PROVE  tail <= Home(i) /\ Home(i) < head /\ t = TaskAt(Home(i))
  <2>1. PICK p \in tail .. head - 1 : t = TaskAt(p)
    BY <1>2
  <2>2. p \in Nat /\ Base <= p
    BY <1>1
  <2>3. p = Home(i)
    BY <1>4, <2>1, <2>2, HomeCovers
  <2> QED
    BY <1>1, <2>1, <2>3
<1>5. ASSUME tail <= Home(i), Home(i) < head
      PROVE  TaskAt(Home(i)) \in Queued /\ Covers(TaskAt(Home(i)), i)
  <2>1. Home(i) \in tail .. head - 1
    BY <1>1, <1>5
  <2> QED
    BY <1>1, <1>3, <2>1, HomeCovers
<1> QED
  BY <1>4, <1>5

(* The workers that hold a task covering an index claimed its home. *)
LEMMA HeldCovers ==
  ASSUME Inv, NEW i \in 0 .. total - 1
  PROVE  {w \in Holding : Covers(Held(w), i)} = {w \in Holding : pos[w] = Home(i)}
<1>1. ASSUME NEW w \in Holding PROVE Covers(Held(w), i) <=> pos[w] = Home(i)
  <2>1. HeldAt(w) /\ pos[w] \in Nat
    BY HeldApart DEF Inv, RingInv
  <2> QED
    BY <2>1, HomeCovers DEF HeldAt
<1> QED
  BY <1>1

LEMMA IndexOnce == ASSUME Inv PROVE EachIndexOnce
<1> SUFFICES ASSUME NEW i \in 0 .. total - 1
             PROVE  ran[i] + Cardinality({t \in Queued : Covers(t, i)})
                           + Cardinality({w \in Holding : Covers(Held(w), i)})
                    = IF Handed(i) THEN 1 ELSE 0
  BY DEF EachIndexOnce
<1>1. head \in Nat /\ tail \in Nat /\ tail <= head /\ Home(i) \in Nat
  BY Sizes, HomeCovers
<1>2. ran[i] = IF Done(i) THEN 1 ELSE 0
  BY Zenon DEF Inv, LoopInv
<1>3. \A w \in Holding : pos[w] \in Nat /\ pos[w] < tail
  BY HeldApart DEF Inv, RingInv, HeldAt
<1>4. Handed(i) <=> Home(i) < head
  BY HandedHome
<1> DEFINE Q == {t \in Queued : Covers(t, i)}
           H == {w \in Holding : Covers(Held(w), i)}
<1>5. /\ Q = IF tail <= Home(i) /\ Home(i) < head THEN {TaskAt(Home(i))} ELSE {}
      /\ H = {w \in Holding : pos[w] = Home(i)}
  BY QueuedCovers, HeldCovers
<1>s. SUFFICES ran[i] + Cardinality(Q) + Cardinality(H) = IF Handed(i) THEN 1 ELSE 0
  OBVIOUS
<1> HIDE DEF Q, H
<1>6. Cardinality({}) = 0 /\ \A x : Cardinality({x}) = 1
  BY FS_EmptySet, FS_Singleton, Zenon
<1>7. CASE head <= Home(i)
  <2>1. Q = {} /\ H = {}
    BY <1>1, <1>3, <1>5, <1>7
  <2>2. ~Done(i) /\ ~Handed(i)
    BY <1>1, <1>4, <1>7 DEF Done
  <2>3. ran[i] = 0 /\ Cardinality(Q) = 0 /\ Cardinality(H) = 0
    BY <1>2, <1>6, <2>1, <2>2
  <2> QED
    BY <2>2, <2>3
<1>8. CASE tail <= Home(i) /\ Home(i) < head
  <2>1. Q = {TaskAt(Home(i))} /\ H = {}
    BY <1>1, <1>3, <1>5, <1>8
  <2>2. ~Done(i) /\ Handed(i)
    BY <1>1, <1>4, <1>8 DEF Done
  <2>3. ran[i] = 0 /\ Cardinality(Q) = 1 /\ Cardinality(H) = 0
    BY <1>2, <1>6, <2>1, <2>2, Zenon
  <2> QED
    BY <2>2, <2>3
<1>9. CASE Home(i) < tail
  <2>1. Q = {} /\ Handed(i)
    BY <1>1, <1>4, <1>5, <1>9
  <2>2. CASE \E w \in Holding : pos[w] = Home(i)
    <3>1. PICK w \in Holding : pos[w] = Home(i)
      BY <2>2
    <3>2. H = {w}
      BY <1>5, <3>1 DEF Inv, RingInv
    <3>3. ~Done(i)
      BY <3>1 DEF Done
    <3>4. ran[i] = 0 /\ Cardinality(Q) = 0 /\ Cardinality(H) = 1
      BY <1>2, <1>6, <2>1, <3>2, <3>3, Zenon
    <3> QED
      BY <2>1, <3>4
  <2>3. CASE ~\E w \in Holding : pos[w] = Home(i)
    <3>1. H = {} /\ Done(i)
      BY <1>5, <1>9, <2>3 DEF Done
    <3>2. ran[i] = 1 /\ Cardinality(Q) = 0 /\ Cardinality(H) = 0
      BY <1>2, <1>6, <2>1, <3>1
    <3> QED
      BY <2>1, <3>2
  <2> QED
    BY <2>2, <2>3
<1> QED
  BY <1>1, <1>7, <1>8, <1>9

LEMMA Kept == ASSUME RingSize > 1, Inv PROVE TasksKept
<1>1. FullIsReported
  <2>1. ASSUME owner = "publish" PROVE sequence[At(head)] = head
    BY <2>1 DEF Inv, SlotsInv
  <2> QED
    BY <2>1, FreeApart DEF FullIsReported, Holding
<1> QED
  BY <1>1, IndexOnce DEF Inv, TasksKept

LEMMA Barrier == ASSUME Inv PROVE ReturnIsBarrier
<1> SUFFICES ASSUME owner = "idle"
             PROVE  /\ \A i \in 0 .. total - 1 : ran[i] = 1
                    /\ Holding = {} /\ Queued = {}
  BY DEF ReturnIsBarrier
<1>1. head \in Nat /\ tail \in Nat /\ tail <= head /\ Cardinality(Busy) \in Nat
  BY Sizes, BusyFinite
<1>2. pending = 0 /\ \A i \in 0 .. total - 1 : Home(i) < head
  BY DEF Inv, LoopInv, Looping
<1>3. head = tail /\ Cardinality(Busy) = 0
  BY <1>1, <1>2 DEF Inv, PendingInv
<1>4. Busy = {}
  BY <1>3, BusyFinite, FS_EmptySet
<1>5. Holding = {}
  BY <1>4 DEF Holding, Busy
<1>6. Queued = {}
  <2>1. 0 .. head - tail - 1 = {}
    BY <1>1, <1>3
  <2> QED
    BY <2>1 DEF Queued
<1>7. \A i \in 0 .. total - 1 : Done(i)
  BY <1>2, <1>3, <1>5 DEF Done
<1> QED
  BY <1>5, <1>6, <1>7 DEF Inv, LoopInv

(* enqueue(), try_push and try_pop keep every task: whatever the number of   *)
(* workers and their interleaving, an index handed to the pool is in one     *)
(* slot, with one worker or has been run once, pending_ never drops below    *)
(* zero, and a full ring is reported before a slot in use is written.  The   *)
(* ring has at least two slots; with one, the number that publishes a task   *)
(* would also free its slot.                                                 *)
THEOREM TasksSafe ==
  ASSUME RingSize > 1 PROVE Spec => []TasksKept
<1>1. Init => Inv
  BY InitHolds
<1>2. Inv /\ [Next]_vars => Inv'
  BY NextKeeps
<1>3. Inv => TasksKept
  BY Kept
<1> QED
  BY <1>1, <1>2, <1>3, PTL DEF Spec

(* When parallel_for or wait() has returned, every iteration has been run    *)
(* exactly once and nothing of the call is left with the pool, for every     *)
(* number of workers, calls and chunks.                                      *)
THEOREM BarrierSafe ==
  ASSUME RingSize > 1 PROVE Spec => []ReturnIsBarrier
<1>1. Init => Inv
  BY InitHolds
<1>2. Inv /\ [Next]_vars => Inv'
  BY NextKeeps
<1>3. Inv => ReturnIsBarrier
  BY Barrier
<1> QED
  BY <1>1, <1>2, <1>3, PTL DEF Spec
=============================================================================
