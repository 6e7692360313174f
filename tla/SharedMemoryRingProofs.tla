------------------------ MODULE SharedMemoryRingProofs ------------------------
(***************************************************************************)
(* The shared-memory ring is safe for every capacity, every width of the   *)
(* sequences that is a multiple of it and every number of mappings,        *)
(* messages, crashes and damaged entries, and it implements BoundedFifo.   *)
(*                                                                         *)
(* The theorems assume that open() does not overlap the create() of the    *)
(* same name (EarlyOpen = FALSE). With the overlap the creator resets the  *)
(* sequences under a connected producer, which the RingReady run shows.    *)
(*                                                                         *)
(* The proof is in five parts: arithmetic modulo the capacity and the      *)
(* width; the inductive invariant RingInv; its preservation by the steps   *)
(* that attach and detach a process, and by those of try_push and try_pop; *)
(* and, from the invariant, that every step is a step of the queue or      *)
(* changes none.                                                           *)
(***************************************************************************)
EXTENDS SharedMemoryRing, Integers, TLAPS

USE SMTT(20), ZenonT(20)

(* Sequences.                                                              *)

LEMMA SeqLen ==
  ASSUME NEW S, NEW s \in Seq(S)
  PROVE  Len(s) \in Nat /\ s \in [1..Len(s) -> S] /\ DOMAIN s = 1..Len(s)
OBVIOUS

LEMMA SeqSame ==
  ASSUME NEW S, NEW s \in Seq(S), NEW t \in Seq(S), Len(s) = Len(t),
         \A i \in 1..Len(s) : s[i] = t[i]
  PROVE  s = t
OBVIOUS

LEMMA HeadAndTail ==
  ASSUME NEW S, NEW s \in Seq(S), s # <<>>
  PROVE  /\ Head(s) \in S /\ Tail(s) \in Seq(S) /\ Len(Tail(s)) = Len(s) - 1
         /\ \A i \in 1..Len(Tail(s)) : Tail(s)[i] = s[i + 1]
OBVIOUS

LEMMA Appended ==
  ASSUME NEW S, NEW s \in Seq(S), NEW e \in S
  PROVE  /\ Append(s, e) \in Seq(S) /\ Append(s, e) # <<>> /\ Len(Append(s, e)) = Len(s) + 1
         /\ \A i \in 1..Len(s) : Append(s, e)[i] = s[i]
         /\ Append(s, e)[Len(s) + 1] = e
OBVIOUS

\* Reduction modulo m of a number below 2 * m.
LEMMA ModOnce ==
  ASSUME NEW m \in Nat, m > 0, NEW x \in Nat, x < 2 * m
  PROVE  x % m = IF x < m THEN x ELSE x - m
<1> DEFINE q == x \div m
<1> DEFINE y == x % m
<1>1. y \in 0..(m - 1)
  OBVIOUS
<1>2. y \in Nat /\ y < m /\ q \in Nat /\ x = m * q + y
  BY <1>1
<1> HIDE DEF q, y
<1>3. q = 0 \/ q = 1
  <2>1. SUFFICES ASSUME q >= 2 PROVE FALSE
    BY <1>2
  <2>2. m * q >= m * 2
    BY <2>1, <1>2
  <2> QED
    BY <2>2, <1>2
<1>4. CASE q = 0
  BY <1>4, <1>2 DEF y
<1>5. CASE q = 1
  BY <1>5, <1>2 DEF y
<1> QED
  BY <1>3, <1>4, <1>5

\* Two numbers less than c apart are not equal modulo c, nor are they when one
\* of them has wrapped at a multiple of c.
LEMMA MultipleGap ==
  ASSUME NEW c \in Nat, c > 0, NEW n \in Int, NEW d \in Nat, d = c * n, 0 < d
  PROVE  d >= c
<1>1. CASE n <= 0
  <2>1. c * n <= 0
    BY <1>1
  <2> QED
    BY <2>1
<1>2. CASE n >= 1
  <2>1. c * n >= c * 1
    BY <1>2
  <2> QED
    BY <2>1
<1> QED
  BY <1>1, <1>2

\* Numbers less than c apart, up to a multiple of c, differ modulo c.
LEMMA SameIndexApart ==
  ASSUME NEW c \in Nat, c > 0, NEW a \in Nat, NEW b \in Nat, NEW k \in Nat,
         NEW d \in Nat, a + c * k = b + d, 0 < d, d < c
  PROVE  a % c # b % c
<1> SUFFICES ASSUME a % c = b % c PROVE FALSE
  OBVIOUS
<1> DEFINE p == a \div c
<1> DEFINE q == b \div c
<1> DEFINE y == a % c
<1>1. p \in Nat /\ q \in Nat /\ y \in Nat /\ a = c * p + y /\ b = c * q + y
  OBVIOUS
<1> HIDE DEF p, q, y
<1>2. d = c * p + c * k - c * q
  BY <1>1
<1>3. d = c * (p + k - q)
  BY <1>1, <1>2
<1>4. p + k - q \in Int
  BY <1>1
<1> DEFINE n == p + k - q
<1>5. d = c * n /\ n \in Int
  BY <1>3, <1>4
<1> HIDE DEF n
<1> QED
  BY <1>5, MultipleGap

\* A multiple of c added changes nothing modulo c.
LEMMA ModShift ==
  ASSUME NEW c \in Nat, c > 0, NEW a \in Nat, NEW k \in Nat
  PROVE  a + c * k \in Nat /\ (a + c * k) % c = a % c
<1> DEFINE b == a + c * k
<1>1. c * k \in Nat
  OBVIOUS
<1>2. b \in Nat
  BY <1>1
<1> DEFINE p == a \div c
<1> DEFINE q == b \div c
<1> DEFINE y == a % c
<1> DEFINE z == b % c
<1>3. y \in 0..(c - 1) /\ p \in Nat /\ a = c * p + y
  OBVIOUS
<1> HIDE DEF p, y
<1>4. b = a + c * k
  OBVIOUS
<1> HIDE DEF b
<1>5. z \in 0..(c - 1) /\ q \in Nat /\ b = c * q + z
  BY <1>2
<1> HIDE DEF q, z
<1>6. z - y = c * (p + k - q)
  BY <1>3, <1>4, <1>5
<1>7. y - z = c * (q - p - k)
  BY <1>3, <1>4, <1>5
<1> DEFINE n == p + k - q
<1> DEFINE m == q - p - k
<1>8. n \in Int /\ m \in Int /\ z - y = c * n /\ y - z = c * m
  BY <1>3, <1>5, <1>6, <1>7
<1> HIDE DEF n, m
<1>9. CASE z > y
  <2>1. z - y \in Nat /\ 0 < z - y /\ z - y < c
    BY <1>9, <1>3, <1>5
  <2>2. z - y >= c
    BY <2>1, <1>8, MultipleGap
  <2> QED
    BY <2>1, <2>2, <1>3, <1>5
<1>10. CASE y > z
  <2>1. y - z \in Nat /\ 0 < y - z /\ y - z < c
    BY <1>10, <1>3, <1>5
  <2>2. y - z >= c
    BY <2>1, <1>8, MultipleGap
  <2> QED
    BY <2>1, <2>2, <1>3, <1>5
<1>11. CASE y = z
  BY <1>11, <1>2 DEF y, z, b
<1> QED
  BY <1>3, <1>5, <1>9, <1>10, <1>11

(***************************************************************************)
(* The sequence numbers.                                                   *)
(***************************************************************************)
SequenceNumber == 0..(SequenceMod - 1)
Gap(w, r) == (w + SequenceMod - r) % SequenceMod

\* The distance between two sequences, wrapped or not, is below the width.
LEMMA GapIs ==
  ASSUME NEW w \in SequenceNumber, NEW r \in SequenceNumber
  PROVE  Gap(w, r) = (IF r <= w THEN w - r ELSE w + SequenceMod - r) /\ Gap(w, r) \in SequenceNumber
<1>1. SequenceMod \in Nat /\ SequenceMod > 0
  BY RingAssumption
<1> DEFINE x == w + SequenceMod - r
<1>2. x \in Nat /\ x < 2 * SequenceMod
  BY <1>1 DEF SequenceNumber
<1>3. x % SequenceMod = IF x < SequenceMod THEN x ELSE x - SequenceMod
  BY <1>1, <1>2, ModOnce
<1> QED
  BY <1>1, <1>3 DEF Gap, SequenceNumber

\* The next sequence number wraps to 0 at the width.
LEMMA AdvanceIs ==
  ASSUME NEW s \in SequenceNumber
  PROVE  Advance(s) = (IF s + 1 < SequenceMod THEN s + 1 ELSE 0) /\ Advance(s) \in SequenceNumber
<1>1. SequenceMod \in Nat /\ SequenceMod > 1
  BY RingAssumption
<1> DEFINE x == s + 1
<1>2. x \in Nat /\ x < 2 * SequenceMod /\ x <= SequenceMod
  BY <1>1 DEF SequenceNumber
<1>3. Advance(s) = x % SequenceMod
  BY DEF Advance
<1> HIDE DEF x
<1>4. x % SequenceMod = IF x < SequenceMod THEN x ELSE x - SequenceMod
  BY <1>1, <1>2, ModOnce
<1> DEFINE y == x % SequenceMod
<1>5. y = (IF x < SequenceMod THEN x ELSE x - SequenceMod) /\ Advance(s) = y
  BY <1>3, <1>4
<1> HIDE DEF y
<1>6. y = (IF x < SequenceMod THEN x ELSE 0) /\ y \in SequenceNumber
  BY <1>1, <1>2, <1>5 DEF SequenceNumber
<1> QED
  BY <1>5, <1>6 DEF x

\* A push that is not refused adds one to the distance.
LEMMA GapPush ==
  ASSUME NEW w \in SequenceNumber, NEW r \in SequenceNumber, Gap(w, r) < Capacity
  PROVE  Gap(Advance(w), r) = Gap(w, r) + 1
<1>1. SequenceMod \in Nat /\ Capacity \in Nat /\ Capacity < SequenceMod
  BY RingAssumption
<1> DEFINE v == Advance(w)
<1>2. v \in SequenceNumber /\ v = IF w + 1 < SequenceMod THEN w + 1 ELSE 0
  BY AdvanceIs
<1> HIDE DEF v
<1>3. Gap(w, r) = IF r <= w THEN w - r ELSE w + SequenceMod - r
  BY GapIs
<1>4. Gap(v, r) = IF r <= v THEN v - r ELSE v + SequenceMod - r
  BY <1>2, GapIs
<1>5. Gap(v, r) = Gap(w, r) + 1
  BY <1>1, <1>2, <1>3, <1>4 DEF SequenceNumber
<1> QED
  BY <1>5 DEF v

\* A pop takes one off it.
LEMMA GapPop ==
  ASSUME NEW w \in SequenceNumber, NEW r \in SequenceNumber, Gap(w, r) > 0
  PROVE  Gap(w, Advance(r)) = Gap(w, r) - 1
<1>1. SequenceMod \in Nat /\ SequenceMod > 1
  BY RingAssumption
<1> DEFINE v == Advance(r)
<1>2. v \in SequenceNumber /\ v = IF r + 1 < SequenceMod THEN r + 1 ELSE 0
  BY AdvanceIs
<1> HIDE DEF v
<1>3. Gap(w, r) = IF r <= w THEN w - r ELSE w + SequenceMod - r
  BY GapIs
<1>4. Gap(w, v) = IF v <= w THEN w - v ELSE w + SequenceMod - v
  BY <1>2, GapIs
<1>5. Gap(w, v) = Gap(w, r) - 1
  BY <1>1, <1>2, <1>3, <1>4 DEF SequenceNumber
<1> QED
  BY <1>5 DEF v

\* A slot index is one of the Capacity slots.
LEMMA IndexRange ==
  ASSUME NEW s \in Nat PROVE Index(s) \in 0..(Capacity - 1)
<1>1. Capacity \in Nat /\ Capacity > 0
  BY RingAssumption
<1>2. s % Capacity \in 0..(Capacity - 1)
  BY <1>1
<1> QED
  BY <1>2 DEF Index

\* The width is a whole number of turns around the slots.
LEMMA Turns == \E q \in Nat : SequenceMod = Capacity * q
<1>1. Capacity \in Nat /\ Capacity > 0 /\ SequenceMod \in Nat /\ SequenceMod % Capacity = 0
  BY RingAssumption
<1>2. SequenceMod \div Capacity \in Nat
      /\ SequenceMod = Capacity * (SequenceMod \div Capacity) + (SequenceMod % Capacity)
  BY <1>1
<1> DEFINE q == SequenceMod \div Capacity
<1>3. q \in Nat /\ SequenceMod = Capacity * q + 0
  BY <1>1, <1>2
<1> HIDE DEF q
<1>4. SequenceMod = Capacity * q
  BY <1>1, <1>3
<1> QED
  BY <1>3, <1>4

\* A sequence number and the same one after a wrap have the same slot.
LEMMA IndexWraps ==
  ASSUME NEW s \in Nat PROVE Index(s + SequenceMod) = Index(s)
<1>1. PICK q \in Nat : SequenceMod = Capacity * q
  BY Turns
<1>2. Capacity \in Nat /\ Capacity > 0
  BY RingAssumption
<1> QED
  BY <1>1, <1>2, ModShift, Zenon DEF Index

\* The entries after an advance are at the indices they had before it.
LEMMA IndexNext ==
  ASSUME NEW s \in SequenceNumber, NEW k \in Nat PROVE Index(Advance(s) + k) = Index(s + 1 + k)
<1>1. SequenceMod \in Nat
  BY RingAssumption
<1>2. CASE s + 1 < SequenceMod
  BY <1>2, AdvanceIs
<1>3. CASE s + 1 = SequenceMod
  <2>1. Advance(s) = 0
    BY <1>3, AdvanceIs, <1>1
  <2>2. s + 1 + k = k + SequenceMod /\ 0 + k = k
    BY <1>3, <1>1 DEF SequenceNumber
  <2> QED
    BY <2>1, <2>2, IndexWraps
<1> QED
  BY <1>1, <1>2, <1>3 DEF SequenceNumber

\* The slot behind the last entry is the one try_push fills.
LEMMA IndexEnd ==
  ASSUME NEW w \in SequenceNumber, NEW r \in SequenceNumber PROVE Index(r + Gap(w, r)) = Index(w)
<1>1. SequenceMod \in Nat
  BY RingAssumption
<1>2. CASE r <= w
  <2>1. r + Gap(w, r) = w
    BY <1>1, <1>2, GapIs DEF SequenceNumber
  <2> QED
    BY <2>1
<1>3. CASE ~(r <= w)
  <2>1. r + Gap(w, r) = w + SequenceMod /\ w \in Nat
    BY <1>1, <1>3, GapIs DEF SequenceNumber
  <2> QED
    BY <2>1, IndexWraps
<1> QED
  BY <1>2, <1>3

\* While there is room, that slot holds no entry.
LEMMA IndexApart ==
  ASSUME NEW w \in SequenceNumber, NEW r \in SequenceNumber, Gap(w, r) < Capacity,
         NEW k \in 0..(Gap(w, r) - 1)
  PROVE  Index(r + k) # Index(w)
<1>1. SequenceMod \in Nat /\ Capacity \in Nat /\ Capacity > 0
  BY RingAssumption
<1> DEFINE d == Gap(w, r) - k
<1>2. Gap(w, r) \in Nat /\ k \in Nat /\ r \in Nat /\ w \in Nat
  BY GapIs, <1>1 DEF SequenceNumber
<1>3. d \in Nat /\ 0 < d /\ d < Capacity /\ r + k \in Nat
  BY <1>1, <1>2
<1>4. CASE r <= w
  <2>1. r + Gap(w, r) = w
    BY <1>1, <1>4, GapIs DEF SequenceNumber
  <2>2. w + Capacity * 0 = (r + k) + d
    BY <2>1, <1>1, <1>2
  <2> HIDE DEF d
  <2>3. w % Capacity # (r + k) % Capacity
    BY <2>2, <1>1, <1>2, <1>3, SameIndexApart, Zenon
  <2> QED
    BY <2>3 DEF Index
<1>5. CASE ~(r <= w)
  <2>1. r + Gap(w, r) = w + SequenceMod
    BY <1>1, <1>5, GapIs DEF SequenceNumber
  <2>2. PICK q \in Nat : SequenceMod = Capacity * q
    BY Turns
  <2>3. w + SequenceMod = (r + k) + d
    BY <2>1, <1>1, <1>2
  <2>4. w + Capacity * q = (r + k) + d
    BY <2>2, <2>3
  <2> HIDE DEF d
  <2>5. w % Capacity # (r + k) % Capacity
    BY <2>4, <1>1, <1>2, <1>3, SameIndexApart, Zenon
  <2> QED
    BY <2>5 DEF Index
<1> QED
  BY <1>4, <1>5

(***************************************************************************)
(* The inductive invariant.                                                *)
(***************************************************************************)
Pushing == pc["producer"] \in {"push_head", "push_body", "push_publish"}
Popping == pc["consumer"] \in {"pop_copy", "pop_publish"}
WriteSlot == slots[mapped["producer"]][Index(local["producer"])]
ReadSlot == slots[mapped["consumer"]][Index(local["consumer"])]
Roles ==
  /\ pc["producer"] \notin {"pop_copy", "pop_publish"}
  /\ pc["consumer"] \notin {"push_head", "push_body", "push_publish"}
Mappings ==
  /\ name <= made
  /\ \A p \in Endpoint : IF pc[p] = "out" THEN mapped[p] = None ELSE mapped[p] \in 1..made
Fresh ==
  /\ \A r \in Ring : r > made => write_sequence[r] = 0 /\ read_sequence[r] = 0
  /\ \A p \in Endpoint : Creating(p) =>
       /\ write_sequence[mapped[p]] = 0 /\ read_sequence[mapped[p]] = 0
       /\ \A q \in Endpoint \ {p} : mapped[q] # mapped[p]
PushInv ==
  Pushing =>
    /\ local["producer"] = write_sequence[mapped["producer"]]
    /\ Size(mapped["producer"]) < Capacity
    /\ message["producer"] \in Message
    /\ pc["producer"] # "push_head" => WriteSlot.head = message["producer"]
    /\ pc["producer"] = "push_publish" => WriteSlot.body = message["producer"]
PopInv ==
  Popping =>
    /\ local["consumer"] = read_sequence[mapped["consumer"]]
    /\ Size(mapped["consumer"]) > 0
    /\ pc["consumer"] = "pop_publish" =>
         /\ message["consumer"] \in Message
         /\ Entry(ReadSlot) \in {message["consumer"], Damaged}
Published ==
  \A r \in Ring : \A k \in 0..(Size(r) - 1) :
    slots[r][Index(read_sequence[r] + k)].head \in Message
RingInv == TypeOK /\ Roles /\ Mappings /\ Fresh /\ PushInv /\ PopInv /\ Published

\* What size() computes is the distance of the sequences, at most Capacity.
LEMMA SizeFacts ==
  ASSUME TypeOK, NEW r \in Ring
  PROVE  /\ Size(r) = Gap(write_sequence[r], read_sequence[r])
         /\ write_sequence[r] \in SequenceNumber /\ read_sequence[r] \in SequenceNumber
         /\ Size(r) \in Nat /\ Size(r) <= Capacity
<1>1. write_sequence[r] \in SequenceNumber /\ read_sequence[r] \in SequenceNumber
  BY DEF TypeOK, SequenceNumber
<1>2. Size(r) = Gap(write_sequence[r], read_sequence[r])
  BY DEF Size, Gap
<1>3. Size(r) \in SequenceNumber
  BY <1>1, <1>2, GapIs
<1>4. Size(r) <= Capacity
  BY DEF TypeOK
<1> QED
  BY <1>1, <1>2, <1>3, <1>4 DEF SequenceNumber

\* The sequences of a mapping are numbers, and so is the number of its entries.
LEMMA SizeNat ==
  ASSUME RingInv, NEW r \in Ring
  PROVE  /\ Size(r) \in Nat /\ Size(r) <= Capacity
         /\ read_sequence[r] \in Nat /\ write_sequence[r] \in Nat
<1>1. TypeOK
  BY DEF RingInv
<1>2. /\ Size(r) \in Nat /\ Size(r) <= Capacity
      /\ read_sequence[r] \in SequenceNumber /\ write_sequence[r] \in SequenceNumber
  BY <1>1, SizeFacts
<1>3. SequenceNumber \subseteq Nat
  BY RingAssumption DEF SequenceNumber
<1> QED
  BY <1>2, <1>3, Zenon

\* Where neither process is inside try_push or try_pop.
SetupPlace == {"out", "create_truncate", "create_header", "create_config", "create_sequences",
               "open_validate", "attached"}

\* What stays when the memory does.
LEMMA KeepMemory ==
  ASSUME RingInv, UNCHANGED memory
  PROVE  Published' /\ \A r : Size(r)' = Size(r)
BY DEF RingInv, Published, Size, memory

\* The producer, or the consumer, does not move and the memory stays.
LEMMA KeepPush ==
  ASSUME RingInv, UNCHANGED memory, pc'["producer"] = pc["producer"],
         mapped'["producer"] = mapped["producer"], local'["producer"] = local["producer"],
         message'["producer"] = message["producer"]
  PROVE  PushInv'
BY KeepMemory DEF RingInv, PushInv, Pushing, WriteSlot, memory

\* The same of the consumer.
LEMMA KeepPop ==
  ASSUME RingInv, UNCHANGED memory, pc'["consumer"] = pc["consumer"],
         mapped'["consumer"] = mapped["consumer"], local'["consumer"] = local["consumer"],
         message'["consumer"] = message["consumer"]
  PROVE  PopInv'
BY KeepMemory DEF RingInv, PopInv, Popping, ReadSlot, memory

\* A step of create(), open(), release() or a crash: the process ends up outside
\* try_push and try_pop, and the memory stays as it is.
LEMMA SetupStep ==
  ASSUME RingInv, NEW p \in Endpoint, NEW place \in SetupPlace, NEW m \in Ring \cup {None},
         UNCHANGED memory, Goto(p, place),
         mapped' = [mapped EXCEPT ![p] = m], UNCHANGED <<local, sent, received>>,
         message' = message \/ message' = [message EXCEPT ![p] = None],
         name' \in Ring \cup {None}, made' \in 0 .. MaxRings,
         header' \in [Ring -> {"absent", "empty", "zeroed", "constructed", "valid"}],
         unlink' \in [Endpoint -> BOOLEAN], crashes' \in 0 .. MaxCrashes, damage' = damage,
         Mappings', Fresh'
  PROVE  RingInv'
<1>1. TypeOK
  BY DEF RingInv
<1>2. Published' /\ \A r : Size(r)' = Size(r)
  BY KeepMemory
<1>3. pc' = [pc EXCEPT ![p] = place]
  BY DEF Goto
<1>4. pc' \in [Endpoint -> {"out", "create_truncate", "create_header", "create_config",
                            "create_sequences", "open_validate", "attached", "push_head",
                            "push_body", "push_publish", "pop_copy", "pop_publish"}]
  BY <1>1, <1>3, Zenon DEF TypeOK, SetupPlace
<1>5. message' \in [Endpoint -> 0 .. MaxMessages + 1] /\ mapped' \in [Endpoint -> Ring \cup {None}]
  <2>1. None \in 0 .. MaxMessages + 1
    BY RingAssumption DEF None
  <2> QED
    BY <1>1, <2>1, Zenon DEF TypeOK
<1>6. TypeOK'
  BY <1>1, <1>2, <1>4, <1>5, Zenon DEF TypeOK, memory
<1>7. Roles'
  BY <1>1, <1>3, Zenon DEF RingInv, Roles, TypeOK, SetupPlace, Endpoint
<1>8. PushInv'
  <2>1. CASE p = "producer"
    BY <2>1, <1>1, <1>3, Zenon DEF PushInv, Pushing, SetupPlace, TypeOK
  <2>2. CASE p # "producer"
    <3>1. /\ pc'["producer"] = pc["producer"] /\ mapped'["producer"] = mapped["producer"]
          /\ message'["producer"] = message["producer"] /\ local'["producer"] = local["producer"]
      BY <2>2, <1>1, <1>3, Zenon DEF TypeOK, Endpoint
    <3> QED
      BY <3>1, KeepPush
  <2> QED
    BY <2>1, <2>2
<1>9. PopInv'
  <2>1. CASE p = "consumer"
    BY <2>1, <1>1, <1>3 DEF PopInv, Popping, SetupPlace, TypeOK
  <2>2. CASE p # "consumer"
    <3>1. /\ pc'["consumer"] = pc["consumer"] /\ mapped'["consumer"] = mapped["consumer"]
          /\ message'["consumer"] = message["consumer"] /\ local'["consumer"] = local["consumer"]
      BY <2>2, <1>1, <1>3, Zenon DEF TypeOK, Endpoint
    <3> QED
      BY <3>1, KeepPop
  <2> QED
    BY <2>1, <2>2
<1> QED
  BY <1>2, <1>6, <1>7, <1>8, <1>9 DEF RingInv

\* The types a step of create(), open(), release() or a crash starts from.
LEMMA SetupTypes ==
  ASSUME RingInv, NEW p \in Endpoint
  PROVE  /\ None \in Ring \cup {None} /\ name \in Ring \cup {None} /\ made \in 0 .. MaxRings
         /\ header \in [Ring -> {"absent", "empty", "zeroed", "constructed", "valid"}]
         /\ unlink \in [Endpoint -> BOOLEAN] /\ crashes \in 0 .. MaxCrashes
         /\ mapped \in [Endpoint -> Ring \cup {None}] /\ MaxRings \in Nat
         /\ pc[p] # "out" => mapped[p] \in Ring /\ mapped[p] \in 1 .. made
<1>1. TypeOK /\ Mappings
  BY DEF RingInv
<1>2. MaxRings \in Nat
  BY RingAssumption
<1>3. pc[p] # "out" => mapped[p] \in 1 .. made
  BY <1>1 DEF Mappings
<1>4. made \in 0 .. MaxRings
  BY <1>1 DEF TypeOK
<1>5. pc[p] # "out" => mapped[p] \in Ring
  BY <1>2, <1>3, <1>4 DEF Ring
<1> QED
  BY <1>1, <1>2, <1>3, <1>5 DEF TypeOK

\* create() starts a mapping no process has seen.
LEMMA CreateStep ==
  ASSUME RingInv, NEW p \in Endpoint, Create(p) PROVE RingInv'
<1>1. made + 1 \in Ring /\ made' = made + 1 /\ name' = made + 1 /\ made' \in 0 .. MaxRings
  BY SetupTypes DEF Create, Ring
<1>2. \A q \in Endpoint : mapped[q] \in 0 .. made
  BY SetupTypes DEF RingInv, Mappings, None, TypeOK
<1>3. mapped' = [mapped EXCEPT ![p] = made + 1] /\ pc' = [pc EXCEPT ![p] = "create_truncate"]
  BY DEF Create, Goto
<1>4. pc = [q \in Endpoint |-> pc[q]] /\ mapped \in [Endpoint -> Ring \cup {None}]
  BY DEF RingInv, TypeOK
<1>5. Mappings'
  <2>1. name' <= made'
    BY <1>1, SetupTypes
  <2>2. ASSUME NEW q \in Endpoint
        PROVE  IF pc'[q] = "out" THEN mapped'[q] = None ELSE mapped'[q] \in 1 .. made'
    BY <1>1, <1>3, <1>4, SetupTypes DEF RingInv, Mappings
  <2> QED
    BY <2>1, <2>2 DEF Mappings
<1>6. Fresh'
  <2>1. UNCHANGED memory
    BY DEF Create
  <2>2. \A r \in Ring : r > made' => write_sequence'[r] = 0 /\ read_sequence'[r] = 0
    BY <1>1, <2>1, SetupTypes DEF RingInv, Fresh, memory, Ring
  <2>3. ASSUME NEW q \in Endpoint, Creating(q)'
        PROVE  /\ write_sequence'[mapped'[q]] = 0 /\ read_sequence'[mapped'[q]] = 0
               /\ \A o \in Endpoint \ {q} : mapped'[o] # mapped'[q]
    <3>1. CASE q = p
      <4>1. mapped'[q] = made + 1
        BY <3>1, <1>3, <1>4
      <4>2. write_sequence[made + 1] = 0 /\ read_sequence[made + 1] = 0
        BY <1>1, SetupTypes DEF RingInv, Fresh
      <4>3. \A o \in Endpoint \ {q} : mapped'[o] = mapped[o]
        BY <3>1, <1>3, <1>4
      <4> QED
        BY <4>1, <4>2, <4>3, <2>1, <1>2, SetupTypes DEF memory
    <3>2. CASE q # p
      <4>1. mapped'[q] = mapped[q] /\ Creating(q)
        BY <2>3, <3>2, <1>3, <1>4 DEF Creating
      <4>2. mapped'[p] = made + 1 /\ mapped'[p] # mapped'[q]
        BY <4>1, <1>2, <1>3, <1>4, SetupTypes
      <4> QED
        BY <4>1, <4>2, <2>1, <1>3, <1>4 DEF RingInv, Fresh, memory
    <3> QED
      BY <3>1, <3>2
  <2> QED
    BY <2>2, <2>3 DEF Fresh
<1>7. header' \in [Ring -> {"absent", "empty", "zeroed", "constructed", "valid"}]
  BY SetupTypes, Zenon DEF Create
<1>8. Goto(p, "create_truncate") /\ "create_truncate" \in SetupPlace
  BY DEF Create, SetupPlace
<1>9. UNCHANGED memory /\ Goto(p, "create_truncate") /\ UNCHANGED <<local, sent, received>>
       /\ mapped' = [mapped EXCEPT ![p] = made + 1] /\ damage' = damage
       /\ message' = message
  BY DEF Create, memory
<1>10. name' \in Ring \cup {None} /\ unlink' \in [Endpoint -> BOOLEAN] /\ crashes' \in 0 .. MaxCrashes
       /\ made + 1 \in Ring \cup {None}
  BY <1>1, SetupTypes DEF Create
<1> QED
  BY <1>1, <1>5, <1>6, <1>7, <1>8, <1>9, <1>10, SetupStep, Zenon

\* A step of create() or open() that stays on the mapping, changes at most its
\* header, and whose place is no new place of create().
LEMMA StayStep ==
  ASSUME RingInv, NEW p \in Endpoint, NEW place \in SetupPlace \ {"out"}, pc[p] # "out",
         Creating(p)' => Creating(p),
         UNCHANGED <<name, made, mapped, message, local, sent, received, crashes, damage>>,
         UNCHANGED memory, Goto(p, place),
         header' \in [Ring -> {"absent", "empty", "zeroed", "constructed", "valid"}],
         unlink' \in [Endpoint -> BOOLEAN]
  PROVE  RingInv'
<1>1. pc' = [pc EXCEPT ![p] = place] /\ pc = [q \in Endpoint |-> pc[q]] /\ place # "out"
  BY DEF Goto, RingInv, TypeOK
<1>2. mapped' = [mapped EXCEPT ![p] = mapped[p]] /\ mapped[p] \in Ring \cup {None}
  BY SetupTypes
<1>3. Mappings'
  <2>1. \A q \in Endpoint : q # p => pc'[q] = pc[q]
    BY <1>1
  <2>2. pc'[p] # "out"
    BY <1>1
  <2> QED
    BY <2>1, <2>2 DEF RingInv, Mappings
<1>4. Fresh'
  <2>1. \A q \in Endpoint : Creating(q)' => Creating(q)
    BY <1>1 DEF Creating
  <2> QED
    BY <2>1 DEF RingInv, Fresh, memory
<1>5. place \in SetupPlace
  OBVIOUS
<1>9. UNCHANGED memory /\ Goto(p, place) /\ UNCHANGED <<local, sent, received>>
       /\ mapped' = [mapped EXCEPT ![p] = mapped[p]] /\ damage' = damage
       /\ message' = message
  BY <1>2, Zenon
<1>10. name' \in Ring \cup {None} /\ made' \in 0 .. MaxRings /\ crashes' \in 0 .. MaxCrashes
       /\ mapped[p] \in Ring \cup {None}
  BY SetupTypes
<1> QED
  BY <1>3, <1>4, <1>5, <1>9, <1>10, SetupStep, Zenon

\* A process that leaves its mapping: a failed create() or open(), release(), a crash.
LEMMA LeaveStep ==
  ASSUME RingInv, NEW p \in Endpoint, UNCHANGED <<made, header, local, sent, received, damage>>,
         UNCHANGED memory, Goto(p, "out"), mapped' = [mapped EXCEPT ![p] = None],
         message' = message \/ message' = [message EXCEPT ![p] = None],
         name' \in {None, name}, unlink' \in [Endpoint -> BOOLEAN], crashes' \in 0 .. MaxCrashes
  PROVE  RingInv'
<1>1. pc' = [pc EXCEPT ![p] = "out"] /\ pc = [q \in Endpoint |-> pc[q]]
      /\ mapped \in [Endpoint -> Ring \cup {None}]
  BY DEF Goto, RingInv, TypeOK
<1>2. name' \in Ring \cup {None} /\ name' <= made' /\ made' \in 0 .. MaxRings
  BY SetupTypes DEF None, RingInv, Mappings
<1>3. Mappings'
  BY <1>1, <1>2, Zenon DEF RingInv, Mappings
<1>4. Fresh'
  <2>1. \A q \in Endpoint : Creating(q)' => q # p /\ Creating(q) /\ mapped'[q] = mapped[q]
    BY <1>1 DEF Creating
  <2>2. ASSUME NEW q \in Endpoint, Creating(q)' PROVE mapped'[p] # mapped'[q]
    <3>1. mapped[q] \in 1 .. made
      BY <2>1, <2>2, SetupTypes DEF Creating
    <3> QED
      BY <2>1, <2>2, <3>1, <1>1 DEF None
  <2>3. \A q, o \in Endpoint : o # p => mapped'[o] = mapped[o]
    BY <1>1
  <2> QED
    BY <2>1, <2>2, <2>3 DEF RingInv, Fresh, memory
<1>5. "out" \in SetupPlace /\ None \in Ring \cup {None}
  BY DEF SetupPlace
<1>6. header' \in [Ring -> {"absent", "empty", "zeroed", "constructed", "valid"}]
  BY SetupTypes
<1> QED
  BY <1>2, <1>3, <1>4, <1>5, <1>6, SetupStep, Zenon

\* open() attaches to a mapping whose create() is complete.
LEMMA OpenStep ==
  ASSUME EarlyOpen = FALSE, RingInv, NEW p \in Endpoint, Open(p) PROVE RingInv'
<1>1. pc' = [pc EXCEPT ![p] = "open_validate"] /\ pc = [q \in Endpoint |-> pc[q]]
      /\ mapped \in [Endpoint -> Ring \cup {None}] /\ mapped' = [mapped EXCEPT ![p] = name]
  BY DEF Open, Goto, RingInv, TypeOK
<1>2. name \in Ring /\ name \in 1 .. made /\ made \in Nat
  BY SetupTypes DEF Open, RingInv, Mappings, Ring
<1>3. \A q \in Endpoint : ~Creating(q)
  BY DEF Open
<1>4. UNCHANGED <<name, made, header, unlink, local, message, sent, received, crashes, damage>>
      /\ UNCHANGED memory /\ Goto(p, "open_validate")
  BY DEF Open
<1>5. Mappings'
  BY <1>1, <1>2, <1>4 DEF RingInv, Mappings
<1>6. Fresh'
  <2>1. \A q \in Endpoint : ~Creating(q)'
    BY <1>1, <1>3 DEF Creating
  <2> QED
    BY <2>1, <1>4 DEF RingInv, Fresh, memory
<1>7. "open_validate" \in SetupPlace /\ name \in Ring \cup {None}
  BY <1>2 DEF SetupPlace
<1>8. name' \in Ring \cup {None} /\ made' \in 0 .. MaxRings /\ crashes' \in 0 .. MaxCrashes
      /\ header' \in [Ring -> {"absent", "empty", "zeroed", "constructed", "valid"}]
      /\ unlink' \in [Endpoint -> BOOLEAN]
  BY <1>4, SetupTypes
<1> QED
  BY <1>1, <1>4, <1>5, <1>6, <1>7, <1>8, SetupStep, Zenon

\* Every step of create(), open(), release() and a crash keeps the invariant.
LEMMA SetupActions ==
  ASSUME EarlyOpen = FALSE, RingInv, NEW p \in Endpoint,
         \/ Create(p) \/ CreateTruncate(p) \/ CreateFail(p) \/ CreateHeader(p)
         \/ CreateConfig(p) \/ CreateSequences(p)
         \/ Open(p) \/ OpenValidate(p) \/ Release(p) \/ Crash(p)
  PROVE  RingInv' /\ UNCHANGED memory
<1> DEFINE Headers == {"absent", "empty", "zeroed", "constructed", "valid"}
<1>1. CASE Create(p)
  BY <1>1, CreateStep, Zenon DEF Create
<1>2. CASE CreateTruncate(p)
  <2>1. header' \in [Ring -> Headers] /\ unlink' \in [Endpoint -> BOOLEAN]
    BY <1>2, SetupTypes, Zenon DEF CreateTruncate
  <2>2. "create_header" \in SetupPlace \ {"out"} /\ pc[p] # "out" /\ Creating(p)
    BY <1>2, Zenon DEF SetupPlace, CreateTruncate, Creating
  <2> QED
    BY <1>2, <2>1, <2>2, StayStep DEF CreateTruncate
<1>3. CASE CreateHeader(p)
  <2>1. header' \in [Ring -> Headers] /\ unlink' \in [Endpoint -> BOOLEAN]
    BY <1>3, SetupTypes, Zenon DEF CreateHeader
  <2>2. "create_config" \in SetupPlace \ {"out"} /\ pc[p] # "out" /\ Creating(p)
    BY <1>3, Zenon DEF SetupPlace, CreateHeader, Creating
  <2> QED
    BY <1>3, <2>1, <2>2, StayStep, Zenon DEF CreateHeader
<1>4. CASE CreateConfig(p)
  <2>1. header' \in [Ring -> Headers] /\ unlink' \in [Endpoint -> BOOLEAN]
    BY <1>4, SetupTypes, Zenon DEF CreateConfig
  <2>2. "create_sequences" \in SetupPlace \ {"out"} /\ pc[p] # "out" /\ Creating(p)
    BY <1>4, Zenon DEF SetupPlace, CreateConfig, Creating
  <2> QED
    BY <1>4, <2>1, <2>2, StayStep, ZenonT(40) DEF CreateConfig
<1>5. CASE CreateSequences(p)
  <2>1. header' \in [Ring -> Headers] /\ unlink' \in [Endpoint -> BOOLEAN]
    BY <1>5, SetupTypes DEF CreateSequences
  <2>2. "attached" \in SetupPlace \ {"out"} /\ pc[p] # "out" /\ Creating(p)
    BY <1>5 DEF SetupPlace, CreateSequences, Creating
  <2>3. mapped[p] \in Ring /\ write_sequence[mapped[p]] = 0 /\ read_sequence[mapped[p]] = 0
    BY <2>2, SetupTypes DEF RingInv, Fresh
  <2>4. write_sequence' = write_sequence /\ read_sequence' = read_sequence
    BY <1>5, <2>3, Zenon DEF CreateSequences, RingInv, TypeOK
  <2>5. UNCHANGED memory
    BY <1>5, <2>4, Zenon DEF memory, CreateSequences
  <2> QED
    BY <1>5, <2>1, <2>2, <2>5, StayStep, Zenon DEF CreateSequences
<1>6. CASE CreateFail(p)
  BY <1>6, SetupTypes, LeaveStep, Zenon DEF CreateFail
<1>7. CASE Open(p)
  BY <1>7, OpenStep, Zenon DEF Open
<1>8. CASE OpenValidate(p)
  <2>1. "attached" \in SetupPlace \ {"out"} /\ pc[p] # "out"
    BY <1>8, Zenon DEF SetupPlace, OpenValidate
  <2>2. CASE header[mapped[p]] = "valid"
    <3>1. ~Creating(p)'
      BY <1>8, <2>2, Zenon DEF OpenValidate, Goto, Creating, RingInv, TypeOK
    <3> QED
      BY <1>8, <2>1, <2>2, <3>1, SetupTypes, StayStep DEF OpenValidate
  <2>3. CASE header[mapped[p]] # "valid"
    BY <1>8, <2>3, SetupTypes, LeaveStep, Zenon DEF OpenValidate
  <2> QED
    BY <2>2, <2>3
<1>9. CASE Release(p)
  <2>1. name' \in {None, name} /\ unlink' \in [Endpoint -> BOOLEAN]
    BY <1>9, SetupTypes DEF Release, Leave
  <2> QED
    BY <1>9, <2>1, SetupTypes, LeaveStep, Zenon DEF Release, Leave
<1>10. CASE Crash(p)
  <2>1. crashes' \in 0 .. MaxCrashes /\ unlink' \in [Endpoint -> BOOLEAN]
    BY <1>10, SetupTypes, RingAssumption DEF Crash, Leave
  <2> QED
    BY <1>10, <2>1, SetupTypes, LeaveStep, Zenon DEF Crash, Leave
<1> QED
  BY <1>1, <1>2, <1>3, <1>4, <1>5, <1>6, <1>7, <1>8, <1>9, <1>10

(***************************************************************************)
(* The steps of try_push and try_pop.                                      *)
(***************************************************************************)
CallPlace == {"attached", "push_head", "push_body", "push_publish", "pop_copy", "pop_publish"}

\* Endpoints inside a call have a mapping.
LEMMA CallMapped ==
  ASSUME RingInv, NEW p \in Endpoint, pc[p] \in CallPlace PROVE mapped[p] \in Ring
<1>1. pc[p] # "out"
  BY DEF CallPlace
<1> QED
  BY <1>1, SetupTypes DEF RingInv, Mappings, Ring

\* A call touches the sequences of its own mapping only.
LEMMA CallFrame ==
  ASSUME RingInv, NEW p \in Endpoint, pc[p] \in CallPlace, NEW place \in CallPlace,
         Goto(p, place), UNCHANGED <<name, made, mapped>>,
         \A r \in Ring \ {mapped[p]} :
           write_sequence'[r] = write_sequence[r] /\ read_sequence'[r] = read_sequence[r]
  PROVE  Mappings' /\ Fresh'
<1>1. pc' = [pc EXCEPT ![p] = place] /\ pc = [q \in Endpoint |-> pc[q]]
  BY DEF Goto, RingInv, TypeOK
<1>2. pc[p] # "out" /\ place # "out" /\ ~Creating(p)
  BY DEF CallPlace, Creating
<1>3. \A q \in Endpoint : (pc'[q] = "out") = (pc[q] = "out") /\ (Creating(q)' => Creating(q) /\ q # p)
  BY <1>1, <1>2 DEF Creating, CallPlace
<1>4. Mappings'
  BY <1>3 DEF RingInv, Mappings
<1>5. mapped[p] \in 1 .. made /\ made \in Nat /\ \A q \in Endpoint : Creating(q) => mapped[q] \in Ring
  BY <1>2, SetupTypes DEF RingInv, Mappings, Creating, Ring
<1>6. Fresh'
  <2>1. \A r \in Ring : r > made' => write_sequence'[r] = 0 /\ read_sequence'[r] = 0
    BY <1>5 DEF RingInv, Fresh, Ring
  <2>2. ASSUME NEW q \in Endpoint, Creating(q)'
        PROVE  /\ write_sequence'[mapped'[q]] = 0 /\ read_sequence'[mapped'[q]] = 0
               /\ \A o \in Endpoint \ {q} : mapped'[o] # mapped'[q]
    BY <2>2, <1>3, <1>5, Zenon DEF RingInv, Fresh
  <2> QED
    BY <2>1, <2>2 DEF Fresh
<1> QED
  BY <1>4, <1>6

\* The slot try_push fills holds no published entry.
LEMMA WriteApart ==
  ASSUME RingInv, Pushing, NEW k \in 0 .. (Size(mapped["producer"]) - 1)
  PROVE  Index(read_sequence[mapped["producer"]] + k) # Index(local["producer"])
<1> DEFINE m == mapped["producer"]
<1>1. "producer" \in Endpoint /\ pc["producer"] \in CallPlace
  BY DEF Endpoint, Pushing, CallPlace
<1>2. m \in Ring
  BY <1>1, CallMapped
<1>3. local["producer"] = write_sequence[m] /\ Size(m) < Capacity
  BY DEF RingInv, PushInv
<1>4. /\ Size(m) = Gap(write_sequence[m], read_sequence[m])
      /\ write_sequence[m] \in SequenceNumber /\ read_sequence[m] \in SequenceNumber
  BY <1>2, SizeFacts DEF RingInv
<1> HIDE DEF m
<1>5. k \in 0 .. (Gap(write_sequence[m], read_sequence[m]) - 1)
  BY <1>4 DEF m
<1> QED
  BY <1>3, <1>4, <1>5, IndexApart DEF m

\* Where the entries of a mapping are.
LEMMA EntryIndex ==
  ASSUME TypeOK, NEW r \in Ring, NEW k \in Nat
  PROVE  Index(read_sequence[r] + k) \in 0 .. (Capacity - 1)
<1>1. read_sequence[r] + k \in Nat
  BY SizeFacts, RingAssumption DEF SequenceNumber
<1> QED
  BY <1>1, IndexRange

\* Filling that slot disturbs no published entry.
LEMMA FillSlot ==
  ASSUME RingInv, Pushing, NEW v \in Slot, UNCHANGED <<write_sequence, read_sequence>>,
         slots' = [slots EXCEPT ![mapped["producer"]][Index(local["producer"])] = v]
  PROVE  /\ \A r \in Ring : Size(r)' = Size(r)
         /\ \A r \in Ring : \A k \in 0 .. (Size(r) - 1) :
              slots'[r][Index(read_sequence[r] + k)] = slots[r][Index(read_sequence[r] + k)]
         /\ slots'[mapped["producer"]][Index(local["producer"])] = v
         /\ slots' \in [Ring -> [0 .. Capacity - 1 -> Slot]]
<1> DEFINE m == mapped["producer"]
           i == Index(local["producer"])
<1>1. "producer" \in Endpoint /\ pc["producer"] \in CallPlace
  BY DEF Endpoint, Pushing, CallPlace
<1>2. m \in Ring
  BY <1>1, CallMapped
<1>3. i \in 0 .. (Capacity - 1)
  <2>1. local["producer"] \in Nat
    BY <1>1, RingAssumption DEF RingInv, TypeOK
  <2> QED
    BY <2>1, IndexRange
<1>4. \A r \in Ring : Size(r)' = Size(r)
  BY DEF Size
<1>5. slots \in [Ring -> [0 .. Capacity - 1 -> Slot]]
  BY DEF RingInv, TypeOK
<1>6. ASSUME NEW r \in Ring, NEW k \in 0 .. (Size(r) - 1)
      PROVE  slots'[r][Index(read_sequence[r] + k)] = slots[r][Index(read_sequence[r] + k)]
  <2>1. r = m => Index(read_sequence[r] + k) # i
    BY WriteApart
  <2>2. k \in Nat
    BY SizeFacts DEF RingInv
  <2>3. Index(read_sequence[r] + k) \in 0 .. (Capacity - 1)
    BY <2>2, EntryIndex DEF RingInv
  <2> HIDE DEF i, m
  <2>4. slots' = [slots EXCEPT ![m][i] = v]
    BY DEF i, m
  <2> DEFINE j == Index(read_sequence[r] + k)
  <2>5. j \in 0 .. (Capacity - 1) /\ (r = m => j # i)
    BY <2>1, <2>3
  <2> HIDE DEF j
  <2>6. slots'[r][j] = slots[r][j]
    BY <2>4, <2>5, <1>2, <1>5
  <2> QED
    BY <2>6 DEF j
<1> QED
  BY <1>2, <1>3, <1>4, <1>5, <1>6, Zenon

\* So the consumer and the entries do not notice it.
LEMMA FillKeeps ==
  ASSUME RingInv, Pushing, NEW v \in Slot, UNCHANGED <<write_sequence, read_sequence>>,
         slots' = [slots EXCEPT ![mapped["producer"]][Index(local["producer"])] = v],
         pc'["consumer"] = pc["consumer"], UNCHANGED <<mapped, local, message>>
  PROVE  Published' /\ PopInv'
<1>1. \A r \in Ring : Size(r)' = Size(r)
  BY FillSlot, Zenon
<1>2. \A r \in Ring : \A k \in 0 .. (Size(r) - 1) :
        slots'[r][Index(read_sequence[r] + k)] = slots[r][Index(read_sequence[r] + k)]
  BY FillSlot, Zenon
<1>3. Published'
  BY <1>1, <1>2 DEF RingInv, Published
<1>4. ASSUME Popping PROVE ReadSlot' = ReadSlot /\ Size(mapped["consumer"])' = Size(mapped["consumer"])
  <2> DEFINE c == mapped["consumer"]
  <2>1. c \in Ring
    BY <1>4, CallMapped DEF Popping, CallPlace, Endpoint
  <2>2. local["consumer"] = read_sequence[c] /\ Size(c) > 0 /\ Size(c) \in Nat
    BY <1>4, <2>1, SizeFacts DEF RingInv, PopInv
  <2>3. 0 \in 0 .. (Size(c) - 1) /\ read_sequence[c] + 0 = read_sequence[c]
    BY <2>1, <2>2, SizeNat
  <2>4. slots'[c][Index(read_sequence[c] + 0)] = slots[c][Index(read_sequence[c] + 0)]
    BY <1>2, <2>1, <2>3
  <2> QED
    BY <1>1, <2>1, <2>2, <2>3, <2>4 DEF ReadSlot
<1>5. PopInv'
  BY <1>4 DEF RingInv, PopInv, Popping
<1> QED
  BY <1>3, <1>5

\* What every step of a call leaves to show.
LEMMA CallTypes ==
  ASSUME RingInv, NEW p \in Endpoint, NEW place \in CallPlace, Goto(p, place)
  PROVE  /\ pc' = [pc EXCEPT ![p] = place] /\ pc'[p] = place
         /\ \A q \in Endpoint \ {p} : pc'[q] = pc[q]
         /\ pc' \in [Endpoint -> {"out", "create_truncate", "create_header", "create_config",
                            "create_sequences", "open_validate", "attached", "push_head",
                            "push_body", "push_publish", "pop_copy", "pop_publish"}]
BY Zenon DEF RingInv, TypeOK, Goto, CallPlace

\* The two processes.
LEMMA Ends == "producer" \in Endpoint /\ "consumer" \in Endpoint /\ "producer" # "consumer"
BY DEF Endpoint

\* try_push finds room: the slot after the newest entry is free.
LEMMA PushStartStep ==
  ASSUME RingInv, PushStart PROVE RingInv' /\ UNCHANGED memory
<1> DEFINE p == "producer"
           m == mapped[p]
<1>1. p \in Endpoint /\ pc[p] = "attached" /\ Goto(p, "push_head") /\ UNCHANGED memory
      /\ UNCHANGED <<name, made, header, mapped, unlink, received, crashes, damage>>
  BY Ends DEF PushStart
<1>2. pc[p] \in CallPlace /\ "push_head" \in CallPlace
  BY <1>1 DEF CallPlace
<1>3. m \in Ring
  BY <1>1, <1>2, CallMapped
<1>4. Mappings' /\ Fresh'
  BY <1>1, <1>2, CallFrame DEF memory
<1>5. Published' /\ \A r : Size(r)' = Size(r)
  BY <1>1, KeepMemory
<1>6. sent + 1 \in 0 .. MaxMessages /\ sent + 1 \in Message /\ sent + 1 \in 0 .. MaxMessages + 1
  BY RingAssumption DEF PushStart, RingInv, TypeOK, Message
<1>7. local' = [local EXCEPT ![p] = write_sequence[m]] /\ message' = [message EXCEPT ![p] = sent + 1]
      /\ sent' = sent + 1 /\ ~Full(m)
  BY DEF PushStart
<1>8. write_sequence[m] \in 0 .. SequenceMod - 1
  BY <1>3 DEF RingInv, TypeOK
<1>9. /\ local' \in [Endpoint -> 0 .. SequenceMod - 1] /\ local'[p] = write_sequence[m]
      /\ local'["consumer"] = local["consumer"]
  BY <1>1, <1>7, <1>8, Ends DEF RingInv, TypeOK
<1>10. /\ message' \in [Endpoint -> 0 .. MaxMessages + 1] /\ message'[p] = sent + 1
       /\ message'["consumer"] = message["consumer"]
  BY <1>1, <1>6, <1>7, Ends DEF RingInv, TypeOK
<1>11. pc'[p] = "push_head" /\ pc'["consumer"] = pc["consumer"]
  BY <1>1, <1>2, CallTypes, Ends, Zenon
<1>12. TypeOK'
  BY <1>1, <1>2, <1>5, <1>6, <1>7, <1>9, <1>10, CallTypes, Zenon DEF RingInv, TypeOK, memory
<1>13. Roles'
  BY <1>11 DEF RingInv, Roles
<1>14. PopInv'
  BY <1>1, <1>9, <1>10, <1>11, KeepPop
<1>15. PushInv'
  <2>1. Size(m) < Capacity
    BY <1>3, <1>7, SizeFacts, RingAssumption DEF Full, RingInv
  <2> QED
    BY <1>1, <1>5, <1>6, <1>9, <1>10, <1>11, <2>1 DEF PushInv, memory
<1> QED
  BY <1>1, <1>4, <1>5, <1>12, <1>13, <1>14, <1>15, Zenon DEF RingInv

\* PushHead and PushBody write one field of the slot.
LEMMA FillStep ==
  ASSUME RingInv, Pushing, NEW v \in Slot, NEW place \in {"push_body", "push_publish"},
         slots' = [slots EXCEPT ![mapped["producer"]][Index(local["producer"])] = v],
         Goto("producer", place), v.head = message["producer"],
         place = "push_publish" => v.body = message["producer"],
         UNCHANGED <<name, made, header, write_sequence, read_sequence, mapped, unlink,
                     local, message, sent, received, crashes, damage>>
  PROVE  RingInv'
<1> DEFINE p == "producer"
<1>1. p \in Endpoint /\ pc[p] \in CallPlace /\ place \in CallPlace /\ Goto(p, place)
  BY Ends DEF Pushing, CallPlace
<1>2. Mappings' /\ Fresh'
  BY <1>1, CallFrame
<1>3. pc'[p] = place /\ pc'["consumer"] = pc["consumer"]
  BY <1>1, CallTypes, Ends
<1>4. Published' /\ PopInv'
  BY <1>3, FillKeeps, Zenon
<1>5. /\ \A r \in Ring : Size(r)' = Size(r)
      /\ slots'[mapped[p]][Index(local[p])] = v
      /\ slots' \in [Ring -> [0 .. Capacity - 1 -> Slot]]
  BY FillSlot, Zenon
<1>6. TypeOK'
  <2>1. pc' \in [Endpoint -> {"out", "create_truncate", "create_header", "create_config",
                            "create_sequences", "open_validate", "attached", "push_head",
                            "push_body", "push_publish", "pop_copy", "pop_publish"}]
    BY <1>1, CallTypes
  <2> HIDE DEF p
  <2> QED
    BY <1>5, <2>1, Zenon DEF RingInv, TypeOK
<1>7. Roles'
  BY <1>3 DEF RingInv, Roles
<1>8. PushInv'
  <2>1. mapped[p] \in Ring
    BY <1>1, CallMapped
  <2>2. WriteSlot' = v /\ Size(mapped[p])' = Size(mapped[p])
    BY <1>5, <2>1 DEF WriteSlot
  <2> QED
    BY <1>3, <2>2 DEF RingInv, PushInv
<1> QED
  BY <1>2, <1>4, <1>6, <1>7, <1>8 DEF RingInv

\* The slot being filled, and that writing a field of it writes the slot.
LEMMA FieldWrite ==
  ASSUME RingInv, Pushing
  PROVE  /\ WriteSlot \in Slot
         /\ [WriteSlot EXCEPT !.head = message["producer"]] \in Slot
         /\ [WriteSlot EXCEPT !.body = message["producer"]] \in Slot
         /\ message["producer"] \in Message
<1>1. "producer" \in Endpoint /\ pc["producer"] \in CallPlace
  BY Ends DEF Pushing, CallPlace
<1>2. mapped["producer"] \in Ring
  BY <1>1, CallMapped
<1>3. local["producer"] \in Nat
  BY <1>1, RingAssumption DEF RingInv, TypeOK
<1>4. Index(local["producer"]) \in 0 .. (Capacity - 1)
  BY <1>3, IndexRange
<1>5. WriteSlot \in Slot
  <2>1. slots \in [Ring -> [0 .. Capacity - 1 -> Slot]]
    BY DEF RingInv, TypeOK
  <2>2. slots[mapped["producer"]] \in [0 .. Capacity - 1 -> Slot]
    BY <1>2, <2>1
  <2> QED
    BY <1>4, <2>2, Zenon DEF WriteSlot
<1>6. message["producer"] \in Message
  BY DEF RingInv, PushInv
<1>7. message["producer"] \in 0 .. MaxMessages /\ message["producer"] \in 0 .. MaxMessages + 1
  BY <1>6, RingAssumption DEF Message
<1> QED
  BY <1>5, <1>6, <1>7 DEF Slot

\* The first half of the entry is written to it,
LEMMA PushHeadStep ==
  ASSUME RingInv, PushHead PROVE RingInv' /\ Pushing
<1> DEFINE v == [WriteSlot EXCEPT !.head = message["producer"]]
<1>1. Pushing
  BY DEF PushHead, Pushing
<1>2. v \in Slot /\ v.head = message["producer"]
  BY <1>1, FieldWrite DEF Slot
<1>3. slots' = [slots EXCEPT ![mapped["producer"]][Index(local["producer"])] = v]
  BY DEF PushHead, WriteSlot
<1> HIDE DEF v
<1> QED
  BY <1>1, <1>2, <1>3, FillStep, Zenon DEF PushHead

\* and the second half.
LEMMA PushBodyStep ==
  ASSUME RingInv, PushBody PROVE RingInv' /\ Pushing
<1> DEFINE v == [WriteSlot EXCEPT !.body = message["producer"]]
<1>1. Pushing
  BY DEF PushBody, Pushing
<1>2. v \in Slot /\ v.head = message["producer"] /\ v.body = message["producer"]
  <2>1. WriteSlot.head = message["producer"]
    BY <1>1 DEF RingInv, PushInv, PushBody
  <2> QED
    BY <1>1, <2>1, FieldWrite DEF Slot
<1>3. slots' = [slots EXCEPT ![mapped["producer"]][Index(local["producer"])] = v]
  BY DEF PushBody, WriteSlot
<1> HIDE DEF v
<1> QED
  BY <1>1, <1>2, <1>3, FillStep, Zenon DEF PushBody

\* The release store of try_push adds one entry, behind the others.
LEMMA SentSize ==
  ASSUME RingInv, Pushing, UNCHANGED <<read_sequence, mapped>>,
         write_sequence' = [write_sequence EXCEPT ![mapped["producer"]] = Advance(local["producer"])]
  PROVE  /\ mapped["producer"] \in Ring
         /\ write_sequence' \in [Ring -> 0 .. SequenceMod - 1]
         /\ Size(mapped["producer"])' = Size(mapped["producer"]) + 1
         /\ Size(mapped["producer"]) \in Nat /\ Size(mapped["producer"]) < Capacity
         /\ \A r \in Ring \ {mapped["producer"]} :
              Size(r)' = Size(r) /\ write_sequence'[r] = write_sequence[r]
         /\ Index(read_sequence[mapped["producer"]] + Size(mapped["producer"])) = Index(local["producer"])
<1> DEFINE m == mapped["producer"]
           w == write_sequence[m]
           o == read_sequence[m]
<1>1. m \in Ring
  BY Ends, CallMapped DEF Pushing, CallPlace
<1>2. local["producer"] = w /\ Size(m) < Capacity
  BY DEF RingInv, PushInv
<1>3. Size(m) = Gap(w, o) /\ w \in SequenceNumber /\ o \in SequenceNumber /\ Size(m) \in Nat
  BY <1>1, SizeFacts DEF RingInv
<1>4. Advance(w) \in SequenceNumber /\ Gap(Advance(w), o) = Gap(w, o) + 1 /\ Index(o + Gap(w, o)) = Index(w)
  BY <1>2, <1>3, AdvanceIs, GapPush, IndexEnd
<1>5. write_sequence \in [Ring -> 0 .. SequenceMod - 1]
  BY Zenon DEF RingInv, TypeOK
<1>6. /\ write_sequence' \in [Ring -> 0 .. SequenceMod - 1] /\ write_sequence'[m] = Advance(w)
      /\ \A r \in Ring \ {m} : write_sequence'[r] = write_sequence[r]
  BY <1>1, <1>2, <1>4, <1>5, Zenon DEF SequenceNumber
<1>7. Size(mapped["producer"])' = Gap(Advance(w), o)
  BY <1>6 DEF Size, Gap
<1>8. \A r \in Ring \ {m} : Size(r)' = Size(r)
  BY <1>6 DEF Size
<1> QED
  BY <1>1, <1>2, <1>3, <1>4, <1>6, <1>7, <1>8

\* The release store of write_sequence makes a complete entry the newest one.
LEMMA PushPublishStep ==
  ASSUME RingInv, PushPublish PROVE RingInv'
<1> DEFINE p == "producer"
           m == mapped[p]
<1>1. Pushing /\ p \in Endpoint /\ Goto(p, "attached") /\ pc[p] \in CallPlace /\ "attached" \in CallPlace
  BY Ends DEF PushPublish, Pushing, CallPlace
<1>2. /\ write_sequence' = [write_sequence EXCEPT ![m] = Advance(local[p])]
      /\ message' = [message EXCEPT ![p] = None]
      /\ UNCHANGED <<name, made, header, read_sequence, slots, mapped, unlink, local,
                     sent, received, crashes, damage>>
  BY DEF PushPublish
<1>3. /\ m \in Ring /\ write_sequence' \in [Ring -> 0 .. SequenceMod - 1]
      /\ Size(m)' = Size(m) + 1 /\ Size(m) \in Nat /\ Size(m) < Capacity
      /\ \A r \in Ring \ {m} : Size(r)' = Size(r) /\ write_sequence'[r] = write_sequence[r]
      /\ Index(read_sequence[m] + Size(m)) = Index(local[p])
  BY <1>1, <1>2, SentSize, Zenon
<1>4. Mappings' /\ Fresh'
  BY <1>1, <1>2, <1>3, CallFrame
<1>5. pc'[p] = "attached" /\ pc'["consumer"] = pc["consumer"]
  BY <1>1, CallTypes, Ends
<1>6. /\ message' \in [Endpoint -> 0 .. MaxMessages + 1] /\ message'["consumer"] = message["consumer"]
  <2>1. None \in 0 .. MaxMessages + 1
    BY RingAssumption DEF None
  <2> QED
    BY <1>1, <1>2, <2>1, Ends DEF RingInv, TypeOK
<1>7. TypeOK'
  <2>1. pc' \in [Endpoint -> {"out", "create_truncate", "create_header", "create_config",
                            "create_sequences", "open_validate", "attached", "push_head",
                            "push_body", "push_publish", "pop_copy", "pop_publish"}]
    BY <1>1, CallTypes
  <2>2. \A r \in Ring : Size(r)' <= Capacity
    <3>1. \A r \in Ring : Size(r) <= Capacity
      BY DEF RingInv, TypeOK
    <3>2. SUFFICES ASSUME NEW r \in Ring PROVE Size(r)' <= Capacity
      OBVIOUS
    <3>3. CASE r = m
      BY <1>2, <1>3, <3>3, RingAssumption
    <3>4. CASE r # m
      BY <1>3, <3>1, <3>4, Zenon
    <3> QED
      BY <3>3, <3>4
  <2>3. TypeOK
    BY DEF RingInv
  <2> QED
    BY <1>2, <1>3, <1>6, <2>1, <2>2, <2>3, Zenon DEF TypeOK
<1>8. Roles' /\ PushInv'
  BY <1>5 DEF RingInv, Roles, PushInv, Pushing
<1>9. PopInv'
  <2>1. ASSUME Popping PROVE Size(mapped["consumer"])' > 0
    <3>1. mapped["consumer"] \in Ring /\ Size(mapped["consumer"]) > 0
      BY <2>1, Ends, CallMapped DEF Popping, CallPlace, RingInv, PopInv
    <3> QED
      BY <1>2, <1>3, <3>1
  <2> QED
    BY <1>2, <1>5, <1>6, <2>1, Zenon DEF RingInv, PopInv, Popping, ReadSlot
<1>10. Published'
  <2> SUFFICES ASSUME NEW r \in Ring, NEW k \in 0 .. (Size(r)' - 1)
               PROVE  slots[r][Index(read_sequence[r] + k)].head \in Message
    BY <1>2 DEF Published
  <2>1. CASE r # m \/ k < Size(m)
    <3>1. k \in 0 .. (Size(r) - 1)
      <4>1. CASE r # m
        <5>1. Size(r)' = Size(r)
          BY <1>3, <4>1
        <5> QED
          BY <5>1
      <4>2. CASE r = m
        BY <1>2, <1>3, <2>1, <4>2
      <4> QED
        BY <4>1, <4>2
    <3> QED
      BY <3>1 DEF RingInv, Published
  <2>2. CASE r = m /\ k >= Size(m)
    <3>1. k = Size(m)
      BY <1>2, <1>3, <2>2
    <3>2. WriteSlot.head \in Message
      BY <1>1 DEF RingInv, PushInv, PushPublish
    <3> QED
      BY <1>3, <2>2, <3>1, <3>2 DEF WriteSlot
  <2>3. k \in Int /\ Size(m) \in Int
    BY <1>3
  <2> QED
    BY <2>1, <2>2, <2>3
<1> QED
  BY <1>4, <1>7, <1>8, <1>9, <1>10 DEF RingInv

\* try_pop finds an entry: the slot at read_sequence holds the oldest one.
LEMMA PopStartStep ==
  ASSUME RingInv, PopStart PROVE RingInv' /\ UNCHANGED memory
<1> DEFINE p == "consumer"
           m == mapped[p]
<1>1. p \in Endpoint /\ pc[p] \in CallPlace /\ "pop_copy" \in CallPlace /\ Goto(p, "pop_copy")
      /\ UNCHANGED memory
  BY Ends DEF PopStart, CallPlace
<1>2. /\ local' = [local EXCEPT ![p] = read_sequence[m]] /\ ~Empty(m)
      /\ UNCHANGED <<name, made, header, mapped, unlink, message, sent, received, crashes, damage>>
  BY DEF PopStart
<1>3. m \in Ring
  BY <1>1, CallMapped
<1>4. Mappings' /\ Fresh'
  BY <1>1, <1>2, CallFrame DEF memory
<1>5. Published' /\ \A r : Size(r)' = Size(r)
  BY <1>1, KeepMemory
<1>6. /\ local' \in [Endpoint -> 0 .. SequenceMod - 1] /\ local'[p] = read_sequence[m]
      /\ local'["producer"] = local["producer"]
  <2>1. read_sequence[m] \in 0 .. SequenceMod - 1
    BY <1>3 DEF RingInv, TypeOK
  <2> QED
    BY <1>1, <1>2, <2>1, Ends DEF RingInv, TypeOK
<1>7. pc'[p] = "pop_copy" /\ pc'["producer"] = pc["producer"]
  BY <1>1, CallTypes, Ends, Zenon
<1>8. TypeOK'
  <2>1. pc' \in [Endpoint -> {"out", "create_truncate", "create_header", "create_config",
                            "create_sequences", "open_validate", "attached", "push_head",
                            "push_body", "push_publish", "pop_copy", "pop_publish"}]
    BY <1>1, CallTypes
  <2>2. TypeOK
    BY DEF RingInv
  <2> HIDE DEF p, m
  <2> QED
    BY <1>1, <1>2, <1>5, <1>6, <2>1, <2>2, Zenon DEF TypeOK, memory
<1>9. Roles'
  BY <1>7 DEF RingInv, Roles
<1>10. PushInv'
  BY <1>1, <1>2, <1>6, <1>7, KeepPush
<1>11. PopInv'
  <2>1. Size(m) = Gap(write_sequence[m], read_sequence[m]) /\ Size(m) \in Nat
        /\ write_sequence[m] \in SequenceNumber /\ read_sequence[m] \in SequenceNumber
    BY <1>3, SizeFacts DEF RingInv
  <2>2. Size(m) > 0
    <3> DEFINE w == write_sequence[m]
               o == read_sequence[m]
    <3>1. w # o /\ SequenceMod \in Nat /\ w \in SequenceNumber /\ o \in SequenceNumber
      BY <1>2, <2>1, RingAssumption DEF Empty
    <3>2. Size(m) = (IF o <= w THEN w - o ELSE w + SequenceMod - o)
      BY <2>1, GapIs, Zenon
    <3> HIDE DEF w, o, m
    <3> QED
      BY <3>1, <3>2 DEF SequenceNumber
  <2> QED
    BY <1>1, <1>2, <1>5, <1>6, <1>7, <2>2 DEF PopInv, memory
<1> QED
  BY <1>1, <1>4, <1>5, <1>8, <1>9, <1>10, <1>11 DEF RingInv

\* The release store of try_pop removes the oldest entry.
LEMMA TakenSize ==
  ASSUME RingInv, Popping, UNCHANGED <<write_sequence, mapped>>,
         read_sequence' = [read_sequence EXCEPT ![mapped["consumer"]] = Advance(local["consumer"])]
  PROVE  /\ mapped["consumer"] \in Ring
         /\ read_sequence' \in [Ring -> 0 .. SequenceMod - 1]
         /\ Size(mapped["consumer"])' = Size(mapped["consumer"]) - 1
         /\ Size(mapped["consumer"]) \in Nat /\ Size(mapped["consumer"]) > 0
         /\ \A r \in Ring \ {mapped["consumer"]} :
              Size(r)' = Size(r) /\ read_sequence'[r] = read_sequence[r]
         /\ \A k \in Nat : Index(read_sequence'[mapped["consumer"]] + k)
                             = Index(read_sequence[mapped["consumer"]] + (k + 1))
<1> DEFINE m == mapped["consumer"]
           w == write_sequence[m]
           o == read_sequence[m]
<1>1. m \in Ring
  BY Ends, CallMapped DEF Popping, CallPlace
<1>2. local["consumer"] = o /\ Size(m) > 0
  BY DEF RingInv, PopInv
<1>3. Size(m) = Gap(w, o) /\ w \in SequenceNumber /\ o \in SequenceNumber /\ Size(m) \in Nat
  BY <1>1, SizeFacts DEF RingInv
<1>4. Advance(o) \in SequenceNumber /\ Gap(w, Advance(o)) = Gap(w, o) - 1
  BY <1>2, <1>3, AdvanceIs, GapPop
<1>5. read_sequence \in [Ring -> 0 .. SequenceMod - 1]
  BY Zenon DEF RingInv, TypeOK
<1>6. /\ read_sequence' \in [Ring -> 0 .. SequenceMod - 1] /\ read_sequence'[m] = Advance(o)
      /\ \A r \in Ring \ {m} : read_sequence'[r] = read_sequence[r]
  BY <1>1, <1>2, <1>4, <1>5 DEF SequenceNumber
<1>7. Size(mapped["consumer"])' = Gap(w, Advance(o))
  BY <1>6 DEF Size, Gap
<1>8. \A r \in Ring \ {m} : Size(r)' = Size(r)
  BY <1>6 DEF Size
<1>9. \A k \in Nat : Index(Advance(o) + k) = Index(o + (k + 1))
  <2> SUFFICES ASSUME NEW k \in Nat PROVE Index(Advance(o) + k) = Index(o + (k + 1))
    OBVIOUS
  <2>1. Index(Advance(o) + k) = Index(o + 1 + k)
    BY <1>3, IndexNext
  <2>2. o + 1 + k = o + (k + 1)
    BY <1>3, RingAssumption DEF SequenceNumber
  <2> QED
    BY <2>1, <2>2
<1> QED
  BY <1>1, <1>2, <1>3, <1>4, <1>6, <1>7, <1>8, <1>9

\* A pop, whether it hands the entry over or skips it.
LEMMA TakeStep ==
  ASSUME RingInv, Popping, Goto("consumer", "attached"),
         read_sequence' = [read_sequence EXCEPT ![mapped["consumer"]] = Advance(local["consumer"])],
         message' \in [Endpoint -> 0 .. MaxMessages + 1], message'["producer"] = message["producer"],
         received' \in Seq(Message),
         UNCHANGED <<name, made, header, write_sequence, slots, mapped, unlink, local,
                     sent, crashes, damage>>
  PROVE  RingInv'
<1> DEFINE p == "consumer"
           m == mapped[p]
<1>1. p \in Endpoint /\ Goto(p, "attached") /\ pc[p] \in CallPlace /\ "attached" \in CallPlace
  BY Ends DEF Popping, CallPlace
<1>2. UNCHANGED <<name, made, header, write_sequence, slots, mapped, unlink, local, sent, crashes, damage>>
  OBVIOUS
<1>3. /\ m \in Ring /\ read_sequence' \in [Ring -> 0 .. SequenceMod - 1]
      /\ Size(m)' = Size(m) - 1 /\ Size(m) \in Nat /\ Size(m) > 0
      /\ \A r \in Ring \ {m} : Size(r)' = Size(r) /\ read_sequence'[r] = read_sequence[r]
      /\ \A k \in Nat : Index(read_sequence'[m] + k) = Index(read_sequence[m] + (k + 1))
  BY TakenSize, Zenon
<1>4. Mappings' /\ Fresh'
  BY <1>1, <1>2, <1>3, CallFrame, Zenon
<1>5. pc'[p] = "attached" /\ pc'["producer"] = pc["producer"]
  BY <1>1, CallTypes, Ends
<1>6. \A r \in Ring : Size(r)' <= Size(r) /\ Size(r) \in Nat /\ Size(r)' \in Int /\ Size(r) <= Capacity
  <2> SUFFICES ASSUME NEW r \in Ring
               PROVE  Size(r)' <= Size(r) /\ Size(r) \in Nat /\ Size(r)' \in Int /\ Size(r) <= Capacity
    BY Zenon
  <2>1. Size(r) \in Nat /\ Size(r) <= Capacity
    BY SizeFacts DEF RingInv
  <2>2. Size(r)' = Size(r) \/ Size(r)' = Size(r) - 1
    <3>1. CASE r = m
      <4>1. Size(m)' = Size(m) - 1 /\ m' = m
        BY <1>2, <1>3
      <4> QED
        BY <3>1, <4>1
    <3>2. CASE r # m
      BY <1>3, <3>2, Zenon
    <3> QED
      BY <3>1, <3>2
  <2> DEFINE a == Size(r)
             b == Size(r)'
  <2>3. a \in Nat /\ a <= Capacity /\ (b = a \/ b = a - 1)
    BY <2>1, <2>2
  <2> HIDE DEF a, b
  <2>4. b <= a /\ a \in Nat /\ b \in Int /\ a <= Capacity
    BY <2>3
  <2> QED
    BY <2>4, Zenon DEF a, b
<1>7. TypeOK'
  <2>1. pc' \in [Endpoint -> {"out", "create_truncate", "create_header", "create_config",
                            "create_sequences", "open_validate", "attached", "push_head",
                            "push_body", "push_publish", "pop_copy", "pop_publish"}]
    BY <1>1, CallTypes
  <2>2. \A r \in Ring : Size(r)' <= Capacity
    BY <1>6, RingAssumption
  <2>3. TypeOK
    BY DEF RingInv
  <2> QED
    BY <1>2, <1>3, <2>1, <2>2, <2>3, Zenon DEF TypeOK
<1>8. Roles' /\ PopInv'
  BY <1>5 DEF RingInv, Roles, PopInv, Popping
<1>9. PushInv'
  <2>1. ASSUME Pushing PROVE Size(mapped["producer"])' < Capacity
    <3>1. mapped["producer"] \in Ring /\ Size(mapped["producer"]) < Capacity
      BY <2>1, Ends, CallMapped, Zenon DEF Pushing, CallPlace, RingInv, PushInv
    <3> QED
      BY <1>2, <1>6, <3>1, RingAssumption
  <2> QED
    BY <1>2, <1>5, <2>1, Zenon DEF RingInv, PushInv, Pushing, WriteSlot
<1>10. Published'
  <2> SUFFICES ASSUME NEW r \in Ring, NEW k \in 0 .. (Size(r)' - 1)
               PROVE  slots[r][Index(read_sequence'[r] + k)].head \in Message
    BY <1>2, Zenon DEF Published
  <2>1. CASE r # m
    BY <1>3, <2>1, Zenon DEF RingInv, Published
  <2>2. CASE r = m
    <3>1. k \in Nat /\ k + 1 \in 0 .. (Size(m) - 1)
      BY <1>2, <1>3, <2>2
    <3>2. slots[m][Index(read_sequence[m] + (k + 1))].head \in Message
      BY <1>3, <3>1, Zenon DEF RingInv, Published
    <3> QED
      BY <1>3, <2>2, <3>1, <3>2, Zenon
  <2> QED
    BY <2>1, <2>2, Zenon
<1> QED
  BY <1>4, <1>7, <1>8, <1>9, <1>10 DEF RingInv

\* The release store of read_sequence gives up an entry that was copied.
LEMMA PopPublishStep ==
  ASSUME RingInv, PopPublish PROVE RingInv'
<1>1. Popping /\ message["consumer"] \in Message
  BY DEF PopPublish, Popping, RingInv, PopInv
<1>2. None \in 0 .. MaxMessages + 1
  BY RingAssumption DEF None
<1>3. message' \in [Endpoint -> 0 .. MaxMessages + 1] /\ message'["producer"] = message["producer"]
  BY <1>2, Ends DEF PopPublish, RingInv, TypeOK
<1>4. received' \in Seq(Message)
  BY <1>1 DEF PopPublish, RingInv, TypeOK
<1> QED
  BY <1>1, <1>3, <1>4, TakeStep DEF PopPublish

\* The head of the entry a pop looks at was written by a push.
LEMMA OldestWritten ==
  ASSUME RingInv, Popping PROVE ReadSlot.head \in Message /\ ReadSlot \in Slot
<1> DEFINE m == mapped["consumer"]
<1>1. m \in Ring
  BY Ends, CallMapped DEF Popping, CallPlace
<1>2. local["consumer"] = read_sequence[m] /\ Size(m) > 0
  BY DEF RingInv, PopInv
<1>3. Size(m) \in Nat /\ read_sequence[m] \in Nat
  BY <1>1, SizeNat
<1>4. 0 \in 0 .. (Size(m) - 1) /\ read_sequence[m] + 0 = read_sequence[m]
  BY <1>2, <1>3
<1>5. slots[m][Index(read_sequence[m] + 0)].head \in Message
  BY <1>1, <1>4 DEF RingInv, Published
<1>6. slots \in [Ring -> [0 .. Capacity - 1 -> Slot]]
  BY DEF RingInv, TypeOK
<1>7. Index(read_sequence[m]) \in 0 .. (Capacity - 1)
  BY <1>3, IndexRange
<1>8. slots[m] \in [0 .. Capacity - 1 -> Slot]
  BY <1>1, <1>6
<1> QED
  BY <1>2, <1>4, <1>5, <1>7, <1>8, Zenon DEF ReadSlot

\* The entry is copied, skipped when it is damaged, or left when it does not fit.
LEMMA PopCopyStep ==
  ASSUME RingInv, PopCopy PROVE RingInv' /\ Popping
<1> DEFINE p == "consumer"
<1>1. Popping /\ p \in Endpoint /\ pc[p] = "pop_copy" /\ pc[p] \in CallPlace
  BY Ends, Zenon DEF PopCopy, Popping, CallPlace
<1>2. UNCHANGED <<name, made, header, write_sequence, slots, mapped, unlink, local,
                  sent, received, crashes, damage>>
  BY Zenon DEF PopCopy
<1>3. \/ /\ Goto(p, "attached") /\ UNCHANGED <<read_sequence, message>>
      \/ /\ SkipEntry(p) /\ Goto(p, "attached") /\ UNCHANGED message
      \/ /\ ReadSlot.head = ReadSlot.body
         /\ message' = [message EXCEPT ![p] = ReadSlot.body]
         /\ Goto(p, "pop_publish") /\ UNCHANGED read_sequence
  BY DEF PopCopy, ReadSlot
<1>4. CASE SkipEntry(p) /\ Goto(p, "attached") /\ UNCHANGED message
  <2>1. message' \in [Endpoint -> 0 .. MaxMessages + 1] /\ message'["producer"] = message["producer"]
        /\ received' \in Seq(Message)
    BY <1>2, <1>4 DEF RingInv, TypeOK
  <2> QED
    BY <1>1, <1>2, <1>4, <2>1, TakeStep DEF SkipEntry
<1>5. ASSUME NEW place \in {"attached", "pop_publish"}, Goto(p, place), UNCHANGED read_sequence,
             message' \in [Endpoint -> 0 .. MaxMessages + 1], message'["producer"] = message["producer"],
             place = "pop_publish" => message'[p] \in Message /\ Entry(ReadSlot) = message'[p]
      PROVE  RingInv'
  <2>1. UNCHANGED memory /\ place \in CallPlace
    BY <1>2, <1>5, Zenon DEF memory, CallPlace
  <2>2. Mappings' /\ Fresh'
    BY <1>1, <1>2, <1>5, <2>1, CallFrame
  <2>3. Published' /\ \A r : Size(r)' = Size(r)
    BY <2>1, KeepMemory
  <2>4. pc'[p] = place /\ pc'["producer"] = pc["producer"]
    BY <1>1, <1>5, <2>1, CallTypes, Ends, Zenon
  <2>5. TypeOK'
    <3>1. pc' \in [Endpoint -> {"out", "create_truncate", "create_header", "create_config",
                            "create_sequences", "open_validate", "attached", "push_head",
                            "push_body", "push_publish", "pop_copy", "pop_publish"}]
      BY <1>1, <1>5, <2>1, CallTypes
    <3>2. TypeOK
      BY DEF RingInv
    <3> QED
      BY <1>2, <1>5, <2>3, <3>1, <3>2 DEF TypeOK
  <2>6. Roles'
    BY <2>4, <1>5 DEF RingInv, Roles
  <2>7. PushInv'
    BY <1>2, <1>5, <2>1, <2>4, KeepPush, Zenon
  <2>8. PopInv'
    <3>1. local[p] = read_sequence[mapped[p]] /\ Size(mapped[p]) > 0
      BY <1>1, Zenon DEF RingInv, PopInv
    <3>2. ReadSlot' = ReadSlot
      BY <1>2 DEF ReadSlot
    <3> QED
      BY <1>2, <1>5, <2>3, <2>4, <3>1, <3>2 DEF PopInv, Entry
  <2> QED
    BY <2>2, <2>3, <2>5, <2>6, <2>7, <2>8 DEF RingInv
<1>6. CASE Goto(p, "attached") /\ UNCHANGED <<read_sequence, message>>
  <2>1. message' \in [Endpoint -> 0 .. MaxMessages + 1] /\ message'["producer"] = message["producer"]
    BY <1>6 DEF RingInv, TypeOK
  <2> QED
    BY <1>1, <1>5, <1>6, <2>1
<1>7. CASE /\ ReadSlot.head = ReadSlot.body
           /\ message' = [message EXCEPT ![p] = ReadSlot.body]
           /\ Goto(p, "pop_publish") /\ UNCHANGED read_sequence
  <2>1. ReadSlot.body \in Message /\ Entry(ReadSlot) = ReadSlot.body
    BY <1>1, <1>7, OldestWritten DEF Entry
  <2>2. ReadSlot.body \in 0 .. MaxMessages + 1
    BY <2>1, RingAssumption DEF Message
  <2>3. /\ message' \in [Endpoint -> 0 .. MaxMessages + 1] /\ message'["producer"] = message["producer"]
        /\ message'[p] = ReadSlot.body
    BY <1>1, <1>7, <2>2, Ends, Zenon DEF RingInv, TypeOK
  <2> QED
    BY <1>1, <1>5, <1>7, <2>1, <2>3
<1> QED
  BY <1>1, <1>3, <1>4, <1>6, <1>7

\* Writing one slot of one mapping.
LEMMA OneSlot ==
  ASSUME NEW I, NEW S, NEW f \in [Ring -> [I -> S]], NEW r \in Ring, NEW i \in I, NEW v \in S,
         NEW g, g = [f EXCEPT ![r][i] = v]
  PROVE  /\ g \in [Ring -> [I -> S]] /\ g[r][i] = v
         /\ \A q \in Ring : \A j \in I : ~(q = r /\ j = i) => g[q][j] = f[q][j]
<1>1. f[r] \in [I -> S]
  OBVIOUS
<1>2. g = [f EXCEPT ![r] = [f[r] EXCEPT ![i] = v]]
  OBVIOUS
<1> DEFINE h == [f[r] EXCEPT ![i] = v]
<1>3. h \in [I -> S] /\ h[i] = v /\ \A j \in I : j # i => h[j] = f[r][j]
  BY <1>1
<1>4. g = [f EXCEPT ![r] = h]
  BY <1>2
<1> HIDE DEF h
<1>5. g \in [Ring -> [I -> S]] /\ g[r] = h /\ \A q \in Ring : q # r => g[q] = f[q]
  BY <1>3, <1>4
<1> QED
  BY <1>3, <1>5

\* Damage changes the payload of one published entry and nothing else.
LEMMA DamagedSlot ==
  ASSUME RingInv, NEW r \in Ring, NEW i \in Live(r),
         slots' = [slots EXCEPT ![r][i].body = Damaged]
  PROVE  /\ i \in 0 .. (Capacity - 1)
         /\ slots' \in [Ring -> [0 .. Capacity - 1 -> Slot]]
         /\ \A q \in Ring : \A j \in 0 .. (Capacity - 1) :
              /\ slots'[q][j].head = slots[q][j].head
              /\ q = r /\ j = i => slots'[q][j].body = Damaged
              /\ ~(q = r /\ j = i) => slots'[q][j] = slots[q][j]
         /\ Pushing /\ mapped["producer"] = r => Index(local["producer"]) # i
<1>1. PICK k \in 0 .. (Size(r) - 1) : i = Index(read_sequence[r] + k)
  BY DEF Live
<1>2. k \in Nat
  BY <1>1
<1>3. i \in 0 .. (Capacity - 1)
  BY <1>1, <1>2, EntryIndex DEF RingInv
<1>4. slots \in [Ring -> [0 .. Capacity - 1 -> Slot]]
  BY DEF RingInv, TypeOK
<1>5. Damaged \in 0 .. MaxMessages + 1
  BY RingAssumption DEF Damaged
<1> DEFINE v == [slots[r][i] EXCEPT !.body = Damaged]
<1>6. slots[r] \in [0 .. Capacity - 1 -> Slot]
  BY <1>4
<1>7. slots[r][i] \in Slot
  BY <1>3, <1>6, Zenon
<1>8. v \in Slot /\ v.head = slots[r][i].head /\ v.body = Damaged
  BY <1>5, <1>7 DEF Slot
<1> DEFINE g == slots'
<1>9. g = [slots EXCEPT ![r][i] = v]
  OBVIOUS
<1> HIDE DEF v, g
<1>10. /\ g \in [Ring -> [0 .. Capacity - 1 -> Slot]] /\ g[r][i] = v
       /\ \A q \in Ring : \A j \in 0 .. (Capacity - 1) : ~(q = r /\ j = i) => g[q][j] = slots[q][j]
  <2> DEFINE I == 0 .. (Capacity - 1)
  <2>1. slots \in [Ring -> [I -> Slot]] /\ i \in I /\ v \in Slot
    BY <1>3, <1>4, <1>8
  <2> HIDE DEF I
  <2>2. /\ g \in [Ring -> [I -> Slot]] /\ g[r][i] = v
        /\ \A q \in Ring : \A j \in I : ~(q = r /\ j = i) => g[q][j] = slots[q][j]
    BY <2>1, <1>9, OneSlot
  <2> QED
    BY <2>2 DEF I
<1>11. /\ slots' \in [Ring -> [0 .. Capacity - 1 -> Slot]] /\ slots'[r][i] = v
       /\ \A q \in Ring : \A j \in 0 .. (Capacity - 1) : ~(q = r /\ j = i) => slots'[q][j] = slots[q][j]
  BY <1>10, Zenon DEF g
<1>12. Pushing /\ mapped["producer"] = r => Index(local["producer"]) # i
  BY <1>1, WriteApart
<1> QED
  BY <1>3, <1>8, <1>10, <1>11, <1>12, Zenon

\* Damage to the bytes of an entry leaves everything but them alone.
LEMMA DamageStep ==
  ASSUME RingInv, NEW r \in Ring, Damage(r) PROVE RingInv'
<1>1. PICK i \in Live(r) : slots' = [slots EXCEPT ![r][i].body = Damaged]
  BY Zenon DEF Damage
<1>2. /\ i \in 0 .. (Capacity - 1)
      /\ slots' \in [Ring -> [0 .. Capacity - 1 -> Slot]]
      /\ \A q \in Ring : \A j \in 0 .. (Capacity - 1) :
           /\ slots'[q][j].head = slots[q][j].head
           /\ q = r /\ j = i => slots'[q][j].body = Damaged
           /\ ~(q = r /\ j = i) => slots'[q][j] = slots[q][j]
      /\ Pushing /\ mapped["producer"] = r => Index(local["producer"]) # i
  BY <1>1, DamagedSlot, Zenon
<1>3. /\ UNCHANGED <<name, made, header, write_sequence, read_sequence, sent, received, crashes>>
      /\ UNCHANGED <<pc, mapped, unlink, local, message>>
  BY DEF Damage, endpoints
<1>4. damage' \in 0 .. MaxDamage
  <2>1. damage \in 0 .. MaxDamage
    BY DEF RingInv, TypeOK
  <2>2. damage < MaxDamage /\ damage' = damage + 1 /\ MaxDamage \in Nat
    BY RingAssumption, Zenon DEF Damage
  <2> QED
    BY <2>1, <2>2
<1>5. \A q \in Ring : Size(q)' = Size(q)
  BY <1>3 DEF Size
<1>6. TypeOK' /\ Roles' /\ Mappings' /\ Fresh'
  <2>1. TypeOK'
    BY <1>2, <1>3, <1>4, <1>5, Zenon DEF RingInv, TypeOK
  <2>2. Roles' /\ Mappings'
    BY <1>3 DEF RingInv, Roles, Mappings
  <2>3. Fresh'
    BY <1>3 DEF RingInv, Fresh, Creating
  <2> QED
    BY <2>1, <2>2, <2>3, Zenon
<1>7. PushInv'
  <2>1. ASSUME Pushing PROVE WriteSlot' = WriteSlot /\ Size(mapped["producer"])' = Size(mapped["producer"])
    <3>1. mapped["producer"] \in Ring
      BY <2>1, Ends, CallMapped DEF Pushing, CallPlace
    <3>2. local["producer"] \in Nat
      BY Ends, RingAssumption DEF RingInv, TypeOK
    <3>3. Index(local["producer"]) \in 0 .. (Capacity - 1)
      BY <3>2, IndexRange
    <3> QED
      BY <1>2, <1>3, <1>5, <2>1, <3>1, <3>3 DEF WriteSlot
  <2> QED
    BY <1>3, <2>1, Zenon DEF RingInv, PushInv, Pushing
<1>8. PopInv'
  <2>1. ASSUME Popping
        PROVE  /\ Size(mapped["consumer"])' = Size(mapped["consumer"])
               /\ Entry(ReadSlot)' \in {Entry(ReadSlot), Damaged}
    <3>1. mapped["consumer"] \in Ring
      BY <2>1, Ends, CallMapped DEF Popping, CallPlace
    <3>2. local["consumer"] \in Nat
      BY Ends, RingAssumption DEF RingInv, TypeOK
    <3>3. Index(local["consumer"]) \in 0 .. (Capacity - 1)
      BY <3>2, IndexRange
    <3>4. ReadSlot.head \in Message
      BY <2>1, OldestWritten, Zenon
    <3>5. ReadSlot' = ReadSlot \/ (ReadSlot'.head = ReadSlot.head /\ ReadSlot'.body = Damaged)
      BY <1>2, <1>3, <3>1, <3>3, Zenon DEF ReadSlot
    <3>6. Entry(ReadSlot)' = Entry(ReadSlot')
      BY DEF Entry
    <3>7. Entry(ReadSlot') \in {Entry(ReadSlot), Damaged}
      BY <3>4, <3>5, Zenon DEF Entry
    <3> QED
      BY <1>3, <1>5, <3>1, <3>6, <3>7
  <2> QED
    BY <1>3, <2>1 DEF RingInv, PopInv, Popping
<1>9. Published'
  <2> SUFFICES ASSUME NEW q \in Ring, NEW k \in 0 .. (Size(q) - 1)
               PROVE  slots'[q][Index(read_sequence[q] + k)].head \in Message
    BY <1>3, <1>5, Zenon DEF Published
  <2>1. k \in Nat
    OBVIOUS
  <2>2. Index(read_sequence[q] + k) \in 0 .. (Capacity - 1)
    BY <2>1, EntryIndex DEF RingInv
  <2> QED
    BY <1>2, <2>2, Zenon DEF RingInv, Published
<1> QED
  BY <1>6, <1>7, <1>8, <1>9 DEF RingInv

\* The invariant holds before the first create().
LEMMA RingInit == Init => RingInv
<1> SUFFICES ASSUME Init PROVE RingInv
  OBVIOUS
<1>1. Capacity \in Nat /\ Capacity >= 2 /\ SequenceMod \in Nat /\ SequenceMod > Capacity
      /\ MaxRings \in Nat /\ MaxMessages \in Nat /\ MaxCrashes \in Nat /\ MaxDamage \in Nat
  BY RingAssumption
<1>2. 0 \in SequenceNumber
  BY <1>1 DEF SequenceNumber
<1>3. \A r \in Ring : Size(r) = 0
  <2> SUFFICES ASSUME NEW r \in Ring PROVE Size(r) = 0
    OBVIOUS
  <2>1. Size(r) = Gap(0, 0)
    BY DEF Init, Size, Gap
  <2> QED
    BY <2>1, <1>2, GapIs
<1>4. TypeOK
  <2>1. [head |-> None, body |-> None] \in Slot
    BY <1>1 DEF Slot, None
  <2>2. slots \in [Ring -> [0 .. Capacity - 1 -> Slot]]
    BY <2>1 DEF Init
  <2>3. \A r \in Ring : Size(r) <= Capacity
    BY <1>1, <1>3
  <2>4. /\ name \in Ring \cup {None} /\ made \in 0 .. MaxRings
        /\ header \in [Ring -> {"absent", "empty", "zeroed", "constructed", "valid"}]
        /\ write_sequence \in [Ring -> 0 .. SequenceMod - 1]
        /\ read_sequence \in [Ring -> 0 .. SequenceMod - 1]
    BY <1>1 DEF Init
  <2>5. /\ pc \in [Endpoint -> {"out", "create_truncate", "create_header", "create_config",
                            "create_sequences", "open_validate", "attached", "push_head",
                            "push_body", "push_publish", "pop_copy", "pop_publish"}]
        /\ mapped \in [Endpoint -> Ring \cup {None}]
        /\ unlink \in [Endpoint -> BOOLEAN]
    BY DEF Init
  <2>6. /\ local \in [Endpoint -> 0 .. SequenceMod - 1]
        /\ message \in [Endpoint -> 0 .. MaxMessages + 1]
        /\ sent \in 0 .. MaxMessages /\ crashes \in 0 .. MaxCrashes /\ damage \in 0 .. MaxDamage
    BY <1>1 DEF Init, None
  <2>7. received \in Seq(Message)
    BY DEF Init
  <2> QED
    BY <2>2, <2>3, <2>4, <2>5, <2>6, <2>7 DEF TypeOK
<1>5. Roles /\ Mappings /\ Fresh /\ PushInv /\ PopInv
  BY Ends DEF Init, Roles, Mappings, Fresh, PushInv, PopInv, Pushing, Popping, Creating, None
<1>6. Published
  BY <1>3 DEF Published
<1> QED
  BY <1>4, <1>5, <1>6 DEF RingInv

\* Every step keeps it.
LEMMA RingStep ==
  ASSUME EarlyOpen = FALSE, RingInv, [Next]_vars PROVE RingInv'
<1>1. CASE UNCHANGED vars
  <2>1. UNCHANGED <<name, made, header, write_sequence, read_sequence, slots, pc, mapped, unlink,
                    local, message, sent, received, crashes, damage>>
    BY <1>1 DEF vars, memory, endpoints
  <2> QED
    BY <2>1, Zenon DEF RingInv, TypeOK, Roles, Mappings, Fresh, PushInv, PopInv, Published, Pushing,
                Popping, WriteSlot, ReadSlot, Creating, Size
<1>2. CASE Next
  BY <1>2, SetupActions, PushStartStep, PushHeadStep, PushBodyStep, PushPublishStep,
     PopStartStep, PopCopyStep, PopPublishStep, DamageStep, Zenon DEF Next, Producer, Consumer
<1> QED
  BY <1>1, <1>2, Zenon

\* Where both processes are in one mapping, they are at different slots.
LEMMA InvSafe == ASSUME RingInv PROVE RingSafe
<1>1. ASSUME Pushing, Popping, mapped["producer"] = mapped["consumer"]
      PROVE  Index(local["producer"]) # Index(local["consumer"])
  <2>1. PICK m \in Ring : /\ m = mapped["consumer"] /\ local["consumer"] = read_sequence[m]
                          /\ Size(m) > 0
    BY <1>1, Ends, CallMapped DEF Popping, CallPlace, RingInv, PopInv
  <2>2. Size(m) \in Nat /\ read_sequence[m] \in Nat
    BY SizeNat
  <2>3. 0 \in 0 .. (Size(m) - 1) /\ read_sequence[m] + 0 = read_sequence[m]
    BY <2>1, <2>2
  <2> QED
    BY <1>1, <2>1, <2>3, WriteApart, Zenon
<1>2. SlotOwnership
  BY <1>1 DEF SlotOwnership, Pushing, Popping
<1> QED
  BY <1>2 DEF RingSafe, RingInv

\* Whatever the two processes do and wherever one of them dies, the sequences
\* stay in their width, a mapping holds at most Capacity entries, and the slot
\* try_push writes is never the one try_pop reads (shared_memory.cc keeps them
\* apart without a lock).
THEOREM RingIsSafe ==
  ASSUME EarlyOpen = FALSE PROVE Spec => []RingSafe
<1>1. Init => RingInv
  BY RingInit
<1>2. RingInv /\ [Next]_vars => RingInv'
  BY RingStep, Zenon
<1>3. RingInv => RingSafe
  BY InvSafe
<1> QED
  BY <1>1, <1>2, <1>3, PTL DEF Spec

-----------------------------------------------------------------------------
(***************************************************************************)
(* Sequences given as functions.                                           *)
(***************************************************************************)

\* A function on 1 .. n is a sequence of length n.
LEMMA FunctionSeq ==
  ASSUME NEW S, NEW n \in Nat, NEW s \in [1 .. n -> S]
  PROVE  s \in Seq(S) /\ Len(s) = n
<1>1. s \in Seq(S)
  OBVIOUS
<1>2. DOMAIN s = 1 .. n /\ DOMAIN s = 1 .. Len(s) /\ Len(s) \in Nat
  BY <1>1, SeqLen
<1> QED
  BY <1>1, <1>2

\* A sequence with one more entry at its end is an Append.
LEMMA OneMore ==
  ASSUME NEW S, NEW n \in Nat, NEW s \in [1 .. n -> S], NEW t \in [1 .. n + 1 -> S],
         \A k \in 1 .. n : t[k] = s[k]
  PROVE  t = Append(s, t[n + 1])
<1> DEFINE e == t[n + 1]
<1>1. s \in Seq(S) /\ Len(s) = n
  BY FunctionSeq
<1>2. n + 1 \in Nat /\ t \in Seq(S) /\ Len(t) = n + 1
  BY FunctionSeq
<1>3. e \in S
  BY <1>2
<1> HIDE DEF e
<1>4. /\ Append(s, e) \in Seq(S) /\ Len(Append(s, e)) = n + 1
      /\ \A i \in 1 .. n : Append(s, e)[i] = s[i]
      /\ Append(s, e)[n + 1] = e
  BY <1>1, <1>3, Appended
<1> DEFINE u == Append(s, e)
<1>5. \A i \in 1 .. (n + 1) : t[i] = u[i]
  BY <1>4 DEF e
<1>6. t = u
  <2>1. u \in Seq(S) /\ Len(u) = n + 1
    BY <1>4
  <2> HIDE DEF u
  <2> QED
    BY <1>2, <1>5, <2>1, SeqSame
<1> QED
  BY <1>6 DEF e

\* A sequence with its first entry gone is a Tail.
LEMMA OneFewer ==
  ASSUME NEW S, NEW n \in Nat, n > 0, NEW s \in [1 .. n -> S], NEW t \in [1 .. n - 1 -> S],
         \A k \in 1 .. (n - 1) : t[k] = s[k + 1]
  PROVE  s # <<>> /\ Head(s) = s[1] /\ t = Tail(s)
<1>1. s \in Seq(S) /\ Len(s) = n
  BY FunctionSeq
<1>2. n - 1 \in Nat /\ t \in Seq(S) /\ Len(t) = n - 1
  BY FunctionSeq
<1>3. s # <<>>
  BY <1>1
<1>4. /\ Tail(s) \in Seq(S) /\ Len(Tail(s)) = n - 1
      /\ \A i \in 1 .. (n - 1) : Tail(s)[i] = s[i + 1]
  BY <1>1, <1>3, HeadAndTail
<1>5. Head(s) = s[1]
  OBVIOUS
<1> DEFINE u == Tail(s)
<1>6. u \in Seq(S) /\ Len(u) = n - 1 /\ \A i \in 1 .. (n - 1) : t[i] = u[i]
  BY <1>4
<1> HIDE DEF u
<1>7. t = u
  BY <1>2, <1>6, SeqSame, Zenon
<1> QED
  BY <1>3, <1>5, <1>7 DEF u

(***************************************************************************)
(* The queue of a mapping, entry by entry.                                 *)
(***************************************************************************)
Value == 0 .. MaxMessages + 1
Copied(r) == pc["consumer"] = "pop_publish" /\ mapped["consumer"] = r
Held(r, k) == Entry(slots[r][Index(read_sequence[r] + (k - 1))])
At(r, k) == IF k = 1 /\ Copied(r) THEN message["consumer"] ELSE Held(r, k)
Queue == [r \in Ring |-> Contents(r)]

\* An entry is a message or damaged.
LEMMA HeldType ==
  ASSUME RingInv, NEW r \in Ring, NEW k \in 1 .. Size(r)
  PROVE  /\ k - 1 \in 0 .. (Size(r) - 1) /\ k - 1 \in Nat
         /\ slots[r][Index(read_sequence[r] + (k - 1))] \in Slot
         /\ Held(r, k) \in Value /\ At(r, k) \in Value
<1>1. k - 1 \in Nat /\ Size(r) \in Nat
  BY SizeFacts DEF RingInv
<1>2. Index(read_sequence[r] + (k - 1)) \in 0 .. (Capacity - 1)
  BY <1>1, EntryIndex DEF RingInv
<1>3. slots \in [Ring -> [0 .. Capacity - 1 -> Slot]]
  BY DEF RingInv, TypeOK
<1>4. slots[r] \in [0 .. Capacity - 1 -> Slot]
  BY <1>3
<1> DEFINE s == slots[r][Index(read_sequence[r] + (k - 1))]
<1>5. s \in Slot
  BY <1>2, <1>4, Zenon
<1> HIDE DEF s
<1>6. Entry(s) \in Value
  BY <1>5, RingAssumption DEF Entry, Slot, Value, Damaged
<1>7. message["consumer"] \in Value
  BY Ends DEF RingInv, TypeOK, Value
<1> QED
  BY <1>1, <1>5, <1>6, <1>7 DEF Held, At, s

\* The contents of a mapping are its entries, oldest first.
LEMMA ContentsIs ==
  ASSUME RingInv, NEW r \in Ring
  PROVE  /\ Size(r) \in Nat /\ Contents(r) \in [1 .. Size(r) -> Value]
         /\ Queue[r] = Contents(r)
         /\ \A k \in 1 .. Size(r) : Contents(r)[k] = At(r, k)
<1>1. Size(r) \in Nat /\ read_sequence[r] \in Nat
  BY SizeNat
<1>2. \A k \in 1 .. Size(r) : read_sequence[r] + k - 1 = read_sequence[r] + (k - 1)
  BY <1>1
<1>3. Contents(r) = [k \in 1 .. Size(r) |-> At(r, k)]
  BY <1>2 DEF Contents, At, Held, Copied
<1>4. \A k \in 1 .. Size(r) : At(r, k) \in Value
  BY HeldType
<1> QED
  BY <1>1, <1>3, <1>4 DEF Queue

QueueFacts(r) ==
  /\ Size(r) \in Nat /\ Contents(r) \in [1 .. Size(r) -> Value]
  /\ Queue[r] = Contents(r)
  /\ \A k \in 1 .. Size(r) : Contents(r)[k] = At(r, k)

\* The same after a step.
LEMMA ContentsNext ==
  ASSUME NEW r \in Ring
  PROVE  RingInv' => QueueFacts(r)'
<1>1. RingInv => QueueFacts(r)
  BY ContentsIs DEF QueueFacts
<1> QED
  BY <1>1, PTL

\* Equal entries make equal queues.
LEMMA SameContents ==
  ASSUME RingInv, RingInv', NEW r \in Ring, Size(r)' = Size(r),
         \A k \in 1 .. Size(r) : At(r, k)' = At(r, k)
  PROVE  Contents(r)' = Contents(r)
<1> DEFINE s == Contents(r)
           t == Contents(r)'
           n == Size(r)
<1>1. s \in [1 .. n -> Value] /\ \A k \in 1 .. n : s[k] = At(r, k)
  BY ContentsIs
<1>2. Value' = Value
  BY DEF Value
<1>3. t \in [1 .. Size(r)' -> Value] /\ \A k \in 1 .. Size(r)' : t[k] = At(r, k)'
  BY <1>2, ContentsNext DEF QueueFacts
<1>4. t \in [1 .. n -> Value] /\ \A k \in 1 .. n : t[k] = s[k]
  BY <1>1, <1>3
<1> HIDE DEF s, t, n
<1>5. s = t
  <2>1. s = [k \in 1 .. n |-> s[k]] /\ t = [k \in 1 .. n |-> t[k]]
    BY <1>1, <1>4
  <2>2. [k \in 1 .. n |-> s[k]] = [k \in 1 .. n |-> t[k]]
    BY <1>4
  <2> QED
    BY <2>1, <2>2
<1> QED
  BY <1>5 DEF s, t

\* Queues whose entries stay are the same.
LEMMA SameQueue ==
  ASSUME RingInv, RingInv', \A r \in Ring : Size(r)' = Size(r),
         \A r \in Ring : \A k \in 1 .. Size(r) : At(r, k)' = At(r, k)
  PROVE  Queue' = Queue
BY SameContents DEF Queue

\* A queue that changed alone.
LEMMA OneQueue ==
  ASSUME RingInv, RingInv', NEW m \in Ring,
         \A r \in Ring \ {m} : Size(r)' = Size(r),
         \A r \in Ring \ {m} : \A k \in 1 .. Size(r) : At(r, k)' = At(r, k)
  PROVE  Queue' = [Queue EXCEPT ![m] = Contents(m)']
<1>1. \A r \in Ring \ {m} : Contents(r)' = Contents(r)
  BY SameContents
<1> QED
  BY <1>1, Zenon DEF Queue

(***************************************************************************)
(* Steps of the abstract queue.                                            *)
(***************************************************************************)
FifoStep == [Fifo!Next]_(Fifo!vars)

\* A step that changes no queue and hands nothing over is a stutter.
LEMMA Stutters ==
  ASSUME Queue' = Queue, UNCHANGED received PROVE FifoStep
BY DEF FifoStep, Fifo!vars, Queue

\* The entries of a mapping that has no copied entry, or keeps it.
LEMMA SetupFifo ==
  ASSUME RingInv, RingInv', UNCHANGED <<memory, received>>,
         \/ pc'["consumer"] # "pop_publish"
         \/ /\ pc'["consumer"] = pc["consumer"] /\ mapped'["consumer"] = mapped["consumer"]
            /\ message'["consumer"] = message["consumer"]
  PROVE  FifoStep
<1>1. \A r \in Ring : Size(r)' = Size(r)
  BY DEF Size, memory
<1>2. \A r \in Ring : \A k : Held(r, k)' = Held(r, k)
  BY Zenon DEF Held, Entry, memory
<1>3. CASE /\ pc'["consumer"] = pc["consumer"] /\ mapped'["consumer"] = mapped["consumer"]
           /\ message'["consumer"] = message["consumer"]
  <2>1. \A r \in Ring : \A k \in 1 .. Size(r) : At(r, k)' = At(r, k)
    BY <1>2, <1>3, Zenon DEF At, Copied
  <2> QED
    BY <1>1, <2>1, SameQueue, Stutters, Zenon
<1>4. CASE pc["consumer"] # "pop_publish" /\ pc'["consumer"] # "pop_publish"
  <2>1. \A r \in Ring : \A k \in 1 .. Size(r) : At(r, k)' = At(r, k)
    BY <1>2, <1>4 DEF At, Copied
  <2> QED
    BY <1>1, <2>1, SameQueue, Stutters
<1>5. CASE pc["consumer"] = "pop_publish" /\ pc'["consumer"] # "pop_publish"
  <2> DEFINE m == mapped["consumer"]
  <2>1. Popping /\ m \in Ring /\ local["consumer"] = read_sequence[m] /\ Size(m) > 0
    BY <1>5, Ends, CallMapped DEF Popping, CallPlace, RingInv, PopInv
  <2>2. Size(m) \in Nat /\ read_sequence[m] \in Nat
    BY <2>1, SizeNat
  <2>3. 1 \in 1 .. Size(m) /\ read_sequence[m] + (1 - 1) = read_sequence[m]
    BY <2>1, <2>2
  <2>4. Held(m, 1) \in {message["consumer"], Damaged}
    BY <1>5, <2>1, <2>3, ZenonT(40) DEF RingInv, PopInv, Held, ReadSlot
  <2>5. \A r \in Ring : \A k \in 1 .. Size(r) : ~(r = m /\ k = 1) => At(r, k)' = At(r, k)
    BY <1>2, <1>5, Zenon DEF At, Copied
  <2>6. At(m, 1) = message["consumer"]
    BY <1>5 DEF At, Copied
  <2>7. ASSUME NEW r \in Ring, r = m PROVE At(r, 1)' = Held(m, 1)
    BY <1>2, <1>5, <2>7, Zenon DEF At, Copied
  <2>8. CASE Held(m, 1) = message["consumer"]
    <3>1. \A r \in Ring : \A k \in 1 .. Size(r) : At(r, k)' = At(r, k)
      BY <2>5, <2>6, <2>7, <2>8, Zenon
    <3> QED
      BY <1>1, <3>1, SameQueue, Stutters
  <2>9. CASE Held(m, 1) = Damaged
    <3>1. PICK r \in Ring : r = m
      BY <2>1
    <3>2. Queue' = [Queue EXCEPT ![r] = Contents(r)']
      BY <1>1, <2>5, <3>1, OneQueue
    <3>3. Contents(r)' = [Contents(r) EXCEPT ![1] = Damaged]
      <4> DEFINE s == Contents(r)
                 t == Contents(r)'
                 n == Size(r)
      <4>1. s \in [1 .. n -> Value] /\ \A k \in 1 .. n : s[k] = At(r, k)
        BY ContentsIs
      <4>2. Value' = Value
        BY DEF Value
      <4>3. t \in [1 .. n -> Value] /\ \A k \in 1 .. n : t[k] = At(r, k)'
        BY <1>1, <4>2, ContentsNext, Zenon DEF QueueFacts
      <4>4. 1 \in 1 .. n /\ t[1] = Damaged /\ \A k \in 1 .. n : k # 1 => t[k] = s[k]
        BY <2>3, <2>5, <2>7, <2>9, <3>1, <4>1, <4>3
      <4> HIDE DEF s, t, n
      <4>5. t = [k \in 1 .. n |-> t[k]] /\ [s EXCEPT ![1] = Damaged] = [k \in 1 .. n |-> t[k]]
        BY <4>1, <4>3, <4>4, Zenon
      <4> QED
        BY <4>5, Zenon DEF s, t
    <3>4. Queue[r] = Contents(r) /\ 1 \in DOMAIN Contents(r)
      BY <2>3, <3>1, ContentsIs
    <3>5. Queue' = [Queue EXCEPT ![r][1] = Damaged]
      BY <3>2, <3>3, <3>4, Zenon
    <3>6. Fifo!Damage(r, 1)
      BY <3>5 DEF Fifo!Damage, Queue
    <3>7. 1 \in DOMAIN [q \in Ring |-> Contents(q)][r]
      BY <3>4 DEF Queue
    <3> QED
      BY <3>6, <3>7 DEF FifoStep, Fifo!Next
  <2> QED
    BY <2>4, <2>8, <2>9, Zenon
<1> QED
  BY <1>3, <1>4, <1>5

\* The consumer's copy survives whatever the producer does.
ConsumerStays ==
  /\ pc'["consumer"] = pc["consumer"] /\ mapped'["consumer"] = mapped["consumer"]
  /\ message'["consumer"] = message["consumer"]

\* Writing a slot that is not published changes no queue:
LEMMA FillFifo ==
  ASSUME RingInv, RingInv', Pushing, NEW v \in Slot, UNCHANGED <<write_sequence, read_sequence, received>>,
         slots' = [slots EXCEPT ![mapped["producer"]][Index(local["producer"])] = v],
         ConsumerStays
  PROVE  FifoStep
<1>1. \A r \in Ring : Size(r)' = Size(r)
  BY FillSlot, Zenon
<1>2. \A r \in Ring : \A k \in 0 .. (Size(r) - 1) :
        slots'[r][Index(read_sequence[r] + k)] = slots[r][Index(read_sequence[r] + k)]
  BY FillSlot, Zenon
<1>3. ASSUME NEW r \in Ring, NEW k \in 1 .. Size(r) PROVE At(r, k)' = At(r, k)
  <2>1. k - 1 \in 0 .. (Size(r) - 1)
    BY HeldType, Zenon
  <2>2. Held(r, k)' = Held(r, k)
    BY <1>2, <2>1 DEF Held, Entry
  <2> QED
    BY <2>2 DEF At, Copied, ConsumerStays
<1> QED
  BY <1>1, <1>3, SameQueue, Stutters

\* neither does the first half of an entry,
LEMMA PushHeadFifo ==
  ASSUME RingInv, RingInv', PushHead PROVE FifoStep
<1> DEFINE v == [WriteSlot EXCEPT !.head = message["producer"]]
<1>1. Pushing /\ ConsumerStays
  BY Ends DEF PushHead, Pushing, ConsumerStays, Goto, RingInv, TypeOK
<1>2. v \in Slot
  BY <1>1, FieldWrite
<1>3. slots' = [slots EXCEPT ![mapped["producer"]][Index(local["producer"])] = v]
  BY DEF PushHead, WriteSlot
<1> HIDE DEF v
<1> QED
  BY <1>1, <1>2, <1>3, FillFifo, Zenon DEF PushHead

\* nor the second.
LEMMA PushBodyFifo ==
  ASSUME RingInv, RingInv', PushBody PROVE FifoStep
<1> DEFINE v == [WriteSlot EXCEPT !.body = message["producer"]]
<1>1. Pushing /\ ConsumerStays
  BY Ends DEF PushBody, Pushing, ConsumerStays, Goto, RingInv, TypeOK
<1>2. v \in Slot
  BY <1>1, FieldWrite
<1>3. slots' = [slots EXCEPT ![mapped["producer"]][Index(local["producer"])] = v]
  BY DEF PushBody, WriteSlot
<1> HIDE DEF v
<1> QED
  BY <1>1, <1>2, <1>3, FillFifo, Zenon DEF PushBody

\* The release store of write_sequence is the abstract Push.
LEMMA PushPublishFifo ==
  ASSUME RingInv, RingInv', PushPublish PROVE FifoStep
<1> DEFINE p == "producer"
<1>1. Pushing /\ ConsumerStays
  BY Ends DEF PushPublish, Pushing, ConsumerStays, Goto, RingInv, TypeOK
<1>2. /\ write_sequence' = [write_sequence EXCEPT ![mapped[p]] = Advance(local[p])]
      /\ UNCHANGED <<read_sequence, slots, mapped, received>>
  BY Zenon DEF PushPublish
<1>3. PICK m \in Ring : m = mapped[p]
  BY <1>1, <1>2, SentSize, ZenonT(40)
<1>4. /\ Size(m)' = Size(m) + 1 /\ Size(m) \in Nat /\ Size(m) < Capacity
      /\ \A r \in Ring \ {m} : Size(r)' = Size(r)
      /\ Index(read_sequence[m] + Size(m)) = Index(local[p])
  BY <1>1, <1>2, <1>3, SentSize, Zenon
<1>5. \A r \in Ring : \A k : At(r, k)' = At(r, k)
  <2>1. \A r \in Ring : \A k : Held(r, k)' = Held(r, k)
    BY <1>2 DEF Held, Entry
  <2> QED
    BY <1>1, <2>1, Zenon DEF At, Copied, ConsumerStays
<1>6. Queue' = [Queue EXCEPT ![m] = Contents(m)']
  BY <1>4, <1>5, OneQueue, Zenon
<1>7. At(m, Size(m) + 1) = message[p] /\ message[p] \in Message
  <2>1. WriteSlot.head = message[p] /\ WriteSlot.body = message[p] /\ message[p] \in Message
    BY <1>1 DEF RingInv, PushInv, PushPublish
  <2>2. (Size(m) + 1) - 1 = Size(m)
    BY <1>4
  <2>3. Held(m, Size(m) + 1) = message[p]
    BY <1>3, <1>4, <2>1, <2>2 DEF Held, Entry, WriteSlot
  <2>4. ASSUME Copied(m) PROVE Size(m) + 1 # 1
    <3>1. Popping /\ mapped["consumer"] = m
      BY <2>4, Zenon DEF Copied, Popping
    <3>2. Size(m) > 0
      BY <3>1 DEF RingInv, PopInv
    <3> QED
      BY <1>4, <3>2
  <2> QED
    BY <2>1, <2>3, <2>4, Zenon DEF At
<1>8. Contents(m)' = Append(Contents(m), message[p])
  <2> DEFINE s == Contents(m)
             t == Contents(m)'
             n == Size(m)
  <2>1. s \in [1 .. n -> Value] /\ \A k \in 1 .. n : s[k] = At(m, k)
    BY ContentsIs
  <2>2. Value' = Value
    BY DEF Value
  <2>3. t \in [1 .. n + 1 -> Value] /\ \A k \in 1 .. n + 1 : t[k] = At(m, k)'
    BY <1>4, <2>2, ContentsNext, Zenon DEF QueueFacts
  <2>4. n \in Nat /\ t[n + 1] = message[p] /\ \A k \in 1 .. n : t[k] = s[k]
    BY <1>4, <1>5, <1>7, <2>1, <2>3
  <2> HIDE DEF s, t, n
  <2>5. t = Append(s, t[n + 1])
    BY <2>1, <2>3, <2>4, OneMore, Zenon
  <2> QED
    BY <2>4, <2>5, Zenon DEF s, t
<1>9. Queue[m] = Contents(m) /\ Len(Contents(m)) = Size(m)
  BY <1>4, ContentsIs, FunctionSeq
<1>10. Queue' = [Queue EXCEPT ![m] = Append(@, message[p])] /\ Len(Queue[m]) < Capacity
  BY <1>4, <1>6, <1>8, <1>9
<1>11. Fifo!Push(m, message[p])
  BY <1>2, <1>10 DEF Fifo!Push, Queue
<1> QED
  BY <1>7, <1>11, Zenon DEF FifoStep, Fifo!Next

\* The release store of read_sequence is the abstract Pop.
LEMMA TakeFifo ==
  ASSUME RingInv, RingInv', Popping, pc'["consumer"] = "attached",
         read_sequence' = [read_sequence EXCEPT ![mapped["consumer"]] = Advance(local["consumer"])],
         UNCHANGED <<write_sequence, slots, mapped>>,
         received' = IF At(mapped["consumer"], 1) = Damaged THEN received
                     ELSE Append(received, At(mapped["consumer"], 1))
  PROVE  FifoStep
<1> DEFINE p == "consumer"
<1>1. PICK m \in Ring : m = mapped[p]
  BY TakenSize, Zenon
<1>2. /\ Size(m)' = Size(m) - 1 /\ Size(m) \in Nat /\ Size(m) > 0
      /\ \A r \in Ring \ {m} : Size(r)' = Size(r) /\ read_sequence'[r] = read_sequence[r]
      /\ \A k \in Nat : Index(read_sequence'[m] + k) = Index(read_sequence[m] + (k + 1))
  BY <1>1, TakenSize
<1>3. \A r : ~Copied(r)'
  BY Zenon DEF Copied
<1>4. \A r \in Ring \ {m} : \A k \in 1 .. Size(r) : At(r, k)' = At(r, k)
  <2>1. \A r \in Ring \ {m} : \A k : Held(r, k)' = Held(r, k)
    BY <1>2, Zenon DEF Held, Entry
  <2> QED
    BY <1>1, <1>3, <2>1 DEF At, Copied
<1>5. Queue' = [Queue EXCEPT ![m] = Contents(m)']
  BY <1>2, <1>4, OneQueue, Zenon
<1>6. \A k \in 1 .. (Size(m) - 1) : At(m, k)' = At(m, k + 1)
  <2> SUFFICES ASSUME NEW k \in 1 .. (Size(m) - 1) PROVE At(m, k)' = At(m, k + 1)
    OBVIOUS
  <2>1. k - 1 \in Nat /\ (k - 1) + 1 = k /\ (k + 1) - 1 = k /\ k + 1 # 1
    OBVIOUS
  <2>2. Index(read_sequence'[m] + (k - 1)) = Index(read_sequence[m] + k)
    BY <1>2, <2>1, Zenon
  <2>3. Held(m, k)' = Held(m, k + 1)
    BY <2>1, <2>2 DEF Held, Entry
  <2> QED
    BY <1>3, <2>1, <2>3 DEF At
<1>7. Contents(m) # <<>> /\ Head(Contents(m)) = At(m, 1) /\ Contents(m)' = Tail(Contents(m))
  <2> DEFINE s == Contents(m)
             t == Contents(m)'
             n == Size(m)
  <2>1. s \in [1 .. n -> Value] /\ \A k \in 1 .. n : s[k] = At(m, k)
    BY ContentsIs
  <2>2. Value' = Value
    BY DEF Value
  <2>3. t \in [1 .. n - 1 -> Value] /\ \A k \in 1 .. n - 1 : t[k] = At(m, k)'
    BY <1>2, <2>2, ContentsNext, Zenon DEF QueueFacts
  <2>4. n \in Nat /\ n > 0 /\ s[1] = At(m, 1)
    <3>1. n \in Nat /\ n > 0
      BY <1>2
    <3>2. 1 \in 1 .. n
      BY <3>1
    <3> QED
      BY <2>1, <3>1, <3>2
  <2>5. \A k \in 1 .. (n - 1) : t[k] = s[k + 1]
    <3> SUFFICES ASSUME NEW k \in 1 .. (n - 1) PROVE t[k] = s[k + 1]
      OBVIOUS
    <3>1. k + 1 \in 1 .. n
      BY <2>4
    <3>2. s[k + 1] = At(m, k + 1)
      BY <2>1, <3>1
    <3>3. t[k] = At(m, k)' /\ At(m, k)' = At(m, k + 1)
      BY <1>6, <2>3, Zenon
    <3> QED
      BY <3>2, <3>3, Zenon
  <2> HIDE DEF s, t, n
  <2>6. s # <<>> /\ Head(s) = s[1] /\ t = Tail(s)
    BY <2>1, <2>3, <2>4, <2>5, OneFewer, Zenon
  <2> QED
    BY <2>4, <2>6, Zenon DEF s, t
<1>8. Queue[m] = Contents(m)
  BY ContentsIs
<1>9. /\ Queue[m] # <<>> /\ Queue' = [Queue EXCEPT ![m] = Tail(@)]
      /\ received' = IF Head(Queue[m]) = Damaged THEN received ELSE Append(received, Head(Queue[m]))
  BY <1>1, <1>5, <1>7, <1>8, Zenon
<1>10. Fifo!Pop(m)
  BY <1>9, Zenon DEF Fifo!Pop, Queue
<1> QED
  BY <1>10 DEF FifoStep, Fifo!Next

\* What try_pop reads is the oldest entry.
LEMMA OldestIs ==
  ASSUME RingInv, Popping, pc["consumer"] = "pop_copy"
  PROVE  At(mapped["consumer"], 1) = Entry(ReadSlot)
<1> DEFINE m == mapped["consumer"]
<1>1. m \in Ring /\ local["consumer"] = read_sequence[m]
  BY Ends, CallMapped DEF Popping, CallPlace, RingInv, PopInv
<1>2. read_sequence[m] \in Nat
  BY <1>1, SizeNat
<1>3. read_sequence[m] + (1 - 1) = read_sequence[m]
  BY <1>2
<1> QED
  BY <1>1, <1>3, Zenon DEF At, Copied, Held, ReadSlot

\* A message that was copied is handed over as the oldest entry is removed.
LEMMA PopPublishFifo ==
  ASSUME RingInv, RingInv', PopPublish PROVE FifoStep
<1>1. Popping /\ message["consumer"] \in Message /\ pc'["consumer"] = "attached"
  BY Ends DEF PopPublish, Popping, RingInv, PopInv, TypeOK, Goto
<1>2. At(mapped["consumer"], 1) = message["consumer"]
  BY DEF PopPublish, At, Copied
<1>3. message["consumer"] # Damaged
  BY <1>1, RingAssumption DEF Message, Damaged
<1> QED
  BY <1>1, <1>2, <1>3, TakeFifo, Zenon DEF PopPublish

\* Skipping a damaged entry removes it; copying one changes no queue.
LEMMA PopCopyFifo ==
  ASSUME RingInv, RingInv', PopCopy PROVE FifoStep
<1> DEFINE p == "consumer"
<1>1. Popping /\ p \in Endpoint /\ pc[p] = "pop_copy"
  BY Ends, Zenon DEF PopCopy, Popping
<1>2. UNCHANGED <<name, made, header, write_sequence, slots, mapped, unlink, local,
                  sent, received, crashes, damage>>
  BY Zenon DEF PopCopy
<1>3. \/ /\ Goto(p, "attached") /\ UNCHANGED <<read_sequence, message>>
      \/ /\ SkipEntry(p) /\ Goto(p, "attached") /\ ReadSlot.head # ReadSlot.body
      \/ /\ ReadSlot.head = ReadSlot.body
         /\ message' = [message EXCEPT ![p] = ReadSlot.body]
         /\ Goto(p, "pop_publish") /\ UNCHANGED read_sequence
  BY ZenonT(40) DEF PopCopy, ReadSlot
<1>4. \A q \in {"attached", "pop_publish"} : Goto(p, q) => pc'[p] = q
  BY <1>1 DEF Goto, RingInv, TypeOK
<1>5. CASE Goto(p, "attached") /\ UNCHANGED <<read_sequence, message>>
  <2>1. UNCHANGED <<memory, received>> /\ pc'[p] # "pop_publish"
    BY <1>2, <1>4, <1>5, Zenon DEF memory
  <2> QED
    BY <2>1, SetupFifo
<1>6. CASE SkipEntry(p) /\ Goto(p, "attached") /\ ReadSlot.head # ReadSlot.body
  <2>1. At(mapped[p], 1) = Damaged
    BY <1>1, <1>6, OldestIs DEF Entry
  <2> QED
    BY <1>1, <1>2, <1>4, <1>6, <2>1, TakeFifo, Zenon DEF SkipEntry
<1>7. CASE /\ ReadSlot.head = ReadSlot.body
           /\ message' = [message EXCEPT ![p] = ReadSlot.body]
           /\ Goto(p, "pop_publish") /\ UNCHANGED read_sequence
  <2>1. \A r \in Ring : Size(r)' = Size(r)
    BY <1>2, <1>7 DEF Size
  <2>2. At(mapped[p], 1) = ReadSlot.body
    BY <1>1, <1>7, OldestIs, Zenon DEF Entry
  <2>3. pc'[p] = "pop_publish" /\ message'[p] = ReadSlot.body
    BY <1>1, <1>4, <1>7, Zenon DEF RingInv, TypeOK
  <2>4. \A r \in Ring : \A k : Held(r, k)' = Held(r, k)
    BY <1>2, <1>7, Zenon DEF Held, Entry
  <2>5. \A r \in Ring : \A k \in 1 .. Size(r) : At(r, k)' = At(r, k)
    BY <1>1, <1>2, <2>2, <2>3, <2>4, Zenon DEF At, Copied
  <2> QED
    BY <1>2, <2>1, <2>5, SameQueue, Stutters, Zenon
<1> QED
  BY <1>3, <1>5, <1>6, <1>7, Zenon

\* Different entries are in different slots.
LEMMA EntriesApart ==
  ASSUME RingInv, NEW r \in Ring, NEW j \in 1 .. Size(r), NEW k \in 1 .. Size(r), j < k
  PROVE  Index(read_sequence[r] + (j - 1)) # Index(read_sequence[r] + (k - 1))
<1>1. Size(r) \in Nat /\ Size(r) <= Capacity /\ read_sequence[r] \in Nat /\ Capacity \in Nat /\ Capacity > 0
  BY SizeNat, RingAssumption
<1> DEFINE a == read_sequence[r] + (k - 1)
           b == read_sequence[r] + (j - 1)
           d == k - j
<1>2. a \in Nat /\ b \in Nat /\ d \in Nat /\ 0 < d /\ d < Capacity /\ a + Capacity * 0 = b + d
  BY <1>1
<1> HIDE DEF a, b, d
<1>3. a % Capacity # b % Capacity
  BY <1>1, <1>2, SameIndexApart, Zenon
<1> QED
  BY <1>3 DEF a, b, Index

\* Damage to a published entry is the abstract Damage, unless the consumer has
\* copied the entry already.
LEMMA DamageFifo ==
  ASSUME RingInv, RingInv', NEW r \in Ring, Damage(r) PROVE FifoStep
<1>1. PICK i \in Live(r) : slots' = [slots EXCEPT ![r][i].body = Damaged]
  BY Zenon DEF Damage
<1>2. PICK k0 \in 0 .. (Size(r) - 1) : i = Index(read_sequence[r] + k0)
  BY <1>1 DEF Live
<1> DEFINE k == k0 + 1
<1>3. k \in 1 .. Size(r) /\ k - 1 = k0
  <2>1. Size(r) \in Nat
    BY SizeFacts DEF RingInv
  <2> QED
    BY <1>2, <2>1
<1> HIDE DEF k
<1>4. /\ i \in 0 .. (Capacity - 1)
      /\ \A q \in Ring : \A j \in 0 .. (Capacity - 1) :
           /\ slots'[q][j].head = slots[q][j].head
           /\ q = r /\ j = i => slots'[q][j].body = Damaged
           /\ ~(q = r /\ j = i) => slots'[q][j] = slots[q][j]
  BY <1>1, DamagedSlot, Zenon
<1>5. UNCHANGED <<write_sequence, read_sequence, pc, mapped, message, received>>
  BY DEF Damage, endpoints
<1>6. \A q \in Ring : Size(q)' = Size(q)
  BY <1>5, Zenon DEF Size
<1>7. ASSUME NEW q \in Ring, NEW j \in 1 .. Size(q), ~(q = r /\ j = k)
      PROVE  Held(q, j)' = Held(q, j)
  <2>1. j - 1 \in Nat
    BY HeldType, Zenon
  <2>2. Index(read_sequence[q] + (j - 1)) \in 0 .. (Capacity - 1)
    BY <2>1, EntryIndex DEF RingInv
  <2>3. q = r => Index(read_sequence[q] + (j - 1)) # i
    <3> SUFFICES ASSUME q = r PROVE Index(read_sequence[q] + (j - 1)) # Index(read_sequence[r] + (k - 1))
      BY <1>2, <1>3
    <3>1. j # k /\ j \in Int /\ k \in Int /\ j \in 1 .. Size(r)
      BY <1>3, <1>7
    <3>2. CASE j < k
      BY <1>3, <3>1, <3>2, EntriesApart
    <3>3. CASE k < j
      BY <1>3, <3>1, <3>3, EntriesApart
    <3> QED
      BY <3>1, <3>2, <3>3
  <2>4. slots'[q][Index(read_sequence[q] + (j - 1))] = slots[q][Index(read_sequence[q] + (j - 1))]
    BY <1>4, <2>2, <2>3, Zenon
  <2> QED
    BY <1>5, <2>4, ZenonT(40) DEF Held, Entry
<1>8. Held(r, k)' = Damaged
  <2>1. slots'[r][i].body = Damaged
    BY <1>4
  <2> QED
    BY <1>2, <1>3, <1>5, <2>1, Zenon DEF Held, Entry
<1>9. \A q \in Ring : \A j \in 1 .. Size(q) : ~(q = r /\ j = k) => At(q, j)' = At(q, j)
  BY <1>5, <1>7 DEF At, Copied
<1>10. CASE k = 1 /\ Copied(r)
  <2>1. At(r, k)' = At(r, k)
    BY <1>5, <1>10 DEF At, Copied
  <2>2. \A q \in Ring : \A j \in 1 .. Size(q) : At(q, j)' = At(q, j)
    BY <1>9, <2>1
  <2> QED
    BY <1>5, <1>6, <2>2, SameQueue, Stutters, Zenon
<1>11. CASE ~(k = 1 /\ Copied(r))
  <2>1. At(r, k)' = Damaged
    BY <1>5, <1>8, <1>11, Zenon DEF At, Copied
  <2>2. Queue' = [Queue EXCEPT ![r] = Contents(r)']
    BY <1>6, <1>9, OneQueue
  <2>3. Contents(r)' = [Contents(r) EXCEPT ![k] = Damaged]
    <3> DEFINE s == Contents(r)
               t == Contents(r)'
               n == Size(r)
    <3>1. s \in [1 .. n -> Value] /\ \A j \in 1 .. n : s[j] = At(r, j)
      BY ContentsIs
    <3>2. Value' = Value
      BY Zenon DEF Value
    <3>3. t \in [1 .. n -> Value] /\ \A j \in 1 .. n : t[j] = At(r, j)'
      BY <1>6, <3>2, ContentsNext, Zenon DEF QueueFacts
    <3>4. k \in 1 .. n /\ t[k] = Damaged /\ \A j \in 1 .. n : j # k => t[j] = s[j]
      BY <1>3, <1>9, <2>1, <3>1, <3>3
    <3> HIDE DEF s, t, n
    <3>5. t = [j \in 1 .. n |-> t[j]] /\ [s EXCEPT ![k] = Damaged] = [j \in 1 .. n |-> t[j]]
      BY <3>1, <3>3, <3>4, Zenon
    <3> QED
      BY <3>5, Zenon DEF s, t
  <2>4. Queue[r] = Contents(r) /\ k \in DOMAIN Contents(r)
    BY <1>3, ContentsIs
  <2>5. Queue' = [Queue EXCEPT ![r][k] = Damaged]
    BY <2>2, <2>3, <2>4
  <2>6. Fifo!Damage(r, k)
    BY <1>5, <2>5 DEF Fifo!Damage, Queue
  <2>7. k \in DOMAIN [q \in Ring |-> Contents(q)][r]
    BY <2>4 DEF Queue
  <2> QED
    BY <2>6, <2>7 DEF FifoStep, Fifo!Next
<1> QED
  BY <1>10, <1>11

\* Before the first create() every queue is empty.
LEMMA FifoInit == Init => Fifo!Init
<1> SUFFICES ASSUME Init PROVE Fifo!Init
  OBVIOUS
<1>1. RingInv
  BY RingInit
<1>2. ASSUME NEW r \in Ring PROVE Contents(r) = <<>>
  <2>1. 0 \in SequenceNumber
    BY RingAssumption DEF SequenceNumber
  <2>2. Size(r) = Gap(0, 0)
    BY DEF Init, Size, Gap
  <2>3. Size(r) = 0
    BY <2>1, <2>2, GapIs
  <2>4. Contents(r) \in [1 .. 0 -> Value]
    BY <1>1, <2>3, ContentsIs
  <2>5. Contents(r) \in Seq(Value) /\ Len(Contents(r)) = 0
    BY <2>4, FunctionSeq
  <2> QED
    BY <2>5
<1> QED
  BY <1>2 DEF Fifo!Init, Init

\* Every step is a step of the queue or a stutter.
LEMMA FifoNext ==
  ASSUME EarlyOpen = FALSE, RingInv, RingInv', [Next]_vars PROVE FifoStep
<1>1. CASE UNCHANGED vars
  <2>1. UNCHANGED <<memory, received>> /\ UNCHANGED <<pc, mapped, message>>
    BY <1>1 DEF vars, endpoints
  <2> QED
    BY <2>1, SetupFifo
<1>2. ASSUME NEW p \in Endpoint,
         \/ Create(p) \/ CreateTruncate(p) \/ CreateFail(p) \/ CreateHeader(p)
         \/ CreateConfig(p) \/ CreateSequences(p)
         \/ Open(p) \/ OpenValidate(p) \/ Release(p) \/ Crash(p)
      PROVE FifoStep
  <2>1. UNCHANGED memory
    BY <1>2, SetupActions, Zenon
  <2>2. PICK place \in SetupPlace : pc' = [pc EXCEPT ![p] = place]
    BY <1>2, Zenon DEF Create, CreateTruncate, CreateFail, CreateHeader, CreateConfig, CreateSequences,
                Open, OpenValidate, Release, Crash, Leave, Goto, SetupPlace
  <2>3. UNCHANGED received
    BY <1>2, Zenon DEF Create, CreateTruncate, CreateFail, CreateHeader, CreateConfig, CreateSequences,
                Open, OpenValidate, Release, Crash
  <2>4. \A q \in Endpoint \ {p} : mapped'[q] = mapped[q] /\ message'[q] = message[q] /\ pc'[q] = pc[q]
    <3>1. /\ mapped = [q \in Endpoint |-> mapped[q]] /\ message = [q \in Endpoint |-> message[q]]
          /\ pc = [q \in Endpoint |-> pc[q]]
      BY Zenon DEF RingInv, TypeOK
    <3> QED
      BY <1>2, <2>2, <3>1, Zenon DEF Create, CreateTruncate, CreateFail, CreateHeader, CreateConfig, CreateSequences,
                Open, OpenValidate, Release, Crash, Leave
  <2>5. CASE p = "consumer"
    <3>1. pc'["consumer"] # "pop_publish"
      BY <2>2, <2>5, Ends DEF RingInv, TypeOK, SetupPlace
    <3> QED
      BY <2>1, <2>3, <3>1, SetupFifo, ZenonT(40)
  <2>6. CASE p # "consumer"
    <3>1. /\ pc'["consumer"] = pc["consumer"] /\ mapped'["consumer"] = mapped["consumer"]
          /\ message'["consumer"] = message["consumer"]
      BY <2>4, <2>6, Ends
    <3> QED
      BY <2>1, <2>3, <3>1, SetupFifo, Zenon
  <2> QED
    BY <2>5, <2>6
<1>3. CASE PushStart
  <2>1. UNCHANGED <<memory, received>> /\ ConsumerStays
    BY <1>3, Ends DEF PushStart, ConsumerStays, Goto, RingInv, TypeOK
  <2> QED
    BY <2>1, SetupFifo, Zenon DEF ConsumerStays
<1>4. CASE PopStart
  <2>1. UNCHANGED <<memory, received>> /\ pc'["consumer"] # "pop_publish"
    BY <1>4, Ends DEF PopStart, Goto, RingInv, TypeOK
  <2> QED
    BY <2>1, SetupFifo, Zenon
<1> QED
  BY <1>1, <1>2, <1>3, <1>4, PushHeadFifo, PushBodyFifo, PushPublishFifo, PopCopyFifo,
     PopPublishFifo, DamageFifo, Zenon DEF Next, Producer, Consumer

\* try_push and try_pop implement a bounded FIFO queue: the release store of
\* write_sequence appends one message, that of read_sequence removes the oldest,
\* and no other step of either process, nor the death of one, changes a queue.
THEOREM RingRefinesFifo ==
  ASSUME EarlyOpen = FALSE PROVE Spec => IsBoundedFifo
<1>1. Init => RingInv /\ Fifo!Init
  BY RingInit, FifoInit
<1>2. RingInv /\ [Next]_vars => RingInv'
  BY RingStep, Zenon
<1>3. RingInv /\ RingInv' /\ [Next]_vars => [Fifo!Next]_(Fifo!vars)
  BY FifoNext, Zenon DEF FifoStep
<1> QED
  BY <1>1, <1>2, <1>3, PTL DEF Spec, IsBoundedFifo, Fifo!Spec
=============================================================================
