-------------------------- MODULE RelayDaemonProofs ---------------------------
(***************************************************************************)
(* The relay daemon for every session of messages, ring capacity and       *)
(* number of workers: a request has one owner and the storage of the queue *)
(* is never lost, and a result is kept until it may go.                    *)
(*                                                                         *)
(* The proof is in four parts: what submit and pop do to the scheduler's   *)
(* record (SchedInv); what the threads of the worker pool may do           *)
(* (PoolInv); the inductive invariant RelayInv, in which every request is  *)
(* in at most one of six places; and its preservation by every step of the *)
(* client, the loop and the threads.                                       *)
(***************************************************************************)
EXTENDS RelayDaemon, FiniteSetTheorems, WellFoundedInduction, TLAPS

USE SMTT(20), ZenonT(20)

(* Sequences.                                                              *)

LEMMA SeqElement == ASSUME NEW S, NEW s \in Seq(S), NEW i \in 1..Len(s) PROVE s[i] \in S
OBVIOUS

LEMMA SeqEmpty ==
  ASSUME NEW S
  PROVE  /\ <<>> \in Seq(S) /\ Len(<<>>) = 0
         /\ \A s \in Seq(S) : s # <<>> => Len(s) \in Nat \ {0}
OBVIOUS

LEMMA SeqLen ==
  ASSUME NEW S, NEW s \in Seq(S)
  PROVE  Len(s) \in Nat /\ s \in [1..Len(s) -> S] /\ DOMAIN s = 1..Len(s)
OBVIOUS

LEMMA HeadAndTail ==
  ASSUME NEW S, NEW s \in Seq(S), s # <<>>
  PROVE  /\ Head(s) \in S /\ Tail(s) \in Seq(S) /\ Len(Tail(s)) = Len(s) - 1
         /\ \A i \in 1..Len(Tail(s)) : Tail(s)[i] = s[i + 1]
OBVIOUS

LEMMA Appended ==
  ASSUME NEW S, NEW s \in Seq(S), NEW e \in S
  PROVE  /\ Append(s, e) \in Seq(S) /\ Append(s, e) # <<>> /\ Len(Append(s, e)) = Len(s) + 1
         /\ \A i \in 1..Len(s) : Append(s, e)[i] = s[i]
         /\ Append(s, e)[Len(s) + 1] = e
OBVIOUS

(***************************************************************************)
(* The messages and the scheduler.                                         *)
(***************************************************************************)
\* The conditions that validate.
Sound == {Message(r) : r \in Good}
GoodSequences == {r.seq : r \in Good}
Word == 0..Top

Stats == [accepted : Nat, stale : Nat, unreachable : Nat, expired : Nat, evicted : Nat, full : Nat]
Heaps == SUBSET Sound
SchedRecord == [heap : Heaps, free_slots : Int, borrowed : Int, newest_generation : Int,
                stats : Stats]

\* Every slot of the storage is queued, free or lent.
Stored(s) ==
  /\ IsFiniteSet(s.heap) /\ s.free_slots \in Nat /\ s.borrowed \in {0, 1}
  /\ Cardinality(s.heap) + s.free_slots + s.borrowed = Capacity

SchedInv(s) == s \in SchedRecord /\ Stored(s)

LEMMA RequestFacts ==
  ASSUME NEW r \in Requests
  PROVE  /\ r \in RequestRecord /\ r.seq \in Sequences_
         /\ r.kind \in {"good", "incompatible", "damaged", "shutdown"}
         /\ r.seq \in Word /\ r.gen \in Word /\ r.deadline \in Word /\ r.nfe \in Word
         /\ r.kind = "good" => r.nfe # 0
<1>1. PICK script \in Scripts : \E i \in DOMAIN script : r = script[i]
  BY SMT DEF Requests
<1>2. PICK i \in DOMAIN script : r = script[i]
  BY <1>1, Zenon
<1>3. script \in Seq(RequestRecord)
  BY DaemonAssumption, Zenon
<1>4. DOMAIN script = 1..Len(script)
  BY <1>3, SeqLen, Zenon
<1>5. r \in RequestRecord
  BY <1>2, <1>3, <1>4, SeqElement, Zenon
<1>6. r.kind = "good" => r.nfe # 0
  BY DaemonAssumption, Zenon
<1>7. /\ r.kind \in {"good", "incompatible", "damaged", "shutdown"}
      /\ r.seq \in Word /\ r.gen \in Word /\ r.deadline \in Word /\ r.nfe \in Word
  BY <1>5, Zenon DEF RequestRecord, Word
<1>8. r.seq \in Sequences_
  BY Zenon DEF Sequences_
<1> QED
  BY <1>5, <1>6, <1>7, <1>8, Zenon

LEMMA WordFacts == Word \subseteq Nat /\ Top \in Nat /\ \A n \in Word : n <= Top
BY EdfAssumption DEF Word

LEMMA SoundFacts ==
  ASSUME NEW m \in Sound
  PROVE  /\ m.seq \in Word /\ m.gen \in Word /\ m.deadline \in Word /\ m.nfe \in Word
         /\ m.nfe # 0 /\ m # NoMessage /\ m.seq \in Sequences_ /\ m.seq \in GoodSequences
<1>1. PICK r \in Good : m = Message(r)
  BY Zenon DEF Sound
<1>2. r \in Requests /\ r.kind = "good"
  BY Zenon DEF Good
<1>3. m.seq = r.seq /\ m.gen = r.gen /\ m.deadline = r.deadline /\ m.nfe = r.nfe
  BY <1>1, SMT DEF Message
<1>4. NoMessage.nfe = 0
  BY DEF NoMessage
<1> QED
  BY <1>2, <1>3, <1>4, RequestFacts, Zenon DEF GoodSequences

LEMMA GoodIsSound ==
  ASSUME NEW r \in Requests, r.kind = "good"
  PROVE  Message(r) \in Sound /\ Message(r).seq = r.seq
<1>1. r \in Good
  BY Zenon DEF Good
<1>2. Message(r) \in Sound
  BY <1>1, Zenon DEF Sound
<1>3. Message(r).seq = r.seq
  BY SMT DEF Message
<1> QED
  BY <1>2, <1>3

\* Every set of naturals that is not empty has a least element.
LEMMA LeastNatural ==
  ASSUME NEW S \in SUBSET Nat, S # {}
  PROVE  \E m \in S : \A n \in S : m <= n
<1>1. PICK x \in S : \A y \in S : ~(<<y, x>> \in OpToRel(<, Nat))
  BY NatLessThanWellFounded, WFMin, Zenon
<1>2. ASSUME NEW y \in S PROVE x <= y
  <2>1. ~(<<y, x>> \in OpToRel(<, Nat))
    BY <1>1
  <2>2. ~(y < x)
    BY <2>1, Zenon DEF OpToRel
  <2> QED
    BY <2>2
<1> QED
  BY <1>2

\* The largest of a set of machine words.
LEMMA LargestWord ==
  ASSUME NEW S \in SUBSET Word, S # {}
  PROVE  \E m \in S : \A n \in S : n <= m
<1> DEFINE T == {Top - n : n \in S}
<1>1. T \in SUBSET Nat /\ T # {}
  BY WordFacts DEF Word
<1>2. PICK t \in T : \A u \in T : t <= u
  BY <1>1, LeastNatural, Zenon
<1>3. PICK m \in S : t = Top - m
  BY <1>2
<1>4. ASSUME NEW n \in S PROVE n <= m
  <2>1. Top - n \in T
    BY Zenon
  <2>2. Top - m <= Top - n
    BY <1>2, <1>3, <2>1, Zenon
  <2> QED
    BY <2>2, WordFacts
<1> QED
  BY <1>4

LEMMA KeyFacts ==
  ASSUME NEW m \in Sound PROVE deadline_key(m) \in Word
<1>1. Top \in Word
  BY EdfAssumption DEF Word
<1> QED
  BY <1>1, SoundFacts, Zenon DEF deadline_key

\* max_element finds the request to displace, and the heap its first one.
LEMMA WorstFacts ==
  ASSUME NEW Q \in SUBSET Sound, Q # {}
  PROVE  Worst(Q) \in Q
<1>1. PICK a \in Q : \A y \in Q : deadline_key(y) <= deadline_key(a)
  <2> DEFINE keys == {deadline_key(y) : y \in Q}
  <2>1. keys \in SUBSET Word /\ keys # {}
    BY KeyFacts, Zenon
  <2>2. PICK k \in keys : \A n \in keys : n <= k
    BY <2>1, LargestWord, Zenon
  <2>3. PICK a \in Q : k = deadline_key(a)
    BY Zenon
  <2> QED
    BY <2>2, <2>3, Zenon
<1> DEFINE A == {y \in Q : deadline_key(y) = deadline_key(a)}
<1>2. PICK b \in A : \A y \in A : b.gen <= y.gen
  <2> DEFINE gens == {y.gen : y \in A}
  <2>1. gens \in SUBSET Nat /\ gens # {}
    BY SoundFacts, WordFacts, Zenon
  <2>2. PICK k \in gens : \A n \in gens : k <= n
    BY <2>1, LeastNatural, Zenon
  <2>3. PICK b \in A : k = b.gen
    BY Zenon
  <2> QED
    BY <2>2, <2>3, Zenon
<1> DEFINE B == {y \in A : y.gen = b.gen}
<1>3. PICK c \in B : \A y \in B : y.seq <= c.seq
  <2> DEFINE seqs == {y.seq : y \in B}
  <2>1. seqs \in SUBSET Word /\ seqs # {}
    BY SoundFacts, Zenon
  <2>2. PICK k \in seqs : \A n \in seqs : n <= k
    BY <2>1, LargestWord, Zenon
  <2>3. PICK c \in B : k = c.seq
    BY Zenon
  <2> QED
    BY <2>2, <2>3, Zenon
<1>4. c \in Q /\ c.gen = b.gen /\ deadline_key(c) = deadline_key(a)
  BY Zenon
<1>5. ASSUME NEW y \in Q PROVE ~earlier(c, y)
  <2>1. deadline_key(y) <= deadline_key(c)
    BY <1>1, <1>4, Zenon
  <2>2. deadline_key(y) = deadline_key(c) => c.gen <= y.gen
    BY <1>2, <1>4, Zenon
  <2>3. deadline_key(y) = deadline_key(c) /\ y.gen = c.gen => y.seq <= c.seq
    BY <1>3, <1>4, Zenon
  <2>4. /\ deadline_key(y) \in Nat /\ deadline_key(c) \in Nat /\ y.gen \in Nat /\ c.gen \in Nat
        /\ y.seq \in Nat /\ c.seq \in Nat
    BY <1>4, KeyFacts, SoundFacts, WordFacts, Zenon
  <2>5. ~(deadline_key(y) > deadline_key(c)) /\ (deadline_key(y) = deadline_key(c) => ~(y.gen < c.gen))
    BY <2>1, <2>2, <2>4
  <2>6. deadline_key(y) = deadline_key(c) /\ y.gen = c.gen => ~(y.seq > c.seq)
    BY <2>3, <2>4
  <2> QED
    BY <2>5, <2>6, Zenon DEF earlier, later
<1> HIDE DEF A, B
<1>6. \E x \in Q : \A y \in Q : ~earlier(x, y)
  BY <1>4, <1>5, Zenon
<1> QED
  BY <1>6, Zenon DEF Worst

LEMMA FirstFacts ==
  ASSUME NEW Q \in SUBSET Sound, Q # {}
  PROVE  First(Q) \in Q
<1>1. PICK a \in Q : \A y \in Q : deadline_key(a) <= deadline_key(y)
  <2> DEFINE keys == {deadline_key(y) : y \in Q}
  <2>1. keys \in SUBSET Nat /\ keys # {}
    BY KeyFacts, WordFacts, Zenon
  <2>2. PICK k \in keys : \A n \in keys : k <= n
    BY <2>1, LeastNatural, Zenon
  <2>3. PICK a \in Q : k = deadline_key(a)
    BY Zenon
  <2> QED
    BY <2>2, <2>3, Zenon
<1> DEFINE A == {y \in Q : deadline_key(y) = deadline_key(a)}
<1>2. PICK b \in A : \A y \in A : y.gen <= b.gen
  <2> DEFINE gens == {y.gen : y \in A}
  <2>1. gens \in SUBSET Word /\ gens # {}
    BY SoundFacts, Zenon
  <2>2. PICK k \in gens : \A n \in gens : n <= k
    BY <2>1, LargestWord, Zenon
  <2>3. PICK b \in A : k = b.gen
    BY Zenon
  <2> QED
    BY <2>2, <2>3, Zenon
<1> DEFINE B == {y \in A : y.gen = b.gen}
<1>3. PICK c \in B : \A y \in B : c.seq <= y.seq
  <2> DEFINE seqs == {y.seq : y \in B}
  <2>1. seqs \in SUBSET Nat /\ seqs # {}
    BY SoundFacts, WordFacts, Zenon
  <2>2. PICK k \in seqs : \A n \in seqs : k <= n
    BY <2>1, LeastNatural, Zenon
  <2>3. PICK c \in B : k = c.seq
    BY Zenon
  <2> QED
    BY <2>2, <2>3, Zenon
<1>4. c \in Q /\ c.gen = b.gen /\ deadline_key(c) = deadline_key(a)
  BY Zenon
<1>5. ASSUME NEW y \in Q PROVE ~earlier(y, c)
  <2>1. deadline_key(c) <= deadline_key(y)
    BY <1>1, <1>4, Zenon
  <2>2. deadline_key(y) = deadline_key(c) => y.gen <= c.gen
    BY <1>2, <1>4, Zenon
  <2>3. deadline_key(y) = deadline_key(c) /\ y.gen = c.gen => c.seq <= y.seq
    BY <1>3, <1>4, Zenon
  <2>4. /\ deadline_key(y) \in Nat /\ deadline_key(c) \in Nat /\ y.gen \in Nat /\ c.gen \in Nat
        /\ y.seq \in Nat /\ c.seq \in Nat
    BY <1>4, KeyFacts, SoundFacts, WordFacts, Zenon
  <2>5. ~(deadline_key(c) > deadline_key(y)) /\ (deadline_key(y) = deadline_key(c) => ~(c.gen < y.gen))
    BY <2>1, <2>2, <2>4
  <2>6. deadline_key(y) = deadline_key(c) /\ y.gen = c.gen => ~(c.seq > y.seq)
    BY <2>3, <2>4
  <2> QED
    BY <2>5, <2>6, Zenon DEF earlier, later
<1> HIDE DEF A, B
<1>6. \E x \in Q : \A y \in Q : ~earlier(y, x)
  BY <1>4, <1>5, Zenon
<1> QED
  BY <1>6, Zenon DEF First

LEMMA SchedFields ==
  ASSUME NEW s \in SchedRecord
  PROVE  /\ s.heap \in Heaps /\ s.free_slots \in Int /\ s.borrowed \in Int
         /\ s.newest_generation \in Int /\ s.stats \in Stats
BY DEF SchedRecord

LEMMA StatsFacts ==
  ASSUME NEW t \in Stats, NEW n \in Nat
  PROVE  /\ [t EXCEPT !.stale = @ + n] \in Stats
         /\ [t EXCEPT !.stale = @ + 1] \in Stats
         /\ [t EXCEPT !.unreachable = @ + 1] \in Stats
         /\ [t EXCEPT !.accepted = @ + 1] \in Stats
         /\ [t EXCEPT !.evicted = @ + 1] \in Stats
         /\ [t EXCEPT !.expired = @ + 1] \in Stats
         /\ [t EXCEPT !.full = @ + 1] \in Stats
         /\ [t EXCEPT !.accepted = @ + 1, !.evicted = @ + 1] \in Stats
<1>1. /\ t.stale + n \in Nat /\ t.stale + 1 \in Nat /\ t.unreachable + 1 \in Nat
      /\ t.accepted + 1 \in Nat /\ t.evicted + 1 \in Nat /\ t.expired + 1 \in Nat
      /\ t.full + 1 \in Nat
  BY DEF Stats
<1> QED
  BY <1>1, Zenon DEF Stats

LEMMA ReleaseFacts ==
  ASSUME NEW s, SchedInv(s)
  PROVE  /\ SchedInv(release_borrowed(s)) /\ release_borrowed(s).heap = s.heap
         /\ release_borrowed(s).borrowed = 0
<1> DEFINE r == release_borrowed(s)
<1>1. s \in SchedRecord /\ Stored(s)
  BY DEF SchedInv
<1>2. s.free_slots + s.borrowed \in Int /\ 0 \in Int
  BY <1>1, SchedFields
<1>3. r \in SchedRecord
  BY <1>1, <1>2, Zenon DEF SchedRecord, release_borrowed
<1>4. r.heap = s.heap /\ r.free_slots = s.free_slots + s.borrowed /\ r.borrowed = 0
  BY <1>1 DEF SchedRecord, release_borrowed
<1>5. Cardinality(s.heap) \in Nat
  BY <1>1, FS_CardinalityType, Zenon DEF Stored
<1> HIDE DEF r
<1>6. Stored(r)
  BY <1>1, <1>4, <1>5 DEF Stored
<1> QED
  BY <1>3, <1>4, <1>6 DEF SchedInv, r

LEMMA RemoveSet ==
  ASSUME NEW S, IsFiniteSet(S), NEW T, T \subseteq S
  PROVE  IsFiniteSet(S \ T) /\ Cardinality(S \ T) = Cardinality(S) - Cardinality(T)
<1>1. S \cap T = T
  BY Zenon
<1>2. IsFiniteSet(S \ T) /\ Cardinality(S \ T) = Cardinality(S) - Cardinality(S \cap T)
  BY FS_Difference, Zenon
<1> QED
  BY <1>1, <1>2, Zenon

\* Requests that leave the queue give their slots back.
LEMMA PruneFacts ==
  ASSUME NEW s, SchedInv(s), NEW old, old \subseteq s.heap, NEW t \in SchedRecord,
         t.heap = s.heap \ old, t.free_slots = s.free_slots + Cardinality(old),
         t.borrowed = s.borrowed
  PROVE  SchedInv(t)
<1>1. IsFiniteSet(s.heap) /\ s.free_slots \in Nat /\ s.borrowed \in {0, 1}
      /\ Cardinality(s.heap) + s.free_slots + s.borrowed = Capacity
  BY Zenon DEF SchedInv, Stored
<1>3. IsFiniteSet(s.heap \ old) /\ Cardinality(s.heap \ old) = Cardinality(s.heap) - Cardinality(old)
  BY <1>1, RemoveSet, Zenon
<1>4. IsFiniteSet(old)
  BY <1>1, FS_Subset, Zenon
<1>5. Cardinality(old) \in Nat /\ Cardinality(s.heap) \in Nat
  BY <1>1, <1>4, FS_CardinalityType, Zenon
<1>6. Cardinality(t.heap) + t.free_slots + t.borrowed = Capacity /\ t.free_slots \in Nat
  BY <1>1, <1>3, <1>5
<1> QED
  BY <1>1, <1>3, <1>6, Zenon DEF SchedInv, Stored

LEMMA AdvanceFacts ==
  ASSUME NEW s, SchedInv(s), NEW generation \in Int
  PROVE  /\ SchedInv(AdvanceGeneration(s, generation))
         /\ AdvanceGeneration(s, generation).heap \subseteq s.heap
         /\ AdvanceGeneration(s, generation).borrowed = s.borrowed
<1> DEFINE old == {x \in s.heap : x.gen < generation}
           st == [s.stats EXCEPT !.stale = @ + Cardinality(old)]
           t == [s EXCEPT !.newest_generation = generation, !.heap = @ \ old,
                          !.free_slots = @ + Cardinality(old), !.stats.stale = @ + Cardinality(old)]
<1>1. CASE generation <= s.newest_generation
  BY <1>1, Zenon DEF AdvanceGeneration
<1>2. CASE ~(generation <= s.newest_generation)
  <2>1. AdvanceGeneration(s, generation) = t
    BY <1>2, Zenon DEF AdvanceGeneration
  <2>2. s \in SchedRecord /\ IsFiniteSet(s.heap)
    BY Zenon DEF SchedInv, Stored
  <2>3. old \subseteq s.heap
    BY Zenon
  <2>4. Cardinality(old) \in Nat
    BY <2>2, <2>3, FS_Subset, FS_CardinalityType, Zenon
  <2> HIDE DEF old
  <2>5. s.heap \in Heaps /\ s.free_slots \in Int /\ s.stats \in Stats
    BY <2>2, SchedFields, Zenon
  <2>6. s.heap \ old \in Heaps
    BY <2>5, Zenon DEF Heaps
  <2>7. s.free_slots + Cardinality(old) \in Int
    BY <2>4, <2>5
  <2>8. st \in Stats
    BY <2>4, <2>5, StatsFacts, Zenon
  <2>9. t \in SchedRecord
    BY <2>2, <2>6, <2>7, <2>8, Zenon DEF SchedRecord
  <2>10. /\ t.heap = s.heap \ old /\ t.free_slots = s.free_slots + Cardinality(old)
         /\ t.borrowed = s.borrowed
    BY <2>2 DEF SchedRecord
  <2> HIDE DEF t
  <2>11. SchedInv(t)
    BY <2>3, <2>9, <2>10, PruneFacts, Zenon
  <2> QED
    BY <2>1, <2>10, <2>11, Zenon
<1> QED
  BY <1>1, <1>2

\* What a call of submit may do: refuse the message, or queue it and perhaps
\* displace a queued one.
Submitted(s, m, out) ==
  /\ SchedInv(out.sched)
  /\ \/ /\ out.result \in DOMAIN rejection_code /\ out.displaced = NoMessage
        /\ out.sched.heap \subseteq s.heap
     \/ /\ out.result \notin DOMAIN rejection_code /\ out.displaced = NoMessage
        /\ out.sched.heap \subseteq s.heap \cup {m}
     \/ /\ out.result \notin DOMAIN rejection_code
        /\ out.displaced \in s.heap /\ out.displaced \notin out.sched.heap
        /\ out.sched.heap \subseteq s.heap \cup {m}

LEMMA CodeFacts == DOMAIN rejection_code = {"kStale", "kDeadlineUnreachable", "kFull"}
BY DEF rejection_code

\* A change of the counters only.
LEMMA CountFacts ==
  ASSUME NEW s, SchedInv(s), NEW st \in Stats
  PROVE  /\ SchedInv([s EXCEPT !.stats = st]) /\ [s EXCEPT !.stats = st].heap = s.heap
<1> DEFINE t == [s EXCEPT !.stats = st]
<1>1. s \in SchedRecord /\ Stored(s)
  BY DEF SchedInv
<1>2. t \in SchedRecord
  BY <1>1, Zenon DEF SchedRecord
<1>3. t.heap = s.heap /\ t.free_slots = s.free_slots /\ t.borrowed = s.borrowed
  BY <1>1 DEF SchedRecord
<1> HIDE DEF t
<1>4. Stored(t)
  BY <1>1, <1>3, Zenon DEF Stored
<1> QED
  BY <1>2, <1>3, <1>4, Zenon DEF SchedInv, t

\* A request that is queued takes a free slot: there is one while the queue
\* holds fewer than its capacity and nothing is lent.
LEMMA QueueFacts ==
  ASSUME NEW s, SchedInv(s), s.borrowed = 0, Cardinality(s.heap) < Capacity,
         NEW m \in Sound, m \notin s.heap, NEW st \in Stats
  PROVE  LET t == [s EXCEPT !.heap = @ \cup {m}, !.free_slots = @ - 1, !.stats = st]
         IN  SchedInv(t) /\ t.heap = s.heap \cup {m}
<1> DEFINE t == [s EXCEPT !.heap = @ \cup {m}, !.free_slots = @ - 1, !.stats = st]
<1>1. s \in SchedRecord /\ Stored(s)
  BY DEF SchedInv
<1>2. s.heap \cup {m} \in Heaps /\ s.free_slots - 1 \in Int
  BY <1>1, SchedFields DEF Heaps
<1>3. t \in SchedRecord
  BY <1>1, <1>2, Zenon DEF SchedRecord
<1>4. t.heap = s.heap \cup {m} /\ t.free_slots = s.free_slots - 1 /\ t.borrowed = 0
  BY <1>1 DEF SchedRecord
<1>5. IsFiniteSet(s.heap) /\ s.free_slots \in Nat
      /\ Cardinality(s.heap) + s.free_slots + s.borrowed = Capacity
  BY <1>1, Zenon DEF Stored
<1>6. /\ IsFiniteSet(s.heap \cup {m}) /\ Cardinality(s.heap \cup {m}) = Cardinality(s.heap) + 1
      /\ Cardinality(s.heap) \in Nat
  BY <1>5, FS_AddElement, FS_CardinalityType, Zenon
<1> HIDE DEF t
<1>7. /\ t.free_slots \in Nat /\ t.borrowed \in {0, 1}
      /\ Cardinality(t.heap) + t.free_slots + t.borrowed = Capacity
  BY <1>4, <1>5, <1>6, EdfAssumption
<1>8. SchedInv(t)
  BY <1>3, <1>4, <1>6, <1>7, Zenon DEF SchedInv, Stored
<1> QED
  BY <1>4, <1>8, Zenon DEF t

\* One that displaces another takes its slot.
Exchanged(s, m, x, t) == SchedInv(t) /\ t.heap = (s.heap \ {x}) \cup {m}

LEMMA DisplaceFacts ==
  ASSUME NEW s, SchedInv(s), NEW m \in Sound, m \notin s.heap, NEW x \in s.heap, NEW st \in Stats
  PROVE  Exchanged(s, m, x, [s EXCEPT !.heap = (@ \ {x}) \cup {m}, !.stats = st])
<1> DEFINE t == [s EXCEPT !.heap = (@ \ {x}) \cup {m}, !.stats = st]
           rest == s.heap \ {x}
<1>1. s \in SchedRecord /\ Stored(s)
  BY DEF SchedInv
<1>2. rest \cup {m} \in Heaps
  BY <1>1, SchedFields DEF Heaps
<1>3. t \in SchedRecord
  BY <1>1, <1>2, Zenon DEF SchedRecord
<1>4. t.heap = rest \cup {m} /\ t.free_slots = s.free_slots /\ t.borrowed = s.borrowed
  BY <1>1 DEF SchedRecord
<1>5. IsFiniteSet(s.heap)
  BY <1>1, Zenon DEF Stored
<1>6. IsFiniteSet(rest) /\ Cardinality(rest) = Cardinality(s.heap) - 1 /\ Cardinality(s.heap) \in Nat
  BY <1>5, FS_RemoveElement, FS_CardinalityType, Zenon
<1>7. m \notin rest
  BY Zenon
<1> HIDE DEF rest, t
<1>8. IsFiniteSet(rest \cup {m}) /\ Cardinality(rest \cup {m}) = Cardinality(rest) + 1
  BY <1>6, <1>7, FS_AddElement, Zenon
<1>9. Cardinality(t.heap) = Cardinality(s.heap)
  BY <1>4, <1>6, <1>8
<1>10. SchedInv(t)
  BY <1>1, <1>3, <1>4, <1>8, <1>9, Zenon DEF SchedInv, Stored
<1> QED
  BY <1>4, <1>10, Zenon DEF Exchanged, t, rest

LEMMA SubmitFacts ==
  ASSUME NEW s0, SchedInv(s0), NEW m \in Sound, m \notin s0.heap, NEW context
  PROVE  Submitted(s0, m, submit(s0, m, context))
<1> DEFINE s == release_borrowed(s0)
           t == AdvanceGeneration(s, m.gen)
           out == submit(s0, m, context)
           Is(sched1, result1, displaced1) ==
             [sched |-> sched1, result |-> result1, displaced |-> displaced1]
<1>1. SchedInv(s) /\ s.heap = s0.heap /\ s.borrowed = 0
  BY ReleaseFacts, Zenon
<1>2a. m.gen \in Nat
  BY SoundFacts, WordFacts, Zenon
<1> HIDE DEF s, out
<1>2. m.gen \in Int
  BY <1>2a
<1>3. SchedInv(t) /\ t.heap \subseteq s0.heap /\ t.borrowed = 0
  BY <1>1, <1>2, AdvanceFacts, Zenon
<1>4. s.stats \in Stats /\ t.stats \in Stats /\ t.heap \in Heaps
  BY <1>1, <1>3, SchedFields, Zenon DEF SchedInv
<1>5. m \notin t.heap
  BY <1>3, Zenon
<1> HIDE DEF t
<1>6. CASE m.gen < s.newest_generation
  <2> DEFINE u == [s EXCEPT !.stats = [s.stats EXCEPT !.stale = @ + 1]]
  <2>1. out = Is(u, "kStale", NoMessage)
    BY <1>6, Zenon DEF submit, s, out
  <2>2. SchedInv(u) /\ u.heap = s0.heap
    BY <1>1, <1>4, StatsFacts, CountFacts, Zenon
  <2> HIDE DEF u, out
  <2>3. out.sched = u /\ out.result = "kStale" /\ out.displaced = NoMessage
    BY <2>1
  <2> QED
    BY <2>2, <2>3, CodeFacts, Zenon DEF Submitted, out
<1>7. CASE ~(m.gen < s.newest_generation) /\ ~admissible(s, m, context)
  <2> DEFINE u == [s EXCEPT !.stats = [s.stats EXCEPT !.unreachable = @ + 1]]
  <2>1. out = Is(u, "kDeadlineUnreachable", NoMessage)
    BY <1>7, Zenon DEF submit, s, out
  <2>2. SchedInv(u) /\ u.heap = s0.heap
    BY <1>1, <1>4, StatsFacts, CountFacts, Zenon
  <2> HIDE DEF u, out
  <2>3. out.sched = u /\ out.result = "kDeadlineUnreachable" /\ out.displaced = NoMessage
    BY <2>1
  <2> QED
    BY <2>2, <2>3, CodeFacts, Zenon DEF Submitted, out
<1>8. CASE /\ ~(m.gen < s.newest_generation) /\ admissible(s, m, context)
           /\ Cardinality(t.heap) < Capacity
  <2> DEFINE st == [t.stats EXCEPT !.accepted = @ + 1]
             u == [t EXCEPT !.heap = @ \cup {m}, !.free_slots = @ - 1, !.stats = st]
  <2>1. out = Is(u, "kAccepted", NoMessage)
    BY <1>8, Zenon DEF submit, s, t, out
  <2>2. st \in Stats
    BY <1>4, StatsFacts, Zenon
  <2> HIDE DEF st
  <2>3. SchedInv(u) /\ u.heap = t.heap \cup {m}
    BY <1>3, <1>5, <1>8, <2>2, QueueFacts, Zenon
  <2> HIDE DEF u, out
  <2>4. out.sched = u /\ out.result = "kAccepted" /\ out.displaced = NoMessage
    BY <2>1
  <2>5. "kAccepted" \notin DOMAIN rejection_code
    BY CodeFacts
  <2> QED
    BY <1>3, <2>3, <2>4, <2>5, Zenon DEF Submitted, out
<1>9. CASE /\ ~(m.gen < s.newest_generation) /\ admissible(s, m, context)
           /\ ~(Cardinality(t.heap) < Capacity) /\ earlier(m, Worst(t.heap))
  <2> DEFINE st == [t.stats EXCEPT !.accepted = @ + 1, !.evicted = @ + 1]
             x == Worst(t.heap)
             u == [t EXCEPT !.heap = (@ \ {x}) \cup {m}, !.stats = st]
  <2>1. out = Is(u, "kAcceptedAndEvicted", x)
    BY <1>9, Zenon DEF submit, s, t, out
  <2>2. st \in Stats
    BY <1>4, StatsFacts, Zenon
  <2> HIDE DEF st
  <2>3. t.heap # {}
    <3>1. Cardinality({}) < Capacity
      BY FS_EmptySet, EdfAssumption
    <3> QED
      BY <1>9, <3>1, Zenon
  <2>4. x \in t.heap
    BY <1>4, <2>3, WorstFacts, Zenon DEF Heaps
  <2> HIDE DEF x
  <2>5a. Exchanged(t, m, x, u)
    BY <1>3, <1>5, <2>2, <2>4, DisplaceFacts, Zenon
  <2>5. SchedInv(u) /\ u.heap = (t.heap \ {x}) \cup {m}
    BY <2>5a, Zenon DEF Exchanged
  <2> HIDE DEF u, out
  <2>6. out.sched = u /\ out.result = "kAcceptedAndEvicted" /\ out.displaced = x
    BY <2>1
  <2>7. "kAcceptedAndEvicted" \notin DOMAIN rejection_code
    BY CodeFacts
  <2>8. x # m /\ x \in s0.heap /\ x \notin u.heap /\ u.heap \subseteq s0.heap \cup {m}
    BY <1>3, <1>5, <2>4, <2>5, Zenon
  <2> QED
    BY <2>5, <2>6, <2>7, <2>8, Zenon DEF Submitted, out
<1>10. CASE /\ ~(m.gen < s.newest_generation) /\ admissible(s, m, context)
            /\ ~(Cardinality(t.heap) < Capacity) /\ ~earlier(m, Worst(t.heap))
  <2> DEFINE u == [t EXCEPT !.stats = [t.stats EXCEPT !.full = @ + 1]]
  <2>1. out = Is(u, "kFull", NoMessage)
    BY <1>10, Zenon DEF submit, s, t, out
  <2>2. SchedInv(u) /\ u.heap = t.heap
    BY <1>3, <1>4, StatsFacts, CountFacts, Zenon
  <2> HIDE DEF u, out
  <2>3. out.sched = u /\ out.result = "kFull" /\ out.displaced = NoMessage
    BY <2>1
  <2> QED
    BY <1>3, <2>2, <2>3, CodeFacts, Zenon DEF Submitted, out
<1> QED
  BY <1>6, <1>7, <1>8, <1>9, <1>10, Zenon

\* What a call of pop may do: find nothing, lend a request, or report one that
\* has expired.
Popped(s, out) ==
  /\ SchedInv(out.sched) /\ out.sched.heap \subseteq s.heap
  /\ \/ out.request = NoMessage /\ out.rejection = NoMessage
     \/ out.request \in s.heap \ out.sched.heap /\ out.rejection = NoMessage
     \/ out.request = NoMessage /\ out.rejection \in s.heap \ out.sched.heap

Taken(s, m, t) == SchedInv(t) /\ t.heap = s.heap \ {m}

\* A request leaves the queue and its slot is freed, or lent to the caller.
LEMMA TakeFacts ==
  ASSUME NEW s, SchedInv(s), s.borrowed = 0, NEW m \in s.heap, NEW t \in SchedRecord,
         t.heap = s.heap \ {m},
         \/ t.free_slots = s.free_slots + 1 /\ t.borrowed = 0
         \/ t.free_slots = s.free_slots /\ t.borrowed = 1
  PROVE  Taken(s, m, t)
<1>1. IsFiniteSet(s.heap) /\ s.free_slots \in Nat
      /\ Cardinality(s.heap) + s.free_slots + s.borrowed = Capacity
  BY Zenon DEF SchedInv, Stored
<1>2. /\ IsFiniteSet(s.heap \ {m}) /\ Cardinality(s.heap \ {m}) = Cardinality(s.heap) - 1
      /\ Cardinality(s.heap) \in Nat
  BY <1>1, FS_RemoveElement, FS_CardinalityType, Zenon
<1>3. /\ t.free_slots \in Nat /\ t.borrowed \in {0, 1}
      /\ Cardinality(t.heap) + t.free_slots + t.borrowed = Capacity
  BY <1>1, <1>2
<1> QED
  BY <1>2, <1>3, Zenon DEF SchedInv, Stored, Taken

LEMMA PopFacts ==
  ASSUME NEW s0, SchedInv(s0), NEW time
  PROVE  Popped(s0, pop(s0, time))
<1> DEFINE s == release_borrowed(s0)
           live == {x \in s.heap : x.gen >= s.newest_generation}
           m == First(live)
           stale == {x \in s.heap \ live : live = {} \/ ~earlier(m, x)}
           skipped == [s EXCEPT !.heap = @ \ stale, !.free_slots = @ + Cardinality(stale),
                                !.stats.stale = @ + Cardinality(stale)]
           Is(sched1, request1, rejection1) ==
             [sched |-> sched1, request |-> request1, rejection |-> rejection1]
           out == pop(s0, time)
<1>1. SchedInv(s) /\ s.heap = s0.heap /\ s.borrowed = 0
  BY ReleaseFacts, Zenon
<1>2. s \in SchedRecord /\ IsFiniteSet(s.heap) /\ s.heap \in Heaps
  BY <1>1, SchedFields, Zenon DEF SchedInv, Stored
<1> HIDE DEF s, out
<1>3. stale \subseteq s.heap /\ live \subseteq s.heap /\ live \cap stale = {}
  BY Zenon
<1>4. live # {} => m \in live
  BY <1>2, <1>3, FirstFacts, Zenon DEF Heaps
<1>5. out = IF live = {} THEN Is(skipped, NoMessage, NoMessage)
            ELSE IF m.deadline # 0 /\ m.deadline <= time
            THEN Is([skipped EXCEPT !.heap = @ \ {m}, !.free_slots = @ + 1, !.stats.expired = @ + 1],
                    NoMessage, m)
            ELSE Is([skipped EXCEPT !.heap = @ \ {m}, !.borrowed = 1], m, NoMessage)
  BY Zenon DEF pop, out, s
<1> HIDE DEF stale, live, m
<1>6. Cardinality(stale) \in Nat
  BY <1>2, <1>3, FS_Subset, FS_CardinalityType, Zenon
<1>7. SchedInv(skipped) /\ skipped.heap = s0.heap \ stale /\ skipped.borrowed = 0
  <2> DEFINE st == [s.stats EXCEPT !.stale = @ + Cardinality(stale)]
  <2>1. s.free_slots \in Int /\ s.stats \in Stats
    BY <1>2, SchedFields, Zenon
  <2>2. st \in Stats
    BY <1>6, <2>1, StatsFacts, Zenon
  <2>3. s.heap \ stale \in Heaps
    BY <1>2, Zenon DEF Heaps
  <2>4. s.free_slots + Cardinality(stale) \in Int
    BY <1>6, <2>1
  <2>5. skipped \in SchedRecord
    BY <1>2, <2>2, <2>3, <2>4, Zenon DEF SchedRecord
  <2>6. /\ skipped.heap = s.heap \ stale /\ skipped.free_slots = s.free_slots + Cardinality(stale)
        /\ skipped.borrowed = s.borrowed
    BY <1>2 DEF SchedRecord
  <2> HIDE DEF skipped
  <2>7. SchedInv(skipped)
    BY <1>1, <1>3, <2>5, <2>6, PruneFacts, Zenon
  <2> QED
    BY <1>1, <2>6, <2>7, Zenon
<1> HIDE DEF skipped
<1>8. skipped \in SchedRecord /\ skipped.heap \in Heaps /\ skipped.free_slots \in Int
      /\ skipped.stats \in Stats
  BY <1>7, SchedFields, Zenon DEF SchedInv
<1>9. CASE live = {}
  <2>1. out = Is(skipped, NoMessage, NoMessage)
    BY <1>5, <1>9, Zenon
  <2>2. out.sched = skipped /\ out.request = NoMessage /\ out.rejection = NoMessage
    BY <2>1
  <2> QED
    BY <1>7, <2>2, Zenon DEF Popped, out
<1>10. CASE live # {}
  <2>1. m \in skipped.heap /\ m \in s0.heap
    BY <1>1, <1>3, <1>4, <1>7, <1>10, Zenon
  <2>2. skipped.heap \ {m} \in Heaps
    BY <1>8, Zenon DEF Heaps
  <2>3. CASE m.deadline # 0 /\ m.deadline <= time
    <3> DEFINE st == [skipped.stats EXCEPT !.expired = @ + 1]
               u == [skipped EXCEPT !.heap = @ \ {m}, !.free_slots = @ + 1, !.stats = st]
    <3>1. out = Is(u, NoMessage, m)
      BY <1>5, <1>10, <2>3, Zenon
    <3>2. st \in Stats
      BY <1>8, StatsFacts, Zenon
    <3>3. skipped.free_slots + 1 \in Int
      BY <1>8
    <3> HIDE DEF st
    <3>4. u \in SchedRecord
      BY <1>8, <2>2, <3>2, <3>3, Zenon DEF SchedRecord
    <3>5. /\ u.heap = skipped.heap \ {m} /\ u.free_slots = skipped.free_slots + 1
          /\ u.borrowed = skipped.borrowed
      BY <1>8 DEF SchedRecord
    <3> HIDE DEF u
    <3>6. Taken(skipped, m, u)
      BY <1>7, <2>1, <3>4, <3>5, TakeFacts, Zenon
    <3>7. out.sched = u /\ out.request = NoMessage /\ out.rejection = m
      BY <3>1
    <3>8. u.heap \subseteq s0.heap /\ m \in s0.heap \ u.heap
      BY <1>7, <2>1, <3>5, Zenon
    <3> QED
      BY <3>6, <3>7, <3>8, Zenon DEF Popped, Taken, out
  <2>4. CASE ~(m.deadline # 0 /\ m.deadline <= time)
    <3> DEFINE u == [skipped EXCEPT !.heap = @ \ {m}, !.borrowed = 1]
    <3>1. out = Is(u, m, NoMessage)
      BY <1>5, <1>10, <2>4, Zenon
    <3>2. 1 \in Int
      OBVIOUS
    <3>4. u \in SchedRecord
      BY <1>8, <2>2, <3>2, Zenon DEF SchedRecord
    <3>5. /\ u.heap = skipped.heap \ {m} /\ u.free_slots = skipped.free_slots
          /\ u.borrowed = 1
      BY <1>8 DEF SchedRecord
    <3> HIDE DEF u
    <3>6. Taken(skipped, m, u)
      BY <1>7, <2>1, <3>4, <3>5, TakeFacts, Zenon
    <3>7. out.sched = u /\ out.request = m /\ out.rejection = NoMessage
      BY <3>1
    <3>8. u.heap \subseteq s0.heap /\ m \in s0.heap \ u.heap
      BY <1>7, <2>1, <3>5, Zenon
    <3> QED
      BY <3>6, <3>7, <3>8, Zenon DEF Popped, Taken, out
  <2> QED
    BY <2>3, <2>4
<1> QED
  BY <1>9, <1>10

-----------------------------------------------------------------------------
(***************************************************************************)
(* The slots of the pool.                                                  *)
(***************************************************************************)
States == {"kIdle", "kRequested", "kRunning", "kReady"}
Verdicts == {"none", "complete", "cancelled", "failed"}
Labels == {"check", "load", "wait idle", "wait running", "wait ready", "begin", "arm", "step",
           "compute", "finish", "ready", "exit"}

\* A thread at work has taken the request of its slot, and a solve that may
\* start a step has one left.
SlotFits(at, st, left) ==
  /\ at \in {"begin", "arm", "step", "compute", "finish", "ready"} => st \in {"kRequested", "kRunning"}
  /\ at \in {"arm", "step", "compute"} => left # 0

Slots ==
  /\ state \in [Worker -> States] /\ request \in [Worker -> Sound \cup {NoMessage}]
  /\ result \in [Worker -> Verdicts] /\ remaining_nfe \in [Worker -> Nat]
  /\ tpc \in [Worker -> Labels] /\ stop_requested \in [Worker -> BOOLEAN]

Cursors ==
  ready_index \in Worker \cup {NoWorker} /\ ready_cursor \in Worker /\ dispatch_cursor \in Worker

PoolInv == Slots /\ Cursors /\ \A w \in Worker : SlotFits(tpc[w], state[w], remaining_nfe[w])

LEMMA WorkerFacts ==
  /\ Workers \in Nat \ {0} /\ Worker \subseteq Nat
  /\ \A a \in Int : a % Workers \in Worker
  /\ \A n \in Nat : n < Workers => n \in Worker
  /\ NoWorker \notin Worker
<1>1. Workers \in Nat \ {0}
  BY PoolAssumption
<1>2. \A a \in Int : a % Workers \in 0..(Workers - 1)
  BY <1>1
<1> QED
  BY <1>1, <1>2 DEF Worker, NoWorker

LEMMA CursorFacts ==
  ASSUME NEW w \in Worker PROVE Next1(w) \in Worker
<1>1. w + 1 \in Int
  BY WorkerFacts
<1> QED
  BY <1>1, WorkerFacts, Zenon DEF Next1

LEMMA SameExcept ==
  ASSUME NEW S, NEW T, NEW f \in [S -> T], NEW x \in S
  PROVE  f = [f EXCEPT ![x] = f[x]]
OBVIOUS

\* One slot moves on.
LEMMA SlotMoves ==
  ASSUME PoolInv, NEW w \in Worker, NEW at \in Labels, NEW st \in States, NEW left \in Nat,
         NEW verdict \in Verdicts, SlotFits(at, st, left),
         tpc' = [tpc EXCEPT ![w] = at], state' = [state EXCEPT ![w] = st],
         remaining_nfe' = [remaining_nfe EXCEPT ![w] = left],
         result' = [result EXCEPT ![w] = verdict], request' \in [Worker -> Sound \cup {NoMessage}],
         stop_requested' \in [Worker -> BOOLEAN], Cursors'
  PROVE  PoolInv'
<1>1. Slots /\ \A v \in Worker : SlotFits(tpc[v], state[v], remaining_nfe[v])
  BY DEF PoolInv
<1>2. Slots'
  BY <1>1, Zenon DEF Slots
<1>3. ASSUME NEW v \in Worker PROVE SlotFits(tpc'[v], state'[v], remaining_nfe'[v])
  <2>1. CASE v = w
    <3>1. tpc'[w] = at /\ state'[w] = st /\ remaining_nfe'[w] = left
      BY <1>1, Zenon DEF Slots
    <3> QED
      BY <2>1, <3>1, Zenon
  <2>2. CASE v # w
    <3>1. tpc'[v] = tpc[v] /\ state'[v] = state[v] /\ remaining_nfe'[v] = remaining_nfe[v]
      BY <1>1, <2>2, Zenon DEF Slots
    <3> QED
      BY <1>1, <3>1, Zenon
  <2> QED
    BY <2>1, <2>2
<1> QED
  BY <1>2, <1>3, Zenon DEF PoolInv

\* Nothing a thread does frees or occupies a slot or takes back a result.
ThreadKeeps ==
  /\ PoolInv'
  /\ \A v \in Worker : (state'[v] = "kIdle" <=> state[v] = "kIdle")
                       /\ (state[v] = "kReady" => state'[v] = "kReady")
  /\ UNCHANGED <<request, stop_requested>>

LEMMA ThreadMoves ==
  ASSUME PoolInv, NEW w \in Worker, NEW at \in Labels, NEW st \in States, NEW left \in Nat,
         NEW verdict \in Verdicts, SlotFits(at, st, left), ThreadOnly,
         tpc' = [tpc EXCEPT ![w] = at], state' = [state EXCEPT ![w] = st],
         remaining_nfe' = [remaining_nfe EXCEPT ![w] = left],
         result' = [result EXCEPT ![w] = verdict],
         st = state[w] \/ (state[w] \in {"kRequested", "kRunning"} /\ st # "kIdle")
  PROVE  ThreadKeeps
<1>1. Slots /\ Cursors
  BY DEF PoolInv
<1>2. UNCHANGED <<request, stop_requested, ready_index, ready_cursor, dispatch_cursor>>
  BY DEF ThreadOnly
<1>3. /\ request' \in [Worker -> Sound \cup {NoMessage}] /\ stop_requested' \in [Worker -> BOOLEAN]
      /\ Cursors'
  BY <1>1, <1>2, Zenon DEF Slots, Cursors
<1>4. PoolInv'
  BY <1>3, SlotMoves, Zenon
<1>5. ASSUME NEW v \in Worker
      PROVE  /\ state'[v] = "kIdle" <=> state[v] = "kIdle"
             /\ state[v] = "kReady" => state'[v] = "kReady"
  <2>1. CASE v = w
    <3>1. state'[w] = st
      BY <1>1, Zenon DEF Slots
    <3>2. CASE st = state[w]
      BY <2>1, <3>1, <3>2, Zenon
    <3>3. CASE state[w] \in {"kRequested", "kRunning"} /\ st # "kIdle"
      BY <2>1, <3>1, <3>3
    <3> QED
      BY <3>2, <3>3
  <2>2. CASE v # w
    BY <1>1, <2>2, Zenon DEF Slots
  <2> QED
    BY <2>1, <2>2
<1> QED
  BY <1>2, <1>4, <1>5, Zenon DEF ThreadKeeps

LEMMA SlotFields ==
  ASSUME PoolInv, NEW w \in Worker
  PROVE  /\ state[w] \in States /\ request[w] \in Sound \cup {NoMessage} /\ result[w] \in Verdicts
         /\ remaining_nfe[w] \in Nat /\ tpc[w] \in Labels /\ stop_requested[w] \in BOOLEAN
         /\ SlotFits(tpc[w], state[w], remaining_nfe[w])
BY Zenon DEF PoolInv, Slots

LEMMA Unmoved ==
  ASSUME PoolInv, NEW w \in Worker
  PROVE  /\ state = [state EXCEPT ![w] = state[w]] /\ result = [result EXCEPT ![w] = result[w]]
         /\ remaining_nfe = [remaining_nfe EXCEPT ![w] = remaining_nfe[w]]
         /\ tpc = [tpc EXCEPT ![w] = tpc[w]] /\ request = [request EXCEPT ![w] = request[w]]
BY SameExcept, Zenon DEF PoolInv, Slots

LEMMA RunSlotKeeps ==
  ASSUME PoolInv, NEW w \in Worker, run_slot(w)
  PROVE  ThreadKeeps
<1> DEFINE st == state[w]
           left == remaining_nfe[w]
           verdict == result[w]
<1>1. /\ st \in States /\ request[w] \in Sound \cup {NoMessage} /\ verdict \in Verdicts
      /\ left \in Nat /\ tpc[w] \in Labels /\ SlotFits(tpc[w], st, left)
  BY SlotFields, Zenon
<1>2. /\ state = [state EXCEPT ![w] = st] /\ result = [result EXCEPT ![w] = verdict]
      /\ remaining_nfe = [remaining_nfe EXCEPT ![w] = left]
  BY Unmoved, Zenon
<1>3. ASSUME NEW at \in Labels, ThreadOnly, UNCHANGED <<state, result, remaining_nfe>>,
             tpc' = [tpc EXCEPT ![w] = at], SlotFits(at, st, left)
      PROVE  ThreadKeeps
  <2>1. /\ state' = [state EXCEPT ![w] = st] /\ result' = [result EXCEPT ![w] = verdict]
        /\ remaining_nfe' = [remaining_nfe EXCEPT ![w] = left] /\ st = state[w]
    BY <1>2, <1>3, Zenon
  <2> HIDE DEF st, left, verdict
  <2> QED
    BY <1>1, <1>3, <2>1, ThreadMoves, Zenon
<1> HIDE DEF st, left, verdict
<1>4. CASE CheckStop(w)
  <2> DEFINE at == IF stop_requested[w] THEN "exit" ELSE "load"
  <2>1. ThreadOnly /\ UNCHANGED <<state, result, remaining_nfe>> /\ tpc' = [tpc EXCEPT ![w] = at]
    BY <1>4, Zenon DEF CheckStop, Goto
  <2>2. at \in Labels /\ SlotFits(at, st, left)
    BY DEF Labels, SlotFits
  <2> QED
    BY <1>3, <2>1, <2>2, Zenon
<1>5. CASE LoadState(w)
  <2> DEFINE at == IF st = "kRequested" THEN "begin" ELSE Waiting[st]
  <2>1. ThreadOnly /\ UNCHANGED <<state, result, remaining_nfe>> /\ tpc' = [tpc EXCEPT ![w] = at]
    BY <1>5, Zenon DEF LoadState, Goto, st
  <2>1a. Waiting.kIdle = "wait idle" /\ Waiting.kRunning = "wait running" /\ Waiting.kReady = "wait ready"
    BY DEF Waiting
  <2>1b. at \in {"begin", "wait idle", "wait running", "wait ready"} /\ (at = "begin" => st = "kRequested")
    <3>1. CASE st = "kRequested"
      BY <3>1
    <3>2. CASE st = "kIdle"
      BY <2>1a, <3>2, Zenon
    <3>3. CASE st = "kRunning"
      BY <2>1a, <3>3, Zenon
    <3>4. CASE st = "kReady"
      BY <2>1a, <3>4, Zenon
    <3> QED
      BY <1>1, <3>1, <3>2, <3>3, <3>4, Zenon DEF States
  <2> HIDE DEF at
  <2>2. at \in Labels /\ SlotFits(at, st, left)
    BY <2>1b DEF Labels, SlotFits
  <2> QED
    BY <1>3, <2>1, <2>2, Zenon
<1>6. CASE Woken(w)
  <2>1. ThreadOnly /\ UNCHANGED <<state, result, remaining_nfe>> /\ tpc' = [tpc EXCEPT ![w] = "check"]
    BY <1>6, Zenon DEF Woken, Goto
  <2>2. "check" \in Labels /\ SlotFits("check", st, left)
    BY DEF Labels, SlotFits
  <2> QED
    BY <1>3, <2>1, <2>2, Zenon
<1>7. CASE Begin(w)
  <2>1. /\ tpc[w] = "begin" /\ ThreadOnly /\ state' = [state EXCEPT ![w] = st]
        /\ result' = [result EXCEPT ![w] = "none"]
    BY <1>2, <1>7, Zenon DEF Begin
  <2>2. st \in {"kRequested", "kRunning"} /\ "none" \in Verdicts /\ "arm" \in Labels /\ "finish" \in Labels
    BY <1>1, <2>1 DEF SlotFits, Verdicts, Labels
  <2>3. CASE /\ request[w] # NoMessage /\ tpc' = [tpc EXCEPT ![w] = "arm"]
             /\ remaining_nfe' = [remaining_nfe EXCEPT ![w] = request[w].nfe]
    <3>1. request[w] \in Sound
      BY <1>1, <2>3, Zenon
    <3>2. request[w].nfe \in Nat /\ request[w].nfe # 0
      BY <3>1, SoundFacts, WordFacts, Zenon
    <3>3. SlotFits("arm", st, request[w].nfe)
      BY <2>2, <3>2, Zenon DEF SlotFits
    <3> QED
      BY <1>1, <2>1, <2>2, <2>3, <3>2, <3>3, ThreadMoves, Zenon DEF st
  <2>4. CASE /\ tpc' = [tpc EXCEPT ![w] = "finish"]
             /\ remaining_nfe' = [remaining_nfe EXCEPT ![w] = 0]
    <3>1. SlotFits("finish", st, 0) /\ 0 \in Nat
      BY <2>2 DEF SlotFits
    <3> QED
      BY <1>1, <2>1, <2>2, <2>4, <3>1, ThreadMoves, Zenon DEF st
  <2> QED
    BY <1>7, <2>3, <2>4, Zenon DEF Begin, Goto
<1>8. CASE StoreRunning(w)
  <2> DEFINE at == IF arming'[w] = {} THEN "step" ELSE "arm"
  <2>1. /\ tpc[w] = "arm" /\ ThreadOnly /\ state' = [state EXCEPT ![w] = "kRunning"]
        /\ result' = [result EXCEPT ![w] = verdict]
        /\ remaining_nfe' = [remaining_nfe EXCEPT ![w] = left]
        /\ tpc' = [tpc EXCEPT ![w] = at]
    BY <1>2, <1>8, Zenon DEF StoreRunning, Goto
  <2>2. at \in {"step", "arm"}
    BY Zenon
  <2>2a. PICK l \in {"step", "arm"} : l = at
    BY <2>2, Zenon
  <2>3. /\ l \in Labels /\ "kRunning" \in States /\ st \in {"kRequested", "kRunning"}
        /\ "kRunning" # "kIdle" /\ left # 0
    BY <1>1, <2>1 DEF Labels, States, SlotFits
  <2>4. SlotFits(l, "kRunning", left)
    BY <2>3 DEF SlotFits
  <2> HIDE DEF at
  <2> QED
    BY <1>1, <2>1, <2>2a, <2>3, <2>4, ThreadMoves, Zenon DEF st
<1>9. CASE LoadCancel(w)
  <2> DEFINE at == IF arming'[w] = {} THEN "step" ELSE "arm"
  <2>1. /\ tpc[w] = "arm" /\ ThreadOnly /\ UNCHANGED <<state, result, remaining_nfe>>
        /\ tpc' = [tpc EXCEPT ![w] = at]
    BY <1>9, Zenon DEF LoadCancel, Goto
  <2>2. PICK l \in {"step", "arm"} : l = at
    BY Zenon
  <2>3. l \in Labels /\ SlotFits(l, st, left)
    BY <1>1, <2>1 DEF Labels, SlotFits
  <2> HIDE DEF at
  <2> QED
    BY <1>3, <2>1, <2>2, <2>3, Zenon
<1>10. CASE StepStart(w)
  <2>1. tpc[w] = "step" /\ ThreadOnly /\ UNCHANGED <<state, remaining_nfe>>
    BY <1>10, Zenon DEF StepStart
  <2>2. /\ st \in {"kRequested", "kRunning"} /\ left # 0 /\ "cancelled" \in Verdicts
        /\ "finish" \in Labels /\ "compute" \in Labels
    BY <1>1, <2>1 DEF SlotFits, Verdicts, Labels
  <2>3. SlotFits("finish", st, left) /\ SlotFits("compute", st, left)
    BY <2>2, Zenon DEF SlotFits
  <2>4. CASE result' = [result EXCEPT ![w] = "cancelled"] /\ tpc' = [tpc EXCEPT ![w] = "finish"]
    BY <1>1, <1>2, <2>1, <2>2, <2>3, <2>4, ThreadMoves, Zenon DEF st
  <2>5. CASE UNCHANGED result /\ tpc' = [tpc EXCEPT ![w] = "compute"]
    BY <1>3, <2>1, <2>2, <2>3, <2>5, Zenon
  <2> QED
    BY <1>10, <2>4, <2>5, Zenon DEF StepStart, Goto
<1>11. CASE StepEnd(w)
  <2>1. tpc[w] = "compute" /\ ThreadOnly /\ UNCHANGED state
    BY <1>11, Zenon DEF StepEnd
  <2>2. /\ st \in {"kRequested", "kRunning"} /\ left # 0 /\ "complete" \in Verdicts
        /\ "failed" \in Verdicts /\ "finish" \in Labels /\ "step" \in Labels
    BY <1>1, <2>1 DEF SlotFits, Verdicts, Labels
  <2>3. left - 1 \in Nat /\ (left # 1 => left - 1 # 0)
    BY <1>1, <2>2
  <2>4. SlotFits("finish", st, left - 1) /\ SlotFits("finish", st, left)
    BY <2>2 DEF SlotFits
  <2>5. CASE /\ remaining_nfe' = [remaining_nfe EXCEPT ![w] = left - 1]
             /\ result' = [result EXCEPT ![w] = "complete"] /\ tpc' = [tpc EXCEPT ![w] = "finish"]
    BY <1>1, <1>2, <2>1, <2>2, <2>3, <2>4, <2>5, ThreadMoves, Zenon DEF st
  <2>6. CASE /\ remaining_nfe' = [remaining_nfe EXCEPT ![w] = left - 1] /\ left # 1
             /\ UNCHANGED result /\ tpc' = [tpc EXCEPT ![w] = "step"]
    <3>1. SlotFits("step", st, left - 1)
      BY <2>2, <2>3, <2>6, Zenon DEF SlotFits
    <3> QED
      BY <1>1, <1>2, <2>1, <2>2, <2>3, <2>6, <3>1, ThreadMoves, Zenon DEF st
  <2>7. CASE /\ UNCHANGED remaining_nfe
             /\ result' = [result EXCEPT ![w] = "failed"] /\ tpc' = [tpc EXCEPT ![w] = "finish"]
    BY <1>1, <1>2, <2>1, <2>2, <2>4, <2>7, ThreadMoves, Zenon DEF st
  <2> QED
    BY <1>11, <2>5, <2>6, <2>7, Zenon DEF StepEnd, Goto, left
<1>12. CASE Finish(w)
  <2> DEFINE at == IF stop_requested[w] THEN "exit" ELSE "ready"
  <2>1. /\ tpc[w] = "finish" /\ ThreadOnly /\ UNCHANGED <<state, result, remaining_nfe>>
        /\ tpc' = [tpc EXCEPT ![w] = at]
    BY <1>12, Zenon DEF Finish, Goto
  <2>2. at \in Labels /\ SlotFits(at, st, left)
    BY <1>1, <2>1 DEF Labels, SlotFits
  <2> QED
    BY <1>3, <2>1, <2>2, Zenon
<1>13. CASE StoreReady(w)
  <2>1. /\ tpc[w] = "ready" /\ ThreadOnly /\ state' = [state EXCEPT ![w] = "kReady"]
        /\ result' = [result EXCEPT ![w] = verdict]
        /\ remaining_nfe' = [remaining_nfe EXCEPT ![w] = left] /\ tpc' = [tpc EXCEPT ![w] = "check"]
    BY <1>2, <1>13, Zenon DEF StoreReady, Goto
  <2>2. /\ st \in {"kRequested", "kRunning"} /\ "check" \in Labels /\ "kReady" \in States
        /\ "kReady" # "kIdle" /\ SlotFits("check", "kReady", left)
    BY <1>1, <2>1 DEF SlotFits, Labels, States
  <2> QED
    BY <1>1, <2>1, <2>2, ThreadMoves, Zenon DEF st
<1> QED
  BY <1>4, <1>5, <1>6, <1>7, <1>8, <1>9, <1>10, <1>11, <1>12, <1>13, Zenon DEF run_slot

-----------------------------------------------------------------------------
(***************************************************************************)
(* The loop.                                                               *)
(***************************************************************************)
Codes == {"complete", "cancelled", "failed", "kExpired"} \cup
         {rejection_code[c] : c \in DOMAIN rejection_code}
Histories == Seq(Codes)

Once(a, b) == \A i \in 1..Len(a), j \in 1..Len(b) : a[i].seq # b[j].seq
EachOnce(a) == \A i, j \in 1..Len(a) : a[i].seq = a[j].seq => i = j

\* What the client has still to send and what the daemon has still to read is
\* numbered uniquely.
RingInv ==
  /\ conditions \in Seq(Requests) /\ unsent \in Seq(Requests) /\ actions \in Seq(Nat)
  /\ Len(conditions) <= RingCapacity /\ Len(actions) <= RingCapacity
  /\ EachOnce(conditions) /\ EachOnce(unsent) /\ Once(conditions, unsent)

OutcomeInv == outcomes \in [Sequences_ -> Histories]

LoopInv ==
  /\ now \in 1..MaxNow /\ cursor \in 0..Workers /\ count \in Nat
  /\ rejection \in Sound \cup {NoMessage}
  /\ dpc \in {"drain", "cancel", "cancel slot", "publish", "dispatch", "stop", "stop load",
              "stop wake", "stopped"}
  /\ dpc \in {"drain", "cancel", "cancel slot"} => count <= RingCapacity
  /\ dpc = "publish" => count < Workers /\ cursor < Workers
  /\ dpc \notin {"drain", "cancel", "cancel slot"} => count <= Workers
  /\ dpc \in {"cancel slot", "stop load", "stop wake"} => cursor < Workers
  /\ dpc \in {"stop load", "stop wake"} => stop_requested[cursor]

\* The places of a request.
Coming(q) == (\E i \in 1..Len(conditions) : conditions[i].seq = q)
             \/ (\E i \in 1..Len(unsent) : unsent[i].seq = q)
Queued(q) == \E x \in sched.heap : x.seq = q
Solved(q) == \E w \in Worker : state[w] # "kIdle" /\ request[w].seq = q
Displaced(q) == rejection # NoMessage /\ rejection.seq = q
Answered(q) == outcomes[q] # <<>>
Unreported(q) == q \in unreported

OnlyOne(a, b, c, d, e, f) ==
  /\ a => ~b /\ ~c /\ ~d /\ ~e /\ ~f
  /\ b => ~c /\ ~d /\ ~e /\ ~f
  /\ c => ~d /\ ~e /\ ~f
  /\ d => ~e /\ ~f
  /\ e => ~f

OnePlace(q) ==
  OnlyOne(Coming(q), Queued(q), Solved(q), Displaced(q), Answered(q), Unreported(q))

Placed == \A q \in Sequences_ : OnePlace(q)

QueuedOnce == \A x, y \in sched.heap : x.seq = y.seq => x = y
SolvedOnce ==
  \A v, w \in Worker : state[v] # "kIdle" /\ state[w] # "kIdle" /\ request[v].seq = request[w].seq
                       => v = w
AnsweredOnce == \A q \in Sequences_ : Len(outcomes[q]) <= 1
SlotsSound == \A w \in Worker : state[w] # "kIdle" => request[w] \in Sound

OwnerInv == SlotsSound /\ QueuedOnce /\ SolvedOnce /\ AnsweredOnce /\ Placed

Stopping == dpc \in {"stop", "stop load", "stop wake", "stopped"}

RelayInv ==
  SchedInv(sched) /\ PoolInv /\ RingInv /\ OutcomeInv /\ LoopInv /\ (Stopping \/ OwnerInv)

LEMMA RelayInit ==
  ASSUME Init PROVE RelayInv
<1>1. /\ PoolInit /\ unsent \in Scripts /\ conditions = <<>> /\ actions = <<>>
      /\ sched = InitScheduler /\ now = 1 /\ dpc = "drain" /\ count = 0 /\ cursor = 0
      /\ rejection = NoMessage /\ outcomes = [q \in Sequences_ |-> <<>>] /\ unreported = {}
  BY DEF Init
<1>2. SchedInv(sched)
  <2> DEFINE st == [accepted |-> 0, stale |-> 0, unreachable |-> 0, expired |-> 0,
                    evicted |-> 0, full |-> 0]
  <2>1. 0 \in Nat /\ 0 \in Int /\ Capacity \in Int /\ Capacity \in Nat /\ {} \in Heaps
    BY EdfAssumption DEF Heaps
  <2>2. st \in Stats
    BY <2>1, Zenon DEF Stats
  <2> HIDE DEF st
  <2>3. sched = [heap |-> {}, free_slots |-> Capacity, borrowed |-> 0, newest_generation |-> 0,
                 stats |-> st]
    BY <1>1, Zenon DEF InitScheduler, st
  <2>4. sched \in SchedRecord
    BY <2>1, <2>2, <2>3, Zenon DEF SchedRecord
  <2>5. sched.heap = {} /\ sched.free_slots = Capacity /\ sched.borrowed = 0
    BY <2>3
  <2>6. Cardinality(sched.heap) + sched.free_slots + sched.borrowed = Capacity
    BY <2>1, <2>5, FS_EmptySet
  <2> QED
    BY <2>1, <2>4, <2>5, <2>6, FS_EmptySet, Zenon DEF SchedInv, Stored
<1>3. PoolInv
  <2>1. /\ state = [w \in Worker |-> "kIdle"] /\ request = [w \in Worker |-> NoMessage]
        /\ result = [w \in Worker |-> "none"] /\ remaining_nfe = [w \in Worker |-> 0]
        /\ stop_requested = [w \in Worker |-> FALSE] /\ tpc = [w \in Worker |-> "check"]
        /\ ready_index = NoWorker /\ ready_cursor = 0 /\ dispatch_cursor = 0
    BY <1>1, Zenon DEF PoolInit
  <2>2. "kIdle" \in States /\ "none" \in Verdicts /\ "check" \in Labels /\ 0 \in Nat
    BY DEF States, Verdicts, Labels
  <2>3. 0 \in Worker
    BY WorkerFacts
  <2>4. Slots
    BY <2>1, <2>2, Zenon DEF Slots
  <2>5. Cursors
    BY <2>1, <2>3, Zenon DEF Cursors
  <2>6. SlotFits("check", "kIdle", 0)
    BY DEF SlotFits
  <2> QED
    BY <2>1, <2>4, <2>5, <2>6, Zenon DEF PoolInv
<1>4. unsent \in Seq(Requests) /\ EachOnce(unsent)
  <2>1. unsent \in Seq(RequestRecord)
    BY <1>1, DaemonAssumption, Zenon
  <2>2. DOMAIN unsent = 1..Len(unsent)
    BY <2>1, SeqLen, Zenon
  <2>3. \A i \in 1..Len(unsent) : unsent[i] \in Requests
    BY <1>1, <2>2, SMT DEF Requests
  <2>4. unsent \in Seq(Requests)
    BY <2>1, <2>3, SMT
  <2>5. EachOnce(unsent)
    BY <1>1, <2>2, DaemonAssumption, Zenon DEF EachOnce
  <2> QED
    BY <2>4, <2>5
<1>5. RingInv
  <2>1. conditions \in Seq(Requests) /\ actions \in Seq(Nat) /\ Len(conditions) = 0 /\ Len(actions) = 0
    BY <1>1
  <2>2. 0 <= RingCapacity /\ 1..0 = {}
    BY DaemonAssumption
  <2>3. EachOnce(conditions) /\ Once(conditions, unsent)
    BY <2>1, <2>2, Zenon DEF EachOnce, Once
  <2> QED
    BY <1>4, <2>1, <2>2, <2>3, Zenon DEF RingInv
<1>6. OutcomeInv
  <2>1. <<>> \in Histories
    BY DEF Histories
  <2> QED
    BY <1>1, <2>1, Zenon DEF OutcomeInv
<1>7. LoopInv
  BY <1>1, DaemonAssumption, WorkerFacts DEF LoopInv
<1>8. OwnerInv
  <2>1. sched.heap = {}
    BY <1>1 DEF InitScheduler
  <2>2. \A w \in Worker : state[w] = "kIdle"
    BY <1>1, Zenon DEF PoolInit
  <2>3. \A q \in Sequences_ : outcomes[q] = <<>>
    BY <1>1, Zenon
  <2>4. Len(<<>>) <= 1
    OBVIOUS
  <2>5. AnsweredOnce
    BY <2>3, <2>4, Zenon DEF AnsweredOnce
  <2>6. Placed
    BY <1>1, <2>1, <2>2, <2>3, Zenon DEF Placed, OnePlace, OnlyOne, Queued, Solved, Displaced, Answered, Unreported
  <2> QED
    BY <2>1, <2>2, <2>5, <2>6, Zenon DEF OwnerInv, SlotsSound, QueuedOnce, SolvedOnce
<1> QED
  BY <1>2, <1>3, <1>5, <1>6, <1>7, <1>8, Zenon DEF RelayInv

\* A step that gives a request no place it did not have.
Fewer(q) ==
  /\ Coming(q)' => Coming(q)
  /\ Queued(q)' => Queued(q)
  /\ Solved(q)' => Solved(q)
  /\ Displaced(q)' => Displaced(q)
  /\ Answered(q)' => Answered(q)
  /\ Unreported(q)' => Unreported(q)

LEMMA FewerPlaces ==
  ASSUME NEW q, OnePlace(q), Fewer(q) PROVE OnePlace(q)'
BY Zenon DEF OnePlace, OnlyOne, Fewer

LEMMA OwnerShrinks ==
  ASSUME OwnerInv, sched'.heap \subseteq sched.heap, UNCHANGED <<request, outcomes, unreported>>,
         \A w \in Worker : state'[w] # "kIdle" => state[w] # "kIdle",
         rejection' \in {rejection, NoMessage},
         \A q \in Sequences_ : Coming(q)' => Coming(q)
  PROVE  OwnerInv'
<1>1. SlotsSound' /\ SolvedOnce'
  BY Zenon DEF OwnerInv, SlotsSound, SolvedOnce
<1>2. QueuedOnce' /\ AnsweredOnce'
  BY Zenon DEF OwnerInv, QueuedOnce, AnsweredOnce
<1>3. ASSUME NEW q \in Sequences_ PROVE OnePlace(q)'
  <2>1. Queued(q)' => Queued(q)
    BY Zenon DEF Queued
  <2>2. Solved(q)' => Solved(q)
    BY Zenon DEF Solved
  <2>3. Displaced(q)' => Displaced(q)
    BY Zenon DEF Displaced
  <2>4. (Answered(q)' => Answered(q)) /\ (Unreported(q)' => Unreported(q))
    BY Zenon DEF Answered, Unreported
  <2>5. Fewer(q)
    BY <2>1, <2>2, <2>3, <2>4, Zenon DEF Fewer
  <2> QED
    BY <2>5, FewerPlaces, Zenon DEF OwnerInv, Placed
<1> QED
  BY <1>1, <1>2, <1>3, Zenon DEF OwnerInv, Placed

\* What publishing an answer to m does, or counting it as unreported.
Reported(m) ==
  /\ OutcomeInv' /\ AnsweredOnce' /\ actions' \in Seq(Nat) /\ Len(actions') <= RingCapacity
  /\ \A q \in Sequences_ : q # m.seq => (Answered(q)' => Answered(q))
                                        /\ (Unreported(q)' => Unreported(q))
  /\ ~(Answered(m.seq)' /\ Unreported(m.seq)')

LEMMA PublishFacts ==
  ASSUME RingInv, OutcomeInv, AnsweredOnce, NEW m \in Sound, NEW code \in Codes,
         ~Answered(m.seq), ~Unreported(m.seq), Len(actions) < RingCapacity,
         Publish(m, code), UNCHANGED unreported
  PROVE  Reported(m)
<1>1. m.seq \in Sequences_ /\ m.seq \in Word
  BY SoundFacts, Zenon
<1>2. m.seq \in Nat /\ RingCapacity \in Nat /\ actions \in Seq(Nat)
  BY <1>1, WordFacts, DaemonAssumption, Zenon DEF RingInv
<1>3. actions' = Append(actions, m.seq) /\ outcomes' = [outcomes EXCEPT ![m.seq] = Append(@, code)]
  BY Zenon DEF Publish
<1>4. actions' \in Seq(Nat) /\ Len(actions') = Len(actions) + 1 /\ Len(actions) \in Nat
  BY <1>2, <1>3, Appended, SeqLen, Zenon
<1>5. Len(actions') <= RingCapacity
  BY <1>2, <1>4
<1>6. outcomes[m.seq] = <<>>
  BY Zenon DEF Answered
<1>7. Append(<<>>, code) \in Histories /\ Len(Append(<<>>, code)) = 1
  BY DEF Histories
<1>8. outcomes'[m.seq] = Append(<<>>, code) /\ \A q \in Sequences_ : q # m.seq => outcomes'[q] = outcomes[q]
  BY <1>1, <1>3, <1>6, Zenon DEF OutcomeInv
<1>9. OutcomeInv'
  BY <1>1, <1>3, <1>6, <1>7, Zenon DEF OutcomeInv
<1>10. AnsweredOnce'
  <2>1. 1 <= 1
    OBVIOUS
  <2> QED
    BY <1>1, <1>7, <1>8, <2>1, Zenon DEF AnsweredOnce
<1>11. \A q \in Sequences_ : q # m.seq => (Answered(q)' => Answered(q))
  BY <1>8, Zenon DEF Answered
<1>12. \A q \in Sequences_ : Unreported(q)' => Unreported(q)
  BY Zenon DEF Unreported
<1>13. ~Unreported(m.seq)'
  BY Zenon DEF Unreported
<1> QED
  BY <1>4, <1>5, <1>9, <1>10, <1>11, <1>12, <1>13, Zenon DEF Reported

LEMMA RejectFacts ==
  ASSUME RingInv, OutcomeInv, AnsweredOnce, NEW m \in Sound, NEW code \in Codes,
         ~Answered(m.seq), ~Unreported(m.seq), publish_rejection(m, code)
  PROVE  Reported(m)
<1>1. CASE Len(actions) < RingCapacity
  BY <1>1, PublishFacts, Zenon DEF publish_rejection
<1>2. CASE ~(Len(actions) < RingCapacity)
  <2>1. unreported' = unreported \cup {m.seq} /\ UNCHANGED <<actions, outcomes>>
    BY <1>2, Zenon DEF publish_rejection
  <2>2. OutcomeInv' /\ AnsweredOnce' /\ actions' \in Seq(Nat) /\ Len(actions') <= RingCapacity
    BY <2>1, Zenon DEF OutcomeInv, AnsweredOnce, RingInv
  <2>3. ~Answered(m.seq)'
    BY <2>1, Zenon DEF Answered
  <2>4. \A q \in Sequences_ : q # m.seq => (Answered(q)' => Answered(q))
                                           /\ (Unreported(q)' => Unreported(q))
    BY <2>1, Zenon DEF Answered, Unreported
  <2> QED
    BY <2>2, <2>3, <2>4, Zenon DEF Reported
<1> QED
  BY <1>1, <1>2

\* The daemon reads a condition.
LEMMA DrainRing ==
  ASSUME RingInv, conditions # <<>>, conditions' = Tail(conditions), unsent' = unsent,
         actions' \in Seq(Nat), Len(actions') <= RingCapacity
  PROVE  /\ RingInv' /\ Head(conditions) \in Requests
         /\ \A q \in Sequences_ : Coming(q)' => Coming(q)
         /\ \A q \in Sequences_ : q = Head(conditions).seq => Coming(q) /\ ~Coming(q)'
<1>1. /\ conditions \in Seq(Requests) /\ unsent \in Seq(Requests) /\ Len(conditions) <= RingCapacity
      /\ EachOnce(conditions) /\ EachOnce(unsent) /\ Once(conditions, unsent)
  BY Zenon DEF RingInv
<1>2. /\ conditions' \in Seq(Requests) /\ Len(conditions') = Len(conditions) - 1
      /\ \A i \in 1..Len(conditions') : conditions'[i] = conditions[i + 1]
  BY <1>1, HeadAndTail, Zenon
<1>3. Len(conditions) \in Nat \ {0} /\ Len(conditions) \in Nat
  BY <1>1, SeqEmpty, SeqLen
<1>4. Head(conditions) = conditions[1] /\ 1 \in 1..Len(conditions)
  BY <1>1, <1>3
<1>5. Head(conditions) \in Requests
  BY <1>1, <1>4, SeqElement, Zenon
<1>6. \A i \in 1..Len(conditions') : i + 1 \in 1..Len(conditions) /\ i + 1 # 1
  BY <1>2, <1>3
<1>7. \A i, j \in 1..Len(conditions') : i + 1 = j + 1 => i = j
  BY <1>2, <1>3
<1>8. EachOnce(conditions')
  <2> SUFFICES ASSUME NEW i \in 1..Len(conditions'), NEW j \in 1..Len(conditions'),
                      conditions'[i].seq = conditions'[j].seq
               PROVE  i = j
    BY Zenon DEF EachOnce
  <2>1. conditions[i + 1].seq = conditions[j + 1].seq /\ i + 1 \in 1..Len(conditions)
        /\ j + 1 \in 1..Len(conditions)
    BY <1>2, <1>6, Zenon
  <2>2. i + 1 = j + 1
    BY <1>1, <2>1, Zenon DEF EachOnce
  <2> QED
    BY <1>7, <2>2, Zenon
<1>9. Once(conditions', unsent')
  <2> SUFFICES ASSUME NEW i \in 1..Len(conditions'), NEW j \in 1..Len(unsent)
               PROVE  conditions'[i].seq # unsent[j].seq
    BY Zenon DEF Once
  <2>1. conditions'[i] = conditions[i + 1] /\ i + 1 \in 1..Len(conditions)
    BY <1>2, <1>6, Zenon
  <2> QED
    BY <1>1, <2>1, Zenon DEF Once
<1>10. Len(conditions') <= RingCapacity
  BY <1>1, <1>2, <1>3, DaemonAssumption
<1>11. RingInv'
  BY <1>1, <1>2, <1>8, <1>9, <1>10, Zenon DEF RingInv
<1>12. \A q \in Sequences_ : Coming(q)' => Coming(q)
  BY <1>2, <1>6, Zenon DEF Coming
<1>13. ASSUME NEW q \in Sequences_, q = Head(conditions).seq PROVE Coming(q) /\ ~Coming(q)'
  <2>1. conditions[1].seq = q
    BY <1>4, <1>13, Zenon
  <2>2. Coming(q)
    BY <1>4, <2>1, Zenon DEF Coming
  <2>3. \A i \in 1..Len(conditions') : conditions'[i].seq # q
    BY <1>1, <1>2, <1>4, <1>6, <2>1, Zenon DEF EachOnce
  <2>4. \A i \in 1..Len(unsent) : unsent[i].seq # q
    BY <1>1, <1>4, <2>1, Zenon DEF Once
  <2> QED
    BY <2>2, <2>3, <2>4, Zenon DEF Coming
<1> QED
  BY <1>5, <1>11, <1>12, <1>13, Zenon

LEMMA RequestAppended ==
  ASSUME NEW s \in Seq(Requests), NEW e \in Requests
  PROVE  /\ Append(s, e) \in Seq(Requests) /\ Len(Append(s, e)) = Len(s) + 1
         /\ \A i \in 1..Len(s) : Append(s, e)[i] = s[i]
         /\ Append(s, e)[Len(s) + 1] = e
OBVIOUS

\* The client sends a condition.
LEMMA SubmitRing ==
  ASSUME RingInv, unsent # <<>>, Len(conditions) < RingCapacity, unsent' = Tail(unsent),
         conditions' = Append(conditions, Head(unsent)), actions' = actions
  PROVE  RingInv' /\ \A q \in Sequences_ : Coming(q)' => Coming(q)
<1> DEFINE h == Head(unsent)
<1>1. /\ conditions \in Seq(Requests) /\ unsent \in Seq(Requests)
      /\ EachOnce(conditions) /\ EachOnce(unsent) /\ Once(conditions, unsent)
  BY Zenon DEF RingInv
<1>2. /\ unsent' \in Seq(Requests) /\ Len(unsent') = Len(unsent) - 1
      /\ \A i \in 1..Len(unsent') : unsent'[i] = unsent[i + 1]
  BY <1>1, HeadAndTail, Zenon
<1>3. Len(unsent) \in Nat \ {0} /\ Len(unsent) \in Nat /\ Len(conditions) \in Nat
  BY <1>1, SeqEmpty, SeqLen
<1>4. h = unsent[1] /\ 1 \in 1..Len(unsent)
  BY <1>1, <1>3
<1>5. h \in Requests
  BY <1>1, <1>4, SeqElement, Zenon
<1> HIDE DEF h
<1>6. /\ conditions' \in Seq(Requests) /\ Len(conditions') = Len(conditions) + 1
      /\ \A i \in 1..Len(conditions) : conditions'[i] = conditions[i]
      /\ conditions'[Len(conditions) + 1] = h
  <2>1. conditions' = Append(conditions, h)
    BY Zenon DEF h
  <2> QED
    BY <1>1, <1>5, <2>1, RequestAppended
<1>7. \A i \in 1..Len(unsent') : i + 1 \in 1..Len(unsent) /\ i + 1 # 1
  BY <1>2, <1>3
<1>8. \A i, j \in 1..Len(unsent') : i + 1 = j + 1 => i = j
  BY <1>2, <1>3
<1>9. \A i \in 1..Len(conditions') : i \in 1..Len(conditions) \/ i = Len(conditions) + 1
  BY <1>3, <1>6
<1>10. ASSUME NEW i \in 1..Len(conditions')
       PROVE  \/ i \in 1..Len(conditions) /\ conditions'[i] = conditions[i]
              \/ i = Len(conditions) + 1 /\ conditions'[i] = unsent[1]
  <2>1. CASE i \in 1..Len(conditions)
    BY <1>6, <2>1, Zenon
  <2>2. CASE i = Len(conditions) + 1
    BY <1>4, <1>6, <2>2, Zenon
  <2> QED
    BY <1>9, <2>1, <2>2
<1>11. EachOnce(unsent')
  <2> SUFFICES ASSUME NEW i \in 1..Len(unsent'), NEW j \in 1..Len(unsent'),
                      unsent'[i].seq = unsent'[j].seq
               PROVE  i = j
    BY Zenon DEF EachOnce
  <2>1. unsent[i + 1].seq = unsent[j + 1].seq /\ i + 1 \in 1..Len(unsent)
        /\ j + 1 \in 1..Len(unsent)
    BY <1>2, <1>7, Zenon
  <2>2. i + 1 = j + 1
    BY <1>1, <2>1, Zenon DEF EachOnce
  <2> QED
    BY <1>8, <2>2, Zenon
<1>12. EachOnce(conditions')
  <2> SUFFICES ASSUME NEW i \in 1..Len(conditions'), NEW j \in 1..Len(conditions'),
                      conditions'[i].seq = conditions'[j].seq
               PROVE  i = j
    BY Zenon DEF EachOnce
  <2>1. CASE i \in 1..Len(conditions) /\ j \in 1..Len(conditions)
    <3>1. conditions[i].seq = conditions[j].seq
      BY <1>6, <2>1, Zenon
    <3> QED
      BY <1>1, <2>1, <3>1, Zenon DEF EachOnce
  <2>2. \A k \in 1..Len(conditions) : conditions'[k].seq # unsent[1].seq
    BY <1>1, <1>4, <1>6, Zenon DEF Once
  <2> QED
    BY <1>10, <2>1, <2>2, Zenon
<1>13. Once(conditions', unsent')
  <2> SUFFICES ASSUME NEW i \in 1..Len(conditions'), NEW j \in 1..Len(unsent')
               PROVE  conditions'[i].seq # unsent'[j].seq
    BY Zenon DEF Once
  <2>1. unsent'[j] = unsent[j + 1] /\ j + 1 \in 1..Len(unsent) /\ j + 1 # 1
    BY <1>2, <1>7, Zenon
  <2>2. unsent[1].seq # unsent[j + 1].seq
    BY <1>1, <1>4, <2>1, Zenon DEF EachOnce
  <2>3. \A k \in 1..Len(conditions) : conditions[k].seq # unsent[j + 1].seq
    BY <1>1, <2>1, Zenon DEF Once
  <2> QED
    BY <1>10, <2>1, <2>2, <2>3, Zenon
<1>14. Len(conditions') <= RingCapacity
  BY <1>3, <1>6, DaemonAssumption
<1>15. RingInv'
  BY <1>2, <1>6, <1>11, <1>12, <1>13, <1>14, Zenon DEF RingInv
<1>16. \A q \in Sequences_ : Coming(q)' => Coming(q)
  BY <1>2, <1>4, <1>7, <1>10, Zenon DEF Coming
<1> QED
  BY <1>15, <1>16

-----------------------------------------------------------------------------
\* What no step of a client or of a slot's thread touches.
LEMMA LoopStays ==
  ASSUME LoopInv, now' \in 1..MaxNow, UNCHANGED <<cursor, count, rejection, dpc, stop_requested>>
  PROVE  LoopInv'
BY Zenon DEF LoopInv

LEMMA PoolStays ==
  ASSUME PoolInv, UNCHANGED poolVars PROVE PoolInv' /\ UNCHANGED <<state, request, stop_requested>>
<1>1. UNCHANGED <<state, request, result, remaining_nfe, tpc, stop_requested, ready_index,
                  ready_cursor, dispatch_cursor>>
  BY Zenon DEF poolVars, threadVars
<1> QED
  BY <1>1, Zenon DEF PoolInv, Slots, Cursors

LEMMA ClientStep ==
  ASSUME RelayInv, Client PROVE RelayInv'
<1>1. /\ SchedInv(sched) /\ PoolInv /\ RingInv /\ OutcomeInv /\ LoopInv /\ (Stopping \/ OwnerInv)
      /\ conditions \in Seq(Requests) /\ actions \in Seq(Nat)
  BY Zenon DEF RelayInv, RingInv
<1>2. UNCHANGED <<poolVars, sched, dpc, count, cursor, rejection, outcomes, unreported>>
  BY Zenon DEF Client, try_submit, try_receive, request_stop, Tick
<1>3. now' \in 1..MaxNow
  <2>1. CASE Tick
    <3>1. now' = now + 1 /\ now < MaxNow /\ now \in 1..MaxNow /\ MaxNow \in Nat
      BY <1>1, <2>1, DaemonAssumption, Zenon DEF Tick, LoopInv
    <3> QED
      BY <3>1
  <2>2. CASE UNCHANGED now
    BY <1>1, <2>2, Zenon DEF LoopInv
  <2> QED
    BY <2>1, <2>2, Zenon DEF Client, try_submit, try_receive, request_stop
<1>4. RingInv' /\ \A q \in Sequences_ : Coming(q)' => Coming(q)
  <2>1. CASE try_submit
    BY <1>1, <2>1, SubmitRing, Zenon DEF try_submit
  <2>2. CASE try_receive
    <3>1. actions # <<>> /\ actions' = Tail(actions) /\ UNCHANGED <<unsent, conditions>>
      BY <2>2, Zenon DEF try_receive
    <3>2. actions' \in Seq(Nat) /\ Len(actions') = Len(actions) - 1 /\ Len(actions) \in Nat
      BY <1>1, <3>1, HeadAndTail, SeqLen, Zenon
    <3>3. Len(actions) <= RingCapacity /\ RingCapacity \in Nat
      BY <1>1, DaemonAssumption, Zenon DEF RingInv
    <3>4. Len(actions') <= RingCapacity
      BY <3>2, <3>3
    <3> QED
      BY <1>1, <3>1, <3>2, <3>4, Zenon DEF RingInv, Coming
  <2>3. CASE request_stop \/ Tick
    <3>1. UNCHANGED <<unsent, conditions, actions>>
      BY <2>3, Zenon DEF request_stop, Tick
    <3> QED
      BY <1>1, <3>1, Zenon DEF RingInv, Coming
  <2> QED
    BY <2>1, <2>2, <2>3, Zenon DEF Client
<1>5. PoolInv' /\ UNCHANGED <<state, request, stop_requested>>
  BY <1>1, <1>2, PoolStays, Zenon
<1>6. LoopInv'
  BY <1>1, <1>2, <1>3, <1>5, LoopStays, Zenon
<1>7. Stopping' \/ OwnerInv'
  <2>1. CASE Stopping
    BY <1>2, <2>1, Zenon DEF Stopping
  <2>2. CASE OwnerInv
    BY <1>2, <1>4, <1>5, <2>2, OwnerShrinks, Zenon
  <2> QED
    BY <1>1, <2>1, <2>2
<1>8. OutcomeInv' /\ SchedInv(sched')
  BY <1>1, <1>2, Zenon DEF OutcomeInv
<1> QED
  BY <1>4, <1>5, <1>6, <1>7, <1>8, Zenon DEF RelayInv

LEMMA ThreadStep ==
  ASSUME RelayInv, NEW w \in Worker, Slot(w)
  PROVE  RelayInv' /\ \A v \in Worker : state[v] = "kReady" => state'[v] = "kReady"
<1>1. /\ SchedInv(sched) /\ PoolInv /\ RingInv /\ OutcomeInv /\ LoopInv /\ (Stopping \/ OwnerInv)
  BY Zenon DEF RelayInv
<1>2. UNCHANGED <<unsent, conditions, actions, sched, now, dpc, count, cursor, rejection,
                  outcomes, unreported>>
  BY Zenon DEF Slot, daemonVars
<1>3. ThreadKeeps
  BY <1>1, RunSlotKeeps, Zenon DEF Slot
<1>4. now' \in 1..MaxNow
  BY <1>1, <1>2, Zenon DEF LoopInv
<1>5. LoopInv'
  BY <1>1, <1>2, <1>3, <1>4, LoopStays, Zenon DEF ThreadKeeps
<1>6. RingInv' /\ \A q \in Sequences_ : Coming(q)' => Coming(q)
  BY <1>1, <1>2, Zenon DEF RingInv, Coming
<1>7. Stopping' \/ OwnerInv'
  <2>1. CASE Stopping
    BY <1>2, <2>1, Zenon DEF Stopping
  <2>2. CASE OwnerInv
    BY <1>2, <1>3, <1>6, <2>2, OwnerShrinks, Zenon DEF ThreadKeeps
  <2> QED
    BY <1>1, <2>1, <2>2
<1>8. OutcomeInv' /\ SchedInv(sched')
  BY <1>1, <1>2, Zenon DEF OutcomeInv
<1> QED
  BY <1>3, <1>5, <1>6, <1>7, <1>8, Zenon DEF RelayInv, ThreadKeeps

\* A step of the loop that neither publishes nor takes on a request.
LEMMA QuietStep ==
  ASSUME RelayInv, PoolInv', LoopInv', RingInv', SchedInv(sched'), sched'.heap \subseteq sched.heap,
         UNCHANGED <<request, outcomes, unreported>>,
         Stopping => Stopping',
         Stopping' \/ \A w \in Worker : state'[w] # "kIdle" => state[w] # "kIdle",
         rejection' \in {rejection, NoMessage}, \A q \in Sequences_ : Coming(q)' => Coming(q)
  PROVE  RelayInv'
<1>1. OutcomeInv'
  BY Zenon DEF RelayInv, OutcomeInv
<1>2. Stopping' \/ OwnerInv'
  <2>1. CASE Stopping'
    BY <2>1
  <2>2. CASE ~Stopping'
    BY <2>2, OwnerShrinks, Zenon DEF RelayInv
  <2> QED
    BY <2>1, <2>2
<1> QED
  BY <1>1, <1>2, Zenon DEF RelayInv

LEMMA RingStays ==
  ASSUME RingInv, UNCHANGED <<unsent, conditions, actions>>
  PROVE  RingInv' /\ \A q \in Sequences_ : Coming(q)' => Coming(q)
BY Zenon DEF RingInv, Coming

\* The slots' states stay, so what concerns the pool is where its cursors are.
LEMMA PoolMarks ==
  ASSUME PoolInv, UNCHANGED <<state, request, threadVars>>, stop_requested' \in [Worker -> BOOLEAN],
         Cursors'
  PROVE  PoolInv'
<1>1. UNCHANGED <<state, request, result, remaining_nfe, tpc>>
  BY Zenon DEF threadVars
<1> QED
  BY <1>1, Zenon DEF PoolInv, Slots

\* A slot is set free: nothing is running in it.
LEMMA SlotFreed ==
  ASSUME PoolInv, NEW w \in Worker, state[w] = "kReady", state' = [state EXCEPT ![w] = "kIdle"],
         UNCHANGED <<request, result, tpc, stop_requested>>, NEW left \in Nat,
         remaining_nfe' = [remaining_nfe EXCEPT ![w] = left], Cursors'
  PROVE  /\ PoolInv'
         /\ \A v \in Worker : state'[v] # "kIdle" <=> (state[v] # "kIdle" /\ v # w)
<1>1. Slots
  BY DEF PoolInv
<1>2. /\ result[w] \in Verdicts /\ tpc[w] \in Labels
      /\ SlotFits(tpc[w], state[w], remaining_nfe[w])
  BY SlotFields, Zenon
<1>3. tpc' = [tpc EXCEPT ![w] = tpc[w]] /\ result' = [result EXCEPT ![w] = result[w]]
  BY Unmoved, Zenon
<1>4. /\ request' \in [Worker -> Sound \cup {NoMessage}] /\ stop_requested' \in [Worker -> BOOLEAN]
  BY <1>1, Zenon DEF Slots
<1>5. SlotFits(tpc[w], "kIdle", left) /\ "kIdle" \in States
  BY <1>2 DEF SlotFits, States
<1>6. PoolInv'
  BY <1>2, <1>3, <1>4, <1>5, SlotMoves, Zenon
<1>7. \A v \in Worker : state'[v] = IF v = w THEN "kIdle" ELSE state[v]
  BY <1>1, Zenon DEF Slots
<1> QED
  BY <1>6, <1>7, Zenon

LEMMA DrainQuietStep ==
  ASSUME RelayInv, DrainDone \/ DrainDiscard \/ DrainShutdown PROVE RelayInv'
<1>1. SchedInv(sched) /\ PoolInv /\ RingInv /\ LoopInv
  BY Zenon DEF RelayInv
<1>2. /\ dpc = "drain" /\ dpc' \in {"drain", "publish"}
      /\ UNCHANGED <<poolVars, unsent, now, actions, sched, rejection, outcomes, unreported>>
  BY Zenon DEF DrainDone, DrainDiscard, DrainShutdown, Drain, Loop
<1>3. PoolInv' /\ UNCHANGED <<state, request, stop_requested>>
  BY <1>1, <1>2, PoolStays, Zenon
<1>4. RingInv' /\ \A q \in Sequences_ : Coming(q)' => Coming(q)
  <2>1. CASE UNCHANGED conditions
    BY <1>1, <1>2, <2>1, RingStays, Zenon
  <2>2. CASE conditions # <<>> /\ conditions' = Tail(conditions)
    <3>1. actions' \in Seq(Nat) /\ Len(actions') <= RingCapacity
      BY <1>1, <1>2, Zenon DEF RingInv
    <3> QED
      BY <1>1, <1>2, <2>2, <3>1, DrainRing, Zenon
  <2> QED
    BY <2>1, <2>2, Zenon DEF DrainDone, DrainDiscard, DrainShutdown, Drain
<1>5. LoopInv'
  <2>1. count \in Nat /\ cursor \in 0..Workers
    BY <1>1, Zenon DEF LoopInv
  <2>2. \/ dpc' = "publish" /\ count' = 0 /\ cursor' = 0
        \/ dpc' = "drain" /\ count' = count + 1 /\ count < RingCapacity /\ cursor' = cursor
    BY Zenon DEF DrainDone, DrainDiscard, DrainShutdown, Drain, Loop
  <2>3. now' \in 1..MaxNow /\ rejection' \in Sound \cup {NoMessage}
    BY <1>1, <1>2, Zenon DEF LoopInv
  <2>4. CASE dpc' = "publish" /\ count' = 0 /\ cursor' = 0
    BY <2>3, <2>4, WorkerFacts DEF LoopInv
  <2>5. CASE dpc' = "drain" /\ count' = count + 1 /\ count < RingCapacity /\ cursor' = cursor
    BY <2>1, <2>3, <2>5, DaemonAssumption DEF LoopInv
  <2> QED
    BY <2>2, <2>4, <2>5
<1>6. ~Stopping
  BY <1>2 DEF Stopping
<1> QED
  BY <1>1, <1>2, <1>3, <1>4, <1>5, <1>6, QuietStep, Zenon

LEMMA CancelStep ==
  ASSUME RelayInv, Mark \/ Cancel PROVE RelayInv'
<1>1. SchedInv(sched) /\ PoolInv /\ RingInv /\ LoopInv /\ Cursors /\ Slots
  BY Zenon DEF RelayInv, PoolInv
<1>2. /\ dpc \in {"cancel", "cancel slot"}
      /\ UNCHANGED <<unsent, conditions, now, actions, sched, count, rejection, outcomes, unreported>>
  BY Zenon DEF Mark, Cancel, Loop
<1>3. RingInv' /\ \A q \in Sequences_ : Coming(q)' => Coming(q)
  BY <1>1, <1>2, RingStays, Zenon
<1>4. LoopInv'
  <2>1. count \in Nat /\ cursor \in 0..Workers /\ count <= RingCapacity
    BY <1>1, <1>2, Zenon DEF LoopInv
  <2>2. now' \in 1..MaxNow /\ rejection' \in Sound \cup {NoMessage}
    BY <1>1, <1>2, Zenon DEF LoopInv
  <2>3. CASE Mark
    <3>1. dpc' = "cancel slot" /\ cursor' = cursor /\ cursor < Workers /\ count' = count
      BY <1>2, <2>3, Zenon DEF Mark, Loop
    <3> QED
      BY <2>1, <2>2, <3>1 DEF LoopInv
  <2>4. CASE Cancel
    <3>1. dpc = "cancel slot" /\ dpc' = "cancel" /\ cursor' = cursor + 1 /\ count' = count
      BY <1>2, <2>4, Zenon DEF Cancel, Loop
    <3>2. cursor < Workers
      BY <1>1, <3>1, Zenon DEF LoopInv
    <3>3a. cursor' = cursor + 1
      BY <3>1, Zenon
    <3>3. cursor' \in 0..Workers
      BY <2>1, <3>2, <3>3a, WorkerFacts
    <3> QED
      BY <2>1, <2>2, <3>1, <3>3 DEF LoopInv
  <2> QED
    BY <2>3, <2>4
<1>5. ~Stopping
  BY <1>2 DEF Stopping
<1>6. CASE Mark
  <2>1. UNCHANGED <<state, request, stop_requested, threadVars, ready_index, ready_cursor,
                    dispatch_cursor>>
    BY <1>6, Zenon DEF Mark, CancelMark
  <2>2. stop_requested' \in [Worker -> BOOLEAN] /\ Cursors'
    BY <1>1, <2>1, Zenon DEF Slots, Cursors
  <2>3. PoolInv'
    BY <1>1, <2>1, <2>2, PoolMarks, Zenon
  <2> QED
    BY <1>1, <1>2, <1>3, <1>4, <1>5, <2>1, <2>3, QuietStep, Zenon
<1>7. CASE Cancel
  <2>1. dpc = "cancel slot" /\ CancelSlot(cursor, sched.newest_generation)
    BY <1>7, Zenon DEF Cancel, Loop
  <2>2. cursor < Workers /\ cursor \in 0..Workers
    BY <1>1, <2>1, Zenon DEF LoopInv
  <2>3. PICK w \in Worker : w = cursor
    BY <2>2, WorkerFacts
  <2>4. CASE state[w] = "kReady" /\ request[w].gen < sched.newest_generation
    <3>1. /\ state' = [state EXCEPT ![w] = "kIdle"]
          /\ ready_index' = IF ready_index = w THEN NoWorker ELSE ready_index
          /\ UNCHANGED <<request, stop_requested, result, tpc, remaining_nfe, ready_cursor,
                         dispatch_cursor>>
      BY <2>1, <2>3, <2>4, Zenon DEF CancelSlot, threadVars
    <3>2. Cursors'
      BY <1>1, <3>1, Zenon DEF Cursors
    <3>3. remaining_nfe' = [remaining_nfe EXCEPT ![w] = remaining_nfe[w]] /\ remaining_nfe[w] \in Nat
      BY <1>1, <3>1, Unmoved, SlotFields, Zenon
    <3>4. PoolInv' /\ \A v \in Worker : state'[v] # "kIdle" => state[v] # "kIdle"
      BY <1>1, <2>4, <3>1, <3>2, <3>3, SlotFreed, Zenon
    <3> QED
      BY <1>1, <1>2, <1>3, <1>4, <1>5, <3>1, <3>4, QuietStep, Zenon
  <2>5. CASE ~(state[w] = "kReady" /\ request[w].gen < sched.newest_generation)
    <3>1. UNCHANGED <<state, request, stop_requested, threadVars, ready_index, ready_cursor,
                      dispatch_cursor>>
      BY <2>1, <2>3, <2>5, Zenon DEF CancelSlot
    <3>2. stop_requested' \in [Worker -> BOOLEAN] /\ Cursors'
      BY <1>1, <3>1, Zenon DEF Slots, Cursors
    <3>3. PoolInv'
      BY <1>1, <3>1, <3>2, PoolMarks, Zenon
    <3> QED
      BY <1>1, <1>2, <1>3, <1>4, <1>5, <3>1, <3>3, QuietStep, Zenon
  <2> QED
    BY <2>4, <2>5
<1> QED
  BY <1>6, <1>7

\* The slot whose result the publish phase looks at.
LEMMA OfferedFacts ==
  ASSUME PoolInv, LoopInv PROVE Offered \in Worker
<1>1. ready_index \in Worker \cup {NoWorker} /\ ready_cursor \in Worker /\ cursor \in 0..Workers
  BY Zenon DEF PoolInv, Cursors, LoopInv
<1>2. ready_cursor + cursor \in Int
  BY <1>1, WorkerFacts
<1>3. Scanned(cursor) \in Worker
  BY <1>2, WorkerFacts, Zenon DEF Scanned
<1> QED
  BY <1>1, <1>3, Zenon DEF Offered

\* What the scan's counters do, as long as it goes on.
LEMMA ScanCounts ==
  ASSUME LoopInv, ScanOn PROVE LoopInv'
<1>1. dpc = "publish" /\ cursor' = (cursor + 1) % Workers /\ UNCHANGED <<now, rejection>>
  BY Zenon DEF ScanOn, Loop
<1>2. /\ cursor < Workers /\ cursor \in 0..Workers /\ count \in Nat /\ count < Workers
      /\ now' \in 1..MaxNow /\ rejection' \in Sound \cup {NoMessage}
  BY <1>1, Zenon DEF LoopInv
<1>3. \/ dpc' = "dispatch" /\ count' = 0
      \/ dpc' = "publish" /\ count' = count
  BY Zenon DEF ScanOn, Loop
<1>4. cursor' \in 0..Workers /\ cursor' < Workers
  <2>1. cursor + 1 \in Int /\ Workers \in Nat \ {0}
    BY <1>2, WorkerFacts
  <2>2. cursor' \in Worker
    BY <1>1, <2>1, WorkerFacts, Zenon
  <2> QED
    BY <2>1, <2>2 DEF Worker
<1>5. CASE dpc' = "dispatch" /\ count' = 0
  <2>1. 0 \in Nat /\ 0 <= Workers
    BY WorkerFacts
  <2> QED
    BY <1>2, <1>4, <1>5, <2>1, Zenon DEF LoopInv
<1>6. CASE dpc' = "publish" /\ count' = count
  <2>1. count <= Workers
    BY <1>2, WorkerFacts
  <2> QED
    BY <1>2, <1>4, <1>6, <2>1, Zenon DEF LoopInv
<1> QED
  BY <1>3, <1>5, <1>6

LEMMA PublishQuietStep ==
  ASSUME RelayInv,
         ScanNone \/ DispatchDone \/ PublishBlocked \/ (ScanOn /\ state[Offered] # "kReady")
  PROVE  RelayInv'
<1>1. SchedInv(sched) /\ PoolInv /\ RingInv /\ LoopInv /\ Cursors /\ Slots
  BY Zenon DEF RelayInv, PoolInv
<1>2. /\ dpc \in {"publish", "dispatch"}
      /\ UNCHANGED <<unsent, conditions, now, actions, sched, rejection, outcomes, unreported>>
  BY Zenon DEF ScanNone, DispatchDone, PublishBlocked, ScanOn, Loop
<1>3. RingInv' /\ \A q \in Sequences_ : Coming(q)' => Coming(q)
  BY <1>1, <1>2, RingStays, Zenon
<1>4. PoolInv' /\ UNCHANGED <<state, request>>
  <2>1. CASE UNCHANGED poolVars
    BY <1>1, <2>1, PoolStays, Zenon
  <2>2. CASE PublishBlocked
    <3>1. UNCHANGED <<state, request, stop_requested, threadVars, ready_cursor, dispatch_cursor>>
          /\ ready_index' = Offered
      BY <2>2, Zenon DEF PublishBlocked
    <3>2. Cursors' /\ stop_requested' \in [Worker -> BOOLEAN]
      BY <1>1, <3>1, OfferedFacts, Zenon DEF Cursors, Slots
    <3> QED
      BY <1>1, <3>1, <3>2, PoolMarks, Zenon
  <2> QED
    BY <2>1, <2>2, Zenon DEF ScanNone, DispatchDone, ScanOn
<1>5. LoopInv'
  <2>1. now' \in 1..MaxNow /\ rejection' \in Sound \cup {NoMessage}
    BY <1>1, <1>2, Zenon DEF LoopInv
  <2>2. 0 \in 0..Workers /\ 0 \in Nat /\ 0 <= Workers /\ 0 <= RingCapacity /\ 0 < Workers
    BY WorkerFacts, DaemonAssumption
  <2>3. CASE dpc' \in {"dispatch", "stop", "drain"} /\ count' = 0 /\ cursor' = 0
    BY <2>1, <2>2, <2>3, Zenon DEF LoopInv
  <2>4. CASE ScanOn
    BY <1>1, <2>4, ScanCounts, Zenon
  <2> QED
    BY <2>3, <2>4, Zenon DEF ScanNone, DispatchDone, PublishBlocked, Loop, NextPass
<1>6. ~Stopping
  BY <1>2, Zenon DEF Stopping
<1> QED
  BY <1>1, <1>2, <1>3, <1>4, <1>5, <1>6, QuietStep, Zenon

LEMMA StopStep ==
  ASSUME RelayInv, StopSlot \/ StopLoad \/ StopWakes \/ Join PROVE RelayInv'
<1>1. SchedInv(sched) /\ PoolInv /\ RingInv /\ LoopInv /\ Cursors /\ Slots
  BY Zenon DEF RelayInv, PoolInv
<1>2. /\ dpc \in {"stop", "stop load", "stop wake"}
      /\ UNCHANGED <<unsent, conditions, now, actions, sched, count, rejection, outcomes, unreported>>
  BY Zenon DEF StopSlot, StopLoad, StopWakes, Join, Loop
<1>3. RingInv' /\ \A q \in Sequences_ : Coming(q)' => Coming(q)
  BY <1>1, <1>2, RingStays, Zenon
<1>4. Stopping'
  BY Zenon DEF Stopping, StopSlot, StopLoad, StopWakes, Join, Loop
<1>5. /\ now' \in 1..MaxNow /\ rejection' \in Sound \cup {NoMessage} /\ count' \in Nat
      /\ count' <= Workers /\ cursor \in 0..Workers
  BY <1>1, <1>2, Zenon DEF LoopInv
<1>6. ASSUME PoolInv', UNCHANGED request, LoopInv' PROVE RelayInv'
  BY <1>1, <1>2, <1>3, <1>4, <1>6, QuietStep, Zenon
<1>7. CASE StopSlot
  <2>1. /\ cursor < Workers /\ cursor' = cursor /\ dpc' = "stop load" /\ StopMark(cursor)
    BY <1>7, Zenon DEF StopSlot, Loop
  <2>1a. cursor < Workers
    BY <2>1, Zenon
  <2>2. PICK w \in Worker : w = cursor
    BY <1>5, <2>1a, WorkerFacts
  <2>3. /\ stop_requested' = [stop_requested EXCEPT ![w] = TRUE]
        /\ UNCHANGED <<state, request, threadVars, ready_index, ready_cursor, dispatch_cursor>>
    BY <2>1, <2>2, Zenon DEF StopMark
  <2>4. stop_requested' \in [Worker -> BOOLEAN] /\ stop_requested'[w] = TRUE /\ Cursors'
    BY <1>1, <2>3, Zenon DEF Slots, Cursors
  <2>5. PoolInv'
    BY <1>1, <2>3, <2>4, PoolMarks, Zenon
  <2>6. stop_requested'[cursor']
    BY <2>1, <2>2, <2>4, Zenon
  <2>7. LoopInv'
    BY <1>5, <2>1, <2>6, Zenon DEF LoopInv
  <2> QED
    BY <1>6, <2>3, <2>5, <2>7, Zenon
<1>8. CASE StopLoad \/ Join
  <2>1. UNCHANGED <<poolVars, cursor>>
    BY <1>8, Zenon DEF StopLoad, Join
  <2>2. PoolInv' /\ UNCHANGED <<request, stop_requested>>
    BY <1>1, <2>1, PoolStays, Zenon
  <2>3. \/ dpc = "stop load" /\ dpc' = "stop wake"
        \/ dpc' = "stopped"
    BY <1>8, Zenon DEF StopLoad, Join, Loop
  <2>4. LoopInv'
    BY <1>1, <1>5, <2>1, <2>2, <2>3, Zenon DEF LoopInv
  <2> QED
    BY <1>6, <2>2, <2>4, Zenon
<1>9. CASE StopWakes
  <2>1. dpc = "stop wake" /\ dpc' = "stop" /\ cursor' = cursor + 1 /\ StopWake(cursor, observed)
    BY <1>9, Zenon DEF StopWakes, Loop
  <2>2. cursor < Workers /\ cursor' = cursor + 1
    BY <1>1, <2>1, Zenon DEF LoopInv
  <2>3. PICK w \in Worker : w = cursor
    BY <1>5, <2>2, WorkerFacts
  <2>4. cursor' \in 0..Workers
    BY <1>5, <2>2, WorkerFacts
  <2>5. LoopInv'
    BY <1>5, <2>1, <2>4, Zenon DEF LoopInv
  <2>6. /\ state' = [state EXCEPT ![w] = "kRequested"] \/ UNCHANGED state
        /\ UNCHANGED <<request, stop_requested, result, remaining_nfe, tpc, threadVars, ready_index,
                       ready_cursor, dispatch_cursor>>
    BY <2>1, <2>3, Zenon DEF StopWake, threadVars
  <2>7. /\ stop_requested' \in [Worker -> BOOLEAN] /\ request' \in [Worker -> Sound \cup {NoMessage}]
        /\ Cursors'
    BY <1>1, <2>6, Zenon DEF Slots, Cursors
  <2>8. CASE UNCHANGED state
    <3>1. PoolInv'
      BY <1>1, <2>6, <2>7, <2>8, PoolMarks, Zenon
    <3> QED
      BY <1>6, <2>5, <2>6, <3>1, Zenon
  <2>9. CASE state' = [state EXCEPT ![w] = "kRequested"]
    <3>1. /\ result[w] \in Verdicts /\ remaining_nfe[w] \in Nat /\ tpc[w] \in Labels
          /\ SlotFits(tpc[w], state[w], remaining_nfe[w])
      BY <1>1, SlotFields, Zenon
    <3>2. SlotFits(tpc[w], "kRequested", remaining_nfe[w]) /\ "kRequested" \in States
      BY <3>1, Zenon DEF SlotFits, States
    <3>3. /\ tpc' = [tpc EXCEPT ![w] = tpc[w]] /\ result' = [result EXCEPT ![w] = result[w]]
          /\ remaining_nfe' = [remaining_nfe EXCEPT ![w] = remaining_nfe[w]]
      BY <1>1, <2>6, Unmoved, Zenon
    <3>4. PoolInv'
      BY <1>1, <2>7, <2>9, <3>1, <3>2, <3>3, SlotMoves, Zenon
    <3> QED
      BY <1>6, <2>5, <2>6, <3>4, Zenon
  <2> QED
    BY <2>6, <2>8, <2>9
<1> QED
  BY <1>7, <1>8, <1>9

\* A request leaves its place because it is answered or counted as unreported.
LEMMA AnswerPlaced ==
  ASSUME OwnerInv, NEW m \in Sound, Reported(m), sched'.heap \subseteq sched.heap,
         UNCHANGED request, \A w \in Worker : state'[w] # "kIdle" => state[w] # "kIdle",
         rejection' \in {rejection, NoMessage}, \A q \in Sequences_ : Coming(q)' => Coming(q),
         ~Coming(m.seq)', ~Queued(m.seq)', ~Solved(m.seq)', ~Displaced(m.seq)'
  PROVE  OwnerInv'
<1>1. SlotsSound' /\ SolvedOnce'
  BY Zenon DEF OwnerInv, SlotsSound, SolvedOnce
<1>2. QueuedOnce' /\ AnsweredOnce'
  BY Zenon DEF OwnerInv, QueuedOnce, Reported
<1>3. ASSUME NEW q \in Sequences_, q # m.seq PROVE OnePlace(q)'
  <2>1. Queued(q)' => Queued(q)
    BY Zenon DEF Queued
  <2>2. Solved(q)' => Solved(q)
    BY Zenon DEF Solved
  <2>3. Displaced(q)' => Displaced(q)
    BY Zenon DEF Displaced
  <2>4. (Answered(q)' => Answered(q)) /\ (Unreported(q)' => Unreported(q))
    BY <1>3, Zenon DEF Reported
  <2>5. Fewer(q)
    BY <2>1, <2>2, <2>3, <2>4, Zenon DEF Fewer
  <2> QED
    BY <2>5, FewerPlaces, Zenon DEF OwnerInv, Placed
<1>4. ~(Answered(m.seq)' /\ Unreported(m.seq)')
  BY Zenon DEF Reported
<1>5. OnePlace(m.seq)'
  BY <1>4, Zenon DEF OnePlace, OnlyOne
<1>6. Placed'
  <2> SUFFICES ASSUME NEW q \in Sequences_ PROVE OnePlace(q)'
    BY Zenon DEF Placed
  <2>1. CASE q = m.seq
    BY <1>5, <2>1
  <2> QED
    BY <1>3, <2>1, Zenon
<1> QED
  BY <1>1, <1>2, <1>6, Zenon DEF OwnerInv

LEMMA LoseFacts ==
  ASSUME RingInv, OutcomeInv, AnsweredOnce, NEW m \in Sound, ~Answered(m.seq),
         unreported' = unreported \cup {m.seq}, UNCHANGED <<actions, outcomes>>
  PROVE  Reported(m)
<1>1. OutcomeInv' /\ AnsweredOnce' /\ actions' \in Seq(Nat) /\ Len(actions') <= RingCapacity
  BY Zenon DEF OutcomeInv, AnsweredOnce, RingInv
<1>2. ~Answered(m.seq)'
  BY Zenon DEF Answered
<1>3. \A q \in Sequences_ : q # m.seq => (Answered(q)' => Answered(q))
                                         /\ (Unreported(q)' => Unreported(q))
  BY Zenon DEF Answered, Unreported
<1> QED
  BY <1>1, <1>2, <1>3, Zenon DEF Reported

LEMMA ReportStep ==
  ASSUME RelayInv, ReportDisplaced PROVE RelayInv'
<1>1. SchedInv(sched) /\ PoolInv /\ RingInv /\ LoopInv /\ OutcomeInv
  BY Zenon DEF RelayInv
<1>2. /\ dpc = "cancel" /\ dpc' = "drain" /\ rejection' = NoMessage
      /\ UNCHANGED <<poolVars, unsent, now, conditions, sched, count, cursor>>
  BY Zenon DEF ReportDisplaced, Loop
<1>3. PoolInv' /\ UNCHANGED <<state, request, stop_requested>>
  BY <1>1, <1>2, PoolStays, Zenon
<1>4. ~Stopping
  BY <1>2, Zenon DEF Stopping
<1>5. OwnerInv
  BY <1>4, Zenon DEF RelayInv
<1>6. LoopInv'
  BY <1>1, <1>2, Zenon DEF LoopInv
<1>7. CASE rejection = NoMessage
  <2>1. UNCHANGED <<actions, outcomes, unreported>>
    BY <1>7, Zenon DEF ReportDisplaced
  <2>2. RingInv' /\ \A q \in Sequences_ : Coming(q)' => Coming(q)
    BY <1>1, <1>2, <2>1, RingStays, Zenon
  <2> QED
    BY <1>1, <1>2, <1>3, <1>4, <1>6, <2>1, <2>2, QuietStep, Zenon
<1>8. CASE rejection # NoMessage
  <2>1. PICK m \in Sound : m = rejection
    BY <1>1, <1>8, Zenon DEF LoopInv
  <2>2. publish_rejection(m, "kRejectedCapacity")
    BY <1>8, <2>1, Zenon DEF ReportDisplaced
  <2>3. m.seq \in Sequences_ /\ Displaced(m.seq)
    BY <1>8, <2>1, SoundFacts, Zenon DEF Displaced
  <2>4. OnePlace(m.seq)
    BY <1>5, <2>3, Zenon DEF OwnerInv, Placed
  <2>5. ~Coming(m.seq) /\ ~Queued(m.seq) /\ ~Solved(m.seq) /\ ~Answered(m.seq) /\ ~Unreported(m.seq)
    BY <2>3, <2>4, Zenon DEF OnePlace, OnlyOne
  <2>6. "kRejectedCapacity" \in Codes
    BY DEF Codes, rejection_code
  <2>7. Reported(m)
    BY <1>1, <1>5, <2>2, <2>5, <2>6, RejectFacts, Zenon DEF OwnerInv
  <2>8. (\A q \in Sequences_ : Coming(q)' => Coming(q)) /\ ~Coming(m.seq)'
    BY <1>2, <2>5, Zenon DEF Coming
  <2>9. ~Queued(m.seq)' /\ ~Solved(m.seq)' /\ ~Displaced(m.seq)'
    BY <1>2, <1>3, <2>5, Zenon DEF Queued, Solved, Displaced
  <2>10. OwnerInv'
    BY <1>2, <1>3, <1>5, <2>7, <2>8, <2>9, AnswerPlaced, Zenon
  <2>11. RingInv' /\ OutcomeInv'
    BY <1>1, <1>2, <2>7, Zenon DEF RingInv, Reported
  <2> QED
    BY <1>1, <1>2, <1>3, <1>6, <2>10, <2>11, Zenon DEF RelayInv
<1> QED
  BY <1>7, <1>8

\* A condition is queued, and perhaps takes the place of a queued one.
LEMMA AcceptPlaced ==
  ASSUME OwnerInv, NEW m \in Sound, Coming(m.seq), ~Coming(m.seq)',
         \A q \in Sequences_ : Coming(q)' => Coming(q),
         sched'.heap \subseteq sched.heap \cup {m}, UNCHANGED <<state, request, outcomes, unreported>>,
         rejection' = NoMessage \/ (rejection' \in sched.heap /\ rejection' \notin sched'.heap),
         sched.heap \subseteq Sound
  PROVE  OwnerInv'
<1>1. SlotsSound' /\ SolvedOnce' /\ AnsweredOnce'
  BY Zenon DEF OwnerInv, SlotsSound, SolvedOnce, AnsweredOnce
<1>2. m.seq \in Sequences_ /\ OnePlace(m.seq)
  BY SoundFacts, Zenon DEF OwnerInv, Placed
<1>3. ~Queued(m.seq) /\ ~Solved(m.seq) /\ ~Answered(m.seq) /\ ~Unreported(m.seq)
  BY <1>2, Zenon DEF OnePlace, OnlyOne
<1>4. \A x \in sched.heap : x.seq # m.seq
  BY <1>3, Zenon DEF Queued
<1>5. QueuedOnce'
  BY <1>4, Zenon DEF OwnerInv, QueuedOnce
<1>6. \A q \in Sequences_ : /\ Solved(q)' <=> Solved(q)
                            /\ Answered(q)' <=> Answered(q)
                            /\ Unreported(q)' <=> Unreported(q)
  BY Zenon DEF Solved, Answered, Unreported
<1>7. OnePlace(m.seq)'
  <2>1. ~Displaced(m.seq)'
    BY <1>4, Zenon DEF Displaced
  <2> QED
    BY <1>2, <1>3, <1>6, <2>1, Zenon DEF OnePlace, OnlyOne
<1>8. ASSUME NEW q \in Sequences_, q # m.seq PROVE OnePlace(q)'
  <2>1. OnePlace(q)
    BY Zenon DEF OwnerInv, Placed
  <2>2. Queued(q)' => Queued(q)
    BY <1>8, Zenon DEF Queued
  <2>3. CASE Displaced(q)'
    <3>1. rejection' \in sched.heap /\ rejection' \notin sched'.heap /\ rejection'.seq = q
      BY <2>3, Zenon DEF Displaced
    <3>2. Queued(q)
      BY <3>1, Zenon DEF Queued
    <3>3. ~Queued(q)'
      <4>1. ASSUME NEW y \in sched'.heap, y.seq = q PROVE FALSE
        <5>1. y \in sched.heap
          BY <1>8, <4>1, Zenon
        <5> QED
          BY <3>1, <4>1, <5>1, Zenon DEF OwnerInv, QueuedOnce
      <4> QED
        BY <4>1, Zenon DEF Queued
    <3> QED
      BY <1>6, <2>1, <3>2, <3>3, Zenon DEF OnePlace, OnlyOne
  <2>4. CASE ~Displaced(q)'
    <3>1. Fewer(q)
      BY <1>6, <2>2, <2>4, Zenon DEF Fewer
    <3> QED
      BY <2>1, <3>1, FewerPlaces, Zenon
  <2> QED
    BY <2>3, <2>4
<1>9. Placed'
  <2> SUFFICES ASSUME NEW q \in Sequences_ PROVE OnePlace(q)'
    BY Zenon DEF Placed
  <2>1. CASE q = m.seq
    BY <1>7, <2>1
  <2> QED
    BY <1>8, <2>1, Zenon
<1> QED
  BY <1>1, <1>5, <1>9, Zenon DEF OwnerInv

LEMMA DrainSubmitStep ==
  ASSUME RelayInv, DrainSubmit PROVE RelayInv'
<1>1. SchedInv(sched) /\ PoolInv /\ RingInv /\ LoopInv /\ OutcomeInv
  BY Zenon DEF RelayInv
<1>2. /\ dpc = "drain" /\ conditions # <<>> /\ Head(conditions).kind = "good"
      /\ UNCHANGED poolVars
  BY Zenon DEF DrainSubmit
<1>3. PICK m : m = Message(Head(conditions))
  BY Zenon
<1>4. PICK out : out = submit(sched, m, admission_context(now))
  BY Zenon
<1> DEFINE refused == out.result \in DOMAIN rejection_code
<1>5. /\ Drain(IF refused THEN "drain" ELSE "cancel")
      /\ sched' = out.sched /\ rejection' = out.displaced /\ count' = count + 1 /\ cursor' = 0
      /\ IF refused THEN publish_rejection(m, rejection_code[out.result])
         ELSE UNCHANGED <<actions, outcomes, unreported>>
  BY <1>3, <1>4, Zenon DEF DrainSubmit
<1> HIDE DEF refused
<1>6. /\ conditions' = Tail(conditions) /\ count < RingCapacity /\ UNCHANGED <<unsent, now>>
      /\ dpc' = IF refused THEN "drain" ELSE "cancel"
  BY <1>5, Zenon DEF Drain, Loop
<1>7. ~Stopping /\ OwnerInv
  BY <1>2, Zenon DEF Stopping, RelayInv
<1>8. PoolInv' /\ UNCHANGED <<state, request, stop_requested>>
  BY <1>1, <1>2, PoolStays, Zenon
<1>9. Head(conditions) \in Requests
  BY <1>1, <1>2, HeadAndTail, Zenon DEF RingInv
<1>10. m \in Sound /\ m.seq = Head(conditions).seq
  BY <1>2, <1>3, <1>9, GoodIsSound, Zenon
<1>11. m.seq \in Sequences_
  BY <1>10, SoundFacts, Zenon
<1>12. Coming(m.seq)
  <2>1. Head(conditions) = conditions[1] /\ 1 \in 1..Len(conditions)
    BY <1>1, <1>2 DEF RingInv
  <2> QED
    BY <1>10, <2>1, Zenon DEF Coming
<1>13. /\ OnePlace(m.seq)
       /\ ~Queued(m.seq) /\ ~Solved(m.seq) /\ ~Answered(m.seq) /\ ~Unreported(m.seq)
  BY <1>7, <1>11, <1>12, Zenon DEF OwnerInv, Placed, OnePlace, OnlyOne
<1>14. m \notin sched.heap
  BY <1>13, Zenon DEF Queued
<1>15. Submitted(sched, m, out)
  BY <1>1, <1>4, <1>10, <1>14, SubmitFacts, Zenon
<1>16. SchedInv(sched')
  BY <1>5, <1>15, Zenon DEF Submitted
<1>17. sched.heap \subseteq Sound
  BY <1>1, SchedFields, Zenon DEF SchedInv, Heaps
<1>18. LoopInv'
  <2>1. now' \in 1..MaxNow /\ count \in Nat /\ count < RingCapacity /\ cursor' = 0
        /\ count' = count + 1
    BY <1>1, <1>5, <1>6, Zenon DEF LoopInv
  <2>2. count' \in Nat /\ count' <= RingCapacity /\ cursor' \in 0..Workers
    BY <2>1, WorkerFacts, DaemonAssumption
  <2>3. rejection' \in Sound \cup {NoMessage}
    BY <1>5, <1>15, <1>17, Zenon DEF Submitted
  <2>4. dpc' \in {"drain", "cancel"}
    BY <1>6, Zenon
  <2> QED
    BY <2>1, <2>2, <2>3, <2>4, Zenon DEF LoopInv
<1>19. CASE refused
  <2>1. /\ publish_rejection(m, rejection_code[out.result]) /\ rejection' = NoMessage
        /\ sched'.heap \subseteq sched.heap
    BY <1>5, <1>15, <1>19, Zenon DEF Submitted, refused
  <2>2. rejection_code[out.result] \in Codes
    BY <1>19, Zenon DEF Codes, refused
  <2>3. Reported(m)
    BY <1>1, <1>7, <1>10, <1>13, <2>1, <2>2, RejectFacts, Zenon DEF OwnerInv
  <2>4. /\ RingInv' /\ \A q \in Sequences_ : Coming(q)' => Coming(q)
        /\ ~Coming(m.seq)'
    BY <1>1, <1>2, <1>6, <1>10, <1>11, <2>3, DrainRing, Zenon DEF Reported
  <2>5. ~Queued(m.seq)' /\ ~Solved(m.seq)' /\ ~Displaced(m.seq)'
    BY <1>8, <1>13, <2>1, Zenon DEF Queued, Solved, Displaced
  <2>6. OwnerInv'
    BY <1>7, <1>8, <1>10, <2>1, <2>3, <2>4, <2>5, AnswerPlaced, Zenon
  <2>7. OutcomeInv'
    BY <2>3, Zenon DEF Reported
  <2> QED
    BY <1>8, <1>16, <1>18, <2>4, <2>6, <2>7, Zenon DEF RelayInv
<1>20. CASE ~refused
  <2>1. UNCHANGED <<actions, outcomes, unreported>> /\ sched'.heap \subseteq sched.heap \cup {m}
    BY <1>5, <1>15, <1>20, Zenon DEF Submitted, refused
  <2>2. rejection' = NoMessage \/ (rejection' \in sched.heap /\ rejection' \notin sched'.heap)
    BY <1>5, <1>15, <1>20, Zenon DEF Submitted, refused
  <2>3. /\ RingInv' /\ \A q \in Sequences_ : Coming(q)' => Coming(q)
        /\ ~Coming(m.seq)'
    <3>1. actions' \in Seq(Nat) /\ Len(actions') <= RingCapacity
      BY <1>1, <2>1, Zenon DEF RingInv
    <3> QED
      BY <1>1, <1>2, <1>6, <1>10, <1>11, <3>1, DrainRing, Zenon
  <2>4. OwnerInv'
    BY <1>7, <1>8, <1>10, <1>12, <1>17, <2>1, <2>2, <2>3, AcceptPlaced, Zenon
  <2>5. OutcomeInv'
    BY <1>1, <2>1, Zenon DEF OutcomeInv
  <2> QED
    BY <1>8, <1>16, <1>18, <2>3, <2>4, <2>5, Zenon DEF RelayInv
<1> QED
  BY <1>19, <1>20

\* The request of a slot that is set free is in no other place.
LEMMA FreedPlaces ==
  ASSUME OwnerInv, NEW w \in Worker, state[w] = "kReady", NEW m, m = request[w],
         \A v \in Worker : state'[v] # "kIdle" <=> (state[v] # "kIdle" /\ v # w),
         UNCHANGED <<request, sched, rejection, unsent, conditions>>
  PROVE  /\ m \in Sound /\ ~Answered(m.seq) /\ ~Unreported(m.seq)
         /\ ~Coming(m.seq)' /\ ~Queued(m.seq)' /\ ~Solved(m.seq)' /\ ~Displaced(m.seq)'
<1>0. state[w] # "kIdle"
  OBVIOUS
<1>1. m \in Sound
  BY <1>0, Zenon DEF OwnerInv, SlotsSound
<1>2. m.seq \in Sequences_ /\ Solved(m.seq)
  BY <1>0, <1>1, SoundFacts, Zenon DEF Solved
<1>3. OnePlace(m.seq)
  BY <1>2, Zenon DEF OwnerInv, Placed
<1>4. /\ ~Coming(m.seq) /\ ~Queued(m.seq) /\ ~Displaced(m.seq) /\ ~Answered(m.seq)
      /\ ~Unreported(m.seq)
  BY <1>2, <1>3, Zenon DEF OnePlace, OnlyOne
<1>5. ~Coming(m.seq)' /\ ~Queued(m.seq)' /\ ~Displaced(m.seq)'
  BY <1>4, Zenon DEF Coming, Queued, Displaced
<1>6. ~Solved(m.seq)'
  <2>1. ASSUME NEW v \in Worker, state'[v] # "kIdle", request'[v].seq = m.seq PROVE FALSE
    <3>1. state[v] # "kIdle" /\ v # w /\ request[v].seq = m.seq
      BY <2>1, Zenon
    <3> QED
      BY <1>0, <3>1, Zenon DEF OwnerInv, SolvedOnce
  <2> QED
    BY <2>1, Zenon DEF Solved
<1> QED
  BY <1>1, <1>4, <1>5, <1>6, Zenon

LEMMA PublishResultStep ==
  ASSUME RelayInv, PublishResult PROVE RelayInv'
<1>1. SchedInv(sched) /\ PoolInv /\ RingInv /\ LoopInv /\ OutcomeInv /\ Cursors /\ Slots
  BY Zenon DEF RelayInv, PoolInv
<1>2. PICK w \in Worker : w = Offered
  BY <1>1, OfferedFacts, Zenon
<1>3. /\ state[w] = "kReady" /\ result[w] # "none" /\ Len(actions) < RingCapacity
      /\ dpc = "publish" /\ Publish(request[w], result[w]) /\ release_ready_action(w)
      /\ UNCHANGED <<unsent, now, conditions, sched, rejection, unreported>>
  BY <1>2, Zenon DEF PublishResult, OffersResult, Loop
<1>4. /\ dpc' = IF count + 1 = Workers THEN "dispatch" ELSE "publish"
      /\ count' = IF count + 1 = Workers THEN 0 ELSE count + 1
      /\ cursor' = 0
  BY Zenon DEF PublishResult, Loop
<1>5. ~Stopping /\ OwnerInv
  BY <1>3, Zenon DEF Stopping, RelayInv
<1>6. /\ state' = [state EXCEPT ![w] = "kIdle"] /\ remaining_nfe' = [remaining_nfe EXCEPT ![w] = 0]
      /\ UNCHANGED <<request, result, tpc, stop_requested, dispatch_cursor>>
      /\ ready_cursor' = Next1(w) /\ ready_index' = NoWorker
  BY <1>3, Zenon DEF release_ready_action
<1>7. Cursors'
  BY <1>1, <1>6, CursorFacts, Zenon DEF Cursors
<1>8. 0 \in Nat
  OBVIOUS
<1>9. PoolInv' /\ \A v \in Worker : state'[v] # "kIdle" <=> (state[v] # "kIdle" /\ v # w)
  BY <1>1, <1>3, <1>6, <1>7, <1>8, SlotFreed, Zenon
<1>10. PICK m : m = request[w]
  BY Zenon
<1>11. /\ m \in Sound /\ ~Answered(m.seq) /\ ~Unreported(m.seq)
       /\ ~Coming(m.seq)' /\ ~Queued(m.seq)' /\ ~Solved(m.seq)' /\ ~Displaced(m.seq)'
  BY <1>3, <1>5, <1>6, <1>9, <1>10, FreedPlaces, Zenon
<1>12. result[w] \in Codes
  BY <1>1, <1>3, Zenon DEF Slots, Verdicts, Codes
<1>13. Reported(m)
  BY <1>1, <1>3, <1>5, <1>10, <1>11, <1>12, PublishFacts, Zenon DEF OwnerInv
<1>14. \A q \in Sequences_ : Coming(q)' => Coming(q)
  BY <1>3, Zenon DEF Coming
<1>15. OwnerInv'
  BY <1>3, <1>5, <1>6, <1>9, <1>11, <1>13, <1>14, AnswerPlaced, Zenon
<1>16. RingInv' /\ OutcomeInv'
  BY <1>1, <1>3, <1>13, Zenon DEF RingInv, Reported
<1>17. LoopInv'
  <2>1. count \in Nat /\ count < Workers /\ now' \in 1..MaxNow /\ rejection' \in Sound \cup {NoMessage}
    BY <1>1, <1>3, Zenon DEF LoopInv
  <2>2. CASE count + 1 = Workers
    <3>1. dpc' = "dispatch" /\ count' = 0 /\ cursor' = 0
      BY <1>4, <2>2, Zenon
    <3>2. 0 \in 0..Workers /\ 0 \in Nat /\ 0 <= Workers
      BY WorkerFacts
    <3> QED
      BY <2>1, <3>1, <3>2, Zenon DEF LoopInv
  <2>3. CASE count + 1 # Workers
    <3>1. dpc' = "publish" /\ count' = count + 1 /\ cursor' = 0
      BY <1>4, <2>3, Zenon
    <3>2. count + 1 \in Nat /\ count + 1 < Workers /\ count + 1 <= Workers /\ 0 \in 0..Workers
          /\ 0 < Workers
      BY <2>1, <2>3, WorkerFacts
    <3> QED
      BY <2>1, <3>1, <3>2, Zenon DEF LoopInv
  <2> QED
    BY <2>2, <2>3
<1>18. SchedInv(sched')
  BY <1>1, <1>3, Zenon
<1> QED
  BY <1>9, <1>15, <1>16, <1>17, <1>18, Zenon DEF RelayInv

LEMMA ScanFailStep ==
  ASSUME RelayInv, ScanOn, state[Offered] = "kReady" PROVE RelayInv'
<1>1. SchedInv(sched) /\ PoolInv /\ RingInv /\ LoopInv /\ OutcomeInv /\ Cursors /\ Slots
  BY Zenon DEF RelayInv, PoolInv
<1>2. PICK w \in Worker : w = Offered
  BY <1>1, OfferedFacts, Zenon
<1>3. /\ state[w] = "kReady" /\ dpc = "publish" /\ ScanFails(w)
      /\ unreported' = unreported \cup {request[w].seq}
      /\ UNCHANGED <<unsent, now, conditions, actions, sched, rejection, outcomes>>
  BY <1>2, Zenon DEF ScanOn, Loop
<1>4. ~Stopping /\ OwnerInv
  BY <1>3, Zenon DEF Stopping, RelayInv
<1>5. /\ state' = [state EXCEPT ![w] = "kIdle"]
      /\ UNCHANGED <<request, result, remaining_nfe, tpc, stop_requested, dispatch_cursor, ready_index>>
      /\ ready_cursor' = Next1(w)
  BY <1>3, Zenon DEF ScanFails, threadVars
<1>6. Cursors'
  BY <1>1, <1>5, CursorFacts, Zenon DEF Cursors
<1>7. remaining_nfe[w] \in Nat /\ remaining_nfe' = [remaining_nfe EXCEPT ![w] = remaining_nfe[w]]
  BY <1>1, <1>5, SlotFields, Unmoved, SameExcept, Zenon DEF Slots
<1>8. PoolInv' /\ \A v \in Worker : state'[v] # "kIdle" <=> (state[v] # "kIdle" /\ v # w)
  BY <1>1, <1>3, <1>5, <1>6, <1>7, SlotFreed, Zenon
<1>9. PICK m : m = request[w]
  BY Zenon
<1>10. /\ m \in Sound /\ ~Answered(m.seq) /\ ~Unreported(m.seq)
       /\ ~Coming(m.seq)' /\ ~Queued(m.seq)' /\ ~Solved(m.seq)' /\ ~Displaced(m.seq)'
  BY <1>3, <1>4, <1>5, <1>8, <1>9, FreedPlaces, Zenon
<1>11. Reported(m)
  BY <1>1, <1>3, <1>4, <1>9, <1>10, LoseFacts, Zenon DEF OwnerInv
<1>12. RingInv' /\ \A q \in Sequences_ : Coming(q)' => Coming(q)
  BY <1>1, <1>3, RingStays, Zenon
<1>13. OwnerInv'
  BY <1>3, <1>4, <1>5, <1>8, <1>10, <1>11, <1>12, AnswerPlaced, Zenon
<1>14. LoopInv' /\ OutcomeInv'
  BY <1>1, <1>11, ScanCounts, Zenon DEF Reported
<1>15. SchedInv(sched')
  BY <1>1, <1>3, Zenon
<1> QED
  BY <1>8, <1>12, <1>13, <1>14, <1>15, Zenon DEF RelayInv

\* The slot a search from a cursor on ends at is one of those searched for.
LEMMA FirstFromFacts ==
  ASSUME NEW c \in Worker, NEW ws \in SUBSET Worker, ws # {} PROVE FirstFrom(c, ws) \in ws
<1> DEFINE S == {(w - c) % Workers : w \in ws}
<1>1. Workers \in Nat \ {0} /\ \A w \in Worker : w \in Nat
  BY WorkerFacts
<1>2. ASSUME NEW w \in ws PROVE (w - c) % Workers \in Nat
  <2>1. w \in Nat /\ c \in Nat
    BY <1>1
  <2>2. w - c \in Int
    BY <2>1
  <2> QED
    BY <1>1, <2>2
<1>3. S \in SUBSET Nat /\ S # {}
  BY <1>2, Zenon
<1>4. PICK k \in S : \A n \in S : k <= n
  BY <1>3, LeastNatural, Zenon
<1>5. PICK w \in ws : k = (w - c) % Workers
  BY <1>4, Zenon
<1>6. \A v \in ws : (w - c) % Workers <= (v - c) % Workers
  BY <1>4, <1>5, Zenon
<1> HIDE DEF S
<1> QED
  BY <1>5, <1>6, Zenon DEF FirstFrom

\* A queued request is given to an idle slot.
LEMMA DispatchPlaced ==
  ASSUME OwnerInv, PoolInv, NEW m \in Sound, m \in sched.heap, m \notin sched'.heap,
         sched'.heap \subseteq sched.heap, NEW w \in Worker, state[w] = "kIdle",
         state' = [state EXCEPT ![w] = "kRequested"], request' = [request EXCEPT ![w] = m],
         UNCHANGED <<rejection, unsent, conditions, outcomes, unreported>>
  PROVE  OwnerInv'
<1>1. /\ state'[w] = "kRequested" /\ request'[w] = m
      /\ \A v \in Worker : v # w => state'[v] = state[v] /\ request'[v] = request[v]
  BY Zenon DEF PoolInv, Slots
<1>2. m.seq \in Sequences_ /\ Queued(m.seq)
  BY SoundFacts, Zenon DEF Queued
<1>3. OnePlace(m.seq)
  BY <1>2, Zenon DEF OwnerInv, Placed
<1>4. /\ ~Coming(m.seq) /\ ~Solved(m.seq) /\ ~Displaced(m.seq) /\ ~Answered(m.seq)
      /\ ~Unreported(m.seq)
  BY <1>2, <1>3, Zenon DEF OnePlace, OnlyOne
<1>5. QueuedOnce' /\ AnsweredOnce'
  BY Zenon DEF OwnerInv, QueuedOnce, AnsweredOnce
<1>6. SlotsSound'
  <2> SUFFICES ASSUME NEW v \in Worker, state'[v] # "kIdle" PROVE request'[v] \in Sound
    BY Zenon DEF SlotsSound
  <2>1. CASE v = w
    BY <1>1, <2>1, Zenon
  <2> QED
    BY <1>1, <2>1, Zenon DEF OwnerInv, SlotsSound
<1>7. \A v \in Worker : v # w /\ state'[v] # "kIdle" => request'[v].seq # m.seq
  BY <1>1, <1>4, Zenon DEF Solved
<1>8. SolvedOnce'
  <2> SUFFICES ASSUME NEW u \in Worker, NEW v \in Worker, state'[u] # "kIdle", state'[v] # "kIdle",
                      request'[u].seq = request'[v].seq
               PROVE  u = v
    BY Zenon DEF SolvedOnce
  <2>0. request'[w].seq = m.seq
    BY <1>1, Zenon
  <2>1. CASE u = w \/ v = w
    <3>1. CASE u = w
      BY <1>7, <2>0, <3>1, Zenon
    <3>2. CASE v = w
      BY <1>7, <2>0, <3>2, Zenon
    <3> QED
      BY <2>1, <3>1, <3>2, Zenon
  <2>2. CASE u # w /\ v # w
    <3>1. /\ state[u] # "kIdle" /\ state[v] # "kIdle"
          /\ request[u].seq = request[v].seq
      <4>1. state'[u] = state[u] /\ request'[u] = request[u]
        BY <1>1, <2>2, Zenon
      <4>2. state'[v] = state[v] /\ request'[v] = request[v]
        BY <1>1, <2>2, Zenon
      <4> QED
        BY <4>1, <4>2
    <3> QED
      BY <3>1, Zenon DEF OwnerInv, SolvedOnce
  <2> QED
    BY <2>1, <2>2
<1>9. ~Queued(m.seq)'
  <2>1. ASSUME NEW y \in sched'.heap, y.seq = m.seq PROVE FALSE
    BY <2>1, Zenon DEF OwnerInv, QueuedOnce
  <2> QED
    BY <2>1, Zenon DEF Queued
<1>10. \A q \in Sequences_ : /\ Coming(q)' <=> Coming(q)
                             /\ Displaced(q)' <=> Displaced(q)
                             /\ Answered(q)' <=> Answered(q)
                             /\ Unreported(q)' <=> Unreported(q)
  BY Zenon DEF Coming, Displaced, Answered, Unreported
<1>11. OnePlace(m.seq)'
  BY <1>2, <1>4, <1>9, <1>10, Zenon DEF OnePlace, OnlyOne
<1>12. ASSUME NEW q \in Sequences_, q # m.seq PROVE OnePlace(q)'
  <2>1. Queued(q)' => Queued(q)
    BY Zenon DEF Queued
  <2>2. Solved(q)' => Solved(q)
    BY <1>1, <1>12, Zenon DEF Solved
  <2>3. Fewer(q)
    BY <1>10, <2>1, <2>2, Zenon DEF Fewer
  <2> QED
    BY <2>3, FewerPlaces, Zenon DEF OwnerInv, Placed
<1>13. Placed'
  <2> SUFFICES ASSUME NEW q \in Sequences_ PROVE OnePlace(q)'
    BY Zenon DEF Placed
  <2>1. CASE q = m.seq
    BY <1>11, <2>1
  <2> QED
    BY <1>12, <2>1, Zenon
<1> QED
  BY <1>5, <1>6, <1>8, <1>13, Zenon DEF OwnerInv

LEMMA DispatchStep ==
  ASSUME RelayInv, Dispatch PROVE RelayInv'
<1>1. SchedInv(sched) /\ PoolInv /\ RingInv /\ LoopInv /\ OutcomeInv /\ Cursors /\ Slots
  BY Zenon DEF RelayInv, PoolInv
<1>2. PICK out : out = pop(sched, now)
  BY Zenon
<1> DEFINE found == out.request # NoMessage
           expired == out.rejection # NoMessage
<1>3. /\ count < Workers /\ has_idle
      /\ Loop("dispatch", IF found \/ expired THEN "dispatch" ELSE NextPass)
      /\ sched' = out.sched
      /\ count' = IF found THEN count + 1 ELSE IF expired THEN count ELSE 0
      /\ IF found THEN try_dispatch(out.request) ELSE UNCHANGED poolVars
      /\ IF expired THEN publish_rejection(out.rejection, "kExpired")
         ELSE UNCHANGED <<actions, outcomes, unreported>>
      /\ UNCHANGED <<conditions, cursor, rejection, signalled, observed>>
  BY <1>2, Zenon DEF Dispatch
<1> HIDE DEF found, expired
<1>4. /\ dpc = "dispatch" /\ UNCHANGED <<unsent, now>>
      /\ dpc' = IF found \/ expired THEN "dispatch" ELSE NextPass
  BY <1>3, Zenon DEF Loop
<1>5. ~Stopping /\ OwnerInv
  BY <1>4, Zenon DEF Stopping, RelayInv
<1>6. Popped(sched, out)
  BY <1>1, <1>2, PopFacts, Zenon
<1>7. SchedInv(sched') /\ sched'.heap \subseteq sched.heap
  BY <1>3, <1>6, Zenon DEF Popped
<1>8. sched.heap \subseteq Sound
  BY <1>1, SchedFields, Zenon DEF SchedInv, Heaps
<1>9. LoopInv'
  <2>1. /\ count \in Nat /\ now' \in 1..MaxNow /\ rejection' \in Sound \cup {NoMessage}
        /\ cursor' \in 0..Workers
    BY <1>1, <1>3, <1>4, Zenon DEF LoopInv
  <2>2. Workers \in Nat \ {0} /\ RingCapacity \in Nat \ {0}
    BY WorkerFacts, DaemonAssumption, Zenon
  <2>3. CASE found \/ expired
    <3>1. count' \in {count + 1, count} /\ dpc' = "dispatch"
      BY <1>3, <1>4, <2>3, Zenon
    <3>2. count + 1 \in Nat /\ count + 1 <= Workers /\ count <= Workers
      BY <1>3, <2>1, <2>2
    <3>3. count' \in Nat /\ count' <= Workers
      BY <2>1, <3>1, <3>2, Zenon
    <3> QED
      BY <2>1, <3>1, <3>3, Zenon DEF LoopInv
  <2>4. CASE ~(found \/ expired)
    <3>1. count' = 0 /\ dpc' \in {"drain", "stop"}
      BY <1>3, <1>4, <2>4, Zenon DEF NextPass
    <3>2. 0 \in Nat /\ 0 <= Workers /\ 0 <= RingCapacity
      BY <2>2
    <3> QED
      BY <2>1, <3>1, <3>2, Zenon DEF LoopInv
  <2> QED
    BY <2>3, <2>4
<1>10. CASE ~found /\ ~expired
  <2>1. UNCHANGED poolVars /\ UNCHANGED <<actions, outcomes, unreported>>
    BY <1>3, <1>10, Zenon
  <2>2. PoolInv' /\ UNCHANGED <<state, request>>
    BY <1>1, <2>1, PoolStays, Zenon
  <2>3. RingInv' /\ \A q \in Sequences_ : Coming(q)' => Coming(q)
    BY <1>1, <1>3, <1>4, <2>1, RingStays, Zenon
  <2> QED
    BY <1>3, <1>5, <1>7, <1>9, <2>1, <2>2, <2>3, QuietStep, Zenon
<1>11. CASE expired
  <2>1. ~found /\ out.rejection \in sched.heap \ sched'.heap
    BY <1>3, <1>6, <1>11, Zenon DEF Popped, found, expired
  <2>2. UNCHANGED poolVars /\ publish_rejection(out.rejection, "kExpired")
    BY <1>3, <1>11, <2>1, Zenon
  <2>3. PICK m \in Sound : m = out.rejection
    BY <1>8, <2>1, Zenon
  <2>4. PoolInv' /\ UNCHANGED <<state, request>>
    BY <1>1, <2>2, PoolStays, Zenon
  <2>5. m.seq \in Sequences_ /\ Queued(m.seq)
    BY <2>1, <2>3, SoundFacts, Zenon DEF Queued
  <2>6. OnePlace(m.seq)
    BY <1>5, <2>5, Zenon DEF OwnerInv, Placed
  <2>7. /\ ~Coming(m.seq) /\ ~Solved(m.seq) /\ ~Displaced(m.seq) /\ ~Answered(m.seq)
        /\ ~Unreported(m.seq)
    BY <2>5, <2>6, Zenon DEF OnePlace, OnlyOne
  <2>8. "kExpired" \in Codes
    BY Zenon DEF Codes
  <2>9. Reported(m)
    BY <1>1, <1>5, <2>2, <2>3, <2>7, <2>8, RejectFacts, Zenon DEF OwnerInv
  <2>10. (\A q \in Sequences_ : Coming(q)' => Coming(q)) /\ ~Coming(m.seq)'
    BY <1>3, <1>4, <2>7, Zenon DEF Coming
  <2>11. ~Solved(m.seq)' /\ ~Displaced(m.seq)'
    BY <1>3, <2>4, <2>7, Zenon DEF Solved, Displaced
  <2>12. ~Queued(m.seq)'
    <3>1. ASSUME NEW y \in sched'.heap, y.seq = m.seq PROVE FALSE
      BY <1>5, <1>7, <2>1, <2>3, <3>1, Zenon DEF OwnerInv, QueuedOnce
    <3> QED
      BY <3>1, Zenon DEF Queued
  <2>13. OwnerInv'
    BY <1>3, <1>5, <1>7, <2>3, <2>4, <2>9, <2>10, <2>11, <2>12, AnswerPlaced, Zenon
  <2>14. RingInv' /\ OutcomeInv'
    BY <1>1, <1>3, <1>4, <2>9, Zenon DEF RingInv, Reported
  <2> QED
    BY <1>7, <1>9, <2>4, <2>13, <2>14, Zenon DEF RelayInv
<1>12. CASE found
  <2>1. ~expired /\ out.request \in sched.heap \ sched'.heap
    BY <1>3, <1>6, <1>12, Zenon DEF Popped, found, expired
  <2>2. PICK m \in Sound : m = out.request
    BY <1>8, <2>1, Zenon
  <2>3. try_dispatch(m) /\ UNCHANGED <<actions, outcomes, unreported>>
    BY <1>3, <1>12, <2>1, <2>2, Zenon
  <2>4. PICK w \in Worker : /\ w = FirstFrom(dispatch_cursor, {v \in Worker : state[v] = "kIdle"})
                            /\ state[w] = "kIdle"
    <3>1. dispatch_cursor \in Worker /\ {v \in Worker : state[v] = "kIdle"} # {}
          /\ {v \in Worker : state[v] = "kIdle"} \in SUBSET Worker
      BY <1>1, <1>3, Zenon DEF Cursors, has_idle
    <3>2. FirstFrom(dispatch_cursor, {v \in Worker : state[v] = "kIdle"})
            \in {v \in Worker : state[v] = "kIdle"}
      BY <3>1, FirstFromFacts, Zenon
    <3> QED
      BY <3>2, Zenon
  <2>5. /\ request' = [request EXCEPT ![w] = m] /\ remaining_nfe' = [remaining_nfe EXCEPT ![w] = m.nfe]
        /\ state' = [state EXCEPT ![w] = "kRequested"] /\ dispatch_cursor' = Next1(w)
        /\ UNCHANGED <<stop_requested, result, tpc, ready_index, ready_cursor>>
    BY <2>3, <2>4, Zenon DEF try_dispatch
  <2>6. Cursors' /\ stop_requested' \in [Worker -> BOOLEAN]
    BY <1>1, <2>5, CursorFacts, Zenon DEF Cursors, Slots
  <2>7. m.nfe \in Nat /\ m.nfe # 0
    BY SoundFacts, WordFacts, Zenon
  <2>8. /\ tpc[w] \in Labels /\ result[w] \in Verdicts
        /\ tpc' = [tpc EXCEPT ![w] = tpc[w]] /\ result' = [result EXCEPT ![w] = result[w]]
    BY <1>1, <2>5, SlotFields, Unmoved, Zenon
  <2>9. "kRequested" \in States /\ SlotFits(tpc[w], "kRequested", m.nfe)
    BY <2>7, Zenon DEF States, SlotFits
  <2>10. request' \in [Worker -> Sound \cup {NoMessage}]
    BY <1>1, <2>5, Zenon DEF Slots
  <2>11. PoolInv'
    <3>1. PICK left \in Nat : left = m.nfe
      BY <2>7, Zenon
    <3>2. PICK at \in Labels : at = tpc[w]
      BY <2>8, Zenon
    <3>3. PICK verdict \in Verdicts : verdict = result[w]
      BY <2>8, Zenon
    <3>4. /\ SlotFits(at, "kRequested", left) /\ remaining_nfe' = [remaining_nfe EXCEPT ![w] = left]
          /\ tpc' = [tpc EXCEPT ![w] = at] /\ result' = [result EXCEPT ![w] = verdict]
      BY <2>5, <2>8, <2>9, <3>1, <3>2, <3>3, Zenon
    <3> QED
      BY <1>1, <2>5, <2>6, <2>9, <2>10, <3>4, SlotMoves, Zenon
  <2>12. OwnerInv'
    BY <1>1, <1>3, <1>4, <1>5, <1>7, <2>1, <2>2, <2>3, <2>4, <2>5, DispatchPlaced, Zenon
  <2>13. RingInv' /\ OutcomeInv'
    BY <1>1, <1>3, <1>4, <2>3, RingStays, Zenon DEF OutcomeInv
  <2> QED
    BY <1>7, <1>9, <2>11, <2>12, <2>13, Zenon DEF RelayInv
<1> QED
  BY <1>10, <1>11, <1>12

LEMMA RelayStep ==
  ASSUME RelayInv, [Next]_vars PROVE RelayInv'
<1>1. CASE Client
  BY <1>1, ClientStep, Zenon
<1>2. CASE main
  <2>1. CASE ScanOn
    BY <2>1, ScanFailStep, PublishQuietStep, Zenon
  <2> QED
    BY <1>2, <2>1, DrainQuietStep, DrainSubmitStep, CancelStep, ReportStep, PublishResultStep,
       PublishQuietStep, DispatchStep, StopStep, Zenon DEF main
<1>3. CASE \E w \in Worker : Slot(w)
  BY <1>3, ThreadStep, Zenon
<1>4. CASE UNCHANGED vars
  <2>1. UNCHANGED poolVars /\ UNCHANGED daemonVars
    BY <1>4, Zenon DEF vars
  <2>2. UNCHANGED <<unsent, conditions, actions, sched, now, dpc, count, cursor, rejection,
                    outcomes, unreported>>
    BY <2>1, Zenon DEF daemonVars
  <2>3. SchedInv(sched) /\ PoolInv /\ RingInv /\ LoopInv
    BY Zenon DEF RelayInv
  <2>4. PoolInv' /\ UNCHANGED <<state, request, stop_requested>>
    BY <2>1, <2>3, PoolStays, Zenon
  <2>5. RingInv' /\ \A q \in Sequences_ : Coming(q)' => Coming(q)
    BY <2>2, <2>3, RingStays, Zenon
  <2>6. now' \in 1..MaxNow
    BY <2>2, <2>3, Zenon DEF LoopInv
  <2>7. LoopInv'
    BY <2>2, <2>3, <2>4, <2>6, LoopStays, Zenon
  <2>8. Stopping => Stopping'
    BY <2>2, Zenon DEF Stopping
  <2> QED
    BY <2>2, <2>3, <2>4, <2>5, <2>7, <2>8, QuietStep, Zenon
<1> QED
  BY <1>1, <1>2, <1>3, <1>4, Zenon DEF Next

LEMMA RelayInvariant == Spec => []RelayInv
<1>1. Init => RelayInv
  BY RelayInit
<1>2. RelayInv /\ [Next]_vars => RelayInv'
  BY RelayStep
<1> QED
  BY <1>1, <1>2, PTL DEF Spec

-----------------------------------------------------------------------------
LEMMA TypesHold ==
  ASSUME RelayInv PROVE TypeOK
<1>1. SchedInv(sched) /\ Slots /\ Cursors /\ RingInv /\ OutcomeInv /\ LoopInv
  BY Zenon DEF RelayInv, PoolInv
<1>2. sched.heap \subseteq {Message(r) : r \in Good}
  BY <1>1, SchedFields, Zenon DEF SchedInv, Heaps, Sound
<1>3. count \in 0..RingCapacity + Workers
  <2>1. /\ count \in Nat /\ (count <= RingCapacity \/ count <= Workers)
        /\ RingCapacity \in Nat /\ Workers \in Nat
    BY <1>1, WorkerFacts, DaemonAssumption, Zenon DEF LoopInv
  <2> QED
    BY <2>1
<1>4. now \in 1..MaxNow /\ cursor \in 0..Workers
  BY <1>1, Zenon DEF LoopInv
<1> QED
  BY <1>1, <1>2, <1>3, <1>4, Zenon DEF TypeOK, RingInv, Slots, States, Verdicts, Cursors, OutcomeInv,
     Histories, Codes

LEMMA AtMostOne ==
  ASSUME NEW S, \A x, y \in S : x = y PROVE Cardinality(S) \in {0, 1} /\ (S = {} => Cardinality(S) = 0)
<1>1. CASE S = {}
  BY <1>1, FS_EmptySet, Zenon
<1>2. CASE S # {}
  <2>1. PICK x \in S : S = {x}
    BY <1>2, Zenon
  <2> QED
    BY <1>2, <2>1, FS_Singleton, Zenon
<1> QED
  BY <1>1, <1>2

LEMMA OwnersAgree ==
  ASSUME RelayInv PROVE OneOwner
<1> SUFFICES ASSUME ~Stopping, NEW q \in GoodSequences
             PROVE    Cardinality({x \in sched.heap : x.seq = q})
                    + Cardinality({w \in Worker : state[w] # "kIdle" /\ request[w].seq = q})
                    + (IF rejection # NoMessage /\ rejection.seq = q THEN 1 ELSE 0)
                    + Len(outcomes[q])
                    + (IF q \in unreported THEN 1 ELSE 0) <= 1
  BY Zenon DEF OneOwner, Stopping, GoodSequences
<1> DEFINE A == Cardinality({x \in sched.heap : x.seq = q})
           B == Cardinality({w \in Worker : state[w] # "kIdle" /\ request[w].seq = q})
           C == IF rejection # NoMessage /\ rejection.seq = q THEN 1 ELSE 0
           D == Len(outcomes[q])
           E == IF q \in unreported THEN 1 ELSE 0
<1>1. OwnerInv /\ OutcomeInv
  BY Zenon DEF RelayInv
<1>2. q \in Sequences_
  BY Zenon DEF GoodSequences, Sequences_, Good
<1>3. OnePlace(q)
  BY <1>1, <1>2, Zenon DEF OwnerInv, Placed
<1>4. A \in {0, 1} /\ (~Queued(q) => A = 0)
  <2>1. \A x, y \in {z \in sched.heap : z.seq = q} : x = y
    BY <1>1, Zenon DEF OwnerInv, QueuedOnce
  <2>2. ~Queued(q) => {x \in sched.heap : x.seq = q} = {}
    BY Zenon DEF Queued
  <2> QED
    BY <2>1, <2>2, AtMostOne, Zenon
<1>5. B \in {0, 1} /\ (~Solved(q) => B = 0)
  <2>1. \A x, y \in {w \in Worker : state[w] # "kIdle" /\ request[w].seq = q} : x = y
    BY <1>1, Zenon DEF OwnerInv, SolvedOnce
  <2>2. ~Solved(q) => {w \in Worker : state[w] # "kIdle" /\ request[w].seq = q} = {}
    BY Zenon DEF Solved
  <2> QED
    BY <2>1, <2>2, AtMostOne, Zenon
<1>6. C \in {0, 1} /\ (~Displaced(q) => C = 0)
  BY Zenon DEF Displaced
<1>7. D \in {0, 1} /\ (~Answered(q) => D = 0)
  <2>1. D <= 1 /\ outcomes[q] \in Seq(Codes)
    BY <1>1, <1>2, Zenon DEF OwnerInv, AnsweredOnce, OutcomeInv, Histories
  <2>2. D \in Nat /\ (outcomes[q] = <<>> => D = 0)
    BY <2>1, SeqEmpty, SeqLen, Zenon
  <2>3. ~Answered(q) => D = 0
    BY <2>2, Zenon DEF Answered
  <2> HIDE DEF D
  <2>4. D \in {0, 1}
    BY <2>1, <2>2
  <2> QED
    BY <2>3, <2>4
<1>8. E \in {0, 1} /\ (~Unreported(q) => E = 0)
  BY Zenon DEF Unreported
<1> HIDE DEF A, B, C, D, E
<1>9. \/ B = 0 /\ C = 0 /\ D = 0 /\ E = 0
      \/ A = 0 /\ C = 0 /\ D = 0 /\ E = 0
      \/ A = 0 /\ B = 0 /\ D = 0 /\ E = 0
      \/ A = 0 /\ B = 0 /\ C = 0 /\ E = 0
      \/ A = 0 /\ B = 0 /\ C = 0 /\ D = 0
  BY <1>3, <1>4, <1>5, <1>6, <1>7, <1>8, Zenon DEF OnePlace, OnlyOne
<1>10. A + B + C + D + E <= 1
  BY <1>4, <1>5, <1>6, <1>7, <1>8, <1>9
<1> QED
  BY <1>10, Zenon DEF A, B, C, D, E

\* Neither a request nor the storage it was queued in is ever lost or doubled
\* by the daemon's loop: for any scripts, ring sizes and numbers of workers the
\* queue keeps every slot of its storage, and a request is queued, solved,
\* waiting to be rejected, answered or counted as unreported, and only one of
\* these at a time (EdfScheduler::submit and pop, HeadWorkerPool::try_dispatch,
\* cancel_before and ready_action, publish_rejection).
THEOREM RequestsAreOwnedOnce == Spec => []OwnedOnce
<1>1. RelayInv => StorageOwned
  <2> SUFFICES ASSUME RelayInv PROVE StorageOwned
    OBVIOUS
  <2>1. sched.free_slots \in Nat /\ Cardinality(sched.heap) + sched.free_slots + sched.borrowed = Capacity
    BY Zenon DEF RelayInv, SchedInv, Stored
  <2> QED
    BY <2>1 DEF StorageOwned
<1>2. RelayInv => OwnedOnce
  BY <1>1, TypesHold, OwnersAgree, Zenon DEF OwnedOnce
<1> QED
  BY <1>2, RelayInvariant, PTL

\* How a slot leaves kReady with a result that validates.
LeftRightly(w) ==
  \/ outcomes'[request[w].seq] = Append(outcomes[request[w].seq], result[w])
  \/ request[w].gen < sched.newest_generation
  \/ stop_requested[w]

LEMMA PublishedRightly ==
  ASSUME RelayInv, PublishResult, NEW w \in Worker, state[w] = "kReady", state'[w] # "kReady"
  PROVE  LeftRightly(w)
<1>1. PoolInv /\ LoopInv /\ OutcomeInv /\ Slots
  BY Zenon DEF RelayInv, PoolInv
<1>2. PICK v \in Worker : v = Offered
  BY <1>1, OfferedFacts, Zenon
<1>3. dpc = "publish" /\ Publish(request[v], result[v]) /\ state' = [state EXCEPT ![v] = "kIdle"]
  BY <1>2, Zenon DEF PublishResult, Loop, release_ready_action
<1>4. w = v
  BY <1>1, <1>3, Zenon DEF Slots
<1>5. OwnerInv
  BY <1>3, Zenon DEF RelayInv, Stopping
<1>6. state[w] # "kIdle"
  OBVIOUS
<1>7. request[w] \in Sound
  BY <1>5, <1>6, Zenon DEF OwnerInv, SlotsSound
<1>8. request[w].seq \in Sequences_
  BY <1>7, SoundFacts, Zenon
<1>9. outcomes'[request[w].seq] = Append(outcomes[request[w].seq], result[w])
  BY <1>1, <1>3, <1>4, <1>8, Zenon DEF Publish, OutcomeInv
<1> QED
  BY <1>9, Zenon DEF LeftRightly

LEMMA SlotStays ==
  ASSUME NEW v \in Worker, state' = [state EXCEPT ![v] = "kIdle"] \/ state' = [state EXCEPT ![v] = "kRequested"],
         NEW w \in Worker, PoolInv, state[w] = "kReady", state'[w] # "kReady"
  PROVE  v = w
BY Zenon DEF PoolInv, Slots

LEMMA MainRightly ==
  ASSUME RelayInv, main, NEW w \in Worker, state[w] = "kReady", result[w] # "none",
         state'[w] # "kReady"
  PROVE  LeftRightly(w)
<1>1. PoolInv /\ LoopInv /\ Cursors /\ Slots /\ RingInv
  BY Zenon DEF RelayInv, PoolInv
<1>2. ~(UNCHANGED state)
  BY Zenon
<1>3. ~(UNCHANGED poolVars)
  BY <1>2, Zenon DEF poolVars
<1>4. CASE Cancel
  <2>1. dpc = "cancel slot" /\ CancelSlot(cursor, sched.newest_generation)
    BY <1>4, Zenon DEF Cancel, Loop
  <2>2. cursor \in 0..Workers /\ cursor < Workers
    BY <1>1, <2>1, Zenon DEF LoopInv
  <2>3. cursor \in Nat /\ cursor < Workers
    BY <2>2, WorkerFacts
  <2>4. PICK v \in Worker : v = cursor
    BY <2>3, WorkerFacts, Zenon
  <2>5. request[v].gen < sched.newest_generation /\ state' = [state EXCEPT ![v] = "kIdle"]
    BY <1>2, <2>1, <2>4, Zenon DEF CancelSlot
  <2>6. v = w
    BY <1>1, <2>5, SlotStays, Zenon
  <2> QED
    BY <2>5, <2>6, Zenon DEF LeftRightly
<1>5. CASE PublishResult
  BY <1>5, PublishedRightly, Zenon
<1>6. CASE ScanOn
  <2>1. PICK v \in Worker : v = Offered
    BY <1>1, OfferedFacts, Zenon
  <2>2. ScanFails(v)
    BY <1>3, <1>6, <2>1, Zenon DEF ScanOn
  <2>3. result[v] = "none" /\ state' = [state EXCEPT ![v] = "kIdle"]
    BY <2>2, Zenon DEF ScanFails
  <2>4. v = w
    BY <1>1, <2>3, SlotStays, Zenon
  <2> QED
    BY <2>3, <2>4, Zenon
<1>7. CASE Dispatch
  <2>1. has_idle /\ try_dispatch(pop(sched, now).request)
    BY <1>3, <1>7, Zenon DEF Dispatch
  <2>2. PICK v \in Worker : /\ v = FirstFrom(dispatch_cursor, {u \in Worker : state[u] = "kIdle"})
                            /\ state[v] = "kIdle"
    <3>1. dispatch_cursor \in Worker /\ {u \in Worker : state[u] = "kIdle"} # {}
          /\ {u \in Worker : state[u] = "kIdle"} \in SUBSET Worker
      BY <1>1, <2>1, Zenon DEF Cursors, has_idle
    <3>2. FirstFrom(dispatch_cursor, {u \in Worker : state[u] = "kIdle"})
            \in {u \in Worker : state[u] = "kIdle"}
      BY <3>1, FirstFromFacts, Zenon
    <3> QED
      BY <3>2, Zenon
  <2>3. state' = [state EXCEPT ![v] = "kRequested"]
    BY <2>1, <2>2, Zenon DEF try_dispatch
  <2>4. v = w
    BY <1>1, <2>3, SlotStays, Zenon
  <2>5. state[v] = "kReady"
    BY <2>4, Zenon
  <2>6. FALSE
    BY <2>2, <2>5
  <2> QED
    BY <2>6
<1>8. CASE StopWakes
  <2>1. dpc = "stop wake" /\ StopWake(cursor, observed)
    BY <1>8, Zenon DEF StopWakes, Loop
  <2>2. cursor \in 0..Workers /\ cursor < Workers /\ stop_requested[cursor]
    BY <1>1, <2>1, Zenon DEF LoopInv
  <2>3. cursor \in Nat /\ cursor < Workers
    BY <2>2, WorkerFacts
  <2>4. PICK v \in Worker : v = cursor
    BY <2>3, WorkerFacts, Zenon
  <2>5. state' = [state EXCEPT ![v] = "kRequested"]
    BY <1>2, <2>1, <2>4, Zenon DEF StopWake
  <2>6. v = w
    BY <1>1, <2>5, SlotStays, Zenon
  <2> QED
    BY <2>2, <2>4, <2>6, Zenon DEF LeftRightly
<1>9. CASE Mark \/ PublishBlocked \/ StopSlot
  <2>1. UNCHANGED state
    BY <1>9, Zenon DEF Mark, PublishBlocked, StopSlot, CancelMark, StopMark
  <2> QED
    BY <1>2, <2>1
<1>10. CASE DrainDone \/ DrainDiscard \/ DrainShutdown \/ DrainSubmit \/ ReportDisplaced \/ ScanNone
            \/ DispatchDone \/ StopLoad \/ Join
  <2>1. UNCHANGED poolVars
    BY <1>10, Zenon DEF DrainDone, DrainDiscard, DrainShutdown, DrainSubmit, ReportDisplaced, ScanNone,
       DispatchDone, StopLoad, Join
  <2> QED
    BY <1>3, <2>1
<1> QED
  BY <1>4, <1>5, <1>6, <1>7, <1>8, <1>9, <1>10, Zenon DEF main

LEMMA ReadyLeavesRightly ==
  ASSUME RelayInv, Next, NEW w \in Worker, state[w] = "kReady", result[w] # "none", state'[w] # "kReady"
  PROVE  LeftRightly(w)
<1>1. ~(UNCHANGED poolVars)
  BY Zenon DEF poolVars
<1>2. CASE Client
  BY <1>1, <1>2, Zenon DEF Client, try_submit, try_receive, request_stop, Tick
<1>3. CASE \E v \in Worker : Slot(v)
  BY <1>3, ThreadStep, Zenon
<1> QED
  BY <1>2, <1>3, MainRightly, Zenon DEF Next

\* "The slot retains its action while the output ring is full": in every step
\* of the daemon's loop, of the slots' threads and of the client, a result that
\* validates leaves its slot only by being published, because a newer
\* generation was accepted, or because the pool is being stopped
\* (HeadWorkerPool::ready_action, release_ready_action, cancel_before, stop).
THEOREM ReadyResultsAreKept == Spec => ResultKept
<1>1. RelayInv /\ [Next]_vars =>
        [\A w \in Worker :
           state[w] = "kReady" /\ result[w] # "none" /\ state'[w] # "kReady" =>
             \/ outcomes'[request[w].seq] = Append(outcomes[request[w].seq], result[w])
             \/ request[w].gen < sched.newest_generation
             \/ stop_requested[w]]_vars
  BY ReadyLeavesRightly, Zenon DEF LeftRightly
<1> QED
  BY <1>1, RelayInvariant, PTL DEF Spec, ResultKept
=============================================================================
