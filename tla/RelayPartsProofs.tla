--------------------------- MODULE RelayPartsProofs ---------------------------
(***************************************************************************)
(* Two parts of the relay that run beside its daemons.  The action         *)
(* delivery gate never publishes an unsafe, late or old step, for every    *)
(* gate and every sequence of chunks, polls and stops.  A trace is read    *)
(* back as it was written, however appends fail or a crash cuts it, and    *)
(* judges every action by its own condition when no key was in flight      *)
(* twice, for every set of conditions.                                     *)
(***************************************************************************)
EXTENDS ActionDelivery, RelayTrace, TLAPS

USE SMTT(20), ZenonT(20)

(* Sequences.                                                              *)

LEMMA SeqElement == ASSUME NEW S, NEW s \in Seq(S), NEW i \in 1..Len(s) PROVE s[i] \in S
OBVIOUS

LEMMA SeqLength == ASSUME NEW S, NEW s \in Seq(S) PROVE Len(s) \in Nat
OBVIOUS

LEMMA PlaceIn ==
  ASSUME NEW n \in Nat, NEW i \in Nat \ {0}, i <= n
  PROVE  i \in 1..n
OBVIOUS

LEMMA UpToNat ==
  ASSUME NEW n \in Nat, NEW k \in 0..n
  PROVE  k \in Nat
OBVIOUS

LEMMA SeqSame ==
  ASSUME NEW S, NEW s \in Seq(S), NEW t \in Seq(S), Len(s) = Len(t),
         \A i \in 1..Len(s) : s[i] = t[i]
  PROVE  s = t
OBVIOUS

LEMMA Joined ==
  ASSUME NEW S, NEW s \in Seq(S), NEW t \in Seq(S)
  PROVE  /\ s \o t \in Seq(S) /\ Len(s \o t) = Len(s) + Len(t)
         /\ \A i \in 1..Len(s) + Len(t) :
              (s \o t)[i] = IF i <= Len(s) THEN s[i] ELSE t[i - Len(s)]
OBVIOUS

-----------------------------------------------------------------------------
(* The gate.                                                               *)

GateSpec == GateInit /\ [][GateNext]_gateVars

\* A chunk the gate has accepted.
AcceptedChunk(c) == c \in ChunkRecord /\ Len(c.values) = c.steps

GateTypes ==
  /\ clamps \in BOOLEAN /\ active \in BOOLEAN /\ has_last_output \in BOOLEAN
  /\ next_step \in Nat /\ last_publish \in Nat
  /\ overlap \in Seq([value : [Components -> Int], old : Nat])
  /\ session \in Nat \cup {Unbound}
  /\ newest \in [gen : Nat, seq : Nat]
  /\ output \in [Components -> Int]
  /\ played \in Nat \X Nat \X Nat

\* The last output is inside the limits.
OutputInside == has_last_output => \A c \in Components : output[c] \in Lower[c]..Upper[c]

\* The chunk played is the newest of its session,
ChunkNewest ==
  active => /\ AcceptedChunk(chunk) /\ session # Unbound
            /\ newest = [gen |-> chunk.gen, seq |-> chunk.seq]

\* what was published is not newer than it,
PlayedOld ==
  played[3] # 0 => session # Unbound /\ played[1] <= newest.gen /\ played[2] <= newest.seq

\* and is of an older chunk or an earlier step.
PlayedBefore ==
  active => \/ played[3] = 0
            \/ played[1] < chunk.gen /\ played[2] < chunk.seq
            \/ played[1] = chunk.gen /\ played[2] = chunk.seq /\ played[3] <= next_step

GateInv == GateTypes /\ OutputInside /\ ChunkNewest /\ PlayedOld /\ PlayedBefore

-----------------------------------------------------------------------------
\* Quotients of the step period.
LEMMA Quotient ==
  ASSUME NEW a \in Nat, NEW p \in Nat, p > 0
  PROVE  /\ a \div p \in Nat
         /\ (a \div p) * p <= a
         /\ a < (a \div p + 1) * p
<1> DEFINE q == a \div p
           y == a % p
<1>1. y \in 0..p - 1 /\ q \in Nat /\ a = p * q + y
  OBVIOUS
<1> HIDE DEF q, y
<1>2. (q + 1) * p = p * q + p /\ q * p = p * q
  BY <1>1
<1>3. q \in Nat /\ q * p <= a /\ a < (q + 1) * p
  BY <1>1, <1>2
<1> QED
  BY <1>3 DEF q

LEMMA MadeChunk ==
  ASSUME NEW a \in Actions, NEW now \in Times, NEW from \in Starts
  PROVE  make_action_chunk(a, now, from) \in ChunkRecord
<1>1. a \in ActionRecord /\ now \in Nat /\ from \in Nat
  BY OfferAssumption
<1>2. a.dim \in Nat /\ ControlDim \in Nat \ {0} /\ StepPeriod \in Nat
  BY <1>1, GateAssumption DEF ActionRecord
<1>3. a.dim \div ControlDim \in Nat
  BY <1>2, Quotient
<1>4. (a.dim \div ControlDim) * StepPeriod \in Nat
  BY <1>2, <1>3
<1> QED
  BY <1>1, <1>3, <1>4 DEF make_action_chunk, ActionRecord, ChunkRecord

\* What an accepted chunk has passed.
LEMMA Verdicts ==
  ASSUME NEW c \in ChunkRecord, NEW now, GateTypes, Verdict(c, now) = "kAccepted"
  PROVE  /\ Len(c.values) = c.steps
         /\ session # Unbound => c.gen > newest.gen /\ c.seq > newest.seq
<1>1. Len(c.values) = c.steps /\ ~IsStale(c)
  BY DEF Verdict
<1>2. c.gen \in Nat /\ c.seq \in Nat /\ newest.gen \in Nat /\ newest.seq \in Nat
  BY DEF ChunkRecord, GateTypes
<1> QED
  BY <1>1, <1>2 DEF IsStale

\* The overlap is made of steps that the old chunk still had to play.
LEMMA Overlap ==
  ASSUME GateInv, NEW c \in ChunkRecord
  PROVE  /\ capture_overlap(c) \in Seq([value : [Components -> Int], old : Nat])
         /\ \A s \in 1..Len(capture_overlap(c)) :
              /\ capture_overlap(c)[s].old >= next_step
              /\ chunk.from + (capture_overlap(c)[s].old + 1) * StepPeriod
                   > c.from + (s - 1) * StepPeriod
<1>1. CASE ~active \/ OverlapSteps = 0 \/ c.from < chunk.from
  <2>1. capture_overlap(c) = <<>>
    BY <1>1 DEF capture_overlap
  <2> QED
    BY <2>1
<1>2. CASE active /\ OverlapSteps # 0 /\ ~(c.from < chunk.from)
  <2> DEFINE timed == (c.from - chunk.from) \div StepPeriod
             old == OldStep(timed)
             left == chunk.steps - old
             count == IF left < OverlapSteps THEN left ELSE OverlapSteps
  <2>1. /\ AcceptedChunk(chunk) /\ next_step \in Nat
        /\ StepPeriod \in Nat /\ StepPeriod > 0 /\ OverlapSteps \in Nat
    BY <1>2, GateAssumption DEF GateInv, GateTypes, ChunkNewest
  <2>2. /\ c.from \in Nat /\ chunk.from \in Nat /\ chunk.steps \in Nat
        /\ chunk.values \in Seq([Components -> Int]) /\ Len(chunk.values) = chunk.steps
    BY <2>1 DEF AcceptedChunk, ChunkRecord, Vectors
  <2>3. c.from - chunk.from \in Nat
    BY <1>2, <2>2
  <2>4. /\ timed \in Nat
        /\ c.from - chunk.from < (timed + 1) * StepPeriod
    BY <2>1, <2>3, Quotient
  <2> HIDE DEF timed
  <2>5. old \in Nat /\ old >= timed /\ old >= next_step
    BY <2>1, <2>4 DEF OldStep
  <2>6. CASE old >= chunk.steps
    <3>1. capture_overlap(c) = <<>>
      BY <1>2, <2>6 DEF capture_overlap, timed
    <3> QED
      BY <3>1
  <2>7. CASE ~(old >= chunk.steps)
    <3> DEFINE o == [s \in 1..count |-> [value |-> chunk.values[old + s], old |-> old + s - 1]]
    <3>1. capture_overlap(c) = o
      BY <1>2, <2>7 DEF capture_overlap, timed
    <3> HIDE DEF old
    <3>2. left \in Nat /\ count \in Nat /\ count <= left
      BY <2>1, <2>2, <2>5, <2>7
    <3>3. ASSUME NEW s \in 1..count
          PROVE  /\ o[s] = [value |-> chunk.values[old + s], old |-> old + s - 1]
                 /\ chunk.values[old + s] \in [Components -> Int]
                 /\ old + s - 1 \in Nat /\ old + s - 1 >= next_step
      <4>1. old + s \in 1..chunk.steps
        BY <2>2, <2>5, <3>2
      <4>2. old + s - 1 \in Nat /\ old + s - 1 >= next_step
        BY <2>1, <2>5, <3>2
      <4> QED
        BY <2>2, <4>1, <4>2
    <3>4. o \in Seq([value : [Components -> Int], old : Nat]) /\ Len(o) = count
      <4> DEFINE R == [value : [Components -> Int], old : Nat]
      <4>1. \A s \in 1..count : o[s] \in R
        BY <3>3
      <4>2. o \in [1..count -> R]
        BY <4>1, Zenon
      <4> HIDE DEF o, R, count
      <4>3. o \in Seq(R) /\ Len(o) = count
        BY <3>2, <4>2
      <4> QED
        BY <4>3 DEF R
    <3>5. ASSUME NEW s \in 1..count
          PROVE  chunk.from + (old + s) * StepPeriod > c.from + (s - 1) * StepPeriod
      <4>1. s - 1 \in Nat /\ old + 1 \in Nat /\ timed + 1 \in Nat /\ s \in Nat
        BY <2>4, <2>5, <3>2
      <4>2. (old + s) * StepPeriod = (old + 1) * StepPeriod + (s - 1) * StepPeriod
        BY <2>1, <2>5, <4>1
      <4>3. (timed + 1) * StepPeriod <= (old + 1) * StepPeriod
        BY <2>1, <2>4, <2>5, <4>1
      <4>4. /\ (old + 1) * StepPeriod \in Nat /\ (s - 1) * StepPeriod \in Nat
            /\ (timed + 1) * StepPeriod \in Nat
        BY <2>1, <4>1
      <4> QED
        BY <2>2, <2>4, <4>2, <4>3, <4>4
    <3> HIDE DEF o, count, left
    <3>6. ASSUME NEW s \in 1..count
          PROVE  /\ o[s].old >= next_step
                 /\ chunk.from + (o[s].old + 1) * StepPeriod > c.from + (s - 1) * StepPeriod
      <4>1. o[s].old = old + s - 1
        <5>1. o[s] = [value |-> chunk.values[old + s], old |-> old + s - 1]
          BY <3>3, Zenon
        <5> DEFINE v == chunk.values[old + s]
                   n == old + s - 1
        <5>2. o[s] = [value |-> v, old |-> n]
          BY <5>1
        <5> HIDE DEF v, n
        <5>3. o[s].old = n
          BY <5>2
        <5> QED
          BY <5>3 DEF n
      <4>2. old + s - 1 + 1 = old + s
        BY <2>5, <3>2
      <4> QED
        BY <3>3, <3>5, <4>1, <4>2, Zenon
    <3> QED
      BY <3>1, <3>4, <3>6
  <2> QED
    BY <2>6, <2>7
<1> QED
  BY <1>1, <1>2, Zenon DEF GateInv, GateTypes

-----------------------------------------------------------------------------
\* What next has checked when it publishes.
LEMMA StepFacts ==
  ASSUME GateInv, NEW now \in Times, StepError(now) = "none"
  PROVE  /\ active /\ now \in Nat /\ now < chunk.until /\ ~TooOld(chunk, now)
         /\ has_last_output => now >= last_publish
         /\ StepDue(now) \in Nat /\ StepDue(now) >= next_step /\ StepDue(now) < chunk.steps
         /\ chunk.from + StepDue(now) * StepPeriod <= now
         /\ now < chunk.from + (StepDue(now) + 1) * StepPeriod
<1>1. /\ active /\ ~(has_last_output /\ now < last_publish) /\ ~(now < chunk.from)
      /\ ~(now >= chunk.until) /\ ~TooOld(chunk, now) /\ ~(StepDue(now) >= chunk.steps)
      /\ ~(StepDue(now) < next_step)
  BY DEF StepError
<1>2. /\ now \in Nat /\ last_publish \in Nat /\ next_step \in Nat
      /\ StepPeriod \in Nat /\ StepPeriod > 0
  BY OfferAssumption, GateAssumption DEF GateInv, GateTypes
<1>3. chunk.from \in Nat /\ chunk.until \in Nat /\ chunk.steps \in Nat
  BY <1>1 DEF GateInv, ChunkNewest, AcceptedChunk, ChunkRecord
<1>4. now - chunk.from \in Nat
  BY <1>1, <1>2, <1>3
<1> DEFINE due == (now - chunk.from) \div StepPeriod
           low == due * StepPeriod
           high == (due + 1) * StepPeriod
<1>5. due \in Nat /\ low <= now - chunk.from /\ now - chunk.from < high
  BY <1>2, <1>4, Quotient
<1> HIDE DEF due
<1>6. low \in Nat /\ high \in Nat
  BY <1>2, <1>5
<1> HIDE DEF low, high
<1>7. chunk.from + low <= now /\ now < chunk.from + high
  BY <1>2, <1>3, <1>5, <1>6
<1>8. due >= next_step /\ due < chunk.steps /\ now < chunk.until
      /\ (has_last_output => now >= last_publish)
  BY <1>1, <1>2, <1>3, <1>5 DEF StepDue, due
<1> QED
  BY <1>1, <1>2, <1>5, <1>7, <1>8 DEF StepDue, due, low, high

LEMMA CandidateType ==
  ASSUME GateInv, active, NEW step \in Nat, step < chunk.steps
  PROVE  Candidate(step) \in [Components -> Int]
<1>1. /\ chunk.steps \in Nat /\ chunk.values \in Seq([Components -> Int])
      /\ Len(chunk.values) = chunk.steps
      /\ overlap \in Seq([value : [Components -> Int], old : Nat])
  BY DEF GateInv, GateTypes, ChunkNewest, AcceptedChunk, ChunkRecord, Vectors
<1>2. chunk.values[step + 1] \in [Components -> Int]
  BY <1>1
<1>3. CASE step >= Len(overlap)
  BY <1>2, <1>3 DEF Candidate
<1>4. CASE ~(step >= Len(overlap))
  <2> DEFINE fresh == chunk.values[step + 1]
             old == overlap[step + 1].value
             n == Len(overlap) + 1
  <2>1. step + 1 \in 1..Len(overlap) /\ Len(overlap) \in Nat
    BY <1>1, <1>4
  <2>2. old \in [Components -> Int]
    <3> DEFINE R == [value : [Components -> Int], old : Nat]
    <3>1. overlap \in Seq(R)
      BY <1>1
    <3> HIDE DEF R
    <3>2. overlap[step + 1] \in R
      BY <2>1, <3>1
    <3> QED
      BY <3>2 DEF R
  <2>3. n \in Nat /\ n > 0 /\ step + 1 \in Int
    BY <2>1
  <2>4. Candidate(step) = [c \in Components |-> old[c] + ((fresh[c] - old[c]) * (step + 1)) \div n]
    BY <1>4 DEF Candidate
  <2> HIDE DEF fresh, old, n
  <2>5. ASSUME NEW c \in Components
        PROVE  old[c] + ((fresh[c] - old[c]) * (step + 1)) \div n \in Int
    <3>1. old[c] \in Int /\ fresh[c] \in Int
      BY <1>2, <2>2 DEF fresh
    <3> DEFINE d == (fresh[c] - old[c]) * (step + 1)
    <3>2. d \in Int
      BY <2>3, <3>1
    <3> HIDE DEF d
    <3>3. d \div n \in Int
      BY <2>3, <3>2
    <3>4. old[c] + d \div n \in Int
      BY <3>1, <3>3
    <3> QED
      BY <3>4 DEF d
  <2> QED
    BY <2>4, <2>5, Zenon
<1> QED
  BY <1>3, <1>4

\* The clamped value is inside the limits and within reach of the last output.
LEMMA SafeInside ==
  ASSUME GateInv, NEW now \in Nat, has_last_output => now >= last_publish,
         NEW v \in [Components -> Int]
  PROVE  /\ Safe(v, now) \in [Components -> Int]
         /\ \A c \in Components :
              /\ Safe(v, now)[c] \in Lower[c]..Upper[c]
              /\ has_last_output =>
                   LET late == (now - last_publish) \div StepPeriod
                       reach == MaxDelta[c] * (IF late > 1 THEN late ELSE 1)
                   IN  Safe(v, now)[c] - output[c] \in -reach..reach
<1> DEFINE late == (now - last_publish) \div StepPeriod
           steps == IF late > 1 THEN late ELSE 1
           safe(c) == Safe(v, now)[c]
<1>1. last_publish \in Nat /\ StepPeriod \in Nat /\ StepPeriod > 0
  BY GateAssumption DEF GateInv, GateTypes
<1>2. ASSUME NEW c \in Components
      PROVE  /\ safe(c) \in Int /\ safe(c) \in Lower[c]..Upper[c]
             /\ has_last_output => safe(c) - output[c] \in -(MaxDelta[c] * steps)..(MaxDelta[c] * steps)
  <2> DEFINE absolute == Clamp(v[c], Lower[c], Upper[c])
             reach == MaxDelta[c] * ElapsedSteps(now)
  <2>1. /\ v[c] \in Int /\ Lower[c] \in Int /\ Upper[c] \in Int /\ Lower[c] <= Upper[c]
        /\ MaxDelta[c] \in Nat /\ output[c] \in Int
    BY GateAssumption DEF GateInv, GateTypes
  <2>2. absolute \in Lower[c]..Upper[c]
    BY <2>1 DEF Clamp
  <2>3. safe(c) = IF ~has_last_output THEN absolute
                  ELSE Clamp(Clamp(absolute, output[c] - reach, output[c] + reach),
                             Lower[c], Upper[c])
    BY DEF Safe
  <2> HIDE DEF absolute, safe
  <2>4. CASE ~has_last_output
    BY <2>1, <2>2, <2>3, <2>4
  <2>5. CASE has_last_output
    <3>1. now - last_publish \in Nat
      BY <1>1, <2>5
    <3>2. late \in Nat
      BY <1>1, <3>1, Quotient
    <3>3. ElapsedSteps(now) = steps
      BY <2>5 DEF ElapsedSteps
    <3> HIDE DEF late
    <3>4. steps \in Nat
      BY <3>2
    <3> HIDE DEF steps
    <3>5. reach = MaxDelta[c] * steps
      BY <3>3
    <3>6. reach \in Nat
      BY <2>1, <3>4, <3>5
    <3> HIDE DEF reach
    <3>7. output[c] \in Lower[c]..Upper[c]
      BY <2>5 DEF GateInv, OutputInside
    <3>8. safe(c) \in Lower[c]..Upper[c] /\ safe(c) - output[c] \in -reach..reach
      BY <2>1, <2>2, <2>3, <2>5, <3>6, <3>7 DEF Clamp
    <3> QED
      BY <2>1, <3>5, <3>8
  <2> QED
    BY <2>4, <2>5
<1>3. Safe(v, now) \in [Components -> Int]
  <2>1. Safe(v, now) = [c \in Components |-> Safe(v, now)[c]]
    BY DEF Safe
  <2> QED
    BY <1>2, <2>1
<1> QED
  BY <1>2, <1>3

-----------------------------------------------------------------------------
\* What a step promises, one conjunct for each part of GateSafe.
Inside ==
  \A c \in Components :
    /\ output'[c] \in Lower[c]..Upper[c]
    /\ has_last_output =>
         LET late == (last_publish' - last_publish) \div StepPeriod
             reach == MaxDelta[c] * (IF late > 1 THEN late ELSE 1)
         IN  output'[c] - output[c] \in -reach..reach
InPeriod ==
  /\ last_publish' >= chunk.from + (next_step' - 1) * StepPeriod
  /\ last_publish' < chunk.from + next_step' * StepPeriod
  /\ last_publish' < chunk.until /\ ~TooOld(chunk, last_publish')
  /\ has_last_output => last_publish' >= last_publish
Forwards ==
  \/ played[3] = 0
  \/ played'[1] > played[1] /\ played'[2] > played[2]
  \/ played'[1] = played[1] /\ played'[2] = played[2] /\ played'[3] > played[3]
Unplayed ==
  \A s \in 1..Len(overlap') :
    /\ overlap'[s].old >= next_step
    /\ chunk.from + (overlap'[s].old + 1) * StepPeriod > chunk'.from + (s - 1) * StepPeriod
StepSafe ==
  /\ Publishes => Inside /\ InPeriod /\ Forwards
  /\ overlap' # overlap /\ overlap' # <<>> => Unplayed

LEMMA GateStarts == GateInit => GateInv
<1> SUFFICES ASSUME GateInit PROVE GateInv
  OBVIOUS
<1>1. overlap \in Seq([value : [Components -> Int], old : Nat])
  <2>1. \A R : <<>> \in Seq(R)
    OBVIOUS
  <2> QED
    BY <2>1, Zenon DEF GateInit
<1>2. newest \in [gen : Nat, seq : Nat] /\ played \in Nat \X Nat \X Nat
  BY DEF GateInit
<1>3. GateTypes
  <2>1. output \in [Components -> Int] /\ clamps \in BOOLEAN
    BY DEF GateInit, Zero
  <2>2. active = FALSE /\ has_last_output = FALSE /\ next_step = 0 /\ last_publish = 0 /\ session = Unbound
    BY DEF GateInit
  <2>3. next_step \in Nat /\ last_publish \in Nat
    BY <2>2
  <2>4. active \in BOOLEAN /\ has_last_output \in BOOLEAN
    BY <2>2, Zenon
  <2> QED
    BY <1>1, <1>2, <2>1, <2>2, <2>3, <2>4, Zenon DEF GateTypes
<1> QED
  BY <1>3 DEF GateInit, GateInv, OutputInside, ChunkNewest, PlayedOld, PlayedBefore

\* A newer chunk takes over.
LEMMA GateAccepts ==
  ASSUME GateInv, NEW c \in ChunkRecord, NEW now, accept_impl(c, now), UNCHANGED clamps
  PROVE  GateInv' /\ StepSafe
<1>1. /\ Len(c.values) = c.steps
      /\ session # Unbound => c.gen > newest.gen /\ c.seq > newest.seq
  BY Verdicts DEF GateInv, accept_impl
<1>2. /\ chunk' = c /\ active' = TRUE /\ next_step' = 0 /\ session' = c.session
      /\ newest' = [gen |-> c.gen, seq |-> c.seq] /\ overlap' = capture_overlap(c)
      /\ UNCHANGED <<clamps, output, last_publish, has_last_output, played>>
  BY DEF accept_impl
<1>3. c.gen \in Nat /\ c.seq \in Nat /\ c.session \in Nat /\ c.session # Unbound
  BY DEF ChunkRecord, Unbound
<1>4. GateTypes'
  <2>1. overlap' \in Seq([value : [Components -> Int], old : Nat])
    BY <1>2, Overlap, Zenon
  <2>2. newest' \in [gen : Nat, seq : Nat]
    BY <1>2, <1>3, Zenon
  <2> QED
    BY <1>2, <1>3, <2>1, <2>2 DEF GateInv, GateTypes
<1>5. OutputInside'
  BY <1>2 DEF GateInv, OutputInside
<1>6. ChunkNewest'
  BY <1>1, <1>2, <1>3 DEF ChunkNewest, AcceptedChunk
<1>7. ASSUME played[3] # 0 PROVE played[1] < c.gen /\ played[2] < c.seq
  BY <1>1, <1>3, <1>7 DEF GateInv, GateTypes, PlayedOld
<1>8. PlayedOld' /\ PlayedBefore'
  BY <1>2, <1>3, <1>7 DEF GateInv, GateTypes, PlayedOld, PlayedBefore
<1>9. ~Publishes
  BY <1>2 DEF GateInv, GateTypes, Publishes
<1>10. Unplayed
  BY <1>2, Overlap DEF Unplayed
<1> QED
  BY <1>4, <1>5, <1>6, <1>8, <1>9, <1>10 DEF GateInv, StepSafe

\* The step that is due is published.
LEMMA GatePublishes ==
  ASSUME GateInv, NEW now \in Times, next(now), UNCHANGED clamps
  PROVE  GateInv' /\ StepSafe
<1> DEFINE due == StepDue(now)
<1>1. /\ active /\ now \in Nat /\ now < chunk.until /\ ~TooOld(chunk, now)
      /\ has_last_output => now >= last_publish
      /\ due \in Nat /\ due >= next_step /\ due < chunk.steps
      /\ chunk.from + due * StepPeriod <= now /\ now < chunk.from + (due + 1) * StepPeriod
  BY StepFacts DEF next
<1>2. /\ output' = Safe(Candidate(due), now) /\ next_step' = due + 1
      /\ last_publish' = now /\ has_last_output' = TRUE /\ active' \in BOOLEAN
      /\ played' = <<chunk.gen, chunk.seq, due + 1>>
      /\ UNCHANGED <<clamps, chunk, overlap, session, newest>>
  BY DEF next
<1> HIDE DEF due
<1>3. Candidate(due) \in [Components -> Int]
  BY <1>1, CandidateType
<1>4. output' \in [Components -> Int] /\ Inside
  BY <1>1, <1>2, <1>3, SafeInside DEF Inside
<1>5. /\ chunk \in ChunkRecord /\ session # Unbound
      /\ newest = [gen |-> chunk.gen, seq |-> chunk.seq]
  BY <1>1 DEF GateInv, ChunkNewest, AcceptedChunk
<1>6. chunk.gen \in Nat /\ chunk.seq \in Nat
  BY <1>5 DEF ChunkRecord
<1>7. GateTypes'
  <2>1. played' \in Nat \X Nat \X Nat
    BY <1>1, <1>2, <1>6
  <2>2. next_step' \in Nat /\ last_publish' \in Nat
    BY <1>1, <1>2
  <2> QED
    BY <1>2, <1>4, <2>1, <2>2 DEF GateInv, GateTypes
<1>8. OutputInside'
  BY <1>4 DEF OutputInside, Inside
<1>9. ChunkNewest'
  BY <1>1, <1>2 DEF GateInv, ChunkNewest
<1>10. PlayedOld' /\ PlayedBefore'
  BY <1>1, <1>2, <1>5, <1>6 DEF PlayedOld, PlayedBefore
<1>11. Forwards
  BY <1>1, <1>2, <1>6 DEF GateInv, GateTypes, PlayedBefore, Forwards
<1>12. InPeriod
  <2>1. due + 1 - 1 = due
    BY <1>1
  <2> QED
    BY <1>1, <1>2, <2>1 DEF InPeriod
<1> QED
  BY <1>2, <1>4, <1>7, <1>8, <1>9, <1>10, <1>11, <1>12 DEF GateInv, StepSafe

LEMMA GateRests ==
  ASSUME GateInv, (\E now \in Times : NextDeactivates(now)) \/ reset \/ UNCHANGED gateVars,
         UNCHANGED clamps
  PROVE  GateInv' /\ StepSafe
<1>1. ASSUME NEW now \in Times, NextDeactivates(now)
      PROVE  GateInv' /\ StepSafe
  <2>1. /\ active' = FALSE
        /\ UNCHANGED <<clamps, chunk, next_step, overlap, session, newest, output, last_publish,
                       has_last_output, played>>
    BY <1>1 DEF NextDeactivates
  <2>2. ~Publishes
    BY <2>1 DEF GateInv, GateTypes, Publishes
  <2> QED
    BY <2>1, <2>2, Zenon DEF GateInv, GateTypes, OutputInside, ChunkNewest, PlayedOld, PlayedBefore, StepSafe
<1>2. CASE reset
  <2>1. /\ active' = FALSE /\ session' = Unbound /\ has_last_output' = FALSE /\ next_step' = 0
        /\ overlap' = <<>> /\ last_publish' = 0 /\ UNCHANGED <<clamps, chunk, output>>
    BY <1>2 DEF reset
  <2>2. overlap' \in Seq([value : [Components -> Int], old : Nat])
    <3>1. \A R : <<>> \in Seq(R)
      OBVIOUS
    <3> QED
      BY <2>1, <3>1, Zenon
  <2>3. newest' \in [gen : Nat, seq : Nat] /\ played' \in Nat \X Nat \X Nat /\ played'[3] = 0
    BY <1>2 DEF reset
  <2>4. ~Publishes
    BY <2>1 DEF GateInv, GateTypes, Publishes
  <2>5. GateTypes'
    BY <2>1, <2>2, <2>3, Zenon DEF GateInv, GateTypes
  <2>6. OutputInside' /\ ChunkNewest' /\ PlayedOld' /\ PlayedBefore'
    BY <2>1, <2>3 DEF OutputInside, ChunkNewest, PlayedOld, PlayedBefore
  <2> QED
    BY <2>1, <2>4, <2>5, <2>6 DEF GateInv, StepSafe
<1>3. CASE UNCHANGED gateVars
  BY <1>3 DEF gateVars, GateInv, GateTypes, OutputInside, ChunkNewest, PlayedOld,
              PlayedBefore, StepSafe, Publishes
<1> QED
  BY <1>1, <1>2, <1>3

LEMMA GateStep == GateInv /\ [GateNext]_gateVars => GateInv' /\ StepSafe
<1> SUFFICES ASSUME GateInv, [GateNext]_gateVars PROVE GateInv' /\ StepSafe
  OBVIOUS
<1>1. CASE UNCHANGED gateVars
  BY <1>1, GateRests DEF gateVars
<1>2. CASE GateNext
  <2>1. UNCHANGED clamps
    BY <1>2 DEF GateNext
  <2>2. ASSUME NEW a \in Actions, NEW now \in Times, NEW from \in Starts,
               AcceptAction(a, now, from)
        PROVE  GateInv' /\ StepSafe
    BY <2>1, <2>2, MadeChunk, GateAccepts DEF AcceptAction
  <2>3. ASSUME NEW c \in Chunks, NEW now \in Times, AcceptChunk(c, now)
        PROVE  GateInv' /\ StepSafe
    BY <2>1, <2>3, OfferAssumption, GateAccepts DEF AcceptChunk
  <2>4. ASSUME NEW now \in Times, next(now)
        PROVE  GateInv' /\ StepSafe
    BY <2>1, <2>4, GatePublishes
  <2>5. CASE (\E now \in Times : NextDeactivates(now)) \/ reset
    BY <2>1, <2>5, GateRests
  <2> QED
    BY <1>2, <2>2, <2>3, <2>4, <2>5 DEF GateNext
<1> QED
  BY <1>1, <1>2

\* ActionDeliveryGate::next never publishes a value outside the limits or out of reach
\* of the one before, a step outside its control period, or an older step than one
\* already published; and accept blends a new chunk only with steps still to come.
THEOREM GateIsSafe == GateSpec => GateSafe
<1>1. StepSafe => /\ Publishes => Inside
                  /\ Publishes => InPeriod
                  /\ Publishes => Forwards
                  /\ overlap' # overlap /\ overlap' # <<>> => Unplayed
  BY DEF StepSafe
<1> QED
  BY <1>1, GateStarts, GateStep, PTL
     DEF GateSpec, GateSafe, OutputSafe, StepInItsPeriod, NeverBackwards, BlendUnplayed,
         Inside, InPeriod, Forwards, Unplayed

-----------------------------------------------------------------------------
(* The trace.                                                              *)

\* Two fields that do not overlap.
Apart(e, f) == e[1] + e[2] <= f[1] \/ f[1] + f[2] <= e[1]
LEMMA LayoutsKept == \A kind \in DOMAIN MetadataBytes : Faithful[kind]
<1>1. Kept(Layout("kCondition"))
  <2> SUFFICES ASSUME NEW e \in Layout("kCondition"), NEW f \in Layout("kCondition"), e # f
               PROVE  Apart(e, f)
    BY DEF Kept, Apart
  <2> QED
    BY DEF Layout, MetadataLayout, MetadataBytes, Envelope, At, Apart, ConditionLayout, Common
<1>2. Kept(Layout("kAction"))
  <2> SUFFICES ASSUME NEW e \in Layout("kAction"), NEW f \in Layout("kAction"), e # f
               PROVE  Apart(e, f)
    BY DEF Kept, Apart
  <2> QED
    BY DEF Layout, MetadataLayout, MetadataBytes, Envelope, At, Apart, ActionLayout, Common
<1>3. Kept(Layout("kJobRequest"))
  <2> SUFFICES ASSUME NEW e \in Layout("kJobRequest"), NEW f \in Layout("kJobRequest"), e # f
               PROVE  Apart(e, f)
    BY DEF Kept, Apart
  <2> QED
    BY DEF Layout, MetadataLayout, MetadataBytes, Envelope, At, Apart, RequestLayout, Descriptor
<1>4. Kept(Layout("kJobResult"))
  <2> SUFFICES ASSUME NEW e \in Layout("kJobResult"), NEW f \in Layout("kJobResult"), e # f
               PROVE  Apart(e, f)
    BY DEF Kept, Apart
  <2> QED
    BY DEF Layout, MetadataLayout, MetadataBytes, Envelope, At, Apart, ResultLayout, Descriptor, Progress
<1>5. Kept(Layout("kJobEvent"))
  <2> SUFFICES ASSUME NEW e \in Layout("kJobEvent"), NEW f \in Layout("kJobEvent"), e # f
               PROVE  Apart(e, f)
    BY DEF Kept, Apart
  <2> QED
    BY DEF Layout, MetadataLayout, MetadataBytes, Envelope, At, Apart, EventLayout, Descriptor, Progress
<1>6. Kept(Layout("kShutdown"))
  <2> SUFFICES ASSUME NEW e \in Layout("kShutdown"), NEW f \in Layout("kShutdown"), e # f
               PROVE  Apart(e, f)
    BY DEF Kept, Apart
  <2> QED
    BY DEF Layout, MetadataLayout, MetadataBytes, Envelope, At, Apart
<1>7. DOMAIN MetadataBytes = {"kCondition", "kAction", "kJobRequest", "kJobResult", "kJobEvent", "kShutdown"}
  BY DEF MetadataBytes
<1> QED
  BY <1>1, <1>2, <1>3, <1>4, <1>5, <1>6, <1>7, Zenon DEF Faithful

TraceSpec == TraceInit /\ [][TraceNext]_traceVars

Values == {c.value : c \in Conditions} \cup {"other", "none"}
Messages ==
  {Condition(c) : c \in Conditions} \cup Events
  \cup {Action(c, status, value) : c \in Conditions, status \in {"complete", "failed"}, value \in Values}
Units == [part : {"head", "body", "torn"}, message : Messages, at : Nat]

TraceTypes ==
  /\ file \in Seq(Units) /\ log \in Seq(Messages) /\ failures \in Nat
  /\ inflight \subseteq Conditions /\ reused \in BOOLEAN /\ wrong \in BOOLEAN
  /\ trace_stage \in {"recording", "reading", "end", "corrupt", "failed"}
  /\ pos \in Nat \ {0} /\ mismatched \in Nat

\* f is what g begins with.
Begins(f, g) == Len(f) <= Len(g) /\ \A i \in 1..Len(f) : f[i] = g[i]

\* The first k messages stand in the file f, the i-th from at[i] on.
Laid(f, messages, k, at) ==
  /\ at \in [1..(k + 1) -> Nat \ {0}] /\ at[1] = 1
  /\ \A i \in 1..k :
       /\ at[i + 1] = at[i] + 1 + messages[i].size /\ at[i + 1] <= Len(f) + 1
       /\ f[at[i]] = Unit("head", messages[i], messages[i].size)
       /\ \A j \in 1..messages[i].size : f[at[i] + j] = Unit("body", messages[i], j)

\* What starts at p is not a whole record, and will not become one.
Broken(f, p) ==
  \/ f[p].part # "head"
  \/ \E j \in 1..f[p].message.size : p + j > Len(f) \/ f[p + j].part # "body"

\* After the k messages the file ends, or a record is broken.
Ending(f, messages, k, p) ==
  \/ k = Len(messages) /\ p = Len(f) + 1
  \/ p \in 1..Len(f) /\ Broken(f, p)

-----------------------------------------------------------------------------
LEMMA MessageFacts ==
  ASSUME NEW m \in Messages
  PROVE  m.size \in 1..MaxUnits /\ valid_kind(m.kind) /\ m.size \in Nat
<1>1. CASE m \in Events
  BY <1>1, TraceAssumption DEF valid_kind, MetadataBytes
<1>2. CASE m \notin Events
  BY <1>2, TraceAssumption DEF Messages, Condition, Action, valid_kind, MetadataBytes
<1> QED
  BY <1>1, <1>2

LEMMA UnitFacts ==
  ASSUME NEW part \in {"head", "body", "torn"}, NEW m \in Messages, NEW n \in Nat
  PROVE  /\ Unit(part, m, n) \in Units
         /\ Unit(part, m, n).part = part /\ Unit(part, m, n).message = m
BY DEF Unit, Units

LEMMA RecordFacts ==
  ASSUME NEW m \in Messages
  PROVE  /\ TraceRecord(m) \in Seq(Units) /\ Len(TraceRecord(m)) = m.size + 1
         /\ TraceRecord(m)[1] = Unit("head", m, m.size)
         /\ \A j \in 1..m.size : TraceRecord(m)[j + 1] = Unit("body", m, j)
         /\ encode_message(m) \in Seq(Units) /\ Len(encode_message(m)) = m.size
         /\ \A j \in 1..m.size : encode_message(m)[j] = Unit("body", m, j)
<1>1. m.size \in Nat
  BY MessageFacts
<1>2. /\ encode_message(m) \in Seq(Units) /\ Len(encode_message(m)) = m.size
      /\ \A j \in 1..m.size : encode_message(m)[j] = Unit("body", m, j)
  BY <1>1, UnitFacts DEF encode_message
<1> DEFINE h == Unit("head", m, m.size)
           e == encode_message(m)
<1>3. h \in Units
  BY <1>1, UnitFacts
<1> HIDE DEF h, e
<1>4. /\ <<h>> \o e \in Seq(Units) /\ Len(<<h>> \o e) = m.size + 1
      /\ (<<h>> \o e)[1] = h
      /\ \A j \in 1..m.size : (<<h>> \o e)[j + 1] = e[j]
  BY <1>1, <1>2, <1>3 DEF e
<1> QED
  BY <1>2, <1>4, Zenon DEF TraceRecord, h, e

\* A sequence followed by another.
LEMMA JoinFacts ==
  ASSUME NEW s \in Seq(Units), NEW t \in Seq(Units)
  PROVE  /\ s \o t \in Seq(Units) /\ Len(s \o t) = Len(s) + Len(t) /\ Begins(s, s \o t)
         /\ \A j \in 1..Len(t) : (s \o t)[Len(s) + j] = t[j]
<1>1. PICK u : u = s \o t
  BY Zenon
<1>2. /\ u \in Seq(Units) /\ Len(u) = Len(s) + Len(t)
      /\ \A i \in 1..(Len(s) + Len(t)) : u[i] = IF i <= Len(s) THEN s[i] ELSE t[i - Len(s)]
  BY <1>1, Joined, Zenon
<1>3. Len(s) \in Nat /\ Len(t) \in Nat
  OBVIOUS
<1>4. Len(s) <= Len(u) /\ \A i \in 1..Len(s) : u[i] = s[i]
  BY <1>2, <1>3
<1>5. ASSUME NEW j \in 1..Len(t) PROVE u[Len(s) + j] = t[j]
  <2>1. Len(s) + j \in 1..(Len(s) + Len(t)) /\ ~(Len(s) + j <= Len(s)) /\ (Len(s) + j) - Len(s) = j
    BY <1>3
  <2> QED
    BY <2>1, <1>2, Zenon
<1> QED
  BY <1>1, <1>2, <1>4, <1>5, Zenon DEF Begins

\* The first n elements of a sequence.
LEMMA CutFacts ==
  ASSUME NEW s \in Seq(Units), NEW n \in 1..Len(s)
  PROVE  /\ SubSeq(s, 1, n) \in Seq(Units) /\ Len(SubSeq(s, 1, n)) = n
         /\ SubSeq(s, 1, n)[1] = s[1] /\ SubSeq(s, 1, n) # <<>>
OBVIOUS

\* A longer file and a longer log hold what the shorter ones held.
LEMMA LaidStays ==
  ASSUME NEW f \in Seq(Units), NEW g \in Seq(Units), NEW ms \in Seq(Messages), NEW ns \in Seq(Messages),
         NEW k \in 0..Len(ms), NEW at, Laid(f, ms, k, at), Begins(f, g), Begins(ms, ns)
  PROVE  Laid(g, ns, k, at)
<1>1. Len(f) \in Nat /\ Len(g) \in Nat /\ Len(f) <= Len(g) /\ at \in [1..(k + 1) -> Nat \ {0}] /\ at[1] = 1
  BY DEF Laid, Begins
<1>2. ASSUME NEW i \in 1..k
      PROVE  /\ at[i + 1] = at[i] + 1 + ns[i].size /\ at[i + 1] <= Len(g) + 1
             /\ g[at[i]] = Unit("head", ns[i], ns[i].size)
             /\ \A j \in 1..ns[i].size : g[at[i] + j] = Unit("body", ns[i], j)
  <2>1. ms[i] = ns[i] /\ ms[i] \in Messages
    BY DEF Begins
  <2>2. ms[i].size \in Nat
    BY <2>1, MessageFacts
  <2>3. /\ at[i + 1] = at[i] + 1 + ms[i].size /\ at[i + 1] <= Len(f) + 1
        /\ f[at[i]] = Unit("head", ms[i], ms[i].size)
        /\ \A j \in 1..ms[i].size : f[at[i] + j] = Unit("body", ms[i], j)
    BY Zenon DEF Laid
  <2>4. at[i] \in Nat \ {0}
    BY <1>1
  <2>5. /\ at[i] \in 1..Len(f) /\ \A j \in 1..ms[i].size : at[i] + j \in 1..Len(f)
        /\ at[i + 1] <= Len(g) + 1
    <3>1. PICK a, z, n : a = at[i] /\ z = at[i + 1] /\ n = ms[i].size
      BY Zenon
    <3>2. a \in Nat \ {0} /\ n \in Nat /\ z = a + 1 + n /\ z <= Len(f) + 1
      BY <2>2, <2>3, <2>4, <3>1, Zenon
    <3>3. a \in 1..Len(f) /\ (\A j \in 1..n : a + j \in 1..Len(f)) /\ z <= Len(g) + 1
      BY <1>1, <3>2
    <3> QED
      BY <3>1, <3>3, Zenon
  <2>6. g[at[i]] = f[at[i]] /\ \A j \in 1..ms[i].size : g[at[i] + j] = f[at[i] + j]
    BY <2>5, Zenon DEF Begins
  <2> QED
    BY <2>1, <2>3, <2>5, <2>6, Zenon
<1> QED
  BY <1>1, <1>2, Zenon DEF Laid

\* What is appended starts with a header or is torn, and repairs nothing.
LEMMA BrokenStays ==
  ASSUME NEW f \in Seq(Units), NEW g \in Seq(Units), NEW p \in 1..Len(f), Broken(f, p),
         g # <<>>, g[1].part # "body"
  PROVE  p \in 1..Len(f \o g) /\ Broken(f \o g, p)
<1> DEFINE h == f \o g
<1>1. /\ h \in Seq(Units) /\ Len(h) = Len(f) + Len(g) /\ Len(g) \in Nat \ {0} /\ Len(f) \in Nat
      /\ \A i \in 1..Len(f) : h[i] = f[i]
      /\ h[Len(f) + 1] = g[1]
  <2>1. Len(g) \in Nat \ {0} /\ Len(f) \in Nat /\ 1 \in 1..Len(g)
    OBVIOUS
  <2>2. /\ h \in Seq(Units) /\ Len(h) = Len(f) + Len(g) /\ Begins(f, h)
        /\ \A j \in 1..Len(g) : h[Len(f) + j] = g[j]
    BY JoinFacts, Zenon
  <2> QED
    BY <2>1, <2>2, Zenon DEF Begins
<1> HIDE DEF h
<1>2. p \in 1..Len(h) /\ h[p] = f[p]
  BY <1>1
<1>3. CASE f[p].part # "head"
  BY <1>2, <1>3 DEF Broken, h
<1>4. CASE \E j \in 1..f[p].message.size : p + j > Len(f) \/ f[p + j].part # "body"
  <2>1. PICK j \in 1..f[p].message.size : p + j > Len(f) \/ f[p + j].part # "body"
    BY <1>4
  <2>2. f[p].message \in Messages
    <3>1. f[p] \in Units
      OBVIOUS
    <3> QED
      BY <3>1 DEF Units
  <2>3. f[p].message.size \in Nat
    BY <2>2, MessageFacts
  <2>4. CASE p + j > Len(f)
    <3>1. Len(f) + 1 - p \in 1..f[p].message.size /\ p + (Len(f) + 1 - p) = Len(f) + 1
      BY <1>1, <2>1, <2>3, <2>4
    <3>2. h[Len(f) + 1].part # "body"
      BY <1>1
    <3> QED
      BY <1>2, <3>1, <3>2, Zenon DEF Broken, h
  <2>5. CASE ~(p + j > Len(f))
    <3>1. p + j \in 1..Len(f)
      BY <2>1, <2>3, <2>5, <1>1
    <3>2. h[p + j].part # "body"
      BY <3>1, <2>1, <2>5, <1>1
    <3> QED
      BY <1>2, <2>1, <3>2 DEF Broken, h
  <2> QED
    BY <2>4, <2>5
<1> QED
  BY <1>3, <1>4 DEF Broken

\* A whole record after the others is the next one.
LEMMA RecordLaid ==
  ASSUME NEW f \in Seq(Units), NEW ms \in Seq(Messages), NEW m \in Messages, NEW at,
         Laid(f, ms, Len(ms), at), at[Len(ms) + 1] = Len(f) + 1
  PROVE  \E bt : /\ Laid(f \o TraceRecord(m), Append(ms, m), Len(ms) + 1, bt)
                 /\ bt[Len(ms) + 2] = Len(f \o TraceRecord(m)) + 1
<1> DEFINE k == Len(ms)
           g == f \o TraceRecord(m)
           ns == Append(ms, m)
           bt == [i \in 1..(k + 2) |-> IF i = k + 2 THEN Len(f) + m.size + 2 ELSE at[i]]
<1>1. k \in Nat /\ Len(f) \in Nat /\ m.size \in Nat
  BY MessageFacts
<1>2. ns \in Seq(Messages) /\ Len(ns) = k + 1 /\ ns[k + 1] = m /\ Begins(ms, ns)
  BY DEF Begins
<1>3. /\ g \in Seq(Units) /\ Len(g) = Len(f) + m.size + 1 /\ Begins(f, g)
      /\ \A j \in 1..(m.size + 1) : g[Len(f) + j] = TraceRecord(m)[j]
  <2>1. PICK r : r = TraceRecord(m)
    BY Zenon
  <2>2. r \in Seq(Units) /\ Len(r) = m.size + 1
    BY <2>1, RecordFacts, Zenon
  <2>3. /\ f \o r \in Seq(Units) /\ Len(f \o r) = Len(f) + Len(r) /\ Begins(f, f \o r)
        /\ \A j \in 1..Len(r) : (f \o r)[Len(f) + j] = r[j]
    BY <2>2, JoinFacts, Zenon
  <2>4. Len(f) + Len(r) = Len(f) + m.size + 1
    BY <1>1, <2>2
  <2> QED
    BY <2>1, <2>2, <2>3, <2>4, Zenon
<1> HIDE DEF g, ns
<1>4. k \in 0..Len(ms) /\ Laid(g, ns, k, at)
  <2>1. k \in 0..Len(ms)
    BY <1>1
  <2> QED
    BY <2>1, <1>2, <1>3, LaidStays, Zenon
<1>5. at \in [1..(k + 1) -> Nat \ {0}] /\ at[1] = 1
  BY <1>4 DEF Laid
<1>6. /\ bt \in [1..(k + 2) -> Nat \ {0}] /\ bt[k + 2] = Len(f) + m.size + 2
      /\ \A i \in 1..(k + 1) : bt[i] = at[i]
  BY <1>1, <1>5
<1> HIDE DEF bt
<1>7. ASSUME NEW i \in 1..(k + 1)
      PROVE  /\ bt[i + 1] = bt[i] + 1 + ns[i].size /\ bt[i + 1] <= Len(g) + 1
             /\ g[bt[i]] = Unit("head", ns[i], ns[i].size)
             /\ \A j \in 1..ns[i].size : g[bt[i] + j] = Unit("body", ns[i], j)
  <2>1. CASE i = k + 1
    <3>1. bt[i] = Len(f) + 1 /\ ns[i] = m /\ bt[i + 1] = Len(f) + m.size + 2
      BY <1>1, <1>2, <1>6, <2>1
    <3>2. bt[i + 1] = bt[i] + 1 + m.size /\ bt[i + 1] <= Len(g) + 1
      BY <1>1, <1>3, <3>1
    <3>3. g[Len(f) + 1] = Unit("head", m, m.size)
      BY <1>1, <1>3, RecordFacts
    <3>4. ASSUME NEW j \in 1..m.size PROVE g[(Len(f) + 1) + j] = Unit("body", m, j)
      <4>1. j + 1 \in 1..(m.size + 1) /\ Len(f) + (j + 1) = (Len(f) + 1) + j
        BY <1>1
      <4> QED
        BY <4>1, <1>3, RecordFacts, Zenon
    <3> QED
      BY <3>1, <3>2, <3>3, <3>4, Zenon
  <2>2. CASE i # k + 1
    <3>1. i \in 1..k /\ i + 1 \in 1..(k + 1)
      BY <1>1, <2>2
    <3>2. bt[i] = at[i] /\ bt[i + 1] = at[i + 1]
      BY <1>6, <3>1, Zenon
    <3> QED
      BY <1>4, <3>1, <3>2, Zenon DEF Laid
  <2> QED
    BY <2>1, <2>2, Zenon
<1>8. (k + 1) + 1 = k + 2 /\ 1 \in 1..(k + 1)
  BY <1>1
<1>9. bt[1] = 1
  BY <1>5, <1>6, <1>8, Zenon
<1>10. Laid(g, ns, k + 1, bt)
  BY <1>6, <1>7, <1>8, <1>9, Zenon DEF Laid
<1>11. bt[k + 2] = Len(g) + 1
  BY <1>1, <1>3, <1>6
<1> QED
  BY <1>10, <1>11, Zenon DEF g, ns

\* A part of a record at the end of the file is broken.
LEMMA PartBroken ==
  ASSUME NEW f \in Seq(Units), NEW m \in Messages, NEW n \in 1..m.size
  PROVE  LET g == f \o SubSeq(TraceRecord(m), 1, n) IN Len(f) + 1 \in 1..Len(g) /\ Broken(g, Len(f) + 1)
<1>1. PICK r : r = TraceRecord(m)
  BY Zenon
<1>2. r \in Seq(Units) /\ Len(r) = m.size + 1 /\ r[1] = Unit("head", m, m.size) /\ m.size \in Nat
  BY <1>1, RecordFacts, MessageFacts, Zenon
<1> DEFINE q == SubSeq(r, 1, n)
           g == f \o q
<1>3. q \in Seq(Units) /\ Len(q) = n /\ q[1] = r[1]
  <2>1. n \in 1..Len(r)
    BY <1>2
  <2> QED
    BY <2>1, <1>2, CutFacts, Zenon
<1> HIDE DEF q
<1>4. Len(g) = Len(f) + n /\ g[Len(f) + 1] = q[1] /\ Len(f) \in Nat
  <2>1. Len(f) \in Nat /\ 1 \in 1..Len(q)
    BY <1>3
  <2>2. Len(g) = Len(f) + Len(q) /\ \A j \in 1..Len(q) : g[Len(f) + j] = q[j]
    BY <1>3, JoinFacts, Zenon
  <2> QED
    BY <2>1, <2>2, <1>3, Zenon
<1> HIDE DEF g
<1>5. g[Len(f) + 1].message = m
  <2>1. g[Len(f) + 1] = Unit("head", m, m.size)
    BY <1>2, <1>3, <1>4, Zenon
  <2> QED
    BY <2>1 DEF Unit
<1>6. (Len(f) + 1) + n > Len(g) /\ Len(f) + 1 \in 1..Len(g)
  BY <1>2, <1>4
<1>7. Broken(g, Len(f) + 1)
  <2>1. n \in 1..g[Len(f) + 1].message.size
    BY <1>5
  <2> QED
    BY <2>1, <1>6, Zenon DEF Broken
<1> QED
  BY <1>1, <1>6, <1>7, Zenon DEF g, q

-----------------------------------------------------------------------------
(* The file and the reader. *)

\* `full' is the file as the recorder left it; k of the messages stand in it
\* before it ends or breaks.
Holds(full, k, at) ==
  /\ full \in Seq(Units) /\ k \in 0..Len(log)
  /\ Laid(full, log, k, at) /\ Ending(full, log, k, at[k + 1])
  /\ Begins(file, full)
  /\ failures = 0 => file = full /\ k = Len(log) /\ at[k + 1] = Len(full) + 1
  /\ Len(read) <= k /\ pos = at[Len(read) + 1]
  /\ trace_stage = "recording" => file = full

FileInv == \E full, k, at : Holds(full, k, at)

ReadInv ==
  /\ read \in Seq(Messages) /\ Len(read) <= Len(log)
  /\ \A i \in 1..Len(read) : read[i] = log[i]
  /\ trace_stage = "recording" => read = <<>>
  /\ failures = 0 => trace_stage # "corrupt" /\ (trace_stage = "end" => Len(read) = Len(log))

\* An append that succeeds.
LEMMA AppendHolds ==
  ASSUME TraceTypes, FileInv, ReadInv, NEW m \in Messages, append(m),
         trace_stage = "recording", UNCHANGED <<trace_stage, pos, read>>
  PROVE  FileInv'
<1>1. PICK full, k, at : Holds(full, k, at)
  BY Zenon DEF FileInv
<1>2. /\ full \in Seq(Units) /\ k \in 0..Len(log) /\ Laid(full, log, k, at)
      /\ Ending(full, log, k, at[k + 1]) /\ file = full /\ read = <<>>
      /\ failures = 0 => k = Len(log) /\ at[k + 1] = Len(full) + 1
      /\ Len(read) <= k /\ pos = at[Len(read) + 1]
  BY <1>1, Zenon DEF Holds, ReadInv
<1>3. PICK g, ms : g = full \o TraceRecord(m) /\ ms = Append(log, m)
  BY Zenon
<1>4. file' = g /\ log' = ms /\ failures' = failures
  BY <1>2, <1>3, Zenon DEF append
<1>5. log \in Seq(Messages) /\ ms \in Seq(Messages) /\ Len(ms) = Len(log) + 1 /\ Begins(log, ms) /\ Len(log) \in Nat
  BY <1>3 DEF TraceTypes, Begins
<1>6. PICK t : t = TraceRecord(m)
  BY Zenon
<1>7. t \in Seq(Units) /\ t # <<>> /\ t[1].part # "body"
  <2>1. t \in Seq(Units) /\ Len(t) = m.size + 1 /\ t[1] = Unit("head", m, m.size) /\ m.size \in Nat
    BY <1>6, RecordFacts, MessageFacts, Zenon
  <2>2. t[1].part = "head"
    BY <2>1 DEF Unit
  <2> QED
    BY <2>1, <2>2
<1>8. g \in Seq(Units) /\ Begins(full, g)
  BY <1>2, <1>3, <1>6, <1>7, JoinFacts, Zenon
<1>9. Begins(g, g)
  BY <1>8 DEF Begins
<1>10. Len(read) = 0 /\ Len(read)' = Len(read) /\ pos' = pos
  BY <1>2
<1>11. at[1] = 1 /\ pos = 1
  BY <1>2, <1>10 DEF Laid
<1>12. CASE k = Len(log) /\ at[k + 1] = Len(full) + 1
  <2>1. PICK bt : Laid(g, ms, k + 1, bt) /\ bt[k + 2] = Len(g) + 1
    BY <1>12, <1>2, <1>3, <1>5, RecordLaid, Zenon
  <2>2. k + 1 \in 0..Len(ms) /\ k + 1 = Len(ms) /\ (k + 1) + 1 = k + 2 /\ 0 <= k + 1
    BY <1>12, <1>5
  <2>3. bt[1] = 1
    BY <2>1, Zenon DEF Laid
  <2>4. Ending(g, ms, k + 1, bt[(k + 1) + 1])
    BY <2>1, <2>2, Zenon DEF Ending
  <2>5. Len(read)' <= k + 1 /\ pos' = bt[Len(read)' + 1]
    BY <2>2, <2>3, <1>10, <1>11
  <2>6. Holds(g, k + 1, bt)'
    BY <2>1, <2>2, <2>4, <2>5, <1>4, <1>8, <1>9, Zenon DEF Holds
  <2> QED
    BY <2>6, Zenon DEF FileInv
<1>13. CASE ~(k = Len(log) /\ at[k + 1] = Len(full) + 1)
  <2>1. failures # 0 /\ at[k + 1] \in 1..Len(full) /\ Broken(full, at[k + 1])
    BY <1>13, <1>2, Zenon DEF Ending
  <2>2. at[k + 1] \in 1..Len(g) /\ Broken(g, at[k + 1])
    BY <2>1, <1>2, <1>3, <1>6, <1>7, BrokenStays, Zenon
  <2>3. Laid(g, ms, k, at)
    BY <1>2, <1>5, <1>8, LaidStays, Zenon
  <2>4. k \in 0..Len(ms)
    BY <1>2, <1>5
  <2>5. Holds(g, k, at)'
    BY <2>1, <2>2, <2>3, <2>4, <1>2, <1>4, <1>8, <1>9, <1>10, Zenon DEF Holds, Ending
  <2> QED
    BY <2>5, Zenon DEF FileInv
<1> QED
  BY <1>12, <1>13, Zenon

\* An append that fails.
LEMMA FailHolds ==
  ASSUME TraceTypes, FileInv, ReadInv, NEW m \in Messages, append_fails(m),
         trace_stage = "recording", UNCHANGED <<trace_stage, pos, read>>
  PROVE  FileInv' /\ file' \in Seq(Units) /\ failures' # 0 /\ failures' \in Nat
<1>1. PICK full, k, at : Holds(full, k, at)
  BY Zenon DEF FileInv
<1>2. /\ full \in Seq(Units) /\ k \in 0..Len(log) /\ Laid(full, log, k, at)
      /\ Ending(full, log, k, at[k + 1]) /\ file = full
      /\ Len(read) <= k /\ pos = at[Len(read) + 1]
  BY <1>1, Zenon DEF Holds
<1>3. failures' \in Nat /\ failures' # 0 /\ log' = log
  BY DEF append_fails, Fail, TraceTypes
<1>4. log \in Seq(Messages) /\ Begins(log, log)
  BY DEF TraceTypes, Begins
<1>5. PICK r : r = TraceRecord(m)
  BY Zenon
<1>6. r \in Seq(Units) /\ Len(r) = m.size + 1 /\ r[1] = Unit("head", m, m.size) /\ m.size \in Nat
  BY <1>5, RecordFacts, MessageFacts, Zenon
<1>7. \/ file' = full
      \/ \E t \in Seq(Units) :
           /\ t # <<>> /\ t[1].part # "body" /\ file' = full \o t
           /\ Len(full) + 1 \in 1..Len(full \o t) /\ Broken(full \o t, Len(full) + 1)
  <2>1. CASE file' = Append(file, Unit("torn", m, 0))
    <3>1. PICK u : u = Unit("torn", m, 0)
      BY Zenon
    <3>2. u \in Units /\ u.part = "torn"
      BY <3>1, UnitFacts
    <3>3. <<u>> \in Seq(Units) /\ <<u>> # <<>> /\ <<u>>[1] = u /\ Len(<<u>>) = 1
      BY <3>2
    <3>4. Append(full, u) = full \o <<u>>
      BY <1>2, <3>2
    <3>5. Len(full \o <<u>>) = Len(full) + 1 /\ (full \o <<u>>)[Len(full) + 1] = u
      BY <1>2, <3>2
    <3>6. Len(full) + 1 \in 1..Len(full \o <<u>>)
      BY <3>5, <1>2
    <3>7. Broken(full \o <<u>>, Len(full) + 1)
      BY <3>5, <3>2 DEF Broken
    <3> QED
      BY <2>1, <1>2, <3>1, <3>2, <3>3, <3>4, <3>6, <3>7, Zenon
  <2>2. CASE \E n \in 0..m.size : file' = file \o SubSeq(TraceRecord(m), 1, n)
    <3>1. PICK n \in 0..m.size : file' = full \o SubSeq(r, 1, n)
      BY <2>2, <1>2, <1>5, Zenon
    <3>2. CASE n = 0
      <4>1. SubSeq(r, 1, n) = <<>>
        BY <3>2, <1>6
      <4>2. full \o <<>> = full
        BY <1>2
      <4> QED
        BY <3>1, <4>1, <4>2, Zenon
    <3>3. CASE n # 0
      <4>1. n \in 1..m.size
        BY <3>3, <1>6
      <4>2. PICK t : t = SubSeq(r, 1, n)
        BY Zenon
      <4>3. t \in Seq(Units) /\ t # <<>> /\ t[1] = r[1]
        <5>1. n \in 1..Len(r)
          BY <4>1, <1>6
        <5> QED
          BY <4>2, <5>1, <1>6, CutFacts, Zenon
      <4>4. t[1].part # "body"
        BY <4>3, <1>6 DEF Unit
      <4>5. Len(full) + 1 \in 1..Len(full \o t) /\ Broken(full \o t, Len(full) + 1)
        BY <4>1, <4>2, <1>2, <1>5, PartBroken, Zenon
      <4> QED
        BY <3>1, <4>2, <4>3, <4>4, <4>5, Zenon
    <3> QED
      BY <3>2, <3>3, Zenon
  <2> QED
    BY <2>1, <2>2, Zenon DEF append_fails
<1>8. CASE file' = full
  <2>1. Holds(full, k, at)'
    BY <1>8, <1>2, <1>3, <1>1, Zenon DEF Holds
  <2> QED
    BY <2>1, <1>8, <1>2, <1>3, Zenon DEF FileInv
<1>9. CASE file' # full
  <2>1. PICK t \in Seq(Units) :
           /\ t # <<>> /\ t[1].part # "body" /\ file' = full \o t
           /\ Len(full) + 1 \in 1..Len(full \o t) /\ Broken(full \o t, Len(full) + 1)
    BY <1>7, <1>9, Zenon
  <2>2. PICK g : g = full \o t
    BY Zenon
  <2>3. g \in Seq(Units) /\ Begins(full, g)
    BY <1>2, <2>1, <2>2, JoinFacts, Zenon
  <2>4. Laid(g, log, k, at)
    BY <1>2, <1>4, <2>3, LaidStays, Zenon
  <2>5. at[k + 1] \in 1..Len(g) /\ Broken(g, at[k + 1])
    <3>1. CASE at[k + 1] = Len(full) + 1
      BY <3>1, <2>1, <2>2, Zenon
    <3>2. CASE at[k + 1] \in 1..Len(full) /\ Broken(full, at[k + 1])
      BY <3>2, <1>2, <2>1, <2>2, BrokenStays, Zenon
    <3> QED
      BY <3>1, <3>2, <1>2, Zenon DEF Ending
  <2>6. Begins(g, g)
    BY <2>3 DEF Begins
  <2>7. Holds(g, k, at)'
    BY <1>2, <1>3, <2>1, <2>2, <2>3, <2>4, <2>5, <2>6, Zenon DEF Holds, Ending
  <2> QED
    BY <2>7, <2>1, <2>2, <2>3, <1>3, Zenon DEF FileInv
<1> QED
  BY <1>8, <1>9, Zenon

\* The elements of a sequence from the one behind p to z.
LEMMA SliceFacts ==
  ASSUME NEW f \in Seq(Units), NEW p \in 1..Len(f), NEW z \in p..Len(f)
  PROVE  /\ SubSeq(f, p + 1, z) \in Seq(Units) /\ Len(SubSeq(f, p + 1, z)) = z - p
         /\ \A i \in 1..(z - p) : SubSeq(f, p + 1, z)[i] = f[p + i]
<1>1. Len(SubSeq(f, p + 1, z)) = z - p
  OBVIOUS
<1>2. ASSUME NEW i \in 1..(z - p) PROVE SubSeq(f, p + 1, z)[i] = f[p + i]
  OBVIOUS
<1>3. SubSeq(f, p + 1, z) \in Seq(Units)
  OBVIOUS
<1> QED
  BY <1>1, <1>2, <1>3, Zenon

\* What the reader finds behind a header.
LEMMA BodyFacts ==
  ASSUME file \in Seq(Units), NEW p \in 1..Len(file), NEW n \in Nat, n = Indexed(p).size
  PROVE  /\ Body(p) \in Seq(Units)
         /\ Len(Body(p)) = n <=> p + n <= Len(file)
         /\ p + n <= Len(file) => \A j \in 1..n : Body(p)[j] = file[p + j]
<1>1. Len(file) \in Nat /\ p \in Nat
  OBVIOUS
<1> DEFINE z == Least2(p + n, Len(file))
<1>2. z \in p..Len(file) /\ (p + n <= Len(file) => z = p + n) /\ (z = p + n => p + n <= Len(file))
  BY <1>1 DEF Least2
<1>3. Body(p) = SubSeq(file, p + 1, z)
  BY DEF Body
<1> HIDE DEF z
<1>5. /\ SubSeq(file, p + 1, z) \in Seq(Units) /\ Len(SubSeq(file, p + 1, z)) = z - p
      /\ \A i \in 1..(z - p) : SubSeq(file, p + 1, z)[i] = file[p + i]
  BY <1>2, SliceFacts, Zenon
<1>6. PICK b : b = SubSeq(file, p + 1, z)
  BY Zenon
<1>7. b \in Seq(Units) /\ Len(b) = z - p
  BY <1>1, <1>2, <1>5, <1>6
<1>8. Len(b) = n <=> p + n <= Len(file)
  BY <1>1, <1>2, <1>7
<1>9. ASSUME p + n <= Len(file), NEW j \in 1..n PROVE b[j] = file[p + j]
  <2>1. j \in 1..(z - p)
    BY <1>1, <1>2, <1>9
  <2> QED
    BY <2>1, <1>5, <1>6, Zenon
<1> QED
  BY <1>3, <1>6, <1>7, <1>8, <1>9, Zenon

\* A record the reader takes is the next message of the log.
LEMMA RecordIsNext ==
  ASSUME TraceTypes, ReadInv, NEW full, NEW k, NEW at, Holds(full, k, at),
         pos <= Len(file), RecordOk(pos)
  PROVE  /\ Len(read) < k
         /\ Indexed(pos) = log[Len(read) + 1]
         /\ decode_message(Body(pos)) = log[Len(read) + 1]
<1> DEFINE m == Indexed(pos)
           r == Len(read)
<1>1. /\ file \in Seq(Units) /\ log \in Seq(Messages) /\ full \in Seq(Units) /\ k \in 0..Len(log)
      /\ Laid(full, log, k, at) /\ Ending(full, log, k, at[k + 1]) /\ Begins(file, full)
      /\ r <= k /\ pos = at[r + 1] /\ r \in Nat
  BY SeqLength, ZenonT(40) DEF TraceTypes, ReadInv, Holds
<1>2. pos \in 1..Len(file) /\ Len(file) \in Nat /\ Len(full) \in Nat /\ Len(file) <= Len(full) /\ k \in Nat
  <2>1. Len(file) \in Nat /\ Len(full) \in Nat /\ Len(log) \in Nat
    BY <1>1, SeqLength, Zenon
  <2>2. pos \in Nat \ {0} /\ Len(file) <= Len(full)
    BY <1>1, Zenon DEF TraceTypes, Begins
  <2> QED
    BY <1>1, <2>1, <2>2, PlaceIn, UpToNat, Zenon
<1>3. file[pos] \in Units
  BY <1>1, <1>2, SeqElement, Zenon
<1>4. m \in Messages
  BY <1>3 DEF Units, Indexed
<1>5. m.size \in Nat /\ m.size \in 1..MaxUnits /\ valid_kind(m.kind)
  BY <1>4, MessageFacts, Zenon
<1>6. /\ file[pos].part = "head" /\ Len(Body(pos)) = m.size /\ Body(pos) = encode_message(m)
  BY DEF RecordOk, WholeRecord
<1>7. /\ Body(pos) \in Seq(Units) /\ pos + m.size <= Len(file)
      /\ \A j \in 1..m.size : Body(pos)[j] = file[pos + j]
  BY <1>1, <1>2, <1>5, <1>6, BodyFacts, Zenon
<1>8. \A j \in 1..m.size : encode_message(m)[j] = Unit("body", m, j)
  BY <1>4, RecordFacts, Zenon
<1>9. ASSUME NEW j \in 1..m.size PROVE file[pos + j].part = "body" /\ full[pos + j] = file[pos + j]
  <2>1. file[pos + j] = Unit("body", m, j)
    BY <1>6, <1>7, <1>8, Zenon
  <2>2. pos + j \in 1..Len(file)
    BY <1>2, <1>5, <1>7
  <2>3. full[pos + j] = file[pos + j]
    BY <2>2, <1>1, Zenon DEF Begins
  <2>4. Unit("body", m, j).part = "body"
    BY DEF Unit
  <2> QED
    BY <2>1, <2>3, <2>4, Zenon
<1>10. full[pos] = file[pos]
  BY <1>1, <1>2, Zenon DEF Begins
<1>11. r # k
  <2>1. SUFFICES ASSUME r = k PROVE FALSE
    BY Zenon
  <2>2. pos = at[k + 1]
    BY <1>1, <2>1, Zenon
  <2>3. pos # Len(full) + 1
    BY <1>2
  <2>4. Broken(full, pos)
    BY <1>1, <2>2, <2>3, Zenon DEF Ending
  <2>5. full[pos].part = "head" /\ full[pos].message = m
    BY <1>6, <1>10, Zenon DEF Indexed
  <2>6. PICK j \in 1..m.size : pos + j > Len(full) \/ full[pos + j].part # "body"
    BY <2>4, <2>5, Zenon DEF Broken
  <2>7. full[pos + j].part = "body"
    BY <1>9, Zenon
  <2>8. ~(pos + j > Len(full))
    BY <1>2, <1>5, <1>7
  <2> QED
    BY <2>6, <2>7, <2>8, Zenon
<1>12. r < k /\ r + 1 \in 1..k
  BY <1>1, <1>2, <1>11
<1>13. full[at[r + 1]] = Unit("head", log[r + 1], log[r + 1].size)
  BY <1>1, <1>12, Zenon DEF Laid
<1>14. file[pos].message = log[r + 1]
  <2>1. Unit("head", log[r + 1], log[r + 1].size).message = log[r + 1]
    BY DEF Unit
  <2> QED
    BY <2>1, <1>1, <1>10, <1>13, Zenon
<1>15. m = log[r + 1]
  BY <1>14, Zenon DEF Indexed
<1>16. decode_message(Body(pos)) = m
  <2>1. 1 \in 1..m.size
    BY <1>5
  <2>2. Body(pos)[1] = Unit("body", m, 1)
    BY <2>1, <1>6, <1>8, Zenon
  <2>3. Unit("body", m, 1).message = m
    BY DEF Unit
  <2>4. Faithful[m.kind]
    BY <1>5, LayoutsKept, Zenon DEF valid_kind
  <2> QED
    BY <2>2, <2>3, <2>4, Zenon DEF decode_message
<1> QED
  BY <1>12, <1>15, <1>16, Zenon

\* In a file no append failed to write, the next message can be read.
LEMMA IntactRecord ==
  ASSUME TraceTypes, ReadInv, NEW full, NEW k, NEW at, Holds(full, k, at), failures = 0
  PROVE  IF pos <= Len(file) THEN RecordOk(pos) ELSE Len(read) = Len(log)
<1> DEFINE r == Len(read)
<1>1. /\ file \in Seq(Units) /\ log \in Seq(Messages) /\ k = Len(log)
      /\ Laid(file, log, k, at) /\ at[k + 1] = Len(file) + 1
      /\ r <= k /\ pos = at[r + 1] /\ r \in Nat /\ k \in Nat /\ Len(file) \in Nat
  BY DEF TraceTypes, ReadInv, Holds
<1>2. CASE r = k
  BY <1>1, <1>2
<1>3. CASE r # k
  <2>1. r + 1 \in 1..k /\ r < k
    BY <1>1, <1>3
  <2>2. PICK m : m = log[r + 1]
    BY Zenon
  <2>3. m \in Messages
    BY <1>1, <2>1, <2>2
  <2>4. m.size \in Nat /\ m.size \in 1..MaxUnits /\ valid_kind(m.kind)
    BY <2>3, MessageFacts, Zenon
  <2>5. /\ at[(r + 1) + 1] = at[r + 1] + 1 + m.size /\ at[(r + 1) + 1] <= Len(file) + 1
        /\ file[at[r + 1]] = Unit("head", m, m.size)
        /\ \A j \in 1..m.size : file[at[r + 1] + j] = Unit("body", m, j)
    BY <1>1, <2>1, <2>2, Zenon DEF Laid
  <2>6. PICK a, z : a = at[r + 1] /\ z = at[(r + 1) + 1]
    BY Zenon
  <2>7. pos = a /\ pos \in Nat \ {0} /\ z = a + 1 + m.size /\ z <= Len(file) + 1
    BY <1>1, <2>5, <2>6 DEF TraceTypes
  <2>8. pos \in 1..Len(file) /\ pos + m.size <= Len(file)
    BY <1>1, <2>4, <2>7
  <2>9. file[pos] = Unit("head", m, m.size) /\ \A j \in 1..m.size : file[pos + j] = Unit("body", m, j)
    BY <2>5, <2>6, <2>7, Zenon
  <2>10. Indexed(pos) = m /\ file[pos].part = "head"
    BY <2>9 DEF Indexed, Unit
  <2>11. /\ Body(pos) \in Seq(Units) /\ Len(Body(pos)) = m.size
         /\ \A j \in 1..m.size : Body(pos)[j] = file[pos + j]
    BY <1>1, <2>4, <2>8, <2>10, BodyFacts, Zenon
  <2>12. PICK b, e : b = Body(pos) /\ e = encode_message(m)
    BY Zenon
  <2>13. /\ e \in Seq(Units) /\ Len(e) = m.size /\ b \in Seq(Units) /\ Len(b) = m.size
         /\ \A j \in 1..m.size : e[j] = b[j]
    BY <2>3, <2>9, <2>11, <2>12, RecordFacts, Zenon
  <2>14. b = e
    BY <2>4, <2>13
  <2>15. RecordOk(pos)
    BY <2>4, <2>10, <2>11, <2>12, <2>14, Zenon DEF RecordOk, WholeRecord
  <2>16. pos <= Len(file)
    BY <2>8
  <2> QED
    BY <2>15, <2>16, Zenon
<1> QED
  BY <1>2, <1>3

-----------------------------------------------------------------------------
(* What the log says. *)

Complete(m) == m.kind = "kAction" /\ m.status = "complete"

\* A condition or an action with this key.
OfKey(m, k) == m.kind \in {"kCondition", "kAction"} /\ m.key = k

\* The last message before place n that has this key is in place h.
Prev(ms, k, n, h) ==
  /\ h \in 1..Len(ms) /\ h < n /\ OfKey(ms[h], k)
  /\ \A j \in 1..Len(ms) : h < j /\ j < n => ~OfKey(ms[j], k)

\* A complete action that is not what the condition before it computes.
WrongAt(ms, i) ==
  Complete(ms[i]) /\ \E h \in 1..Len(ms) : Prev(ms, ms[i].key, i, h) /\ ms[h].value # ms[i].value

\* What stands before an action, of its key, is its condition.
AnswersFollow ==
  \A i \in 1..Len(log) :
    log[i].kind = "kAction" =>
      \E h \in 1..Len(log) : Prev(log, log[i].key, i, h) /\ log[h].kind = "kCondition"

\* A condition in flight is the last message of its key, and the only one in flight.
InflightOpen ==
  /\ \A c \in inflight :
       \E h \in 1..Len(log) : Prev(log, c.key, Len(log) + 1, h) /\ log[h] = Condition(c)
  /\ \A c, d \in inflight : c.key = d.key => c = d

WrongKnown == wrong <=> \E i \in 1..Len(log) : WrongAt(log, i)

\* Nothing was lost, and no key was in flight twice.
Clean == failures = 0 /\ ~reused

LogInv == Clean => AnswersFollow /\ InflightOpen /\ WrongKnown

\* The fields of what the daemon appends.
LEMMA ConditionFields ==
  ASSUME NEW c
  PROVE  /\ Condition(c).kind = "kCondition" /\ Condition(c).key = c.key
         /\ Condition(c).value = c.value /\ Condition(c).kind # "kAction"
BY DEF Condition

\* ns is ms with one more message, m, in place n.
Grown(ms, m, ns, n) ==
  /\ ns \in Seq(Messages) /\ Len(ns) = n /\ ns[n] = m /\ n \in 1..Len(ns) /\ ns # ms
  /\ \A i \in 1..Len(ms) : ns[i] = ms[i] /\ i \in 1..Len(ns) /\ i < n
  /\ \A i \in 1..Len(ns) : i \in 1..Len(ms) \/ i = n

LEMMA LogGrown ==
  ASSUME NEW ms \in Seq(Messages), NEW m \in Messages
  PROVE  Grown(ms, m, Append(ms, m), Len(ms) + 1)
<1>1. PICK ns : ns = Append(ms, m)
  BY Zenon
<1>2. ns \in Seq(Messages) /\ Len(ns) = Len(ms) + 1 /\ Len(ms) \in Nat /\ ns[Len(ms) + 1] = m
  BY <1>1
<1>3. \A i \in 1..Len(ms) : ns[i] = ms[i] /\ i \in 1..Len(ns) /\ i < Len(ms) + 1
  BY <1>1
<1>4. (\A i \in 1..Len(ns) : i \in 1..Len(ms) \/ i = Len(ms) + 1) /\ Len(ms) + 1 \in 1..Len(ns)
  BY <1>2
<1>5. ns # ms
  BY <1>2
<1> QED
  BY <1>1, <1>2, <1>3, <1>4, <1>5, Zenon DEF Grown

\* There is one last message of a key.
LEMMA PrevOnce ==
  ASSUME NEW ms, NEW k, NEW n, NEW h, NEW g, Prev(ms, k, n, h), Prev(ms, k, n, g)
  PROVE  h = g
<1>1. h \in 1..Len(ms) /\ g \in 1..Len(ms) /\ ~(h < g) /\ ~(g < h)
  BY Zenon DEF Prev
<1>2. h \in Int /\ g \in Int
  BY <1>1
<1> QED
  BY <1>1, <1>2

\* What is appended later does not matter.
LEMMA PrevStays ==
  ASSUME NEW ms \in Seq(Messages), NEW m, NEW ns, NEW n, Grown(ms, m, ns, n), n = Len(ms) + 1,
         NEW k, NEW i \in 1..n, NEW h
  PROVE  Prev(ns, k, i, h) <=> Prev(ms, k, i, h)
<1>1. /\ \A j \in 1..Len(ms) : ns[j] = ms[j] /\ j \in 1..Len(ns)
      /\ \A j \in 1..Len(ns) : j \in 1..Len(ms) \/ j = n
  BY Zenon DEF Grown
<1>2. ~(n < i)
  <2>1. Len(ms) \in Nat
    BY SeqLength, Zenon
  <2> QED
    BY <2>1
<1>3. \A j \in 1..Len(ns) : j < i => j \in 1..Len(ms)
  <2>1. ~(n < i)
    BY <1>2
  <2>2. \A j \in 1..Len(ns) : j < i => j # n \/ n < i
    BY Zenon
  <2> QED
    BY <1>1, <2>1, <2>2, Zenon
<1>4. ASSUME Prev(ns, k, i, h) PROVE Prev(ms, k, i, h)
  BY <1>1, <1>3, <1>4, Zenon DEF Prev
<1>5. ASSUME Prev(ms, k, i, h) PROVE Prev(ns, k, i, h)
  BY <1>1, <1>3, <1>5, Zenon DEF Prev
<1> QED
  BY <1>4, <1>5

\* One place further, it is the message in that place or what it was before.
LEMMA PrevNext ==
  ASSUME NEW ms, NEW n \in 1..Len(ms), NEW k, NEW h
  PROVE  /\ OfKey(ms[n], k) => (Prev(ms, k, n + 1, h) <=> h = n)
         /\ ~OfKey(ms[n], k) => (Prev(ms, k, n + 1, h) <=> Prev(ms, k, n, h))
<1>1. \A j \in 1..Len(ms) : j < n + 1 <=> j < n \/ j = n
  OBVIOUS
<1>2. n < n + 1 /\ ~(n < n) /\ \A j \in 1..Len(ms) : ~(n < j /\ j < n)
  OBVIOUS
<1>3. \A j \in 1..Len(ms) : j < n \/ j = n \/ n < j
  OBVIOUS
<1>4. \A j \in 1..Len(ms) : ~(n < j /\ j < n + 1)
  BY <1>1, <1>2, Zenon
<1>5. ASSUME OfKey(ms[n], k), Prev(ms, k, n + 1, h) PROVE h = n
  <2>1. h \in 1..Len(ms) /\ h < n + 1 /\ ~(h < n)
    BY <1>2, <1>5, Zenon DEF Prev
  <2> QED
    BY <1>1, <2>1, Zenon
<1>6. ASSUME OfKey(ms[n], k), h = n PROVE Prev(ms, k, n + 1, h)
  BY <1>2, <1>4, <1>6, Zenon DEF Prev
<1>7. ASSUME ~OfKey(ms[n], k), Prev(ms, k, n + 1, h) PROVE Prev(ms, k, n, h)
  <2>1. h \in 1..Len(ms) /\ h < n
    BY <1>1, <1>7, Zenon DEF Prev
  <2> QED
    BY <1>1, <1>7, <2>1, Zenon DEF Prev
<1>8. ASSUME ~OfKey(ms[n], k), Prev(ms, k, n, h) PROVE Prev(ms, k, n + 1, h)
  <2>1. h \in 1..Len(ms) /\ h < n + 1
    BY <1>1, <1>8, Zenon DEF Prev
  <2> QED
    BY <1>1, <1>8, <2>1, Zenon DEF Prev
<1> QED
  BY <1>5, <1>6, <1>7, <1>8, Zenon

\* A message more leaves what the log says of those before it.
OneMore(m, n) ==
  /\ Grown(log, m, log', n) /\ n \in 1..n /\ n = Len(log) + 1
  /\ \A i \in 1..n : \A k, h : Prev(log', k, i, h) <=> Prev(log, k, i, h)
  /\ \A k, h : OfKey(m, k) => (Prev(log', k, n + 1, h) <=> h = n)
  /\ \A k, h : ~OfKey(m, k) => (Prev(log', k, n + 1, h) <=> Prev(log, k, n, h))
  /\ \A i \in 1..Len(log) : WrongAt(log', i) <=> WrongAt(log, i)
  /\ AnswersFollow'

\* An action is appended after its condition.
Answers(m, n) ==
  m.kind = "kAction" =>
    \E h \in 1..Len(log) : Prev(log, m.key, n, h) /\ log[h].kind = "kCondition"

LEMMA GrownLog ==
  ASSUME log \in Seq(Messages), NEW m, m \in Messages, log' = Append(log, m), AnswersFollow,
         NEW n, n = Len(log) + 1, Answers(m, n)
  PROVE  OneMore(m, n)
<1>1. Grown(log, m, log', n)
  BY LogGrown, Zenon
<1>2. /\ Len(log') = n /\ log'[n] = m /\ n \in 1..Len(log')
      /\ \A i \in 1..Len(log) : log'[i] = log[i] /\ i \in 1..Len(log') /\ i < n
      /\ \A i \in 1..Len(log') : i \in 1..Len(log) \/ i = n
  BY <1>1, Zenon DEF Grown
<1>3. \A i \in 1..n : \A k, h : Prev(log', k, i, h) <=> Prev(log, k, i, h)
  BY <1>1, PrevStays, Zenon
<1>4. n \in 1..n /\ \A i \in 1..Len(log) : i \in 1..n
  BY <1>2, Zenon
<1>5. \A k, h : /\ OfKey(m, k) => (Prev(log', k, n + 1, h) <=> h = n)
                /\ ~OfKey(m, k) => (Prev(log', k, n + 1, h) <=> Prev(log', k, n, h))
  <2> TAKE k, h
  <2>1. PICK ms : ms = log'
    BY Zenon
  <2>2. n \in 1..Len(ms) /\ ms[n] = m
    BY <2>1, <1>2, Zenon
  <2>3. /\ OfKey(ms[n], k) => (Prev(ms, k, n + 1, h) <=> h = n)
        /\ ~OfKey(ms[n], k) => (Prev(ms, k, n + 1, h) <=> Prev(ms, k, n, h))
    BY <2>2, PrevNext, Zenon
  <2> QED
    BY <2>1, <2>2, <2>3, Zenon
<1>6. \A k, h : ~OfKey(m, k) => (Prev(log', k, n + 1, h) <=> Prev(log, k, n, h))
  BY <1>3, <1>4, <1>5, Zenon
<1>7. ASSUME NEW i \in 1..Len(log) PROVE WrongAt(log', i) <=> WrongAt(log, i)
  <2>1. log'[i] = log[i] /\ \A k, h : Prev(log', k, i, h) <=> Prev(log, k, i, h)
    BY <1>2, <1>3, <1>4, Zenon
  <2>2. \A k, h : Prev(log, k, i, h) => h \in 1..Len(log) /\ h \in 1..Len(log') /\ log'[h] = log[h]
    BY <1>2, Zenon DEF Prev
  <2>3. WrongAt(log', i) => WrongAt(log, i)
    BY <2>1, <2>2, ZenonT(40) DEF WrongAt
  <2>4. WrongAt(log, i) => WrongAt(log', i)
    BY <2>1, <2>2, ZenonT(40) DEF WrongAt
  <2> QED
    BY <2>3, <2>4, Zenon
<1>8. ASSUME NEW i \in 1..Len(log'), log'[i].kind = "kAction"
      PROVE  \E h \in 1..Len(log') : Prev(log', log'[i].key, i, h) /\ log'[h].kind = "kCondition"
  <2>1. PICK h \in 1..Len(log) : Prev(log, log'[i].key, i, h) /\ log[h].kind = "kCondition"
    <3>1. CASE i = n
      BY <3>1, <1>2, <1>8, Zenon DEF Answers
    <3>2. CASE i \in 1..Len(log)
      BY <3>2, <1>2, <1>8, Zenon DEF AnswersFollow
    <3> QED
      BY <3>1, <3>2, <1>2, Zenon
  <2> QED
    BY <2>1, <1>2, <1>3, Zenon
<1> QED
  BY <1>1, <1>3, <1>4, <1>5, <1>6, <1>7, <1>8, Zenon DEF AnswersFollow, OneMore

\* A condition is accepted.
LEMMA AcceptLog ==
  ASSUME log \in Seq(Messages), NEW c \in Conditions, Condition(c) \in Messages,
         AnswersFollow, InflightOpen, WrongKnown, \A d \in inflight : d.key # c.key,
         log' = Append(log, Condition(c)), inflight' = inflight \cup {c}, wrong' = wrong
  PROVE  AnswersFollow' /\ InflightOpen' /\ WrongKnown'
<1>1. PICK m, n : m = Condition(c) /\ n = Len(log) + 1
  BY Zenon
<1>2. m.kind = "kCondition" /\ m.key = c.key /\ m.kind # "kAction" /\ m \in Messages
  BY <1>1, ConditionFields, Zenon
<1>3. /\ Grown(log, m, log', n) /\ AnswersFollow'
      /\ \A k, h : OfKey(m, k) => (Prev(log', k, n + 1, h) <=> h = n)
      /\ \A k, h : ~OfKey(m, k) => (Prev(log', k, n + 1, h) <=> Prev(log, k, n, h))
      /\ \A i \in 1..Len(log) : WrongAt(log', i) <=> WrongAt(log, i)
  <2>1. Answers(m, n)
    BY <1>2, Zenon DEF Answers
  <2>2. OneMore(m, n)
    BY <2>1, <1>1, <1>2, GrownLog, Zenon
  <2> QED
    BY <2>2, Zenon DEF OneMore
<1>4. /\ Len(log') = n /\ log'[n] = m /\ n \in 1..Len(log')
      /\ \A i \in 1..Len(log) : log'[i] = log[i] /\ i \in 1..Len(log')
      /\ \A i \in 1..Len(log') : i \in 1..Len(log) \/ i = n
  BY <1>3, Zenon DEF Grown
<1>5. \A k : OfKey(m, k) <=> k = c.key
  BY <1>2, Zenon DEF OfKey
<1>6. ASSUME NEW d \in inflight'
      PROVE  \E h \in 1..Len(log') : Prev(log', d.key, n + 1, h) /\ log'[h] = Condition(d)
  <2>1. CASE d = c
    BY <2>1, <1>1, <1>3, <1>4, <1>5, Zenon
  <2>2. CASE d \in inflight
    <3>1. PICK h \in 1..Len(log) : Prev(log, d.key, n, h) /\ log[h] = Condition(d)
      BY <2>2, <1>1, Zenon DEF InflightOpen
    <3> QED
      BY <2>2, <3>1, <1>3, <1>4, <1>5, Zenon
  <2> QED
    BY <2>1, <2>2, Zenon
<1>7. \A d, e \in inflight' : d.key = e.key => d = e
  BY Zenon DEF InflightOpen
<1>8. InflightOpen'
  BY <1>4, <1>6, <1>7, Zenon DEF InflightOpen
<1>9. WrongKnown'
  <2>1. ~WrongAt(log', n)
    BY <1>2, <1>4, Zenon DEF WrongAt, Complete
  <2>2. (\E i \in 1..Len(log') : WrongAt(log', i)) <=> \E i \in 1..Len(log) : WrongAt(log, i)
    BY <2>1, <1>3, <1>4, Zenon
  <2> QED
    BY <2>2, Zenon DEF WrongKnown
<1> QED
  BY <1>3, <1>8, <1>9, Zenon

\* A condition in flight is answered.
LEMMA PublishLog ==
  ASSUME log \in Seq(Messages), wrong \in BOOLEAN, NEW c \in inflight, NEW status, NEW value,
         Action(c, status, value) \in Messages, AnswersFollow, InflightOpen, WrongKnown,
         log' = Append(log, Action(c, status, value)), inflight' = inflight \ {c},
         wrong' = (wrong \/ (status = "complete" /\ value # c.value /\ log' # log))
  PROVE  AnswersFollow' /\ InflightOpen' /\ WrongKnown'
<1>1. PICK m, n : m = Action(c, status, value) /\ n = Len(log) + 1
  BY Zenon
<1>2. /\ m.kind = "kAction" /\ m.key = c.key /\ m.status = status /\ m.value = value
      /\ m \in Messages
  <2>1. m = Action(c, status, value)
    BY <1>1, Zenon
  <2>2. m = [kind |-> "kAction", key |-> c.key, size |-> 1, status |-> status, value |-> value]
    BY <2>1, Zenon DEF Action
  <2>3. m.kind = "kAction" /\ m.key = c.key /\ m.status = status /\ m.value = value
    BY <2>2, Zenon
  <2> QED
    BY <2>1, <2>3, Zenon
<1>3. PICK a \in 1..Len(log) : Prev(log, c.key, n, a) /\ log[a] = Condition(c)
  BY <1>1, Zenon DEF InflightOpen
<1>4. log[a].kind = "kCondition" /\ log[a].value = c.value
  BY <1>3, ConditionFields, Zenon
<1>5. /\ Grown(log, m, log', n) /\ n \in 1..n /\ AnswersFollow'
      /\ \A i \in 1..n : \A k, h : Prev(log', k, i, h) <=> Prev(log, k, i, h)
      /\ \A k, h : ~OfKey(m, k) => (Prev(log', k, n + 1, h) <=> Prev(log, k, n, h))
      /\ \A i \in 1..Len(log) : WrongAt(log', i) <=> WrongAt(log, i)
  <2>1. Answers(m, n)
    BY <1>2, <1>3, <1>4, Zenon DEF Answers
  <2>2. OneMore(m, n)
    BY <2>1, <1>1, <1>2, GrownLog, Zenon
  <2> QED
    BY <2>2, Zenon DEF OneMore
<1>6. /\ Len(log') = n /\ log'[n] = m /\ n \in 1..Len(log') /\ log' # log
      /\ \A i \in 1..Len(log) : log'[i] = log[i] /\ i \in 1..Len(log')
      /\ \A i \in 1..Len(log') : i \in 1..Len(log) \/ i = n
  BY <1>5, Zenon DEF Grown
<1>7. ASSUME NEW d \in inflight'
      PROVE  \E h \in 1..Len(log') : Prev(log', d.key, n + 1, h) /\ log'[h] = Condition(d)
  <2>1. d \in inflight /\ d.key # c.key
    BY <1>7, Zenon DEF InflightOpen
  <2>2. PICK h \in 1..Len(log) : Prev(log, d.key, n, h) /\ log[h] = Condition(d)
    BY <2>1, <1>1, Zenon DEF InflightOpen
  <2>3. ~OfKey(m, d.key)
    BY <2>1, <1>2, Zenon DEF OfKey
  <2> QED
    BY <2>2, <2>3, <1>5, <1>6, Zenon
<1>8. InflightOpen'
  <2>1. \A d, e \in inflight' : d.key = e.key => d = e
    BY Zenon DEF InflightOpen
  <2> QED
    BY <2>1, <1>6, <1>7, Zenon DEF InflightOpen
<1>9. WrongAt(log', n) <=> status = "complete" /\ value # c.value
  <2>1. Prev(log', m.key, n, a) /\ log'[a].value = c.value /\ a \in 1..Len(log')
    BY <1>2, <1>3, <1>4, <1>5, <1>6, Zenon
  <2>2. \A h : Prev(log', m.key, n, h) => h = a
    BY <2>1, PrevOnce, Zenon
  <2>3. ASSUME WrongAt(log', n) PROVE status = "complete" /\ value # c.value
    <3>1. PICK h \in 1..Len(log') : Prev(log', m.key, n, h) /\ log'[h].value # m.value
      BY <2>3, <1>6, Zenon DEF WrongAt
    <3>2. status = "complete"
      BY <2>3, <1>2, <1>6, Zenon DEF WrongAt, Complete
    <3> QED
      BY <3>1, <3>2, <2>1, <2>2, <1>2, Zenon
  <2>4. ASSUME status = "complete", value # c.value PROVE WrongAt(log', n)
    <3>1. Complete(log'[n]) /\ log'[n].key = m.key
      BY <2>4, <1>2, <1>6, Zenon DEF Complete
    <3>2. log'[a].value # log'[n].value
      <4>1. log'[n].value = value
        BY <1>2, <1>6, Zenon
      <4> QED
        BY <4>1, <2>1, <2>4, Zenon
    <3> QED
      BY <3>1, <3>2, <2>1, Zenon DEF WrongAt
  <2> QED
    BY <2>3, <2>4, Zenon
<1>10. WrongKnown'
  <2>1. (\E i \in 1..Len(log') : WrongAt(log', i))
          <=> (\E i \in 1..Len(log) : WrongAt(log, i)) \/ WrongAt(log', n)
    BY <1>5, <1>6, Zenon
  <2>2. wrong' <=> wrong \/ WrongAt(log', n)
    BY <1>6, <1>9, Zenon
  <2> QED
    BY <2>1, <2>2, Zenon DEF WrongKnown
<1> QED
  BY <1>5, <1>8, <1>10, Zenon

\* A job event is recorded.
LEMMA EventLog ==
  ASSUME log \in Seq(Messages), NEW e \in Events, e \in Messages,
         AnswersFollow, InflightOpen, WrongKnown,
         log' = Append(log, e), UNCHANGED <<inflight, wrong>>
  PROVE  AnswersFollow' /\ InflightOpen' /\ WrongKnown'
<1>1. PICK n : n = Len(log) + 1
  BY Zenon
<1>2. e.kind # "kAction" /\ e.kind # "kCondition"
  BY TraceAssumption
<1>3. \A k : ~OfKey(e, k)
  BY <1>2, Zenon DEF OfKey
<1>4. /\ Grown(log, e, log', n) /\ AnswersFollow'
      /\ \A k, h : ~OfKey(e, k) => (Prev(log', k, n + 1, h) <=> Prev(log, k, n, h))
      /\ \A i \in 1..Len(log) : WrongAt(log', i) <=> WrongAt(log, i)
  <2>1. Answers(e, n)
    BY <1>2, Zenon DEF Answers
  <2>2. OneMore(e, n)
    BY <2>1, <1>1, GrownLog, Zenon
  <2> QED
    BY <2>2, Zenon DEF OneMore
<1>5. /\ Len(log') = n /\ log'[n] = e
      /\ \A i \in 1..Len(log) : log'[i] = log[i] /\ i \in 1..Len(log')
      /\ \A i \in 1..Len(log') : i \in 1..Len(log) \/ i = n
  BY <1>4, Zenon DEF Grown
<1>6. ASSUME NEW d \in inflight
      PROVE  \E h \in 1..Len(log') : Prev(log', d.key, n + 1, h) /\ log'[h] = Condition(d)
  <2>1. PICK h \in 1..Len(log) : Prev(log, d.key, n, h) /\ log[h] = Condition(d)
    BY <1>1, Zenon DEF InflightOpen
  <2> QED
    BY <2>1, <1>3, <1>4, <1>5, Zenon
<1>7. InflightOpen'
  BY <1>5, <1>6, Zenon DEF InflightOpen
<1>8. WrongKnown'
  <2>1. ~WrongAt(log', n)
    BY <1>2, <1>5, Zenon DEF WrongAt, Complete
  <2>2. (\E i \in 1..Len(log') : WrongAt(log', i)) <=> \E i \in 1..Len(log) : WrongAt(log, i)
    BY <2>1, <1>4, <1>5, Zenon
  <2> QED
    BY <2>2, Zenon DEF WrongKnown
<1> QED
  BY <1>4, <1>7, <1>8, Zenon

-----------------------------------------------------------------------------
(* What replay has computed. *)

\* A condition that is the last message read of its key has been computed, and
\* replay keeps what it computes.
Computed ==
  \A k, h : Prev(log, k, Len(read) + 1, h) /\ log[h].kind = "kCondition" =>
              k \in DOMAIN replayed /\ replayed[k] = log[h].value

ReplayInv ==
  Clean => /\ Computed
           /\ mismatched # 0 <=> \E i \in 1..Len(read) : WrongAt(log, i)

TraceInv == TraceTypes /\ FileInv /\ ReadInv /\ LogInv /\ ReplayInv

\* Replay of the next message of the log, in place n.
Replays(m, n) ==
  /\ Clean /\ mismatched \in Nat /\ log \in Seq(Messages)
  /\ n = Len(read) + 1 /\ n \in 1..Len(log) /\ m = log[n]
  /\ AnswersFollow /\ ReplayInv
  /\ Len(read') = n /\ UNCHANGED <<log, failures, reused>>
  /\ \A i \in 1..n : i \in 1..Len(read) \/ i = n
  /\ n \in 1..n /\ \A i \in 1..Len(read) : i \in 1..n

\* It is enough to look at the message itself and at the keys it does not have.
LEMMA ReplayNext ==
  ASSUME NEW m, NEW n, Replays(m, n),
         m.kind = "kCondition" => m.key \in DOMAIN replayed' /\ replayed'[m.key] = m.value,
         \A k \in DOMAIN replayed : OfKey(m, k) \/ (k \in DOMAIN replayed' /\ replayed'[k] = replayed[k]),
         mismatched' # 0 <=> mismatched # 0 \/ WrongAt(log, n)
  PROVE  ReplayInv'
<1>1. /\ Clean /\ n = Len(read) + 1 /\ n \in 1..Len(log) /\ m = log[n] /\ Len(read') = n /\ log' = log
      /\ \A i \in 1..n : i \in 1..Len(read) \/ i = n
      /\ n \in 1..n /\ \A i \in 1..Len(read) : i \in 1..n
  BY Zenon DEF Replays
<1>2. Computed /\ (mismatched # 0 <=> \E i \in 1..Len(read) : WrongAt(log, i))
  BY <1>1, Zenon DEF Replays, ReplayInv
<1>3. ASSUME NEW k, NEW h, Prev(log, k, n + 1, h), log[h].kind = "kCondition"
      PROVE  k \in DOMAIN replayed' /\ replayed'[k] = log[h].value
  <2>1. CASE OfKey(m, k)
    <3>1. h = n
      BY <2>1, <1>1, <1>3, PrevNext, Zenon
    <3> QED
      BY <2>1, <3>1, <1>1, <1>3, Zenon DEF OfKey
  <2>2. CASE ~OfKey(m, k)
    <3>1. Prev(log, k, n, h)
      BY <2>2, <1>1, <1>3, PrevNext, Zenon
    <3>2. k \in DOMAIN replayed /\ replayed[k] = log[h].value
      BY <3>1, <1>1, <1>2, <1>3, Zenon DEF Computed
    <3> QED
      BY <2>2, <3>2, Zenon
  <2> QED
    BY <2>1, <2>2, Zenon
<1>4. Computed'
  BY <1>1, <1>3, Zenon DEF Computed
<1>5. mismatched' # 0 <=> \E i \in 1..n : WrongAt(log, i)
  BY <1>1, <1>2, Zenon
<1> QED
  BY <1>1, <1>4, <1>5, Zenon DEF ReplayInv

LEMMA ReplayConditionStep ==
  ASSUME NEW m, NEW n, Replays(m, n), m.kind = "kCondition", ReplayCondition(m)
  PROVE  ReplayInv'
<1>1. /\ replayed' = [x \in DOMAIN replayed \cup {m.key} |-> IF x = m.key THEN m.value ELSE replayed[x]]
      /\ mismatched' = mismatched
  BY Zenon DEF ReplayCondition, RequestKey, With
<1>2. m.key \in DOMAIN replayed' /\ replayed'[m.key] = m.value
  BY <1>1, Zenon
<1>3. ASSUME NEW k \in DOMAIN replayed
      PROVE  OfKey(m, k) \/ (k \in DOMAIN replayed' /\ replayed'[k] = replayed[k])
  <2>1. CASE k = m.key
    BY <2>1, Zenon DEF OfKey
  <2>2. CASE k # m.key
    BY <2>2, <1>1, Zenon
  <2> QED
    BY <2>1, <2>2, Zenon
<1>4. ~WrongAt(log, n)
  <2>1. m.kind # "kAction" /\ m = log[n]
    BY Zenon DEF Replays
  <2> QED
    BY <2>1, Zenon DEF WrongAt, Complete
<1> QED
  BY <1>1, <1>2, <1>3, <1>4, ReplayNext, Zenon

\* A message that is no condition and no complete action.
LEMMA ReplayOtherStep ==
  ASSUME NEW m, NEW n, Replays(m, n), m.kind # "kCondition", ~Complete(m),
         UNCHANGED <<replayed, mismatched>>
  PROVE  ReplayInv'
<1>1. ~WrongAt(log, n)
  BY Zenon DEF WrongAt, Replays
<1> QED
  BY <1>1, ReplayNext, Zenon

\* A complete action is compared with its own condition.
LEMMA ReplayActionStep ==
  ASSUME NEW m, NEW n, Replays(m, n), Complete(m), ReplayAction(m)
  PROVE  ReplayInv'
<1>1. /\ Clean /\ n = Len(read) + 1 /\ n \in 1..Len(log) /\ m = log[n] /\ mismatched \in Nat
  BY Zenon DEF Replays
<1>2. m.kind = "kAction" /\ m.status = "complete"
  BY Zenon DEF Complete
<1>3. PICK h \in 1..Len(log) : Prev(log, m.key, n, h) /\ log[h].kind = "kCondition"
  BY <1>1, <1>2, Zenon DEF Replays, AnswersFollow
<1>4. m.key \in DOMAIN replayed /\ replayed[m.key] = log[h].value
  BY <1>1, <1>3, Zenon DEF Replays, ReplayInv, Computed
<1>5. /\ replayed' = [x \in DOMAIN replayed \ {m.key} |-> replayed[x]]
      /\ mismatched' = mismatched + IF log[h].value = m.value THEN 0 ELSE 1
  BY <1>2, <1>4, Zenon DEF ReplayAction, RequestKey, Without
<1>6. ASSUME NEW k \in DOMAIN replayed
      PROVE  OfKey(m, k) \/ (k \in DOMAIN replayed' /\ replayed'[k] = replayed[k])
  <2>1. CASE k = m.key
    BY <2>1, <1>2, Zenon DEF OfKey
  <2>2. CASE k # m.key
    BY <2>2, <1>5, Zenon
  <2> QED
    BY <2>1, <2>2, Zenon
<1>7. WrongAt(log, n) <=> log[h].value # m.value
  <2>1. \A g : Prev(log, m.key, n, g) => g = h
    BY <1>3, PrevOnce, Zenon
  <2>2. WrongAt(log, n) => log[h].value # m.value
    BY <2>1, <1>1, Zenon DEF WrongAt
  <2>3. log[h].value # m.value => WrongAt(log, n)
    BY <1>1, <1>3, Zenon DEF WrongAt
  <2> QED
    BY <2>2, <2>3, Zenon
<1>8. mismatched' # 0 <=> mismatched # 0 \/ log[h].value # m.value
  <2>1. mismatched' \in {mismatched, mismatched + 1} /\ (mismatched' = mismatched <=> log[h].value = m.value)
    BY <1>1, <1>5
  <2>2. mismatched + 1 # 0
    BY <1>1
  <2>3. CASE log[h].value = m.value
    BY <2>1, <2>3, Zenon
  <2>4. CASE log[h].value # m.value
    BY <2>1, <2>2, <2>4, Zenon
  <2> QED
    BY <2>3, <2>4, Zenon
<1>9. m.kind # "kCondition"
  BY <1>2
<1> QED
  BY <1>6, <1>7, <1>8, <1>9, ReplayNext, Zenon

-----------------------------------------------------------------------------
(* The steps.                                                              *)

LEMMA TraceStarts == TraceInit => TraceInv
<1> SUFFICES ASSUME TraceInit PROVE TraceInv
  OBVIOUS
<1>1. /\ file = <<>> /\ log = <<>> /\ failures = 0 /\ inflight = {} /\ reused = FALSE /\ wrong = FALSE
      /\ trace_stage = "recording" /\ pos = 1 /\ read = <<>> /\ replayed = << >> /\ mismatched = 0
  BY Zenon DEF TraceInit
<1>2. TraceTypes
  <2>1. <<>> \in Seq(Units) /\ <<>> \in Seq(Messages) /\ 0 \in Nat /\ 1 \in Nat \ {0}
    OBVIOUS
  <2> QED
    BY <1>1, <2>1, Zenon DEF TraceTypes
<1>3. FileInv
  <2> DEFINE at == [i \in 1..1 |-> 1]
  <2>1. /\ at \in [1..(0 + 1) -> Nat \ {0}] /\ at[1] = 1 /\ at[0 + 1] = 1
        /\ \A i \in 1..0 : FALSE
    OBVIOUS
  <2> HIDE DEF at
  <2>2. Laid(<<>>, <<>>, 0, at)
    BY <2>1 DEF Laid
  <2>3. <<>> \in Seq(Units) /\ 0 \in 0..Len(<<>>) /\ Len(<<>>) = 0 /\ 1 = Len(<<>>) + 1
    OBVIOUS
  <2>4. Begins(<<>>, <<>>)
    BY DEF Begins
  <2>5. Ending(<<>>, <<>>, 0, at[0 + 1])
    BY <2>1, <2>3 DEF Ending
  <2>6. Len(read) <= 0 /\ pos = at[Len(read) + 1]
    BY <1>1, <2>1
  <2>7. Holds(<<>>, 0, at)
    BY <1>1, <2>1, <2>2, <2>3, <2>4, <2>5, <2>6 DEF Holds
  <2> QED
    BY <2>7, Zenon DEF FileInv
<1>4. ReadInv
  BY <1>1 DEF ReadInv
<1>5. \A i \in 1..Len(log) : FALSE
  BY <1>1
<1>6. \A i \in 1..Len(read) : FALSE
  BY <1>1
<1>7. LogInv
  BY <1>1, <1>5, Zenon DEF LogInv, AnswersFollow, InflightOpen, WrongKnown
<1>8. Computed
  BY <1>5, Zenon DEF Computed, Prev
<1>10. ReplayInv
  BY <1>1, <1>6, <1>8, Zenon DEF ReplayInv
<1> QED
  BY <1>2, <1>3, <1>4, <1>7, <1>10, Zenon DEF TraceInv

\* Nothing has been read: the replay knows nothing.
LEMMA NothingReplayed ==
  ASSUME ReplayInv, read = <<>>, UNCHANGED <<read, failures, replayed, mismatched>>,
         log' \in Seq(Messages), reused => reused'
  PROVE  ReplayInv'
<1>1. (\A i \in 1..Len(read) : FALSE) /\ read' = read /\ Len(read) = 0
  OBVIOUS
<1>2. Computed'
  <2>1. \A h \in 1..Len(log') : ~(h < Len(read') + 1)
    BY <1>1
  <2> QED
    BY <2>1, Zenon DEF Computed, Prev
<1>3. Clean' => Clean
  BY Zenon DEF Clean
<1> QED
  BY <1>1, <1>2, <1>3, Zenon DEF ReplayInv

\* A message is appended, or its append fails.
LEMMA RecordStep ==
  ASSUME TraceInv, NEW m \in Messages, append(m) \/ append_fails(m), trace_stage = "recording",
         UNCHANGED <<trace_stage, pos, read, replayed, mismatched>>,
         inflight' \subseteq Conditions, wrong' \in BOOLEAN, reused' \in BOOLEAN, reused => reused',
         Clean' /\ failures = 0 /\ log' = Append(log, m) =>
           AnswersFollow' /\ InflightOpen' /\ WrongKnown'
  PROVE  TraceInv'
<1>1. /\ TraceTypes /\ FileInv /\ ReadInv /\ LogInv /\ ReplayInv /\ read = <<>>
      /\ read' = read /\ trace_stage' = trace_stage /\ pos' = pos /\ mismatched' = mismatched
      /\ replayed' = replayed
  BY Zenon DEF TraceInv, ReadInv
<1>2. /\ file \in Seq(Units) /\ log \in Seq(Messages) /\ failures \in Nat
      /\ pos \in Nat \ {0} /\ mismatched \in Nat
  BY <1>1, Zenon DEF TraceTypes
<1>3. <<>> \in Seq(Messages) /\ Len(<<>>) = 0 /\ (\A i \in 1..Len(<<>>) : FALSE)
  OBVIOUS
<1>4. CASE append(m)
  <2>1. log' = Append(log, m) /\ file' = file \o TraceRecord(m) /\ failures' = failures
    BY <1>4, Zenon DEF append
  <2>2. log' \in Seq(Messages) /\ 0 <= Len(log')
    BY <1>2, <2>1
  <2>3. file' \in Seq(Units)
    BY <1>2, <2>1, RecordFacts, JoinFacts, Zenon
  <2>4. TraceTypes'
    BY <1>1, <1>2, <2>1, <2>2, <2>3, Zenon DEF TraceTypes
  <2>5. FileInv'
    BY <1>1, <1>4, AppendHolds, Zenon
  <2>6. ReadInv'
    BY <1>1, <1>3, <2>1, <2>2 DEF ReadInv
  <2>7. LogInv'
    BY <2>1, Zenon DEF LogInv, Clean
  <2>8. ReplayInv'
    BY <1>1, <2>1, <2>2, NothingReplayed, Zenon
  <2> QED
    BY <2>4, <2>5, <2>6, <2>7, <2>8, Zenon DEF TraceInv
<1>5. CASE append_fails(m)
  <2>1. FileInv' /\ file' \in Seq(Units) /\ failures' # 0 /\ failures' \in Nat
    BY <1>1, <1>5, FailHolds, Zenon
  <2>2. log' = log
    BY <1>5, Zenon DEF append_fails
  <2>3. TraceTypes'
    BY <1>1, <1>2, <2>1, <2>2, Zenon DEF TraceTypes
  <2>4. ReadInv'
    BY <1>1, <2>1, <2>2, Zenon DEF ReadInv
  <2> QED
    BY <2>1, <2>3, <2>4, Zenon DEF TraceInv, LogInv, ReplayInv, Clean
<1> QED
  BY <1>4, <1>5, Zenon

LEMMA AcceptStep ==
  ASSUME TraceInv, NEW c \in Conditions, Accept(c)
  PROVE  TraceInv'
<1>1. /\ log \in Seq(Messages) /\ inflight \subseteq Conditions /\ wrong \in BOOLEAN
      /\ reused \in BOOLEAN /\ (Clean => AnswersFollow /\ InflightOpen /\ WrongKnown)
  BY Zenon DEF TraceInv, TraceTypes, LogInv
<1>2. Condition(c) \in Messages
  BY DEF Messages
<1>3. /\ trace_stage = "recording" /\ inflight' = inflight \cup {c}
      /\ append(Condition(c)) \/ append_fails(Condition(c))
      /\ wrong' = wrong /\ UNCHANGED <<trace_stage, pos, read, replayed, mismatched>>
      /\ reused' = (reused \/ \E d \in inflight : d.key = c.key)
  BY DEF Accept, Recorder
<1>4. /\ inflight' \subseteq Conditions /\ wrong' \in BOOLEAN /\ reused' \in BOOLEAN
      /\ reused => reused'
  BY <1>1, <1>3, Zenon
<1>5. ASSUME Clean', failures = 0, log' = Append(log, Condition(c))
      PROVE  AnswersFollow' /\ InflightOpen' /\ WrongKnown'
  <2>1. ~reused /\ \A d \in inflight : d.key # c.key
    BY <1>3, <1>5, Zenon DEF Clean
  <2>2. AnswersFollow /\ InflightOpen /\ WrongKnown
    BY <1>1, <1>5, <2>1, Zenon DEF Clean
  <2> QED
    BY <1>1, <1>2, <1>3, <1>5, <2>1, <2>2, AcceptLog, Zenon
<1> QED
  BY <1>2, <1>3, <1>4, <1>5, RecordStep, Zenon

LEMMA PublishStep ==
  ASSUME TraceInv, NEW c \in Conditions, NEW status \in {"complete", "failed"}, NEW value \in Values,
         Publish(c, status, value)
  PROVE  TraceInv'
<1> DEFINE m == Action(c, status, value)
<1>1. /\ log \in Seq(Messages) /\ inflight \subseteq Conditions /\ wrong \in BOOLEAN
      /\ reused \in BOOLEAN /\ (Clean => AnswersFollow /\ InflightOpen /\ WrongKnown)
  BY Zenon DEF TraceInv, TraceTypes, LogInv
<1>2. m \in Messages
  BY DEF Messages
<1>3. /\ trace_stage = "recording" /\ inflight' = inflight \ {c} /\ c \in inflight
      /\ append(m) \/ append_fails(m)
      /\ wrong' = (wrong \/ (status = "complete" /\ value # c.value /\ log' # log))
      /\ reused' = reused /\ UNCHANGED <<trace_stage, pos, read, replayed, mismatched>>
  BY DEF Publish, Recorder
<1>4. /\ inflight' \subseteq Conditions /\ wrong' \in BOOLEAN /\ reused' \in BOOLEAN
      /\ reused => reused'
  BY <1>1, <1>3, Zenon
<1>5. ASSUME Clean', failures = 0, log' = Append(log, m)
      PROVE  AnswersFollow' /\ InflightOpen' /\ WrongKnown'
  <2>1. AnswersFollow /\ InflightOpen /\ WrongKnown
    BY <1>1, <1>3, <1>5, Zenon DEF Clean
  <2> QED
    BY <1>1, <1>2, <1>3, <1>5, <2>1, PublishLog, Zenon
<1> HIDE DEF m
<1> QED
  BY <1>2, <1>3, <1>4, <1>5, RecordStep, Zenon

LEMMA EventStep ==
  ASSUME TraceInv, NEW e \in Events, EmitEvent(e)
  PROVE  TraceInv'
<1>1. /\ log \in Seq(Messages) /\ inflight \subseteq Conditions /\ wrong \in BOOLEAN
      /\ reused \in BOOLEAN /\ (Clean => AnswersFollow /\ InflightOpen /\ WrongKnown)
  BY Zenon DEF TraceInv, TraceTypes, LogInv
<1>2. e \in Messages
  BY DEF Messages
<1>3. /\ trace_stage = "recording"
      /\ append(e) \/ append_fails(e)
      /\ inflight' = inflight /\ wrong' = wrong /\ reused' = reused /\ UNCHANGED <<inflight, wrong>>
      /\ UNCHANGED <<trace_stage, pos, read, replayed, mismatched>>
  BY DEF EmitEvent, Recorder
<1>4. /\ inflight' \subseteq Conditions /\ wrong' \in BOOLEAN /\ reused' \in BOOLEAN
      /\ reused => reused'
  BY <1>1, <1>3, Zenon
<1>5. ASSUME Clean', failures = 0, log' = Append(log, e)
      PROVE  AnswersFollow' /\ InflightOpen' /\ WrongKnown'
  <2>1. AnswersFollow /\ InflightOpen /\ WrongKnown
    BY <1>1, <1>3, <1>5, Zenon DEF Clean
  <2> QED
    BY <1>1, <1>2, <1>3, <1>5, <2>1, EventLog, Zenon
<1> QED
  BY <1>2, <1>3, <1>4, <1>5, RecordStep, Zenon

LEMMA LogStays ==
  ASSUME LogInv, log' = log, inflight' = inflight, wrong' = wrong, reused' = reused,
         failures' = 0 => failures = 0
  PROVE  LogInv'
<1>1. AnswersFollow => AnswersFollow'
  BY Zenon DEF AnswersFollow
<1>2. InflightOpen => InflightOpen'
  BY Zenon DEF InflightOpen
<1>3. WrongKnown => WrongKnown'
  BY Zenon DEF WrongKnown
<1>4. Clean' => Clean
  BY Zenon DEF Clean
<1> QED
  BY <1>1, <1>2, <1>3, <1>4, Zenon DEF LogInv

LEMMA ReplayStays ==
  ASSUME ReplayInv, log' = log, read' = read, replayed' = replayed, mismatched' = mismatched,
         reused' = reused, failures' = 0 => failures = 0
  PROVE  ReplayInv'
<1>1. Clean' => Clean
  BY Zenon DEF Clean
<1>2. Computed => Computed'
  BY Zenon DEF Computed
<1> QED
  BY <1>1, <1>2, Zenon DEF ReplayInv

\* The recorder stops or crashes: what is read is what reached the file.
LEMMA ReadingStep ==
  ASSUME TraceInv, NEW f \in Seq(Units), Begins(f, file), Reading(f),
         failures' \in Nat, failures' = 0 => failures = 0 /\ f = file
  PROVE  TraceInv'
<1>1. /\ trace_stage = "recording" /\ trace_stage' = "reading" /\ file' = f
      /\ log' = log /\ inflight' = inflight /\ wrong' = wrong /\ pos' = pos /\ read' = read
      /\ replayed' = replayed /\ mismatched' = mismatched /\ reused' = reused
  BY DEF Reading
<1>2. trace_stage' # "recording" /\ trace_stage' # "corrupt" /\ trace_stage' # "end"
  BY <1>1
<1>3. TraceTypes'
  BY <1>1, Zenon DEF TraceInv, TraceTypes
<1>4. FileInv'
  <2>1. PICK full, k, at : Holds(full, k, at)
    BY Zenon DEF TraceInv, FileInv
  <2>2. file = full
    BY <1>1, <2>1, Zenon DEF Holds
  <2>3. Holds(full, k, at)'
    BY <1>1, <1>2, <2>1, <2>2, Zenon DEF Holds
  <2> QED
    BY <2>3, Zenon DEF FileInv
<1>5. ReadInv'
  BY <1>1, <1>2, Zenon DEF TraceInv, ReadInv
<1>6. LogInv'
  BY <1>1, LogStays, Zenon DEF TraceInv
<1>8. ReplayInv'
  BY <1>1, ReplayStays, Zenon DEF TraceInv
<1> QED
  BY <1>3, <1>4, <1>5, <1>6, <1>8, Zenon DEF TraceInv

LEMMA StopStep == TraceInv /\ Stop => TraceInv'
<1> SUFFICES ASSUME TraceInv, Stop PROVE TraceInv'
  OBVIOUS
<1>1. Reading(file) /\ failures' = failures /\ file \in Seq(Units) /\ failures \in Nat
  BY Zenon DEF Stop, TraceInv, TraceTypes
<1>2. Begins(file, file)
  BY <1>1 DEF Begins
<1> QED
  BY <1>1, <1>2, ReadingStep, Zenon

\* The first n elements of a sequence begin it.
LEMMA CutBegins ==
  ASSUME NEW s \in Seq(Units), NEW n \in 0..Len(s)
  PROVE  SubSeq(s, 1, n) \in Seq(Units) /\ Begins(SubSeq(s, 1, n), s)
<1>1. SubSeq(s, 1, n) \in Seq(Units)
  OBVIOUS
<1>2. Len(SubSeq(s, 1, n)) = n /\ \A i \in 1..n : SubSeq(s, 1, n)[i] = s[i]
  OBVIOUS
<1>3. n <= Len(s)
  OBVIOUS
<1> QED
  BY <1>1, <1>2, <1>3, Zenon DEF Begins

LEMMA CrashStep == TraceInv /\ RecorderCrash => TraceInv'
<1> SUFFICES ASSUME TraceInv, RecorderCrash PROVE TraceInv'
  OBVIOUS
<1>1. PICK n \in 0..(Len(file) - 1) : Reading(SubSeq(file, 1, n)) /\ Fail
  BY Zenon DEF RecorderCrash
<1>2. file \in Seq(Units) /\ failures \in Nat
  BY Zenon DEF TraceInv, TraceTypes
<1>3. n \in 0..Len(file)
  BY <1>2
<1>4. SubSeq(file, 1, n) \in Seq(Units) /\ Begins(SubSeq(file, 1, n), file)
  BY <1>2, <1>3, CutBegins, Zenon
<1>5. failures' = failures + 1
  BY <1>1, Zenon DEF Fail
<1>6. failures' \in Nat /\ failures' # 0
  BY <1>2, <1>5
<1> QED
  BY <1>1, <1>4, <1>6, ReadingStep, Zenon

\* The tool stops.
LEMMA EndStep ==
  ASSUME TraceInv, NEW how \in {"end", "corrupt", "failed"}, EndTool(how),
         failures = 0 => how # "corrupt" /\ (how = "end" => Len(read) = Len(log))
  PROVE  TraceInv'
<1>1. /\ trace_stage' = how /\ file' = file /\ log' = log /\ failures' = failures
      /\ inflight' = inflight /\ wrong' = wrong /\ pos' = pos /\ read' = read
      /\ replayed' = replayed /\ mismatched' = mismatched /\ reused' = reused
  BY DEF EndTool
<1>2. trace_stage' # "recording"
  BY <1>1
<1>3. TraceTypes'
  BY <1>1, Zenon DEF TraceInv, TraceTypes
<1>4. FileInv'
  <2>1. PICK full, k, at : Holds(full, k, at)
    BY Zenon DEF TraceInv, FileInv
  <2>2. Holds(full, k, at)'
    BY <1>1, <1>2, <2>1, Zenon DEF Holds
  <2> QED
    BY <2>2, Zenon DEF FileInv
<1>5. ReadInv'
  BY <1>1, <1>2, Zenon DEF TraceInv, ReadInv
<1>6. LogInv'
  BY <1>1, LogStays, Zenon DEF TraceInv
<1>8. ReplayInv'
  BY <1>1, ReplayStays, Zenon DEF TraceInv
<1> QED
  BY <1>3, <1>4, <1>5, <1>6, <1>8, Zenon DEF TraceInv

\* A record is taken, counted and replayed.
Takes(m) ==
  /\ pos' = pos + 1 + Indexed(pos).size /\ read' = Append(read, m)
  /\ UNCHANGED <<file, log, failures, inflight, reused, wrong, trace_stage>>
  /\ m.kind = "kCondition" => ReplayCondition(m)
  /\ m.kind = "kAction" => ReplayAction(m)
  /\ m.kind # "kCondition" /\ m.kind # "kAction" => UNCHANGED <<replayed, mismatched>>

LEMMA TakeStep ==
  ASSUME TraceInv, trace_stage = "reading", pos <= Len(file), RecordOk(pos),
         NEW m, m = decode_message(Body(pos)), Takes(m)
  PROVE  TraceInv'
<1>1. /\ TraceTypes /\ FileInv /\ ReadInv /\ LogInv /\ ReplayInv
      /\ read \in Seq(Messages) /\ log \in Seq(Messages) /\ pos \in Nat \ {0} /\ mismatched \in Nat
  BY Zenon DEF TraceInv, TraceTypes, ReadInv
<1>2. /\ file' = file /\ log' = log /\ failures' = failures /\ inflight' = inflight
      /\ wrong' = wrong /\ trace_stage' = trace_stage /\ reused' = reused
  BY DEF Takes
<1>3. PICK full, k, at : Holds(full, k, at)
  BY <1>1, Zenon DEF FileInv
<1>4. PICK r, n : r = Len(read) /\ n = Len(read) + 1
  BY Zenon
<1>5. r < k /\ Indexed(pos) = log[n] /\ m = log[n]
  BY <1>1, <1>3, <1>4, RecordIsNext, Zenon
<1>6. /\ k \in 0..Len(log) /\ Len(log) \in Nat /\ r \in Nat /\ n = r + 1 /\ n \in 1..Len(log)
      /\ n \in 1..k /\ n <= k /\ n <= Len(log)
  <2>1. k \in 0..Len(log) /\ Len(log) \in Nat /\ r \in Nat /\ n = r + 1
    BY <1>1, <1>3, <1>4 DEF Holds
  <2> QED
    BY <2>1, <1>5
<1>7. m \in Messages
  BY <1>1, <1>5, <1>6, SeqElement, Zenon
<1>8. Grown(read, m, read', n)
  BY <1>1, <1>4, <1>7, LogGrown, Zenon DEF Takes
<1>9. /\ read' \in Seq(Messages) /\ Len(read') = n /\ read'[n] = m
      /\ \A i \in 1..r : read'[i] = read[i] /\ i < n
      /\ \A i \in 1..n : i \in 1..r \/ i = n
  BY <1>4, <1>8, Zenon DEF Grown
<1>10. trace_stage # "recording" /\ trace_stage # "corrupt" /\ trace_stage # "end"
  OBVIOUS
<1>11. ReadInv'
  <2>1. \A i \in 1..n : read'[i] = log[i]
    BY <1>1, <1>4, <1>5, <1>9, Zenon DEF ReadInv
  <2> QED
    BY <2>1, <1>2, <1>6, <1>9, <1>10, Zenon DEF ReadInv
<1>12. pos' = at[n + 1]
  <2>1. Laid(full, log, k, at) /\ pos = at[r + 1]
    BY <1>3, <1>4, Zenon DEF Holds
  <2>2. at[n + 1] = at[n] + 1 + log[n].size
    BY <2>1, <1>6, Zenon DEF Laid
  <2> QED
    BY <2>1, <2>2, <1>5, <1>6, Zenon DEF Takes
<1>13. FileInv'
  <2>1. Holds(full, k, at)'
    BY <1>2, <1>3, <1>6, <1>9, <1>12, Zenon DEF Holds
  <2> QED
    BY <2>1, Zenon DEF FileInv
<1>14. pos' \in Nat \ {0}
  <2>1. PICK size : size = Indexed(pos).size
    BY Zenon
  <2>2. size \in Nat /\ pos' = pos + 1 + size
    BY <2>1, <1>5, <1>7, MessageFacts, Zenon DEF Takes
  <2> QED
    BY <2>2, <1>1
<1>15. mismatched' \in Nat
  <2>1. CASE m.kind = "kAction"
    BY <2>1, <1>1 DEF Takes, ReplayAction
  <2>2. CASE m.kind # "kAction"
    BY <2>2, <1>1 DEF Takes, ReplayCondition
  <2> QED
    BY <2>1, <2>2, ZenonT(40)
<1>16. TraceTypes'
  BY <1>1, <1>2, <1>14, <1>15, Zenon DEF TraceTypes
<1>17. LogInv'
  BY <1>1, <1>2, LogStays, Zenon
<1>18. ReplayInv'
  <2>1. CASE ~Clean
    BY <2>1, <1>2, Zenon DEF ReplayInv, Clean
  <2>2. CASE Clean
    <3>1. n \in 1..n /\ \A i \in 1..r : i \in 1..n
      BY <1>6
    <3>2. Replays(m, n)
      BY <2>2, <3>1, <1>1, <1>2, <1>4, <1>5, <1>6, <1>9, Zenon DEF Replays, LogInv
    <3>3. CASE m.kind = "kCondition"
      BY <3>2, <3>3, ReplayConditionStep, Zenon DEF Takes
    <3>4. CASE m.kind = "kAction" /\ m.status = "complete"
      BY <3>2, <3>4, ReplayActionStep, Zenon DEF Takes, Complete
    <3>5. CASE m.kind # "kCondition" /\ ~(m.kind = "kAction" /\ m.status = "complete")
      <4>1. UNCHANGED <<replayed, mismatched>>
        BY <3>5 DEF Takes, ReplayAction
      <4> QED
        BY <3>2, <3>5, <4>1, ReplayOtherStep, Zenon DEF Complete
    <3> QED
      BY <3>3, <3>4, <3>5, Zenon
  <2> QED
    BY <2>1, <2>2, Zenon
<1> QED
  BY <1>11, <1>13, <1>16, <1>17, <1>18, Zenon DEF TraceInv

LEMMA ReaderStep == TraceInv /\ NextRecord => TraceInv'
<1> SUFFICES ASSUME TraceInv, NextRecord PROVE TraceInv'
  OBVIOUS
<1>1. PICK m : m = decode_message(Body(pos))
  BY Zenon
<1>2. TraceTypes /\ FileInv /\ ReadInv /\ trace_stage = "reading"
  BY Zenon DEF TraceInv, NextRecord
<1>3. PICK full, k, at : Holds(full, k, at)
  BY <1>2, Zenon DEF FileInv
<1>4. pos \in Nat /\ Len(file) \in Nat
  BY <1>2 DEF TraceTypes
<1>5. pos > Len(file) <=> ~(pos <= Len(file))
  BY <1>4
<1>6. failures = 0 => IF pos <= Len(file) THEN RecordOk(pos) ELSE Len(read) = Len(log)
  BY <1>2, <1>3, IntactRecord, Zenon
<1>7. CASE pos > Len(file)
  <2>1. EndTool("end")
    BY <1>7, Zenon DEF NextRecord
  <2>2. "end" # "corrupt"
    OBVIOUS
  <2> QED
    BY <1>5, <1>6, <1>7, <2>1, <2>2, EndStep, Zenon
<1>8. CASE pos <= Len(file) /\ ~RecordOk(pos)
  <2>1. EndTool("corrupt")
    BY <1>5, <1>8, Zenon DEF NextRecord
  <2> QED
    BY <1>6, <1>8, <2>1, EndStep, Zenon
<1>9. CASE pos <= Len(file) /\ RecordOk(pos)
  <2>1. Indexed(pos) = m
    BY <1>1, <1>2, <1>3, <1>9, RecordIsNext, Zenon
  <2>2. IndexAgrees(pos, m)
    BY <2>1, Zenon DEF IndexAgrees
  <2>3. CASE m.kind = "kCondition" /\ m.fails
    <3>1. EndTool("failed")
      BY <1>1, <1>5, <1>9, <2>2, <2>3, Zenon DEF NextRecord
    <3>2. "failed" # "corrupt" /\ "failed" # "end"
      OBVIOUS
    <3> QED
      BY <3>1, <3>2, EndStep, Zenon
  <2>4. CASE ~(m.kind = "kCondition" /\ m.fails)
    <3>1. /\ pos' = pos + 1 + Indexed(pos).size /\ read' = Append(read, m)
          /\ CASE m.kind = "kCondition" -> ReplayCondition(m)
               [] m.kind = "kAction" -> ReplayAction(m)
               [] OTHER -> UNCHANGED <<replayed, mismatched, compared>>
          /\ UNCHANGED <<file, log, failures, inflight, reused, wrong, trace_stage>>
      BY <1>1, <1>5, <1>9, <2>2, <2>4, Zenon DEF NextRecord
    <3>2. Takes(m)
      BY <3>1 DEF Takes
    <3> QED
      BY <1>1, <1>2, <1>9, <3>2, TakeStep, Zenon
  <2> QED
    BY <2>3, <2>4, Zenon
<1> QED
  BY <1>5, <1>7, <1>8, <1>9, Zenon

LEMMA TraceStep == TraceInv /\ [TraceNext]_traceVars => TraceInv'
<1> SUFFICES ASSUME TraceInv, [TraceNext]_traceVars PROVE TraceInv'
  OBVIOUS
<1>1. CASE UNCHANGED traceVars
  <2>1. /\ trace_stage' = trace_stage /\ file' = file /\ log' = log /\ failures' = failures
        /\ inflight' = inflight /\ wrong' = wrong /\ pos' = pos /\ read' = read
        /\ replayed' = replayed /\ mismatched' = mismatched /\ reused' = reused
    BY <1>1 DEF traceVars
  <2>2. TraceTypes' /\ ReadInv'
    BY <2>1, Zenon DEF TraceInv, TraceTypes, ReadInv
  <2>3. LogInv'
    BY <2>1, LogStays, Zenon DEF TraceInv
  <2>4. PICK full, k, at : Holds(full, k, at)
    BY Zenon DEF TraceInv, FileInv
  <2>5. Holds(full, k, at)'
    BY <2>1, <2>4, Zenon DEF Holds
  <2>7. ReplayInv'
    BY <2>1, ReplayStays, Zenon DEF TraceInv
  <2> QED
    BY <2>2, <2>3, <2>5, <2>7, Zenon DEF TraceInv, FileInv
<1>2. ASSUME NEW c \in Conditions, Accept(c) PROVE TraceInv'
  BY <1>2, AcceptStep, Zenon
<1>3. ASSUME NEW c \in Conditions,
             NEW outcome \in {<<"complete", c.value>>, <<"complete", "other">>, <<"failed", "none">>},
             Publish(c, outcome[1], outcome[2])
      PROVE  TraceInv'
  <2>1. outcome[1] \in {"complete", "failed"} /\ outcome[2] \in {c.value, "other", "none"}
    BY <1>3
  <2>2. outcome[2] \in Values
    BY <2>1, Zenon DEF Values
  <2> QED
    BY <1>3, <2>1, <2>2, PublishStep, Zenon
<1>4. ASSUME NEW e \in Events, EmitEvent(e) PROVE TraceInv'
  BY <1>4, EventStep, Zenon
<1> QED
  BY <1>1, <1>2, <1>3, <1>4, StopStep, CrashStep, ReaderStep, Zenon DEF TraceNext

\* The invariant says what a trace is for.
LEMMA TraceMeans == TraceInv => TraceFaithful
<1> SUFFICES ASSUME TraceInv PROVE TraceFaithful
  OBVIOUS
<1>1. /\ read \in Seq(Messages) /\ log \in Seq(Messages) /\ Len(read) <= Len(log)
      /\ \A i \in 1..Len(read) : read[i] = log[i]
  BY Zenon DEF TraceInv, TraceTypes, ReadInv
<1>2. ReadsWhatWasWritten
  <2>1. PICK s, t : s = read /\ t = log
    BY Zenon
  <2>2. /\ s \in Seq(Messages) /\ t \in Seq(Messages) /\ Len(s) <= Len(t)
        /\ \A i \in 1..Len(s) : s[i] = t[i]
    BY <1>1, <2>1, Zenon
  <2>3. s = SubSeq(t, 1, Len(s))
    BY <2>2
  <2> QED
    BY <2>1, <2>2, <2>3, Zenon DEF ReadsWhatWasWritten
<1>3. ASSUME Len(read) = Len(log) PROVE read = log
  BY <1>1, <1>3, SeqSame, Zenon
<1>4. IntactIsRead
  BY <1>3, Zenon DEF IntactIsRead, TraceInv, ReadInv
<1>5. ReplayVerdict
  <2> SUFFICES ASSUME failures = 0, trace_stage = "end", ~reused PROVE mismatched # 0 <=> wrong
    BY Zenon DEF ReplayVerdict
  <2>1. Len(read) = Len(log) /\ Clean
    BY Zenon DEF TraceInv, ReadInv, Clean
  <2>2. WrongKnown
    BY <2>1, Zenon DEF TraceInv, LogInv
  <2>3. mismatched # 0 <=> \E i \in 1..Len(read) : WrongAt(log, i)
    BY <2>1, Zenon DEF TraceInv, ReplayInv
  <2> QED
    BY <2>1, <2>2, <2>3, Zenon DEF WrongKnown
<1> QED
  BY <1>2, <1>4, <1>5, Zenon DEF TraceFaithful

\* A trace tells what happened, for every set of conditions and events, and
\* however many appends fail or crashes cut the file: the reader returns the
\* messages in the order they were appended, all of them when nothing failed,
\* and replay reports a mismatch exactly when an action was wrong, provided no
\* session and sequence was in flight twice (replay_trace keeps one action per key).
THEOREM TraceIsFaithful == TraceSpec => []TraceFaithful
<1>1. TraceInit => TraceInv
  BY TraceStarts
<1>2. TraceInv /\ [TraceNext]_traceVars => TraceInv'
  BY TraceStep
<1>3. TraceInv => TraceFaithful
  BY TraceMeans
<1> QED
  BY <1>1, <1>2, <1>3, PTL DEF TraceSpec
=============================================================================
