-------------------------- MODULE SharedMemoryRing --------------------------
(***************************************************************************)
(* relay/shared_memory: one named single-producer single-consumer ring     *)
(* shared by two processes that start, stop, crash and restart on their    *)
(* own.  A mapping is created under an exclusive name, initialised field   *)
(* by field, and may be opened by the other process at any moment in       *)
(* between.  try_push and try_pop are split at every access to memory the  *)
(* other process also touches.                                             *)
(*                                                                         *)
(* A crash loses the process and its locals; the mapping and its name      *)
(* stay, as POSIX shared memory does.  A clean release() by the process    *)
(* that created the mapping also unlinks the name, after which a new       *)
(* create makes a second mapping that the other process does not see.      *)
(***************************************************************************)
EXTENDS Naturals, Sequences, FiniteSets

CONSTANTS
    Capacity,      \* RingConfig::capacity
    SequenceMod,   \* the sequences are unsigned: they wrap at this value
    Creators,      \* the endpoints started with create rather than open
    Oversized,     \* messages larger than the consumer's destination
    EarlyOpen,     \* may open() overlap the create() of the same name?
    MaxRings, MaxMessages, MaxCrashes, MaxDamage   \* bounds

Endpoint == {"producer", "consumer"}
Ring     == 1 .. MaxRings
Message  == 1 .. MaxMessages
None     == 0
Damaged  == MaxMessages + 1

(* required_bytes() accepts powers of two from 2 up, and 2^64 is a         *)
(* multiple of each of them.                                               *)
ASSUME RingAssumption ==
    /\ Capacity \in Nat /\ Capacity >= 2
    /\ SequenceMod \in Nat /\ SequenceMod > Capacity
    /\ SequenceMod % Capacity = 0
    /\ Creators \subseteq Endpoint
    /\ EarlyOpen \in BOOLEAN
    /\ MaxRings \in Nat /\ MaxMessages \in Nat
    /\ MaxCrashes \in Nat /\ MaxDamage \in Nat

VARIABLES
    name,        \* the mapping the ring's name refers to, or None
    made,        \* how many mappings have been created
    header,      \* header[r]: how far create() has initialised mapping r
    write_sequence, read_sequence,   \* per mapping
    slots,       \* slots[r][i]: header and payload of a slot, by message
    pc,          \* pc[p]: where endpoint p stands
    mapped,      \* mapped[p]: the mapping p has mapped, or None
    unlink,      \* unlink_on_destroy_ of p's SharedMemoryRing
    local,       \* the sequence number p loaded at the start of its call
    message,     \* the message being pushed, or copied out by a pop
    sent,        \* messages offered so far
    received,    \* history: messages returned by try_pop with kSuccess
    crashes, damage

endpoints == <<pc, mapped, unlink, local, message>>
memory    == <<write_sequence, read_sequence, slots>>
vars == <<name, made, header, memory, endpoints, sent, received, crashes, damage>>

Index(s) == s % Capacity
Size(r)  == (write_sequence[r] + SequenceMod - read_sequence[r]) % SequenceMod
Advance(s) == (s + 1) % SequenceMod

Goto(p, where) == pc' = [pc EXCEPT ![p] = where]

Init ==
    /\ name = None /\ made = 0
    /\ header = [r \in Ring |-> "absent"]
    /\ write_sequence = [r \in Ring |-> 0]
    /\ read_sequence = [r \in Ring |-> 0]
    /\ slots = [r \in Ring |-> [i \in 0 .. Capacity - 1 |-> [head |-> None, body |-> None]]]
    /\ pc = [p \in Endpoint |-> "out"]
    /\ mapped = [p \in Endpoint |-> None]
    /\ unlink = [p \in Endpoint |-> FALSE]
    /\ local = [p \in Endpoint |-> 0]
    /\ message = [p \in Endpoint |-> None]
    /\ sent = 0 /\ received = <<>>
    /\ crashes = 0 /\ damage = 0

-----------------------------------------------------------------------------
(* create(): exclusive name, size, header, configuration, sequences.       *)

Create(p) ==
    /\ pc[p] = "out" /\ p \in Creators
    /\ name = None /\ made < MaxRings
    /\ made' = made + 1
    /\ name' = made + 1
    /\ header' = [header EXCEPT ![made + 1] = "empty"]
    /\ mapped' = [mapped EXCEPT ![p] = made + 1]
    /\ Goto(p, "create_truncate")
    /\ UNCHANGED <<memory, unlink, local, message, sent, received, crashes, damage>>

CreateTruncate(p) ==
    /\ pc[p] = "create_truncate"
    /\ header' = [header EXCEPT ![mapped[p]] = "zeroed"]
    /\ Goto(p, "create_header")
    /\ UNCHANGED <<name, made, memory, mapped, unlink, local, message, sent,
                   received, crashes, damage>>

(* ftruncate fails, or the mmap that follows it: close and unlink.         *)
CreateFail(p) ==
    /\ pc[p] \in {"create_truncate", "create_header"}
    /\ name' = None
    /\ mapped' = [mapped EXCEPT ![p] = None]
    /\ Goto(p, "out")
    /\ UNCHANGED <<made, header, memory, unlink, local, message, sent, received,
                   crashes, damage>>

CreateHeader(p) ==
    /\ pc[p] = "create_header"
    /\ header' = [header EXCEPT ![mapped[p]] = "constructed"]
    /\ Goto(p, "create_config")
    /\ UNCHANGED <<name, made, memory, mapped, unlink, local, message, sent,
                   received, crashes, damage>>

CreateConfig(p) ==
    /\ pc[p] = "create_config"
    /\ header' = [header EXCEPT ![mapped[p]] = "valid"]
    /\ Goto(p, "create_sequences")
    /\ UNCHANGED <<name, made, memory, mapped, unlink, local, message, sent,
                   received, crashes, damage>>

CreateSequences(p) ==
    /\ pc[p] = "create_sequences"
    /\ write_sequence' = [write_sequence EXCEPT ![mapped[p]] = 0]
    /\ read_sequence' = [read_sequence EXCEPT ![mapped[p]] = 0]
    /\ unlink' = [unlink EXCEPT ![p] = TRUE]
    /\ Goto(p, "attached")
    /\ UNCHANGED <<name, made, header, slots, mapped, local, message, sent,
                   received, crashes, damage>>

Creating(p) == pc[p] \in {"create_truncate", "create_header", "create_config",
                          "create_sequences"}

-----------------------------------------------------------------------------
(* open(): look the name up, read the size, map, then validate_mapping().  *)
(* Mapping an object of size zero fails and leaves nothing behind.         *)

Open(p) ==
    /\ pc[p] = "out" /\ name # None
    /\ header[name] # "empty"
    /\ EarlyOpen \/ \A q \in Endpoint : ~ Creating(q)
    /\ mapped' = [mapped EXCEPT ![p] = name]
    /\ Goto(p, "open_validate")
    /\ UNCHANGED <<name, made, header, memory, unlink, local, message, sent,
                   received, crashes, damage>>

OpenValidate(p) ==
    /\ pc[p] = "open_validate"
    /\ IF header[mapped[p]] = "valid"
       THEN Goto(p, "attached") /\ UNCHANGED mapped
       ELSE Goto(p, "out") /\ mapped' = [mapped EXCEPT ![p] = None]
    /\ UNCHANGED <<name, made, header, memory, unlink, local, message, sent,
                   received, crashes, damage>>

-----------------------------------------------------------------------------
(* try_push(): kFull and kTooLarge change nothing.                         *)

Full(r) == Size(r) >= Capacity

PushStart ==
    LET p == "producer" IN
    /\ pc[p] = "attached" /\ sent < MaxMessages
    /\ ~ Full(mapped[p])
    /\ local' = [local EXCEPT ![p] = write_sequence[mapped[p]]]
    /\ message' = [message EXCEPT ![p] = sent + 1]
    /\ sent' = sent + 1
    /\ Goto(p, "push_head")
    /\ UNCHANGED <<name, made, header, memory, mapped, unlink, received, crashes, damage>>

PushHeadPublishes ==
    LET p == "producer" IN
    /\ pc[p] = "push_head"
    /\ slots' = [slots EXCEPT ![mapped[p]][Index(local[p])].head = message[p]]
    /\ write_sequence' = [write_sequence EXCEPT ![mapped[p]] = Advance(local[p])]
    /\ Goto(p, "push_body")
    /\ UNCHANGED <<name, made, header, read_sequence, mapped, unlink, local, message, sent,
                   received, crashes, damage>>

PushHead ==
    LET p == "producer" IN
    /\ pc[p] = "push_head"
    /\ slots' = [slots EXCEPT ![mapped[p]][Index(local[p])].head = message[p]]
    /\ Goto(p, "push_body")
    /\ UNCHANGED <<name, made, header, write_sequence, read_sequence, mapped, unlink,
                   local, message, sent, received, crashes, damage>>

PushBody ==
    LET p == "producer" IN
    /\ pc[p] = "push_body"
    /\ slots' = [slots EXCEPT ![mapped[p]][Index(local[p])].body = message[p]]
    /\ Goto(p, "push_publish")
    /\ UNCHANGED <<name, made, header, write_sequence, read_sequence, mapped, unlink,
                   local, message, sent, received, crashes, damage>>

PushPublish ==
    LET p == "producer" IN
    /\ pc[p] = "push_publish"
    /\ write_sequence' = [write_sequence EXCEPT ![mapped[p]] = Advance(local[p])]
    /\ message' = [message EXCEPT ![p] = None]
    /\ Goto(p, "attached")
    /\ UNCHANGED <<name, made, header, read_sequence, slots, mapped, unlink, local,
                   sent, received, crashes, damage>>

-----------------------------------------------------------------------------
(* try_pop(): kEmpty changes nothing; an entry that does not fit the       *)
(* caller's buffer stays; an entry that fails a check is skipped.          *)

EmptyUnchecked(r) == FALSE
Empty(r) == read_sequence[r] = write_sequence[r]

PopStart ==
    LET p == "consumer" IN
    /\ pc[p] = "attached"
    /\ ~ Empty(mapped[p])
    /\ local' = [local EXCEPT ![p] = read_sequence[mapped[p]]]
    /\ Goto(p, "pop_copy")
    /\ UNCHANGED <<name, made, header, memory, mapped, unlink, message, sent, received,
                   crashes, damage>>

SkipForgotten(p) == UNCHANGED read_sequence
SkipEntry(p) == read_sequence' = [read_sequence EXCEPT ![mapped[p]] = Advance(local[p])]

PopCopy ==
    LET p == "consumer"
        r == mapped[p]
        s == slots[r][Index(local[p])] IN
    /\ pc[p] = "pop_copy"
    /\ \/ /\ s.head \in Oversized       \* kDestinationTooSmall
          /\ Goto(p, "attached")
          /\ UNCHANGED <<read_sequence, message>>
       \/ /\ s.head \notin Oversized /\ s.head # s.body     \* kCorrupt
          /\ SkipEntry(p)
          /\ Goto(p, "attached")
          /\ UNCHANGED message
       \/ /\ s.head \notin Oversized /\ s.head = s.body
          /\ message' = [message EXCEPT ![p] = s.body]
          /\ Goto(p, "pop_publish")
          /\ UNCHANGED read_sequence
    /\ UNCHANGED <<name, made, header, write_sequence, slots, mapped, unlink, local,
                   sent, received, crashes, damage>>

PopPublish ==
    LET p == "consumer" IN
    /\ pc[p] = "pop_publish"
    /\ read_sequence' = [read_sequence EXCEPT ![mapped[p]] = Advance(local[p])]
    /\ received' = Append(received, message[p])
    /\ message' = [message EXCEPT ![p] = None]
    /\ Goto(p, "attached")
    /\ UNCHANGED <<name, made, header, write_sequence, slots, mapped, unlink, local,
                   sent, crashes, damage>>

-----------------------------------------------------------------------------
(* release() of a healthy endpoint, the death of one, and damage to the    *)
(* payload of a published entry.                                           *)

Leave(p) ==
    /\ mapped' = [mapped EXCEPT ![p] = None]
    /\ unlink' = [unlink EXCEPT ![p] = FALSE]
    /\ message' = [message EXCEPT ![p] = None]
    /\ Goto(p, "out")

Release(p) ==
    /\ pc[p] = "attached"
    /\ Leave(p)
    /\ name' = IF unlink[p] THEN None ELSE name
    /\ UNCHANGED <<made, header, memory, local, sent, received, crashes, damage>>

Crash(p) ==
    /\ pc[p] # "out" /\ crashes < MaxCrashes
    /\ Leave(p)
    /\ crashes' = crashes + 1
    /\ UNCHANGED <<name, made, header, memory, local, sent, received, damage>>

Live(r) == {Index(read_sequence[r] + k) : k \in 0 .. Size(r) - 1}

Damage(r) ==
    /\ damage < MaxDamage
    /\ \E i \in Live(r) : slots' = [slots EXCEPT ![r][i].body = Damaged]
    /\ damage' = damage + 1
    /\ UNCHANGED <<name, made, header, write_sequence, read_sequence, endpoints, sent,
                   received, crashes>>

Producer == PushStart \/ PushHead \/ PushBody \/ PushPublish
Consumer == PopStart \/ PopCopy \/ PopPublish

Next ==
    \/ \E p \in Endpoint :
          \/ Create(p) \/ CreateTruncate(p) \/ CreateFail(p) \/ CreateHeader(p)
          \/ CreateConfig(p) \/ CreateSequences(p)
          \/ Open(p) \/ OpenValidate(p) \/ Release(p) \/ Crash(p)
    \/ Producer
    \/ Consumer
    \/ \E r \in Ring : Damage(r)

Setup(p) == CreateTruncate(p) \/ CreateHeader(p) \/ CreateConfig(p)
            \/ CreateSequences(p) \/ OpenValidate(p)

(* The daemon and the clients poll their input ring in a loop, so a        *)
(* consumer that stays attached keeps calling try_pop, and a process that  *)
(* stays alive finishes the create() or open() it has begun.               *)
Spec == Init /\ [][Next]_vars /\ WF_vars(Consumer)
             /\ \A p \in Endpoint : WF_vars(Setup(p))

-----------------------------------------------------------------------------
(* Properties.                                                             *)

Slot == [head : 0 .. MaxMessages, body : 0 .. MaxMessages + 1]

(* Every variable keeps its type; the sequences stay within their width    *)
(* and a mapping never holds more than capacity entries (try_push's full   *)
(* test, which must survive the wrap of the unsigned sequences).           *)
TypeOK ==
    /\ name \in Ring \cup {None} /\ made \in 0 .. MaxRings
    /\ header \in [Ring -> {"absent", "empty", "zeroed", "constructed", "valid"}]
    /\ write_sequence \in [Ring -> 0 .. SequenceMod - 1]
    /\ read_sequence \in [Ring -> 0 .. SequenceMod - 1]
    /\ \A r \in Ring : Size(r) <= Capacity
    /\ slots \in [Ring -> [0 .. Capacity - 1 -> Slot]]
    /\ pc \in [Endpoint -> {"out", "create_truncate", "create_header", "create_config",
                            "create_sequences", "open_validate", "attached", "push_head",
                            "push_body", "push_publish", "pop_copy", "pop_publish"}]
    /\ mapped \in [Endpoint -> Ring \cup {None}]
    /\ unlink \in [Endpoint -> BOOLEAN]
    /\ local \in [Endpoint -> 0 .. SequenceMod - 1]
    /\ message \in [Endpoint -> 0 .. MaxMessages + 1]
    /\ sent \in 0 .. MaxMessages /\ received \in Seq(Message)
    /\ crashes \in 0 .. MaxCrashes /\ damage \in 0 .. MaxDamage

(* While try_push fills a slot, try_pop in the other process never checks  *)
(* or copies that slot: the two calls touch disjoint memory although       *)
(* neither takes a lock.                                                   *)
SlotOwnership ==
    /\ pc["producer"] \in {"push_head", "push_body", "push_publish"}
    /\ pc["consumer"] \in {"pop_copy", "pop_publish"}
    /\ mapped["producer"] = mapped["consumer"]
    => Index(local["producer"]) # Index(local["consumer"])

(* The two processes keep to their own memory and the ring to its capacity.  *)
RingSafe == TypeOK /\ SlotOwnership

Entry(s) == IF s.head = s.body THEN s.body ELSE Damaged

(* The queue a mapping holds: the published slots, oldest first.  An entry *)
(* the consumer has already copied out is the copy.                        *)
Contents(r) ==
    [k \in 1 .. Size(r) |->
        IF k = 1 /\ pc["consumer"] = "pop_publish" /\ mapped["consumer"] = r
        THEN message["consumer"]
        ELSE Entry(slots[r][Index(read_sequence[r] + k - 1)])]

Fifo == INSTANCE BoundedFifo WITH contents <- [r \in Ring |-> Contents(r)]

(* The ring is a bounded FIFO queue: write_sequence's release store is the *)
(* moment a message is sent, read_sequence's the moment it is received; a  *)
(* crash at any point neither loses, repeats nor tears a sent message, and *)
(* only damaged entries are skipped.                                       *)
IsBoundedFifo == Fifo!Spec

Stuck(r) == slots[r][Index(read_sequence[r])].head \in Oversized

(* A consumer that stays attached empties its mapping, damaged entries     *)
(* included; only an entry too large for its buffer holds it up.           *)
Drained ==
    \A r \in Ring :
        Size(r) > 0 ~> (Size(r) = 0 \/ mapped["consumer"] # r \/ Stuck(r))

(* "successful client connection is therefore a readiness signal"          *)
(* (docs/decisions/0013-relay-client-lifecycle.md:31): what a              *)
(* connected producer sends is only ever removed by the consumer.          *)
AcceptedStays ==
    [][\A r \in Ring : Size(r)' < Size(r) => read_sequence'[r] # read_sequence[r]]_vars
=============================================================================
