---------------------------- MODULE BoundedFifo ----------------------------
(***************************************************************************)
(* What a shared-memory ring promises its two endpoints: every mapping is  *)
(* a first-in first-out queue of at most Capacity messages.  A push that   *)
(* is accepted appends one message, a pop removes the oldest one and hands *)
(* it to the receiver, and an entry whose bytes were damaged in memory is  *)
(* removed without being handed over.  Nothing else changes a queue.       *)
(***************************************************************************)
EXTENDS Naturals, Sequences

CONSTANTS
    Ring,       \* mappings, one per successful create
    Capacity,   \* slots of one mapping
    Message,    \* what producers send
    Damaged     \* an entry whose checksum no longer matches

VARIABLES
    contents,   \* contents[r]: the queue held by mapping r
    received    \* what the receivers were handed, in order

vars == <<contents, received>>

Init ==
    /\ contents = [r \in Ring |-> <<>>]
    /\ received = <<>>

Push(r, m) ==
    /\ Len(contents[r]) < Capacity
    /\ contents' = [contents EXCEPT ![r] = Append(@, m)]
    /\ UNCHANGED received

Pop(r) ==
    /\ contents[r] # <<>>
    /\ contents' = [contents EXCEPT ![r] = Tail(@)]
    /\ received' = IF Head(contents[r]) = Damaged
                   THEN received
                   ELSE Append(received, Head(contents[r]))

Damage(r, i) ==
    /\ contents' = [contents EXCEPT ![r][i] = Damaged]
    /\ UNCHANGED received

Next ==
    \E r \in Ring :
        \/ \E m \in Message : Push(r, m)
        \/ Pop(r)
        \/ \E i \in DOMAIN contents[r] : Damage(r, i)

Spec == Init /\ [][Next]_vars
=============================================================================
