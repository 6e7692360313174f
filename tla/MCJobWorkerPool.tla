-------------------------- MODULE MCJobWorkerPool --------------------------
(* Small instances of the worker pool. *)
EXTENDS JobWorkerPool

Req(s, g, c, d, n, r) ==
    [session |-> s, generation |-> g, class |-> c, deadline |-> d, total |-> n, route |-> r,
     valid |-> TRUE]

(* Two lanes that share route "a"; only lane 1 serves "b". *)
MCRoutes == [l \in 0 .. 1 |-> IF l = 0 THEN {"a"} ELSE {"a", "b"}]
MCUnitCost == [r \in {"a", "b"} |-> 1]

(* Two requests for lane 1, one of which can expire in the queue, and one    *)
(* with a slot reserved for it that either lane takes.                       *)
QueuedRequests ==
    <<Req(0, 1, BestEffort, 2, 1, "b"), Req(1, 1, BestEffort, 0, 1, "b"),
      Req(1, 1, Critical, 2, 1, "a")>>

(* A job of two units and the one that supersedes it. *)
MovedRequests == <<Req(0, 1, BestEffort, 0, 2, "a"), Req(0, 2, Interactive, 0, 1, "a")>>

(* A job that either lane takes and its successor for lane 1. *)
TwoRequests == <<Req(0, 1, BestEffort, 0, 1, "a"), Req(0, 2, BestEffort, 0, 1, "b")>>

(* The pool is stopped, if at all, before the second request. *)
StopEarly == phase # "stop" /\ phase' = "stop" => outcome[2] = "new"

(* The queue is served: it has a pump, no lane that could serve it idles as  *)
(* long as the clock stands and nothing can expire, and its reserved slots   *)
(* are there for the classes they are kept for (submit, pump,                *)
(* has_qos_capacity).                                                        *)
QueueServed == QueueHasPump /\ (now = 1 => IdleLaneServes) /\ ReservesKept
=============================================================================
