-------------------------- MODULE MCCooperativeJob --------------------------
(* Two lanes with the adapters of one model, one of them refused as a      *)
(* duplicate; a stream of three tokens, one of one, one whose token is not *)
(* in the vocabulary and one whose work is not its number of tokens.       *)
EXTENDS CooperativeJob

OnLane(lane, model, max) == [lane |-> lane, model |-> model, max_tokens |-> max]
ThreeAdapters == [a1 |-> OnLane(1, "m", 3), a2 |-> OnLane(2, "m", 3), b2 |-> OnLane(2, "m", 2)]

Stream(session, generation, tokens, work) ==
  [descriptor |-> [kind |-> 2, known |-> TRUE, work |-> work, session |-> session,
                   deadline |-> 0],
   generation |-> generation, route |-> [kind |-> 2, model |-> "m"], tokens |-> tokens]

Streams ==
  {Stream(1, 1, <<"x", "y", "y">>, 3), Stream(2, 2, <<"y">>, 1),
   Stream(3, 1, <<"bad">>, 1), Stream(4, 1, <<"x">>, 2)}
=============================================================================
