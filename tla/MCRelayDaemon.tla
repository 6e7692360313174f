---------------------------- MODULE MCRelayDaemon ----------------------------
\* Instances of RelayDaemon for TLC.
EXTENDS RelayDaemon

R(seq, gen, deadline, nfe) ==
  [kind |-> "good", seq |-> seq, gen |-> gen, deadline |-> deadline, nfe |-> nfe]
Other(seq, kind) == [kind |-> kind, seq |-> seq, gen |-> 0, deadline |-> 0, nfe |-> 0]

\* Requests that compete for the queue's only place, a newer generation that
\* comes while an older one is solved, one that comes too late, and what the
\* loop discards or obeys.
Sessions ==
  {<<R(1, 1, 0, 1), R(2, 1, 2, 1), R(3, 1, 0, 1)>>,
   <<R(1, 1, 0, 2), R(2, 2, 0, 1)>>,
   <<Other(1, "damaged"), R(2, 2, 2, 1), R(3, 1, 0, 1), Other(4, "shutdown")>>}
=============================================================================
