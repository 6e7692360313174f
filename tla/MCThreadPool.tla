---------------------------- MODULE MCThreadPool ----------------------------
\* A loop that is cut unevenly, and a burst of more tasks than there are workers
\* or slots of the ring.
EXTENDS ThreadPool

TriedLoops == {[total |-> 3, task_count |-> 3]}
TriedBursts == {[total |-> 3, task_count |-> 3]}
=============================================================================
