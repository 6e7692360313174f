----------------------------- MODULE MCJobDaemon -----------------------------
\* Instances of JobDaemon for TLC.
EXTENDS JobDaemon, TLC

Job(n) == [kind |-> "job", job |-> n]
Other(kind) == [kind |-> kind, job |-> NoJob]
Order(sequence, operation, worker) ==
  [sequence |-> sequence, operation |-> operation, worker |-> worker]

\* The third job supersedes the first two; the fourth is stale when it comes.
JobGeneration == <<1, 1, 2, 1>>

\* Jobs beyond the queue's capacity with the lane drained and resumed under
\* them, equal orders with jobctl's default sequence and with numbers of their
\* own, and what stops or breaks the daemon.
Traffic ==
  {[jobs |-> <<Job(1), Job(2), Job(3), Job(4)>>,
    orders |-> <<Order(1, "kDrainWorker", 1), Order(2, "kResumeWorker", 1)>>,
    faults |-> {}],
   [jobs |-> <<Job(1), Job(2)>>,
    orders |-> <<Order(1, "kStatus", 0), Order(1, "kStatus", 0), Order(1, "kShutdown", 0)>>,
    faults |-> {}],
   [jobs |-> <<Job(1), Job(2), Other("shutdown")>>,
    orders |-> <<Order(1, "kDrainWorker", 3), Order(2, "kRecoverWorker", 1)>>,
    faults |-> {"signal", "trace"}],
   [jobs |-> <<Job(1), Job(3)>>,
    orders |-> <<Order(1, "kResumeWorker", 1), Order(2, "kRecoverWorker", 1)>>,
    faults |-> {"failure"}],
   [jobs |-> <<Job(1), Other("corrupt")>>,
    orders |-> <<Order(1, "kStatus", 0), Order(2, "kStatus", 0), Order(1, "invalid", 0)>>,
    faults |-> {"trace"}]}
=============================================================================
