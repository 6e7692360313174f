SPECIFICATION Spec
CONSTANTS
  Worker = {w1, w2}
  RingSize = 2
  IdleSpin = 0
  Loops <- TriedLoops
  Bursts <- TriedBursts
  MaxCalls = 2
  MaxTasks = 4
INVARIANTS TasksKept ReturnIsBarrier
PROPERTIES Terminates
CHECK_DEADLOCK FALSE
