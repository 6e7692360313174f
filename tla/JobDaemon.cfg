SPECIFICATION Spec
CONSTANTS
  Lanes = {1}
  QueueCapacity = 1
  EventCapacity = 3
  RingCapacity = 1
  FailureThreshold = 1
  Scripts <- Traffic
  Generation <- JobGeneration
INVARIANTS Conservation AnswersTrue
PROPERTIES Settles
CHECK_DEADLOCK FALSE
