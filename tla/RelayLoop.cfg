SPECIFICATION Spec
CONSTANTS
  Capacity = 1
  NanosecondsPerNfe = 1
  ReserveNs = 0
  Top = 9
  Workers = 1
  DeviceMayFail = TRUE
  Scripts <- Sessions
  RingCapacity = 1
  MaxNow = 2
INVARIANTS OwnedOnce
PROPERTIES ResultKept Drains StopReturns
CHECK_DEADLOCK FALSE
