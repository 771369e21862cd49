SPECIFICATION Spec
CONSTANTS
  Captures <- MCCaptures
  Speed = 2
  TimeSpace = 64
  MaxRuns = 2
  MaxTime = 2
INVARIANTS
  TypeOK
  SentOnceInOrder
  NeverEarly
  DelaysNeverAddUp
PROPERTIES
  ImplementsSequentialReplay
  RunsEnd
CHECK_DEADLOCK FALSE
