\* The same with all fairness, and smaller bounds.
CONSTANTS
  c1 = c1
  c2 = c2
  Slot = {c1, c2}
  Protos <- HttpOrSip
  Fd = {3, 4, 5}
  IO_QUERY_CNT = 2
  IDLE_LIMIT = 1
  Start = 2
  MaxTime = 3
  MaxIo = 2
  MaxTwice = 1
SPECIFICATION FairSpec
PROPERTY QuitHonoured
PROPERTY ClosedSlotReused
\* The worker may have ended.
CHECK_DEADLOCK FALSE
