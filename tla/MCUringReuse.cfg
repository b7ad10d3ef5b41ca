\* A slot that closed, and a clock that goes on.
CONSTANTS
  c1 = c1
  c2 = c2
  c3 = c3
  Slot = {c1, c2}
  Proto <- OneHttpOneAin
  Fd = {3, 4}
  IO_QUERY_CNT = 2
  IDLE_LIMIT = 1
  MaxTime = 1
  MaxIo = 2
SPECIFICATION FairSpec
PROPERTY ClosedSlotReused
CHECK_DEADLOCK FALSE
