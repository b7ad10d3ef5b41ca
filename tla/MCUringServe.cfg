\* A slot of each kind of handler, three events from outside, and the parent
\* that asks the worker to quit; with all fairness.
CONSTANTS
  c1 = c1
  c2 = c2
  c3 = c3
  Slot = {c1, c2, c3}
  Proto <- HttpSipAin
  Fd = {3, 4, 5}
  IO_QUERY_CNT = 2
  IDLE_LIMIT = 1
  MaxTime = 1
  MaxIo = 3
SPECIFICATION FairSpec
INVARIANT TypeOK
INVARIANT OneOpPerSlot
INVARIANT HandlerMatchesOp
INVARIANT ConnectionIsServed
INVARIANT NoSocketLeak
PROPERTY QuitHonoured
PROPERTY ImplementsSlotLife
\* The worker may have ended.
CHECK_DEADLOCK FALSE
