\* A slot that answers or asks for more and a management slot; operations that
\* are queued, and some that complete at once and are handled twice.
CONSTANTS
  c1 = c1
  c2 = c2
  Slot = {c1, c2}
  Protos <- HttpOrSip
  Fd = {3, 4, 5}
  IO_QUERY_CNT = 2
  IDLE_LIMIT = 1
  Start = 2
  MaxTime = 4
  MaxIo = 3
  MaxTwice = 1
SPECIFICATION Spec
INVARIANT TypeOK
INVARIANT OneOpPerSlot
PROPERTY FollowsSlotLife
INVARIANT SocketsOwned
\* The worker may have ended.
CHECK_DEADLOCK FALSE
