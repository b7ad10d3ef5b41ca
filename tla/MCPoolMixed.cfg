\* Extents of different sizes come and go in three adjacent pools, some of
\* which the system may fail to map.
CONSTANTS
  PoolSize = 4
  MaxPools = 3
  HdrPages = 1
  TagMod = 256
  Base <- RowOfPools
  PageBytes = 2
  DistMod = 128
  Requests = {1, 2, 3}
  MapFails = {"MAP_FAILED", "NULL"}
  Frees = TRUE
  MaxHeld = 4
SPECIFICATION FairSpec
INVARIANT TypeOK
INVARIANT FreePagesAreTaggedZero
INVARIANT TagsTellExtents
INVARIANT HeldCanBeReleased
INVARIANT NothingStaysMapped
PROPERTY ImplementsPageAllocator
PROPERTY AllocReturns
\* An allocation may crash, and a destroyed pool stays so.
CHECK_DEADLOCK FALSE
