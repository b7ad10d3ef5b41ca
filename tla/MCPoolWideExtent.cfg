\* One extent of 256 pages in a pool that is large enough for it.
CONSTANTS
  PoolSize = 264
  MaxPools = 1
  HdrPages = 1
  TagMod = 256
  Base <- OnePool
  PageBytes = 1
  DistMod = 1048576
  Requests = {255, 256}
  MapFails = {}
  Frees = FALSE
  MaxHeld = 1
SPECIFICATION Spec
INVARIANT FreePagesAreTaggedZero
CHECK_DEADLOCK FALSE
