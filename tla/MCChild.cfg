\* Three threads, Ctrl-C and commands at any time, and assertions that fail.
CONSTANTS
  WMax = 3
  LsSize = 2
  MaxQuits = 3
  CanFail = TRUE
SPECIFICATION FairSpec
INVARIANT ReleaseAfterLastAccess
PROPERTY ImplementsSupervisor
PROPERTY ShutdownCompletes
\* The process may be gone.
CHECK_DEADLOCK FALSE
