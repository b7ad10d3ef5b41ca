\* Three workers, up to three shutdown causes, any of them in any order, and
\* failed forks and crashed workers.
CONSTANTS
  WMax = 3
  LsSize = 2
  MaxQuits = 3
  CanFail = TRUE
SPECIFICATION FairSpec
INVARIANT TypeOK
INVARIANT ReleaseAfterLastAccess
INVARIANT StopsOnlyWhenAsked
PROPERTY EndIsFinalOfOneCause
PROPERTY ImplementsBarrier
PROPERTY ShutdownCompletes
\* The parent may have exited, or wait for an END that never comes.
CHECK_DEADLOCK FALSE
