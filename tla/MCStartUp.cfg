\* One to four workers, threads or processes, started in every order, with the
\* totals of connections at which the header of the pool changes.
SPECIFICATION Spec
CONSTANTS
  Systems <- BothSystems
  CpuCounts <- FewCpus
  Totals <- BoundaryTotals
  MgmtPorts <- WrittenPorts
INVARIANTS
  TypeOK
  SlotsFitTable
  EveryListenerServed
  SlotsWithinTotal
  PagesPerConnection
\* All have started.
CHECK_DEADLOCK FALSE
