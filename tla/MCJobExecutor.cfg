\* One runtime, two threads, two jobs of different priority: the executor's
\* queue, the table of active jobs and every kind of shutdown.
SPECIFICATION FairSpec
CONSTANTS
  j1 = j1
  j2 = j2
  Job = {j1, j2}
  Proc = {p1}
  Thread = {t1, t2}
  Priority <- MCPriority
  NoRow = NoRow
  NoJob = NoJob
  NoProc = NoProc
  MaxProgress = 1
  MaxEvents = 2
CHECK_DEADLOCK FALSE
INVARIANTS
  WorkRunsOnce
  ActiveIsTracked
  ShutdownQuiesces
PROPERTIES AcceptedJobsEnd ShutdownEnds
