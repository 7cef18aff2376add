\* Two turns, one of them streamed: what must happen in the end.
SPECIFICATION FairSpec
CONSTANTS
  t1 = t1
  t2 = t2
  t3 = t3
  Turn = {t1, t2}
  ThreadOf <- MCThreadOf
  Backlog <- MCBacklog
  Worker = {w1}
  MaxQueued = 1
  Caller = {k1}
  Watched = {t1}
  CanResume = FALSE
  MaxOutputs = 2
  MaxStarts = 2
  NoTurn = NoTurn
CHECK_DEADLOCK FALSE
PROPERTIES
  CancelledTurnsLeave
  TurnsEnd
  StreamEnds
