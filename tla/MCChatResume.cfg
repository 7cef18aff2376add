\* One turn, and a stream that goes on after an event already seen.
SPECIFICATION FairSpec
CONSTANTS
  t1 = t1
  t2 = t2
  t3 = t3
  Turn = {t1}
  ThreadOf <- MCThreadOf
  Backlog <- MCBacklog
  Worker = {w1}
  MaxQueued = 1
  Caller = {k1}
  Watched = {t1}
  CanResume = TRUE
  MaxOutputs = 2
  MaxStarts = 1
  NoTurn = NoTurn
CHECK_DEADLOCK FALSE
PROPERTIES
  StreamEnds
