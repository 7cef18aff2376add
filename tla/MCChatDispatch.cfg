\* Three turns over two workers and no queued place: the third one is refused.
SPECIFICATION Spec
CONSTANTS
  t1 = t1
  t2 = t2
  t3 = t3
  Turn = {t1, t2, t3}
  ThreadOf <- MCThreadOf
  Backlog <- MCBacklog
  Worker = {w1, w2}
  MaxQueued = 0
  Caller = {k1, k2}
  Watched = {}
  CanResume = FALSE
  MaxOutputs = 2
  MaxStarts = 2
  NoTurn = NoTurn
SYMMETRY Interchangeable
CHECK_DEADLOCK FALSE
INVARIANTS
  CapacityAccounted
  TurnIsTracked
  EndIsQuiet
  PromptSentOnce
