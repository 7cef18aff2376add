\* Two runtimes that share one slot: builds queue behind each other and
\* behind the other runtime, and two faults of any kind interfere.
SPECIFICATION FairSpec
CONSTANTS
  p1 = p1
  p2 = p2
  c1 = c1
  c2 = c2
  c3 = c3
  Proc = {p1, p2}
  Slot = {0}
  Call = {c1, c2, c3}
  Home <- MCHome
  Priority <- MCPriority
  Prepares <- MCPrepares
  Revision = {1, 2}
  RecycleAfter = 2
  CanUndo = FALSE
  MaxFaults = 2
  NoProc = NoProc
  NoCall = NoCall
  NoRevision = NoRevision
CHECK_DEADLOCK FALSE
INVARIANTS
  AnswerIsOwn
  SlotIsExclusive
  ClosedPoolIsEmpty
  NoStaleSource
PROPERTIES
  CallsEnd
