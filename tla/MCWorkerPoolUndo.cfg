\* One runtime; its source is edited and the edit is undone again.
SPECIFICATION Spec
CONSTANTS
  p1 = p1
  p2 = p2
  c1 = c1
  c2 = c2
  c3 = c3
  Proc = {p1}
  Slot = {0}
  Call = {c1, c2}
  Home <- MCHome
  Priority <- MCPriority
  Prepares <- MCPrepares
  Revision = {1, 2}
  RecycleAfter = 2
  CanUndo = TRUE
  MaxFaults = 2
  NoProc = NoProc
  NoCall = NoCall
  NoRevision = NoRevision
CHECK_DEADLOCK FALSE
INVARIANTS
  NoStaleSource
