\* Two runtimes over one job: recovery, joining and shutdown of one process
\* against the work of the other, and both against clients that cancel.
SPECIFICATION Spec
CONSTANTS
  j1 = j1
  j2 = j2
  Job = {j1}
  Proc = {p1, p2}
  Thread = {t1}
  Priority <- MCPriority
  NoRow = NoRow
  NoJob = NoJob
  NoProc = NoProc
  MaxProgress = 1
  MaxEvents = 3
SYMMETRY Symmetry
CHECK_DEADLOCK FALSE
INVARIANTS
  LogMatchesRow
  CancelHonoured
  LiveWorkIsRunning
PROPERTIES
  ContractSpec
