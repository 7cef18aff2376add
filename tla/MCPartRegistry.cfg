\* Commands one at a time and two builds of one part, with any two failures.
SPECIFICATION Spec
CONSTANTS
  p1 = p1
  p2 = p2
  b1 = b1
  b2 = b2
  edit = edit
  delete = delete
  reload = reload
  Part = {p1, p2}
  Kind = {step, stl}
  Command = {edit, delete, reload}
  What <- MCWhat
  Target <- MCTarget
  Build = {b1, b2}
  Of <- MCOf
  LateBuilds = FALSE
  ManyCommands = FALSE
  MaxFaults = 2
  First = First
  NoFile = NoFile
  NoIndex = NoIndex
CHECK_DEADLOCK FALSE
INVARIANTS
  DeletedStaysDeleted
  FailedDeletionRestores
  NothingIsLost
  IndexAgrees
  
PROPERTIES
  RevisionAdvances
