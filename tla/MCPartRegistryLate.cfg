\* A build requested before a deletion and submitted while it runs.
SPECIFICATION Spec
CONSTANTS
  p1 = p1
  p2 = p2
  b1 = b1
  b2 = b2
  edit = edit
  delete = delete
  reload = reload
  Part = {p1, p2}
  Kind = {step, stl}
  Command = {edit, delete, reload}
  What <- MCWhat
  Target <- MCTarget
  Build = {b1, b2}
  Of <- MCOf
  LateBuilds = TRUE
  ManyCommands = FALSE
  MaxFaults = 0
  First = First
  NoFile = NoFile
  NoIndex = NoIndex
CHECK_DEADLOCK FALSE
INVARIANTS
  DeletedStaysDeleted
