\* Builds of a legacy project, one edit of its parameters between them.
SPECIFICATION WorkbenchSpec
CONSTANTS
  Components = {"builds"}
  Client = {"c1", "c2"}
  Host = {"viewer"}
  Token = {"t"}
  MaxFeatures = 2
  MaxOperations = 4
  MaxExports = 1
  MaxCrashes = 0
  Job = {g1, g2}
  NoRow = NoRow
  MaxProgress = 1
  MaxEvents = 0
  Part = {p1}
  MaxConcurrency = 1
  MaxEdits = 1
  MaxFaults = 2
  NoGate = NoGate
  NoPart = NoPart
  NoArtifacts = NoArtifacts
  Caller = {a1, a2}
  Thread = {t1}
  MaxRequests = 3
  MaxChats = 2
  WorkerJob = {"j1"}
  MaxCommands = 3
  Chat = {"h1"}
  MaxTurns = 2
  MaxWords = 2
  MaxBreaks = 1
  Viewer = {"v1"}
  Worker = {"w1"}
  Builder = {"b1"}
  MaxRevision = 2
  MaxWrites = 3
  MaxTasks = 2
  MaxSpent = 4
  Process = {"viewer", "second viewer"}
  MaxSaves = 2
  CadWorkers = 2
  Operator = {"o1", "o2"}
  MaxRuns = 2
  MaxChanges = 1
  Route = {"r1", "r2"}
  MaxNames = 1
  MaxShots = 2
  MaxAsks = 2
  MaxStops = 1
CHECK_DEADLOCK FALSE
INVARIANTS KeptHasItsParameters
