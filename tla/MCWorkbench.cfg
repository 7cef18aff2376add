\* One client of the viewer, one token, one crash.  Two gates one after the
\* other over one part, one edit, and two of crash, cancellation and deadline.
SPECIFICATION WorkbenchSpec
CONSTANTS
  Components = {"drafts", "release", "threads", "workers", "codex", "views", "builds", "journals", "projects",
                "preserves", "screens"}
  Client = {"c1"}
  Host = {"viewer"}
  Token = {"t"}
  MaxFeatures = 3
  MaxOperations = 5
  MaxExports = 2
  MaxCrashes = 1
  Job = {g1, g2}
  NoRow = NoRow
  MaxProgress = 1
  MaxEvents = 0
  Part = {p1}
  MaxConcurrency = 1
  MaxEdits = 1
  MaxFaults = 2
  NoGate = NoGate
  NoPart = NoPart
  NoArtifacts = NoArtifacts
  Caller = {a1, a2}
  Thread = {t1}
  MaxRequests = 3
  MaxChats = 2
  WorkerJob = {"j1"}
  MaxCommands = 3
  Chat = {"h1"}
  MaxTurns = 2
  MaxWords = 2
  MaxBreaks = 1
  Viewer = {"v1"}
  Worker = {"w1"}
  Builder = {"b1"}
  MaxRevision = 2
  MaxWrites = 3
  MaxTasks = 2
  MaxSpent = 4
  Process = {"viewer", "second viewer"}
  MaxSaves = 2
  CadWorkers = 2
  Operator = {"o1", "o2"}
  MaxRuns = 2
  MaxChanges = 1
  Route = {"r1", "r2"}
  MaxNames = 1
  MaxShots = 2
  MaxAsks = 2
  MaxStops = 1
CHECK_DEADLOCK FALSE
INVARIANTS
  RecordedIsApplied
  MeshIsOfItsExport
  
  NoChildOutlivesItsPhase
  
  StreamTellsSuccess
  SettledIsWhole
  EveryWordOnce
  AnswerIsOfItsRevision
  CurrentIsCurrent
  
  BuildEndsWithItsParts
  ArchivedIsWhole
