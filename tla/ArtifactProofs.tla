--------------------------- MODULE ArtifactProofs ---------------------------
(***************************************************************************)
(* What is proved of the components that make artifacts and answer with    *)
(* them: the release gates, part builds, exact views, project builds and   *)
(* the preservation of archives, for any numbers of them and any bounds.   *)
(*                                                                         *)
(* Release gates.  That no process of a gate outlives the phase it was     *)
(* started for, with any number of worker threads: the property is         *)
(* inductive once a gate's step and its child are known to be there.  That *)
(* a report which says passed was earned, with the one worker thread the   *)
(* command line asks for: EarnInv follows the one running gate phase by    *)
(* phase (Progress), and what the child of a crashed gate may still        *)
(* publish only makes the exports and the index newer (Content,            *)
(* ChildWork).                                                             *)
(*                                                                         *)
(* Part builds.  That what is said to be current is: a file is judged by   *)
(* what was written since it was, and BuildInv says which file is of which  *)
(* source and of which STEP file, and what the look that is under way has  *)
(* seen of it.                                                             *)
(*                                                                         *)
(* Exact views.  That an answer is of the revision it was asked for: the   *)
(* cache, the scene and the model are each of the revision they name, and  *)
(* ViewInv says of each script by the steps it has left what it verified.  *)
(*                                                                         *)
(* Project builds.  That a build ends with its parts: OrderInv says that   *)
(* the parts of the plan which are not left to submit are under way or in  *)
(* the results (Followed), and whose an export and a lock are.             *)
(*                                                                         *)
(* Preservation.  That a reported success leaves whole copies.  A command  *)
(* is judged by the steps it has left (Ordered): a file that none of them  *)
(* names any more was verified since the command began, and what a file of *)
(* its scope held since then is in its record of it.                       *)
(***************************************************************************)
EXTENDS MCWorkbench, JobStoreProofs, FiniteSetTheorems, SequenceTheorems

-----------------------------------------------------------------------------
(* Children and their phases.                                              *)

GatesHavePlaces == DOMAIN step = Gate /\ DOMAIN child = Gate

IInv == GatesHavePlaces /\ NoChildOutlivesItsPhase

\* A step that moves one gate from a place where it has no child, and leaves
\* every child alone.
LEMMA GateWithoutChildMoves ==
  ASSUME IInv, NEW g \in Gate, NEW there, Goto(g, there), UNCHANGED <<child, lost>>,
         step[g] \notin {"wait", "terminate"}
  PROVE  IInv'
BY DEF IInv, GatesHavePlaces, NoChildOutlivesItsPhase, Goto

(* No child process of a gate is left at work when the gate has gone on from  *)
(* its phase, however the phase ends: its end, a deadline, a cancellation or  *)
(* a refused event; only the crash of the gate's own process leaves one.      *)
(* (subprocess_runner.py: the polling loop and its terminate, then kill.)     *)
THEOREM ChildrenEndWithTheirPhase == Spec => []NoChildOutlivesItsPhase
<1>1. Init => IInv
  BY DEF Init, IInv, GatesHavePlaces, NoChildOutlivesItsPhase
<1>2. IInv /\ [Next]_vars => IInv'
  <2>. SUFFICES ASSUME IInv, [Next]_vars PROVE IInv'
    OBVIOUS
  <2>. USE DEF Gate
  <2>0. CASE UNCHANGED vars
    BY <2>0 DEF IInv, GatesHavePlaces, NoChildOutlivesItsPhase, vars, control, processes, rest
  <2>1. ASSUME NEW g \in Gate, Submit(g) \/ Cancel(g) \/ Expire(g) PROVE IInv'
    BY <2>1 DEF Submit, Cancel, Expire, control, processes, rest,
       IInv, GatesHavePlaces, NoChildOutlivesItsPhase
  <2>2. ASSUME NEW g \in Gate, Begin(g) PROVE IInv'
    BY <2>2, GateWithoutChildMoves DEF Begin, At, Stay, processes
  <2>3. ASSUME NEW g \in Gate, _check_deadline(g) \/ Judge(g) \/ ReadIndex(g) \/ HashFiles(g)
                              \/ WriteArtifacts(g)
        PROVE IInv'
    <3>1. step[g] \notin {"wait", "terminate"}
      BY <2>3 DEF _check_deadline, Judge, ReadIndex, HashFiles, WriteArtifacts, Acting, At
    <3>2. UNCHANGED <<child, lost>>
      BY <2>3 DEF _check_deadline, Judge, ReadIndex, HashFiles, WriteArtifacts, processes, rest
    <3>3. \E there : Goto(g, there)
      BY <2>3 DEF _check_deadline, Judge, ReadIndex, HashFiles, WriteArtifacts, Stay, Advance, AdvanceIf
    <3>. QED  BY <3>1, <3>2, <3>3, GateWithoutChildMoves
  <2>4. ASSUME NEW g \in Gate, Spawn(g) PROVE IInv'
    BY <2>4 DEF Spawn, Stay, Goto, rest, IInv, GatesHavePlaces, NoChildOutlivesItsPhase
  <2>5. ASSUME NEW g \in Gate, ChildPublishes(g) \/ ChildIndexes(g) \/ ChildReads(g) PROVE IInv'
    BY <2>5 DEF ChildPublishes, ChildIndexes, ChildReads, control, rest,
       IInv, GatesHavePlaces, NoChildOutlivesItsPhase
  <2>6. ASSUME NEW g \in Gate, ChildExits(g) PROVE IInv'
    BY <2>6 DEF ChildExits, control, rest, IInv, GatesHavePlaces, NoChildOutlivesItsPhase
  <2>7. ASSUME NEW g \in Gate, Poll(g) PROVE IInv'
    <3>1. UNCHANGED <<child, lost>> /\ step[g] = "wait"
      BY <2>7 DEF Poll, At, processes, rest
    <3>2. CASE Goto(g, "terminate")
      BY <3>1, <3>2 DEF Goto, IInv, GatesHavePlaces, NoChildOutlivesItsPhase
    <3>3. CASE child[g] \in {"good", "bad"} /\ \E there : Goto(g, there)
      BY <3>1, <3>3 DEF Goto, IInv, GatesHavePlaces, NoChildOutlivesItsPhase
    <3>. QED  BY <2>7, <3>2, <3>3 DEF Poll, Stay, Advance, AdvanceIf
  <2>8. ASSUME NEW g \in Gate, Terminate(g) PROVE IInv'
    <3>1. CASE child[g] = "working"
      BY <2>8, <3>1 DEF Terminate, At, control, rest, IInv, GatesHavePlaces, NoChildOutlivesItsPhase
    <3>2. CASE child[g] # "working"
      BY <2>8, <3>2 DEF Terminate, Stay, Goto, rest, IInv, GatesHavePlaces, NoChildOutlivesItsPhase
    <3>. QED  BY <3>1, <3>2
  <2>9. ASSUME NEW g \in Gate, WritePassed(g) \/ ReportProgress(g) \/ WriteFailed(g) PROVE IInv'
    <3>1. step[g] \notin {"wait", "terminate"}
      BY <2>9 DEF WritePassed, ReportProgress, WriteFailed, Acting, At
    <3>2. UNCHANGED <<child, lost>>
      BY <2>9 DEF WritePassed, ReportProgress, WriteFailed, processes, rest
    <3>3. \E there : Goto(g, there)
      BY <2>9 DEF WritePassed, ReportProgress, WriteFailed, Stay
    <3>. QED  BY <3>1, <3>2, <3>3, GateWithoutChildMoves
  <2>10. ASSUME NEW g \in Gate, Return(g) \/ Raise(g) PROVE IInv'
    BY <2>10 DEF Return, Raise, At, IInv, GatesHavePlaces, NoChildOutlivesItsPhase
  <2>11. CASE Crash
    <3>1. /\ step' = [g \in Gate |-> IF g \in Running THEN "lost" ELSE step[g]]
          /\ child' = child /\ lost' = lost \cup Running
      BY <2>11 DEF Crash, processes
    <3>. QED  BY <3>1 DEF IInv, GatesHavePlaces, NoChildOutlivesItsPhase
  <2>12. CASE Edit
    BY <2>12 DEF Edit, control, processes, rest, IInv, GatesHavePlaces, NoChildOutlivesItsPhase
  <2>. QED
    BY <2>0, <2>1, <2>2, <2>3, <2>4, <2>5, <2>6, <2>7, <2>8, <2>9, <2>10, <2>11, <2>12
       DEF Next, GateStep, ChildStep
<1>3. IInv => NoChildOutlivesItsPhase
  BY DEF IInv
<1>. QED  BY <1>1, <1>2, <1>3, PTL DEF Spec

-----------------------------------------------------------------------------
(* The order of the phases.                                                *)

\* Following is defined by the place of a phase in the list.
LEMMA FollowingFacts ==
  /\ Following("manifest") = "ownership" /\ Following("ownership") = "symbols"
  /\ Following("symbols") = "build" /\ Following("build") = "index"
  /\ Following("index") = "artifacts" /\ Following("artifacts") = "hook"
  /\ Following("hook") = "tests" /\ Following("tests") = "benchmarks"
  /\ Following("benchmarks") = "git" /\ Following("git") = "report"
<1>. DEFINE place(p) == CHOOSE i \in 1 .. Len(Phases) : Phases[i] = p
<1>1. ASSUME NEW p, NEW i \in 1 .. 10, Phases[i] = p
      PROVE  Following(p) = Phases[i + 1]
  <2>1. Len(Phases) = 11
    BY DEF Phases
  <2>2. i \in 1 .. Len(Phases)
    BY <2>1
  <2>3. place(p) \in 1 .. Len(Phases) /\ Phases[place(p)] = p
    BY <1>1, <2>2
  <2>4. place(p) = i
    BY <1>1, <2>1, <2>3 DEF Phases
  <2>5. Following(p) = Phases[1 + place(p)]
    BY Zenon DEF Following
  <2>. HIDE DEF place
  <2>6. 1 + place(p) = i + 1
    BY <2>4
  <2>. QED  BY <2>5, <2>6
<1>. HIDE DEF place
<1>2. /\ Phases[1] = "manifest" /\ Phases[2] = "ownership" /\ Phases[3] = "symbols"
      /\ Phases[4] = "build" /\ Phases[5] = "index" /\ Phases[6] = "artifacts"
      /\ Phases[7] = "hook" /\ Phases[8] = "tests" /\ Phases[9] = "benchmarks"
      /\ Phases[10] = "git" /\ Phases[11] = "report"
  BY DEF Phases
<1>3. /\ Following("manifest") = Phases[2] /\ Following("ownership") = Phases[3]
      /\ Following("symbols") = Phases[4] /\ Following("build") = Phases[5]
      /\ Following("index") = Phases[6] /\ Following("artifacts") = Phases[7]
  BY <1>1, <1>2
<1>4. /\ Following("hook") = Phases[8] /\ Following("tests") = Phases[9]
      /\ Following("benchmarks") = Phases[10] /\ Following("git") = Phases[11]
  BY <1>1, <1>2
<1>. QED  BY <1>2, <1>3, <1>4

-----------------------------------------------------------------------------
(* The inductive invariant of a passed report.                             *)

\* The phases after the build, after the index was verified, after the hook.
Rebuilt == {"index", "artifacts", "hook", "tests", "benchmarks", "git", "report"}
Verified == {"artifacts", "hook", "tests", "benchmarks", "git", "report"}
Hooked == {"tests", "benchmarks", "git", "report"}

\* The exports and the index only become newer, the exports first.
Content ==
  /\ source \in Nat /\ file \in [Part -> Nat] /\ indexed \in [Part -> Nat]
  /\ \A p \in Part : indexed[p] <= file[p] /\ file[p] <= source
  /\ began \in [Gate -> Nat] /\ \A g \in Gate : began[g] <= source

\* What a child has done since its gate began.
ChildWork ==
  \A g \in Gate :
    /\ half[g] # NoPart => half[g] \in Part /\ file[half[g]] >= began[g]
    /\ \A p \in built[g] \cap Part : indexed[p] >= began[g]

\* A gate that has not begun has no trace.
Unbegun ==
  \A g \in Gate : step[g] = "idle" =>
    /\ phase[g] = "manifest" /\ child[g] = "none" /\ half[g] = NoPart /\ built[g] = {}
    /\ hookSaw[g] = NoArtifacts /\ sums.gate # g
    /\ ~(report.status = "passed" /\ report.gate = g)

\* The phases that belong to the steps inside one.
Places ==
  \A g \in Gate :
    /\ step[g] = "hash" => phase[g] = "index"
    /\ step[g] = "context" => phase[g] = "artifacts"
    /\ step[g] \in {"wait", "terminate"} => phase[g] \in InProcess
    /\ step[g] \in {"reported", "return"} => phase[g] = "report"
    /\ step[g] = "wait" /\ child[g] = "good" =>
         /\ phase[g] = "build" => built[g] = Part
         /\ phase[g] = "hook" => hookSaw[g] # NoArtifacts

\* One gate runs at a time, ...
Solo == \A g, h \in Running : g = h

\* ... and its job says so.
Recorded == \A g \in Running : Exists(g) /\ row[g].state = "running"

\* What the running gate has done by the phase it is in.
Progress ==
  \A g \in Running :
    /\ phase[g] \in Rebuilt => \A p \in Part : indexed[p] >= began[g]
    /\ phase[g] \in Verified \/ step[g] = "hash" => \A p \in Part : known[g][p] >= began[g]
    /\ phase[g] = "hook" => hookContext = known[g] /\ hookSaw[g] \in {NoArtifacts, known[g]}
    /\ phase[g] \in Hooked => hookSaw[g] = known[g]
    /\ phase[g] \notin Hooked \cup {"hook"} => hookSaw[g] = NoArtifacts
    /\ sums.gate = g => phase[g] \in Verified /\ sums.artifacts = known[g]

\* PassedReportIsEarned, and where the gate of the report then is.
Earned ==
  report.status = "passed" =>
    LET g == report.gate IN
      /\ g \in Gate
      /\ step[g] \in {"reported", "return", "fail", "done", "lost"}
      /\ step[g] = "fail" => phase[g] = "report"
      /\ phase[g] \in {"report", "manifest"}
      /\ step[g] = "lost" => g \in lost
      /\ step[g] = "done" => IsTerminal(g) /\ row[g].state # "failed"
      /\ \A p \in Part : report.artifacts[p] >= began[g]
      /\ hookSaw[g] = report.artifacts
      /\ sums.gate = g => sums.artifacts = report.artifacts

\* What an EXCEPT of each of these functions needs.
Domains ==
  /\ DOMAIN step = Gate /\ DOMAIN phase = Gate /\ DOMAIN child = Gate /\ DOMAIN half = Gate
  /\ DOMAIN built = Gate /\ DOMAIN hookSaw = Gate /\ DOMAIN known = Gate

EarnInv ==
  /\ JournalInv /\ Domains /\ Content /\ ChildWork /\ Unbegun /\ Places /\ Solo
  /\ Recorded /\ Progress /\ Earned

-----------------------------------------------------------------------------
(* Every step keeps it.                                                    *)

LEMMA InitEarnInv == Init => EarnInv
<1>. SUFFICES ASSUME Init PROVE EarnInv
  OBVIOUS
<1>. USE DEF Init, Gate
<1>1. JournalInv
  BY JournalInitInv
<1>2. Domains /\ Content /\ ChildWork
  BY DEF Domains, Content, ChildWork
<1>3. Running = {}
  BY DEF Running
<1>4. Unbegun /\ Places
  BY GateAssumption DEF Unbegun, Places, NoSums, NoReport
<1>5. Solo /\ Recorded /\ Progress /\ Earned
  BY <1>3 DEF Solo, Recorded, Progress, Earned, NoReport
<1>. QED  BY <1>1, <1>2, <1>4, <1>5 DEF EarnInv

LEMMA GateStepIsJournalStep == [Next]_vars => [JournalStep]_journal
<1>. SUFFICES ASSUME [Next]_vars PROVE [JournalStep]_journal
  OBVIOUS
<1>1. CASE UNCHANGED vars
  BY <1>1 DEF vars, journal
<1>2. ASSUME NEW g \in Gate, Submit(g) \/ Begin(g) \/ Cancel(g) \/ Return(g) \/ Raise(g)
      PROVE  [JournalStep]_journal
  BY <1>2 DEF Submit, Begin, Cancel, Return, Raise, JournalStep, JobOperation, Gate
<1>3. CASE Crash
  BY <1>3 DEF Crash, JournalStep
<1>4. ASSUME NEW g \in Gate,
             \/ Expire(g) \/ ChildStep(g)
             \/ _check_deadline(g) \/ Judge(g) \/ ReadIndex(g) \/ HashFiles(g)
             \/ WriteArtifacts(g) \/ Spawn(g) \/ Poll(g) \/ Terminate(g)
             \/ WritePassed(g) \/ ReportProgress(g) \/ WriteFailed(g)
      PROVE  UNCHANGED journal
  BY <1>4 DEF Expire, ChildStep, ChildPublishes, ChildIndexes, ChildReads, ChildExits,
     _check_deadline, Judge, ReadIndex, HashFiles, WriteArtifacts, Spawn, Poll, Terminate,
     WritePassed, ReportProgress, WriteFailed
<1>5. CASE Edit
  BY <1>5 DEF Edit
<1>. QED  BY <1>1, <1>2, <1>3, <1>4, <1>5 DEF Next, GateStep

LEMMA JournalFacts ==
  ASSUME EarnInv, [Next]_vars
  PROVE  JournalInv' /\ Evolves
BY GateStepIsJournalStep, JournalStepKeeps DEF EarnInv

\* The gate goes to there, and to the phase ph.
Moves(g, there, ph) ==
  /\ Goto(g, there)
  /\ \/ phase' = [phase EXCEPT ![g] = ph]
     \/ UNCHANGED phase /\ ph = phase[g]

LEMMA StayMoves ==
  ASSUME NEW g, NEW there, Stay(g, there) PROVE Moves(g, there, phase[g])
BY DEF Stay, Moves

LEMMA AdvanceMoves ==
  ASSUME NEW g, Advance(g) PROVE Moves(g, "between", Following(phase[g]))
BY DEF Advance, Moves

\* What the one running gate does; that its own facts hold afterwards is left
\* to each step.
LEMMA GateMoves ==
  ASSUME EarnInv, JournalInv', NEW g \in Running,
         NEW there, NEW ph, Moves(g, there, ph), there \notin {"idle", "done", "lost"},
         UNCHANGED <<row, source, file, indexed, began, half, built, lost, hookSaw>>,
         \/ UNCHANGED child \/ \E s : child' = [child EXCEPT ![g] = s],
         \/ UNCHANGED known \/ known' = [known EXCEPT ![g] = indexed],
         sums' = sums \/ sums'.gate = g,
         report' = report \/ report'.gate = g,
         there = "hash" => ph = "index",
         there = "context" => ph = "artifacts",
         there \in {"wait", "terminate"} => ph \in InProcess,
         there \in {"reported", "return"} => ph = "report",
         there = "wait" => child'[g] # "good",
         ph \in Rebuilt => \A p \in Part : indexed[p] >= began[g],
         ph \in Verified \/ there = "hash" => \A p \in Part : known'[g][p] >= began[g],
         ph = "hook" => hookContext' = known'[g] /\ hookSaw[g] \in {NoArtifacts, known'[g]},
         ph \in Hooked => hookSaw[g] = known'[g],
         ph \notin Hooked \cup {"hook"} => hookSaw[g] = NoArtifacts,
         sums'.gate = g => ph \in Verified /\ sums'.artifacts = known'[g],
         Earned'
  PROVE  EarnInv'
<1>1. /\ g \in Gate /\ step'[g] = there /\ phase'[g] = ph
      /\ \A h \in Gate \ {g} : step'[h] = step[h] /\ phase'[h] = phase[h] /\ child'[h] = child[h]
      /\ Domains'
  BY DEF EarnInv, Domains, Running, Goto, Moves
<1>2. Running' = Running /\ \A h \in Running : h = g
  BY <1>1 DEF Running, EarnInv, Solo
<1>3. Content' /\ ChildWork'
  BY DEF EarnInv, Content, ChildWork
<1>4. Unbegun'
  <2>1. ASSUME NEW h \in Gate, step'[h] = "idle"
        PROVE  /\ h # g /\ step[h] = "idle" /\ phase'[h] = phase[h] /\ child'[h] = child[h]
               /\ sums'.gate # h
               /\ ~(report'.status = "passed" /\ report'.gate = h)
    BY <1>1, <2>1 DEF EarnInv, Unbegun
  <2>. QED  BY <2>1 DEF EarnInv, Unbegun
<1>5. Places'
  BY <1>1 DEF EarnInv, Places
<1>6. Solo' /\ Recorded'
  BY <1>2 DEF EarnInv, Solo, Recorded, Exists
<1>7. Progress'
  BY <1>1, <1>2 DEF Progress
<1>. QED  BY <1>1, <1>3, <1>4, <1>5, <1>6, <1>7 DEF EarnInv

\* A report of another gate stays earned; so does one of the gate itself as long
\* as it is on its way out.
LEMMA ReportStays ==
  ASSUME EarnInv, NEW g \in Running, NEW there, NEW ph, Moves(g, there, ph),
         UNCHANGED <<row, began, lost, hookSaw, report>>,
         sums' = sums \/ sums'.gate = g,
         \/ step[g] \notin {"reported", "return"} /\ ~(step[g] = "fail" /\ phase[g] = "report")
         \/ there \in {"return", "fail"} /\ ph = phase[g] /\ sums' = sums
  PROVE  Earned'
<1>. DEFINE r == report.gate
<1>1. SUFFICES ASSUME report.status = "passed" PROVE Earned'
  BY DEF Earned
<1>2. /\ r \in Gate /\ step[r] \in {"reported", "return", "fail", "done", "lost"}
      /\ step[r] = "fail" => phase[r] = "report"
      /\ phase[r] \in {"report", "manifest"}
      /\ step[r] = "lost" => r \in lost
      /\ step[r] = "done" => IsTerminal(r) /\ row[r].state # "failed"
      /\ \A p \in Part : report.artifacts[p] >= began[r]
      /\ hookSaw[r] = report.artifacts
      /\ sums.gate = r => sums.artifacts = report.artifacts
  BY <1>1 DEF EarnInv, Earned
<1>3. /\ step'[g] = there /\ phase'[g] = ph
      /\ \A h \in Gate \ {g} : step'[h] = step[h] /\ phase'[h] = phase[h]
  BY DEF EarnInv, Domains, Running, Goto, Moves
<1>4. CASE r # g
  BY <1>2, <1>3, <1>4 DEF Earned, IsTerminal, Exists
<1>5. CASE r = g
  <2>1. step[g] \in {"reported", "return"} \/ (step[g] = "fail" /\ phase[g] = "report")
    BY <1>2, <1>5 DEF Running
  <2>2. there \in {"return", "fail"} /\ ph = phase[g] /\ sums' = sums
    BY <2>1
  <2>3. phase[g] = "report"
    BY <2>1 DEF EarnInv, Places, Running
  <2>. QED  BY <1>2, <1>3, <1>5, <2>2, <2>3 DEF Earned
<1>. QED  BY <1>4, <1>5

\* The steps in the gate's own thread, up to the last phase.
LEMMA Moving ==
  ASSUME EarnInv, [Next]_vars, NEW g \in Gate,
         \/ _check_deadline(g) \/ Judge(g) \/ ReadIndex(g) \/ HashFiles(g)
         \/ WriteArtifacts(g) \/ Spawn(g)
  PROVE  EarnInv'
<1>. USE DEF Rebuilt, Verified, Hooked
<1>1. g \in Running /\ step[g] \in {"between", "hash", "context"}
  BY DEF _check_deadline, Judge, ReadIndex, HashFiles, WriteArtifacts, Spawn, Acting, At, Running
<1>2. UNCHANGED <<row, source, file, indexed, began, half, built, lost, hookSaw, report>>
  BY DEF _check_deadline, Judge, ReadIndex, HashFiles, WriteArtifacts, Spawn, journal, published,
         outputs, processes, rest
<1>3. JournalInv'
  BY JournalFacts
<1>4. /\ phase[g] \in Rebuilt => \A p \in Part : indexed[p] >= began[g]
      /\ phase[g] \in Verified \/ step[g] = "hash" => \A p \in Part : known[g][p] >= began[g]
      /\ phase[g] = "hook" => hookContext = known[g] /\ hookSaw[g] \in {NoArtifacts, known[g]}
      /\ phase[g] \in Hooked => hookSaw[g] = known[g]
      /\ phase[g] \notin Hooked \cup {"hook"} => hookSaw[g] = NoArtifacts
      /\ sums.gate = g => phase[g] \in Verified /\ sums.artifacts = known[g]
  BY <1>1 DEF EarnInv, Progress
<1>5. g \in Gate /\ DOMAIN known = Gate
  BY DEF EarnInv, Domains
<1>6. CASE _check_deadline(g)
  <2>1. Moves(g, "fail", phase[g]) /\ UNCHANGED <<child, known, sums, hookContext>>
    BY <1>6 DEF _check_deadline, Stay, outputs, processes, rest, Moves
  <2>2. Earned'
    BY <1>1, <1>2, <2>1, ReportStays
  <2>. QED  BY <1>1, <1>2, <1>3, <1>4, <2>1, <2>2, GateMoves
<1>7. CASE Judge(g)
  <2>1. /\ phase[g] \in {"manifest", "ownership", "benchmarks"}
        /\ UNCHANGED <<child, known, sums, hookContext>>
    BY <1>7 DEF Judge, Acting, outputs, processes, rest
  <2>2. CASE Moves(g, "fail", phase[g])
    <3>1. Earned'
      BY <1>1, <1>2, <2>1, <2>2, ReportStays
    <3>. QED  BY <1>1, <1>2, <1>3, <1>4, <2>1, <2>2, <3>1, GateMoves
  <2>3. CASE Moves(g, "between", Following(phase[g]))
    <3>1. Earned'
      BY <1>1, <1>2, <2>1, <2>3, ReportStays
    <3>2. /\ phase[g] \in {"manifest", "ownership"} => Following(phase[g]) \in {"ownership", "symbols"}
          /\ phase[g] = "benchmarks" => Following(phase[g]) = "git"
      BY <2>1, FollowingFacts
    <3>. QED  BY <1>1, <1>2, <1>3, <1>4, <2>1, <2>3, <3>1, <3>2, GateMoves
  <2>. QED  BY <1>7, <2>2, <2>3, StayMoves, AdvanceMoves DEF Judge, AdvanceIf
<1>8. CASE ReadIndex(g)
  <2>1. /\ Moves(g, "hash", phase[g]) /\ phase[g] = "index"
        /\ known' = [known EXCEPT ![g] = indexed]
        /\ UNCHANGED <<child, sums, hookContext>>
    BY <1>8 DEF ReadIndex, Acting, Stay, outputs, processes, Moves
  <2>2. Earned'
    BY <1>1, <1>2, <2>1, ReportStays
  <2>3. known'[g] = indexed
    BY <1>5, <2>1
  <2>. QED  BY <1>1, <1>2, <1>3, <1>4, <2>1, <2>2, <2>3, GateMoves
<1>9. CASE HashFiles(g)
  <2>1. /\ step[g] = "hash" /\ phase[g] = "index" /\ UNCHANGED <<child, known, sums, hookContext>>
    BY <1>9 DEF HashFiles, At, outputs, processes, rest, EarnInv, Places
  <2>2. CASE Moves(g, "fail", phase[g])
    <3>1. Earned'
      BY <1>1, <1>2, <2>1, <2>2, ReportStays
    <3>. QED  BY <1>1, <1>2, <1>3, <1>4, <2>1, <2>2, <3>1, GateMoves
  <2>3. CASE Moves(g, "between", Following(phase[g]))
    <3>0. Following(phase[g]) = "artifacts"
      BY <2>1, FollowingFacts
    <3>1. Earned'
      BY <1>1, <1>2, <2>1, <2>3, ReportStays
    <3>. QED  BY <1>1, <1>2, <1>3, <1>4, <2>1, <2>3, <3>0, <3>1, GateMoves
  <2>. QED  BY <1>9, <2>2, <2>3, StayMoves, AdvanceMoves DEF HashFiles, AdvanceIf
<1>10. CASE WriteArtifacts(g)
  <2>1. CASE /\ phase[g] = "artifacts" /\ Moves(g, "context", phase[g])
             /\ sums' = [gate |-> g, artifacts |-> known[g]]
             /\ UNCHANGED <<child, known, hookContext>>
    <3>1. Earned'
      BY <1>1, <1>2, <2>1, ReportStays
    <3>. QED  BY <1>1, <1>2, <1>3, <1>4, <2>1, <3>1, GateMoves
  <2>2. CASE /\ step[g] = "context" /\ hookContext' = known[g] /\ Advance(g)
             /\ UNCHANGED <<sums, child, known>>
    <3>1. /\ phase[g] = "artifacts" /\ Moves(g, "between", Following(phase[g]))
          /\ Following(phase[g]) = "hook"
      BY <1>5, <2>2, FollowingFacts, AdvanceMoves DEF EarnInv, Places
    <3>2. Earned'
      BY <1>1, <1>2, <2>2, <3>1, ReportStays
    <3>. QED  BY <1>1, <1>2, <1>3, <1>4, <2>2, <3>1, <3>2, GateMoves
  <2>. QED  BY <1>10, <2>1, <2>2 DEF WriteArtifacts, Acting, At, Stay, processes, rest, Moves
<1>11. CASE Spawn(g)
  <2>1. /\ Moves(g, "wait", phase[g]) /\ phase[g] \in InProcess
        /\ child' = [child EXCEPT ![g] = "working"]
        /\ UNCHANGED <<known, sums, hookContext>>
    BY <1>11 DEF Spawn, Acting, Stay, outputs, rest, Moves
  <2>2. Earned'
    BY <1>1, <1>2, <2>1, ReportStays
  <2>3. child'[g] = "working"
    BY <1>5, <2>1 DEF EarnInv, Domains
  <2>. QED  BY <1>1, <1>2, <1>3, <1>4, <2>1, <2>2, <2>3, GateMoves
<1>. QED  BY <1>6, <1>7, <1>8, <1>9, <1>10, <1>11

LEMMA PollKeeps ==
  ASSUME EarnInv, [Next]_vars, NEW g \in Gate, Poll(g)
  PROVE  EarnInv'
<1>. USE DEF Rebuilt, Verified, Hooked
<1>1. /\ g \in Running /\ step[g] = "wait" /\ phase[g] \in InProcess
      /\ UNCHANGED <<row, source, file, indexed, began, half, built, lost, hookSaw, report, child,
                     known, sums, hookContext>>
  BY DEF Poll, At, Running, EarnInv, Places, journal, published, outputs, processes, rest
<1>2. JournalInv'
  BY JournalFacts
<1>3. /\ phase[g] = "hook" => hookContext = known[g] /\ hookSaw[g] \in {NoArtifacts, known[g]}
      /\ phase[g] \in Hooked => hookSaw[g] = known[g]
      /\ phase[g] \notin Hooked \cup {"hook"} => hookSaw[g] = NoArtifacts
      /\ sums.gate = g => phase[g] \in Verified /\ sums.artifacts = known[g]
      /\ phase[g] \in Verified \/ step[g] = "hash" => \A p \in Part : known[g][p] >= began[g]
      /\ phase[g] \in Rebuilt => \A p \in Part : indexed[p] >= began[g]
  BY <1>1 DEF EarnInv, Progress
<1>4. CASE \E there \in {"terminate", "fail"} : Moves(g, there, phase[g])
  <2>1. Earned'
    BY <1>1, <1>4, ReportStays
  <2>. QED  BY <1>1, <1>2, <1>3, <1>4, <2>1, GateMoves
<1>5. CASE child[g] = "good" /\ Moves(g, "between", Following(phase[g]))
  <2>. DEFINE ph == Following(phase[g])
  <2>2. Earned'
    BY <1>1, <1>5, ReportStays
  <2>3. /\ phase[g] = "symbols" => ph = "build"
        /\ phase[g] = "build" => ph = "index"
        /\ phase[g] = "hook" => ph = "tests"
        /\ phase[g] = "tests" => ph = "benchmarks"
        /\ phase[g] = "git" => ph = "report"
    BY FollowingFacts
  <2>4. phase[g] = "build" => \A p \in Part : indexed[p] >= began[g]
    BY <1>1, <1>5 DEF EarnInv, Places, ChildWork
  <2>5. phase[g] = "hook" => hookSaw[g] = known[g]
    BY <1>1, <1>3, <1>5 DEF EarnInv, Places
  <2>. QED  BY <1>1, <1>2, <1>3, <1>5, <2>2, <2>3, <2>4, <2>5, GateMoves DEF InProcess
<1>. QED  BY <1>4, <1>5, StayMoves, AdvanceMoves DEF Poll, AdvanceIf

\* The last phase, and what follows a failure.
LEMMA EndingMoves ==
  ASSUME EarnInv, [Next]_vars, NEW g \in Gate,
         WritePassed(g) \/ ReportProgress(g) \/ WriteFailed(g)
  PROVE  EarnInv'
<1>. USE DEF Rebuilt, Verified, Hooked
<1>1. /\ g \in Running /\ UNCHANGED <<phase, child, known, sums, hookContext>>
      /\ UNCHANGED <<row, source, file, indexed, began, half, built, lost, hookSaw>>
  BY DEF WritePassed, ReportProgress, WriteFailed, Acting, Stay, At, Running, journal, published,
         outputs, processes, rest
<1>2. JournalInv'
  BY JournalFacts
<1>3. /\ phase[g] \in Rebuilt => \A p \in Part : indexed[p] >= began[g]
      /\ phase[g] \in Verified \/ step[g] = "hash" => \A p \in Part : known[g][p] >= began[g]
      /\ phase[g] = "hook" => hookContext = known[g] /\ hookSaw[g] \in {NoArtifacts, known[g]}
      /\ phase[g] \in Hooked => hookSaw[g] = known[g]
      /\ phase[g] \notin Hooked \cup {"hook"} => hookSaw[g] = NoArtifacts
      /\ sums.gate = g => phase[g] \in Verified /\ sums.artifacts = known[g]
  BY <1>1 DEF EarnInv, Progress
<1>4. CASE WritePassed(g)
  <2>1. /\ phase[g] = "report" /\ Moves(g, "reported", phase[g])
        /\ report' = [gate |-> g, status |-> "passed", artifacts |-> known[g]]
    BY <1>4 DEF WritePassed, Acting, Stay, Moves
  <2>2. step'[g] = "reported"
    BY <2>1 DEF Moves, Goto, EarnInv, Domains
  <2>3. Earned'
    BY <1>1, <1>3, <2>1, <2>2 DEF Earned
  <2>. QED  BY <1>1, <1>2, <1>3, <2>1, <2>3, GateMoves
<1>5. CASE ReportProgress(g)
  <2>1. PICK there \in {"fail", "return"} : Moves(g, there, phase[g])
    BY <1>5 DEF ReportProgress, Stay, Moves
  <2>2. phase[g] = "report" /\ report' = report
    BY <1>5 DEF ReportProgress, At, EarnInv, Places, outputs
  <2>3. Earned'
    BY <1>1, <2>1, <2>2, ReportStays
  <2>. QED  BY <1>1, <1>2, <1>3, <2>1, <2>2, <2>3, GateMoves
<1>6. CASE WriteFailed(g)
  <2>1. Moves(g, "raise", phase[g]) /\ report'.gate = g /\ report'.status # "passed"
    BY <1>6 DEF WriteFailed, Stay, Moves
  <2>2. Earned'
    BY <2>1 DEF Earned
  <2>. QED  BY <1>1, <1>2, <1>3, <2>1, <2>2, GateMoves
<1>. QED  BY <1>4, <1>5, <1>6

\* A step that leaves every gate where it is, and every running job running.
LEMMA GatesStay ==
  ASSUME EarnInv, [Next]_vars,
         UNCHANGED <<published, outputs, control, processes, known, began, lost>>,
         source' \in Nat, source <= source',
         \A h \in Running : Exists(h)' /\ row'[h].state = "running"
  PROVE  EarnInv'
<1>. USE DEF published, outputs, control, processes
<1>1. JournalInv' /\ Evolves
  BY JournalFacts
<1>2. Domains' /\ ChildWork' /\ Unbegun' /\ Places'
  BY DEF EarnInv, Domains, ChildWork, Unbegun, Places
<1>3. Content'
  BY DEF EarnInv, Content
<1>4. Running' = Running
  BY DEF Running
<1>5. Solo' /\ Recorded' /\ Progress'
  BY <1>4 DEF EarnInv, Solo, Recorded, Progress
<1>6. Earned'
  <2>1. \A g \in Gate : IsTerminal(g) => Exists(g)' /\ row'[g] = row[g]
    BY <1>1 DEF Evolves, IsTerminal, Gate
  <2>. QED  BY <2>1 DEF EarnInv, Earned, IsTerminal, Exists
<1>. QED  BY <1>1, <1>2, <1>3, <1>5, <1>6 DEF EarnInv

LEMMA JobMoves ==
  ASSUME EarnInv, [Next]_vars,
         \/ \E g \in Gate : Submit(g) \/ Cancel(g) \/ Expire(g)
         \/ Edit \/ UNCHANGED vars
  PROVE  EarnInv'
<1>1. UNCHANGED <<published, outputs, control, processes, known, began, lost>>
  BY DEF Submit, Cancel, Expire, Edit, vars, rest
<1>2. source' \in Nat /\ source <= source'
  BY DEF Submit, Cancel, Expire, Edit, vars, EarnInv, Content
<1>3. \A h \in Running : h \in Gate /\ Exists(h) /\ row[h].state = "running"
  BY DEF EarnInv, Recorded, Running
<1>4. ASSUME NEW h \in Running PROVE Exists(h)' /\ row'[h].state = "running"
  <2>0. JournalInv
    BY DEF EarnInv
  <2>1. ASSUME NEW g \in Gate, Submit(g) PROVE Exists(h)' /\ row'[h].state = "running"
    <3>1. OnlyRow(g) /\ ~Exists(g)
      BY <2>0, <2>1, CreateKeeps DEF Submit, Gate
    <3>. QED  BY <1>3, <3>1 DEF OnlyRow, Gate, Exists
  <2>2. ASSUME NEW g \in Gate, Cancel(g) PROVE Exists(h)' /\ row'[h].state = "running"
    <3>0. row[h] \in Row
      BY <1>3, <2>0 DEF JournalInv, JournalTypeOK, Gate, Exists
    <3>1. CASE h # g
      <4>1. OnlyRow(g)
        BY <2>0, <2>2, RequestCancelKeeps DEF Cancel, Gate
      <4>. QED  BY <1>3, <3>1, <4>1 DEF OnlyRow, Gate, Exists
    <3>2. CASE h = g
      <4>1. row'[g] = [row[g] EXCEPT !.cancel = TRUE]
        BY <1>3, <2>0, <2>2, <3>2, RequestCancelKeeps DEF Cancel, Gate, IsTerminal, Terminal
      <4>2. row'[g] \in Row /\ row'[g].state = "running"
        BY <1>3, <3>0, <3>2, <4>1 DEF Row
      <4>. QED  BY <3>2, <4>2, NoRowAssumption DEF Exists
    <3>. QED  BY <3>1, <3>2
  <2>3. ASSUME UNCHANGED row PROVE Exists(h)' /\ row'[h].state = "running"
    BY <1>3, <2>3 DEF Exists
  <2>. QED  BY <2>1, <2>2, <2>3 DEF Expire, Edit, vars, journal
<1>. QED  BY <1>1, <1>2, <1>4, GatesStay

LEMMA BeginKeeps ==
  ASSUME MaxConcurrency = 1, EarnInv, [Next]_vars, NEW g \in Gate, Begin(g)
  PROVE  EarnInv'
<1>. USE DEF Gate
<1>1. /\ g \notin Running /\ step[g] = "idle" /\ Goto(g, "between")
      /\ UNCHANGED <<source, file, indexed, sums, hookContext, report, phase, child, half, built,
                     hookSaw, known, lost>>
      /\ began' = [began EXCEPT ![g] = source]
  BY DEF Begin, At, Stay, Running, published, outputs, processes
<1>2. JournalInv' /\ Evolves
  BY JournalFacts
<1>3. OnlyRow(g) /\ Exists(g)' /\ row'[g].state = "running"
  <2>1. JournalInv /\ Start(g) /\ Exists(g) /\ row[g].state = "queued"
    BY DEF Begin, EarnInv
  <2>2. OnlyRow(g)
    BY <2>1, StartKeeps
  <2>3. row[g] \in Row /\ ~row[g].cancel /\ ~IsTerminal(g)
    BY <2>1 DEF JournalInv, RowShape, Shaped, JournalTypeOK, Exists, IsTerminal, Terminal
  <2>4. row' = [row EXCEPT ![g] = [row[g] EXCEPT !.state = "running", !.started = TRUE]]
    BY <2>1, <2>3 DEF Start, AlreadyTerminal, Transition
  <2>5. row'[g] = [row[g] EXCEPT !.state = "running", !.started = TRUE]
    BY <2>1, <2>4 DEF JournalInv, JournalTypeOK
  <2>6. row'[g] \in Row /\ row'[g].state = "running"
    BY <2>3, <2>5 DEF Row, JobState
  <2>. QED  BY <2>2, <2>6, NoRowAssumption DEF Exists
<1>4. Running = {}
  <2>1. SUFFICES ASSUME NEW h \in Running PROVE FALSE
    OBVIOUS
  <2>2. Running = {h}
    BY DEF EarnInv, Solo
  <2>3. Cardinality(Running) = 1
    BY <2>2, FS_Singleton
  <2>. QED  BY <2>3 DEF Begin
<1>5. /\ Domains' /\ step'[g] = "between" /\ \A h \in Gate \ {g} : step'[h] = step[h]
      /\ began'[g] = source /\ \A h \in Gate \ {g} : began'[h] = began[h]
  BY <1>1 DEF EarnInv, Domains, Content, Goto
<1>6. Running' = {g}
  BY <1>4, <1>5 DEF Running
<1>7. Content'
  BY <1>1, <1>5 DEF EarnInv, Content
<1>8. /\ phase[g] = "manifest" /\ child[g] = "none" /\ half[g] = NoPart /\ built[g] = {}
      /\ hookSaw[g] = NoArtifacts /\ sums.gate # g
      /\ ~(report.status = "passed" /\ report.gate = g)
  BY <1>1 DEF EarnInv, Unbegun
<1>9. ChildWork'
  BY <1>1, <1>5, <1>8 DEF EarnInv, ChildWork
<1>10. Unbegun'
  BY <1>1, <1>5 DEF EarnInv, Unbegun
<1>11. Places'
  BY <1>1, <1>5 DEF EarnInv, Places
<1>12. Solo' /\ Recorded'
  BY <1>3, <1>6 DEF Solo, Recorded
<1>13. Progress'
  BY <1>1, <1>5, <1>6, <1>8 DEF Progress, Rebuilt, Verified, Hooked
<1>14. Earned'
  <2>1. \A h \in Gate : IsTerminal(h) => Exists(h)' /\ row'[h] = row[h]
    BY <1>2 DEF Evolves, IsTerminal
  <2>. QED  BY <1>1, <1>5, <1>8, <2>1 DEF EarnInv, Earned, IsTerminal, Exists
<1>. QED  BY <1>2, <1>5, <1>7, <1>9, <1>10, <1>11, <1>12, <1>13, <1>14 DEF EarnInv

\* A step of a child leaves its gate, and every other, where it is.
LEMMA ChildStepKeeps ==
  ASSUME EarnInv, [Next]_vars, NEW g \in Gate, ChildStep(g)
  PROVE  EarnInv'
<1>1. /\ UNCHANGED <<row, source, sums, hookContext, report, phase, step, known, began, lost>>
      /\ child[g] = "working" /\ step[g] # "idle"
  BY DEF ChildStep, ChildPublishes, ChildIndexes, ChildReads, ChildExits, Working, journal,
         outputs, control, rest, EarnInv, Unbegun
<1>2. JournalInv' /\ Running' = Running
  BY <1>1, JournalFacts DEF Running
<1>3. Solo' /\ Recorded'
  BY <1>1, <1>2 DEF EarnInv, Solo, Recorded, Exists
<1>4. CASE ChildPublishes(g)
  <2>1. PICK p \in Part :
          /\ file' = [file EXCEPT ![p] = source] /\ half' = [half EXCEPT ![g] = p]
    BY <1>4 DEF ChildPublishes
  <2>2. UNCHANGED <<indexed, child, built, hookSaw>>
    BY <1>4 DEF ChildPublishes
  <2>3. /\ half'[g] = p /\ \A h \in Gate \ {g} : half'[h] = half[h]
        /\ file'[p] = source /\ \A q \in Part \ {p} : file'[q] = file[q]
        /\ file' \in [Part -> Nat]
    BY <2>1 DEF EarnInv, Domains, Content
  <2>4. Content' /\ \A q \in Part : file'[q] >= file[q]
    BY <1>1, <2>2, <2>3 DEF EarnInv, Content
  <2>5. ChildWork'
    <3>1. \A h \in Gate : half'[h] # NoPart => half'[h] \in Part /\ file'[half'[h]] >= began[h]
      BY <2>3, <2>4 DEF EarnInv, ChildWork, Content
    <3>. QED  BY <1>1, <2>2, <3>1 DEF EarnInv, ChildWork
  <2>6. Domains' /\ Unbegun' /\ Places'
    BY <1>1, <2>1, <2>2, <2>3 DEF EarnInv, Domains, Unbegun, Places
  <2>7. Progress' /\ Earned'
    BY <1>1, <1>2, <2>2 DEF EarnInv, Progress, Earned, IsTerminal, Exists
  <2>. QED  BY <1>2, <1>3, <2>4, <2>5, <2>6, <2>7 DEF EarnInv
<1>5. CASE ChildIndexes(g)
  <2>. DEFINE p == half[g]
  <2>1. /\ UNCHANGED <<file, child, hookSaw>>
        /\ p \in Part /\ file[p] >= began[g]
        /\ indexed' = [indexed EXCEPT ![p] = file[p]]
        /\ built' = [built EXCEPT ![g] = @ \cup {p}]
        /\ half' = [half EXCEPT ![g] = NoPart]
    BY <1>5 DEF ChildIndexes, EarnInv, ChildWork
  <2>. HIDE DEF p
  <2>3. /\ half'[g] = NoPart /\ \A h \in Gate \ {g} : half'[h] = half[h]
        /\ built'[g] = built[g] \cup {p} /\ \A h \in Gate \ {g} : built'[h] = built[h]
        /\ indexed'[p] = file[p] /\ \A q \in Part \ {p} : indexed'[q] = indexed[q]
        /\ indexed' \in [Part -> Nat]
    BY <2>1 DEF EarnInv, Domains, Content
  <2>4. Content' /\ \A q \in Part : indexed'[q] >= indexed[q]
    BY <1>1, <2>1, <2>3 DEF EarnInv, Content
  <2>5. ChildWork'
    <3>1. \A h \in Gate : \A q \in built'[h] \cap Part : indexed'[q] >= began[h]
      BY <2>1, <2>3, <2>4 DEF EarnInv, ChildWork, Content
    <3>. QED  BY <1>1, <2>1, <2>3, <3>1 DEF EarnInv, ChildWork
  <2>6. Domains' /\ Unbegun'
    BY <1>1, <2>1, <2>3 DEF EarnInv, Domains, Unbegun
  <2>7. Places'
    BY <1>1, <2>1, <2>3 DEF EarnInv, Places
  <2>8. Progress'
    <3>1. \A h \in Gate : (\A q \in Part : indexed[q] >= began[h])
                             => (\A q \in Part : indexed'[q] >= began[h])
      BY <2>3, <2>4 DEF EarnInv, Content
    <3>. QED  BY <1>1, <1>2, <2>1, <3>1 DEF EarnInv, Progress, Running
  <2>9. Earned'
    BY <1>1, <2>1 DEF EarnInv, Earned, IsTerminal, Exists
  <2>. QED  BY <1>2, <1>3, <2>4, <2>5, <2>6, <2>7, <2>8, <2>9 DEF EarnInv
<1>6. CASE ChildReads(g)
  <2>1. /\ UNCHANGED <<file, indexed, child, half, built>> /\ phase[g] = "hook"
        /\ hookSaw' = [hookSaw EXCEPT ![g] = hookContext]
    BY <1>6 DEF ChildReads, Working, published
  <2>2. hookSaw'[g] = hookContext /\ \A h \in Gate \ {g} : hookSaw'[h] = hookSaw[h]
    BY <2>1 DEF EarnInv, Domains
  <2>3. Content' /\ ChildWork'
    BY <1>1, <2>1 DEF EarnInv, Content, ChildWork
  <2>4. Domains' /\ Unbegun' /\ Places'
    BY <1>1, <2>1, <2>2 DEF EarnInv, Domains, Unbegun, Places
  <2>5. Progress'
    BY <1>1, <1>2, <2>1, <2>2 DEF EarnInv, Progress, Hooked, Running
  <2>6. Earned'
    BY <1>1, <2>1, <2>2 DEF EarnInv, Earned, IsTerminal, Exists
  <2>. QED  BY <1>2, <1>3, <2>3, <2>4, <2>5, <2>6 DEF EarnInv
<1>7. CASE ChildExits(g)
  <2>1. /\ UNCHANGED <<file, indexed, half, built, hookSaw>>
        /\ \/ child' = [child EXCEPT ![g] = "bad"]
           \/ /\ Working(g, "build") => built[g] = Part
              /\ Working(g, "hook") => hookSaw[g] # NoArtifacts
              /\ child' = [child EXCEPT ![g] = "good"]
    BY <1>7 DEF ChildExits, published
  <2>2. Domains' /\ \A h \in Gate \ {g} : child'[h] = child[h]
    BY <1>1, <2>1 DEF EarnInv, Domains
  <2>3. Content' /\ ChildWork' /\ Unbegun'
    BY <1>1, <2>1, <2>2 DEF EarnInv, Content, ChildWork, Unbegun
  <2>4. child'[g] = "good" => /\ phase[g] = "build" => built[g] = Part
                              /\ phase[g] = "hook" => hookSaw[g] # NoArtifacts
    BY <1>1, <2>1 DEF EarnInv, Domains, Working
  <2>5. Places'
    BY <1>1, <2>1, <2>2, <2>4 DEF EarnInv, Places
  <2>6. Progress' /\ Earned'
    BY <1>1, <1>2, <2>1 DEF EarnInv, Progress, Earned, IsTerminal, Exists
  <2>. QED  BY <1>2, <1>3, <2>2, <2>3, <2>5, <2>6 DEF EarnInv
<1>. QED  BY <1>4, <1>5, <1>6, <1>7 DEF ChildStep

LEMMA TerminateKeeps ==
  ASSUME EarnInv, [Next]_vars, NEW g \in Gate, Terminate(g)
  PROVE  EarnInv'
<1>1. /\ g \in Running /\ step[g] = "terminate" /\ phase[g] \in InProcess
      /\ UNCHANGED <<row, source, file, indexed, sums, hookContext, report, known, began, lost,
                     half, built, hookSaw>>
  BY DEF Terminate, At, Running, EarnInv, Places, journal, published, outputs, rest
<1>2. JournalInv'
  BY JournalFacts
<1>3. CASE child' = [child EXCEPT ![g] = "asked"] /\ UNCHANGED control
  <2>1. Running' = Running /\ UNCHANGED <<step, phase>>
    BY <1>3 DEF Running, control
  <2>2. Domains' /\ Unbegun' /\ Places'
    BY <1>1, <1>3, <2>1 DEF EarnInv, Domains, Unbegun, Places
  <2>3. Content' /\ ChildWork' /\ Solo' /\ Recorded'
    BY <1>1, <2>1 DEF EarnInv, Content, ChildWork, Solo, Recorded, Exists
  <2>4. Progress' /\ Earned'
    BY <1>1, <2>1 DEF EarnInv, Progress, Earned, IsTerminal, Exists
  <2>. QED  BY <1>2, <2>2, <2>3, <2>4 DEF EarnInv
<1>4. CASE child' = [child EXCEPT ![g] = "gone"] /\ Stay(g, "fail")
  <2>1. Moves(g, "fail", phase[g])
    BY <1>4, StayMoves
  <2>2. Earned'
    BY <1>1, <2>1, ReportStays
  <2>3. /\ phase[g] \in Rebuilt => \A p \in Part : indexed[p] >= began[g]
        /\ phase[g] \in Verified => \A p \in Part : known[g][p] >= began[g]
        /\ phase[g] = "hook" => hookContext = known[g] /\ hookSaw[g] \in {NoArtifacts, known[g]}
        /\ phase[g] \in Hooked => hookSaw[g] = known[g]
        /\ phase[g] \notin Hooked \cup {"hook"} => hookSaw[g] = NoArtifacts
        /\ sums.gate = g => phase[g] \in Verified /\ sums.artifacts = known[g]
    BY <1>1 DEF EarnInv, Progress
  <2>. QED  BY <1>1, <1>2, <1>4, <2>1, <2>2, <2>3, GateMoves
<1>. QED  BY <1>3, <1>4 DEF Terminate

\* The gate's job ends, and the gate with it.
LEMMA LastStepKeeps ==
  ASSUME EarnInv, [Next]_vars, NEW g \in Gate, Return(g) \/ Raise(g)
  PROVE  EarnInv'
<1>. USE DEF Gate
<1>1. /\ g \in Running /\ step' = [step EXCEPT ![g] = "done"]
      /\ phase' = [phase EXCEPT ![g] = "manifest"] /\ child' = [child EXCEPT ![g] = "none"]
      /\ built' = [built EXCEPT ![g] = {}] /\ known' = [known EXCEPT ![g] = NoArtifacts]
      /\ UNCHANGED <<source, file, indexed, sums, hookContext, report, lost>>
      /\ half' = half \/ half' = [half EXCEPT ![g] = NoPart]
      /\ began' = began \/ began' = [began EXCEPT ![g] = 0]
  BY DEF Return, Raise, At, Running, published, outputs
<1>2. JournalInv' /\ Evolves
  BY JournalFacts
<1>3. DOMAIN hookSaw' = Gate /\ \A h \in Gate \ {g} : hookSaw'[h] = hookSaw[h]
  BY DEF Return, Raise, EarnInv, Domains
<1>4. /\ step'[g] = "done" /\ phase'[g] = "manifest" /\ built'[g] = {}
      /\ half'[g] \in {NoPart, half[g]} /\ began'[g] \in {0, began[g]}
      /\ \A h \in Gate \ {g} :
           /\ step'[h] = step[h] /\ phase'[h] = phase[h] /\ child'[h] = child[h]
           /\ built'[h] = built[h] /\ half'[h] = half[h] /\ began'[h] = began[h]
      /\ Domains' /\ DOMAIN began' = Gate
  BY <1>1, <1>3 DEF EarnInv, Domains, Content
<1>5. Running' = {}
  BY <1>1, <1>4 DEF EarnInv, Solo, Running
<1>6. Content'
  BY <1>1, <1>4 DEF EarnInv, Content
<1>7. ChildWork'
  BY <1>1, <1>4 DEF EarnInv, ChildWork, Content
<1>8. Unbegun' /\ Places'
  BY <1>1, <1>3, <1>4 DEF EarnInv, Unbegun, Places
<1>9. Solo' /\ Recorded' /\ Progress'
  BY <1>5 DEF Solo, Recorded, Progress
<1>10. Earned'
  <2>1. \A h \in Gate : IsTerminal(h) => Exists(h)' /\ row'[h] = row[h]
    BY <1>2 DEF Evolves, IsTerminal
  <2>2. CASE report.status = "passed" /\ report.gate = g
    <3>1. Return(g)
      BY <2>2 DEF Raise, At, EarnInv, Earned
    <3>2. /\ UNCHANGED <<hookSaw, began>> /\ row'[g].state \in {"cancelled", "succeeded"}
          /\ Exists(g)'
      <4>1. JournalInv /\ Succeed(g) /\ Exists(g) /\ row[g].state = "running" /\ row[g] \in Row
        BY <1>1, <3>1 DEF Return, EarnInv, Recorded, JournalInv, JournalTypeOK, Exists
      <4>2. Exists(g)' /\ row'[g] \in Row
        BY <1>2, <4>1 DEF Evolves, JournalInv, JournalTypeOK, Exists
      <4>3. \/ row' = [row EXCEPT ![g] = [row[g] EXCEPT !.state = "cancelled"]]
            \/ row' = [row EXCEPT ![g] = [row[g] EXCEPT !.state = "succeeded",
                                                        !.progress = MaxProgress]]
        BY <4>1 DEF Succeed, AlreadyTerminal, IsTerminal, Terminal, Cancelled, Transition
      <4>4. \/ row'[g] = [row[g] EXCEPT !.state = "cancelled"]
            \/ row'[g] = [row[g] EXCEPT !.state = "succeeded", !.progress = MaxProgress]
        BY <4>1, <4>3 DEF JournalInv, JournalTypeOK
      <4>5. row'[g].state \in {"cancelled", "succeeded"}
        BY <4>1, <4>4 DEF Row
      <4>. QED  BY <3>1, <4>2, <4>5 DEF Return
    <3>. QED  BY <1>1, <1>4, <2>2, <3>2 DEF EarnInv, Earned, IsTerminal, Terminal, Exists
  <2>3. CASE report.gate # g
    BY <1>1, <1>3, <1>4, <2>1, <2>3 DEF EarnInv, Earned, IsTerminal, Exists
  <2>. QED  BY <1>1, <2>2, <2>3 DEF Earned
<1>. QED  BY <1>2, <1>4, <1>6, <1>7, <1>8, <1>9, <1>10 DEF EarnInv

LEMMA CrashKeeps ==
  ASSUME EarnInv, [Next]_vars, Crash
  PROVE  EarnInv'
<1>1. /\ lost' = lost \cup Running
      /\ step' = [g \in Gate |-> IF g \in Running THEN "lost" ELSE step[g]]
      /\ UNCHANGED <<source, file, indexed, sums, hookContext, report, phase, child, half, built,
                     hookSaw, known, began>>
  BY DEF Crash, published, outputs, processes
<1>2. JournalInv' /\ Evolves
  BY JournalFacts
<1>3. Running' = {}
  BY <1>1 DEF Running
<1>4. Domains' /\ Content' /\ ChildWork' /\ Unbegun' /\ Places'
  BY <1>1 DEF EarnInv, Domains, Content, ChildWork, Unbegun, Places, Running
<1>5. Solo' /\ Recorded' /\ Progress'
  BY <1>3 DEF Solo, Recorded, Progress
<1>6. Earned'
  <2>1. \A h \in Gate : IsTerminal(h) => Exists(h)' /\ row'[h] = row[h]
    BY <1>2 DEF Evolves, IsTerminal, Gate
  <2>2. SUFFICES ASSUME report.status = "passed" PROVE Earned'
    BY <1>1 DEF Earned
  <2>3. CASE report.gate \in Running
    <3>1. phase[report.gate] = "report"
      BY <2>2, <2>3 DEF EarnInv, Earned, Places, Running
    <3>. QED  BY <1>1, <2>2, <2>3, <3>1 DEF EarnInv, Earned, Running
  <2>4. CASE report.gate \notin Running
    BY <1>1, <2>1, <2>2, <2>4 DEF EarnInv, Earned, IsTerminal, Exists
  <2>. QED  BY <2>3, <2>4
<1>. QED  BY <1>2, <1>4, <1>5, <1>6 DEF EarnInv

LEMMA EarnInvImplies == EarnInv => PassedReportIsEarned
<1>. SUFFICES ASSUME EarnInv, report.status = "passed"
              PROVE  row[report.gate].state = "failed" => report.gate \in lost
  BY DEF PassedReportIsEarned, EarnInv, Earned
<1>1. CASE step[report.gate] \in {"reported", "return", "fail"}
  <2>1. row[report.gate].state = "running"
    BY <1>1 DEF EarnInv, Earned, Recorded, Running
  <2>. QED  BY <2>1
<1>. QED  BY <1>1 DEF EarnInv, Earned

(* If the gates of a project run one at a time, which is what the command  *)
(* line asks of the job service, then a latest.json that says passed was   *)
(* earned, whatever interleaves with the gate: edits of the source, the    *)
(* children that a crashed gate left behind, cancellations and deadlines.  *)
(* (release/cli.py:42, and both reports of _run_release_gate.)             *)
THEOREM PassedReportsAreEarned == MaxConcurrency = 1 => (Spec => []PassedReportIsEarned)
<1>. SUFFICES ASSUME MaxConcurrency = 1 PROVE Spec => []PassedReportIsEarned
  OBVIOUS
<1>1. Init => EarnInv
  BY InitEarnInv
<1>2. EarnInv /\ [Next]_vars => EarnInv'
  <2>. SUFFICES ASSUME EarnInv, [Next]_vars PROVE EarnInv'
    OBVIOUS
  <2>1. CASE UNCHANGED vars \/ Edit
    BY <2>1, JobMoves
  <2>2. CASE Crash
    BY <2>2, CrashKeeps
  <2>3. ASSUME NEW g \in Gate, GateStep(g)
        PROVE  EarnInv'
    BY <2>3, Moving, PollKeeps, TerminateKeeps, EndingMoves, LastStepKeeps DEF GateStep
  <2>4. ASSUME NEW g \in Gate,
               Submit(g) \/ Begin(g) \/ Cancel(g) \/ Expire(g) \/ ChildStep(g)
        PROVE  EarnInv'
    BY <2>4, JobMoves, BeginKeeps, ChildStepKeeps
  <2>. QED  BY <2>1, <2>2, <2>3, <2>4 DEF Next
<1>3. EarnInv => PassedReportIsEarned
  BY EarnInvImplies
<1>. QED  BY <1>1, <1>2, <1>3, PTL DEF Spec

-----------------------------------------------------------------------------
(* Part builds: a file tells by what was written since whether it is still *)
(* of the source, and of the STEP file.                                    *)

BuildStep == {"clear", "decide both", "decide step", "step", "stl", "cache", "forget", "facts",
              "mesh", "read", "convert", "describe", "snap", "extract"}
RealFile == [of : BOOLEAN, step : BOOLEAN, with : Nat, exact : BOOLEAN,
             since : SUBSET {"factory", "step"}]
File == RealFile \cup {Builds!NoFile}
Held == [of : BOOLEAN, step : BOOLEAN, with : Nat, exact : BOOLEAN,
         since : SUBSET {"factory", "step", "no file"}]

\* A file that is exactly of a source is of the present one, or of an older.
OfSource(f) == f \in RealFile /\ f.exact => f.of \/ "factory" \in f.since

\* An STL file is written after the STEP file of its build, and the steps of a
\* look at the mesh or at the features are all there.
Paired(s) ==
  /\ \A i \in 2 .. Len(s) : s[i] = "stl" => s[i - 1] = "step"
  /\ \A i \in 1 .. Len(s) :
       /\ s[i] = "mesh" => i + 3 \in 1 .. Len(s) /\ s[i + 3] = "describe"
       /\ s[i] = "snap" => i + 2 \in 1 .. Len(s) /\ s[i + 2] = "extract"
StlFits ==
  stlExport \in RealFile /\ stlExport.exact /\ stepExport \in RealFile /\ stepExport.exact =>
    stlExport.with = stepExport.with \/ "step" \in stlExport.since
StlIsNext ==
  Builds!Takes("build", "stl") /\ stepExport \in RealFile /\ stepExport.exact =>
    stepExport.with = carried["build"].with

\* The rows and the parameters of the active cache are of one build.
CacheFits ==
  cacheRow \in RealFile =>
    /\ metadata \in RealFile /\ metadata.since = cacheRow.since
    /\ cacheRow.exact => cacheRow.with = metadata.with

MeshFits == meshFile \in RealFile /\ meshFile.exact => meshFile.step \/ "step" \in meshFile.since

FilesFit ==
  /\ params \in 1 .. 2
  /\ stepExport \in File /\ stlExport \in File /\ metadata \in File /\ cacheRow \in File
  /\ meshFile \in File /\ meshData \in File /\ snapFile \in File
  /\ OfSource(stepExport) /\ OfSource(stlExport) /\ OfSource(cacheRow)
  /\ StlFits /\ CacheFits /\ MeshFits

ScriptsFit ==
  /\ program \in [Builds!Actor -> Seq(BuildStep)] /\ carried \in [Builds!Actor -> Held]
  /\ Paired(program["build"]) /\ StlIsNext

BuildInv == FilesFit /\ ScriptsFit /\ Builds!CurrentIsCurrent

LEMMA NoFileFacts ==
  /\ Builds!NoFile \notin RealFile /\ Builds!NoFile \in File
  /\ \A f \in File : f \in RealFile <=> f # Builds!NoFile
  /\ ~Builds!NoFile.of /\ ~Builds!NoFile.step /\ Builds!NoFile.with = 0
  /\ \A f \in File :
       /\ f.of \in BOOLEAN /\ f.step \in BOOLEAN /\ f.with \in Nat
       /\ f.exact \in BOOLEAN
<1>1. Builds!NoFile.since = {"no file"}
  BY DEF Builds!NoFile
<1>2. \A f \in RealFile : "no file" \notin f.since
  BY DEF RealFile
<1>3. /\ ~Builds!NoFile.of /\ ~Builds!NoFile.step /\ Builds!NoFile.with = 0
      /\ Builds!NoFile.exact
  BY DEF Builds!NoFile
<1>4. Builds!NoFile \notin RealFile
  BY <1>1, <1>2
<1>5. ASSUME NEW f \in File
      PROVE  /\ f.of \in BOOLEAN /\ f.step \in BOOLEAN /\ f.with \in Nat
             /\ f.exact \in BOOLEAN
  <2>1. CASE f \in RealFile
    BY <2>1 DEF RealFile
  <2>2. CASE f = Builds!NoFile
    BY <2>2 DEF Builds!NoFile
  <2>. QED  BY <2>1, <2>2 DEF File
<1>. QED  BY <1>3, <1>4, <1>5 DEF File

\* What an edit, and a new STEP file, make of the others.
LEMMA AfterAnEdit ==
  ASSUME NEW f \in File
  PROVE  LET new == Builds!Edited(f) IN
         /\ new \in File /\ (new \in RealFile <=> f \in RealFile)
         /\ new.exact = f.exact /\ new.with = f.with /\ new.step = f.step
         /\ f \in RealFile => new.since = f.since \cup {"factory"}
BY NoFileFacts DEF Builds!Edited, RealFile, File

LEMMA AfterAnExport ==
  ASSUME NEW f \in File
  PROVE  LET new == Builds!Replaced(f) IN
         /\ new \in File /\ (new \in RealFile <=> f \in RealFile)
         /\ new.exact = f.exact /\ new.with = f.with /\ new.of = f.of
         /\ f \in RealFile => new.since = f.since \cup {"step"}
BY NoFileFacts DEF Builds!Replaced, RealFile, File

LEMMA MadeFacts ==
  ASSUME BuildInv
  PROVE  /\ Builds!Made \in RealFile /\ Builds!Made.since = {}
         /\ Builds!Made.exact => Builds!Made.of /\ Builds!Made.with = carried["build"].with
         /\ Builds!Torn \in RealFile /\ Builds!Torn.since = {} /\ ~Builds!Torn.exact
<1>1. carried["build"].with \in Nat /\ carried["build"].of \in BOOLEAN
  BY DEF BuildInv, ScriptsFit, Builds!Actor, Held
<1>2. Builds!Torn \in RealFile /\ Builds!Torn.since = {} /\ ~Builds!Torn.exact
  BY DEF Builds!Torn, Builds!NoFile, RealFile
<1>. QED  BY <1>1, <1>2 DEF Builds!Made, Builds!NoFile, RealFile

\* What is left of a script that is taken on, skipped or given up.
LEMMA PairedParts ==
  ASSUME NEW s \in Seq(BuildStep), Paired(s), s # <<>>
  PROVE  /\ Tail(s) \in Seq(BuildStep) /\ Paired(Tail(s))
         /\ Tail(s) # <<>> /\ Head(Tail(s)) = "stl" => Head(s) = "step"
<1> DEFINE t == Tail(s)
<1>1. t \in Seq(BuildStep) /\ Len(t) = Len(s) - 1 /\ \A i \in 1 .. Len(t) : t[i] = s[i + 1]
  OBVIOUS
<1>2. t # <<>> => Head(t) = s[2] /\ 2 \in 2 .. Len(s)
  BY <1>1
<1> HIDE DEF t
<1>3. \A i \in 2 .. Len(t) : t[i] = "stl" => t[i - 1] = "step"
  BY <1>1 DEF Paired
<1>4. ASSUME NEW i \in 1 .. Len(t)
      PROVE  /\ t[i] = "mesh" => i + 3 \in 1 .. Len(t) /\ t[i + 3] = "describe"
             /\ t[i] = "snap" => i + 2 \in 1 .. Len(t) /\ t[i + 2] = "extract"
  <2>1. i + 1 \in 1 .. Len(s) /\ t[i] = s[i + 1] /\ Len(s) \in Nat
    BY <1>1
  <2>2. t[i] = "mesh" => i + 1 + 3 \in 1 .. Len(s) /\ s[i + 1 + 3] = "describe"
    BY <2>1 DEF Paired
  <2>3. t[i] = "snap" => i + 1 + 2 \in 1 .. Len(s) /\ s[i + 1 + 2] = "extract"
    BY <2>1 DEF Paired
  <2>. QED  BY <1>1, <2>1, <2>2, <2>3
<1>5. Paired(t)
  BY <1>3, <1>4 DEF Paired
<1>. QED  BY <1>1, <1>2, <1>5 DEF Paired, t

LEMMA PairedJoins ==
  ASSUME NEW s \in Seq(BuildStep), Paired(s), NEW t \in Seq(BuildStep), Paired(t),
         t # <<>> => t[1] # "stl"
  PROVE  s \o t \in Seq(BuildStep) /\ Paired(s \o t)
         /\ (s # <<>> => (s \o t)[1] = s[1]) /\ (s = <<>> => s \o t = t)
<1> DEFINE u == s \o t
<1>1. /\ u \in Seq(BuildStep) /\ Len(u) = Len(s) + Len(t)
      /\ \A i \in 1 .. Len(s) : u[i] = s[i]
      /\ \A i \in 1 .. Len(t) : u[Len(s) + i] = t[i]
      /\ s # <<>> => u[1] = s[1]
      /\ s = <<>> => u = t
      /\ Len(s) \in Nat /\ Len(t) \in Nat
  OBVIOUS
<1> HIDE DEF u
<1>2. ASSUME NEW i \in 2 .. Len(u), u[i] = "stl" PROVE u[i - 1] = "step"
  <2>1. CASE i <= Len(s)
    <3>1. i \in 2 .. Len(s) /\ u[i] = s[i] /\ u[i - 1] = s[i - 1]
      BY <1>1, <2>1
    <3>. QED  BY <1>2, <3>1 DEF Paired
  <2>2. CASE i > Len(s)
    <3>1. PICK k \in 1 .. Len(t) : i = Len(s) + k
      <4>1. i - Len(s) \in 1 .. Len(t) /\ i = Len(s) + (i - Len(s))
        BY <1>1, <2>2
      <4>. QED  BY <4>1
    <3>2. t[k] = "stl"
      BY <1>1, <1>2, <3>1
    <3>3. k \in 2 .. Len(t) /\ k - 1 \in 1 .. Len(t) /\ i - 1 = Len(s) + (k - 1)
      <4>1. k # 1
        BY <3>2
      <4>. QED  BY <1>1, <3>1, <4>1
    <3>4. t[k - 1] = "step"
      BY <3>2, <3>3 DEF Paired
    <3>. QED  BY <1>1, <3>3, <3>4
  <2>. QED  BY <1>1, <2>1, <2>2
<1>3. ASSUME NEW i \in 1 .. Len(u)
      PROVE  /\ u[i] = "mesh" => i + 3 \in 1 .. Len(u) /\ u[i + 3] = "describe"
             /\ u[i] = "snap" => i + 2 \in 1 .. Len(u) /\ u[i + 2] = "extract"
  <2>1. CASE i <= Len(s)
    <3>1. i \in 1 .. Len(s) /\ u[i] = s[i]
      BY <1>1, <2>1
    <3>2. s[i] = "mesh" => i + 3 \in 1 .. Len(s) /\ s[i + 3] = "describe"
      BY <3>1 DEF Paired
    <3>3. s[i] = "snap" => i + 2 \in 1 .. Len(s) /\ s[i + 2] = "extract"
      BY <3>1 DEF Paired
    <3>4. \A j \in 1 .. Len(s) : j \in 1 .. Len(u)
      BY <1>1
    <3>. QED  BY <1>1, <3>1, <3>2, <3>3, <3>4
  <2>2. CASE i > Len(s)
    <3>1. PICK k \in 1 .. Len(t) : i = Len(s) + k
      <4>1. i - Len(s) \in 1 .. Len(t) /\ i = Len(s) + (i - Len(s))
        BY <1>1, <2>2
      <4>. QED  BY <4>1
    <3>2. u[i] = "mesh" => k + 3 \in 1 .. Len(t) /\ t[k + 3] = "describe"
      BY <1>1, <3>1 DEF Paired
    <3>3. u[i] = "snap" => k + 2 \in 1 .. Len(t) /\ t[k + 2] = "extract"
      BY <1>1, <3>1 DEF Paired
    <3>4. i + 3 = Len(s) + (k + 3) /\ i + 2 = Len(s) + (k + 2)
      BY <1>1, <3>1
    <3>5. \A j \in 1 .. Len(t) : Len(s) + j \in 1 .. Len(u)
      BY <1>1
    <3>. QED  BY <1>1, <3>2, <3>3, <3>4, <3>5
  <2>. QED  BY <1>1, <2>1, <2>2
<1>4. Paired(u)
  BY <1>2, <1>3 DEF Paired
<1>. QED  BY <1>1, <1>4 DEF u

LEMMA PairedSkips ==
  ASSUME NEW s \in Seq(BuildStep), Paired(s), NEW n \in 1 .. Len(s)
  PROVE  LET t == SubSeq(s, n + 1, Len(s)) IN
         /\ t \in Seq(BuildStep) /\ Paired(t)
         /\ s[n] # "step" => (t # <<>> => t[1] # "stl")
<1> DEFINE t == SubSeq(s, n + 1, Len(s))
<1>1. /\ t \in Seq(BuildStep) /\ Len(t) = Len(s) - n /\ Len(s) \in Nat
      /\ \A i \in 1 .. Len(t) : t[i] = s[n + i]
  OBVIOUS
<1> HIDE DEF t
<1>2. ASSUME NEW i \in 2 .. Len(t), t[i] = "stl" PROVE t[i - 1] = "step"
  <2>1. t[i] = s[n + i] /\ t[i - 1] = s[n + i - 1] /\ n + i \in 2 .. Len(s)
    BY <1>1
  <2>. QED  BY <1>2, <2>1 DEF Paired
<1>3. ASSUME NEW i \in 1 .. Len(t)
      PROVE  /\ t[i] = "mesh" => i + 3 \in 1 .. Len(t) /\ t[i + 3] = "describe"
             /\ t[i] = "snap" => i + 2 \in 1 .. Len(t) /\ t[i + 2] = "extract"
  <2>1. t[i] = s[n + i] /\ n + i \in 1 .. Len(s)
    BY <1>1
  <2>2. ASSUME NEW k \in 1 .. Len(s)
        PROVE  /\ s[k] = "mesh" => k + 3 \in 1 .. Len(s) /\ s[k + 3] = "describe"
               /\ s[k] = "snap" => k + 2 \in 1 .. Len(s) /\ s[k + 2] = "extract"
    BY DEF Paired
  <2>3. /\ t[i] = "mesh" => n + i + 3 \in 1 .. Len(s) /\ s[n + i + 3] = "describe"
        /\ t[i] = "snap" => n + i + 2 \in 1 .. Len(s) /\ s[n + i + 2] = "extract"
    BY <2>1, <2>2
  <2>4. n + i + 3 \in 1 .. Len(s) => i + 3 \in 1 .. Len(t) /\ t[i + 3] = s[n + i + 3]
    <3>1. n + i + 3 = n + (i + 3) /\ (n + i + 3 \in 1 .. Len(s) => i + 3 \in 1 .. Len(t))
      BY <1>1
    <3>. QED  BY <1>1, <3>1
  <2>5. n + i + 2 \in 1 .. Len(s) => i + 2 \in 1 .. Len(t) /\ t[i + 2] = s[n + i + 2]
    <3>1. n + i + 2 = n + (i + 2) /\ (n + i + 2 \in 1 .. Len(s) => i + 2 \in 1 .. Len(t))
      BY <1>1
    <3>. QED  BY <1>1, <3>1
  <2>. QED  BY <2>3, <2>4, <2>5
<1>4. ASSUME s[n] # "step", t # <<>> PROVE t[1] # "stl"
  <2>1. t[1] = s[n + 1] /\ n + 1 \in 2 .. Len(s) /\ s[n + 1 - 1] = s[n]
    BY <1>1, <1>4
  <2>. QED  BY <1>4, <2>1 DEF Paired
<1>. QED  BY <1>1, <1>2, <1>3, <1>4 DEF t, Paired

\* A part of a script that starts with no STL file.
Block(s) == s \in Seq(BuildStep) /\ Paired(s) /\ (s # <<>> => s[1] # "stl")

LEMMA BlocksJoin ==
  ASSUME NEW s, NEW t, Block(s), Block(t)
  PROVE  Block(s \o t)
BY PairedJoins DEF Block

LEMMA BlocksOfBuilds ==
  /\ \A x \in BuildStep \ {"stl", "mesh", "snap"} : Block(<<x>>)
  /\ Block(<<>>)
  /\ Block(Builds!model_path) /\ Block(Builds!snap_features)
<1>1. ASSUME NEW x \in BuildStep \ {"stl", "mesh", "snap"} PROVE Block(<<x>>)
  BY DEF Block, Paired
<1>2. Block(<<>>)
  BY DEF Block, Paired
<1>3. Block(Builds!model_path) /\ Block(Builds!snap_features)
  BY DEF Block, Paired, BuildStep, Builds!model_path, Builds!snap_features
<1>. QED  BY <1>1, <1>2, <1>3

LEMMA BuildScripts ==
  ASSUME NEW o \in Builds!Modes
  PROVE  Block(Builds!build(o))
<1>1. ASSUME NEW p, NEW s, Block(s) PROVE Block(Builds!If(p, s))
  BY <1>1, BlocksOfBuilds DEF Builds!If
<1>2. Block(Builds!exporter(o))
  <2>1. Block(<<"step">> \o <<"stl">>) /\ Block(<<"step">> \o <<>>)
    BY DEF Block, Paired, BuildStep
  <2>2. Block(<<"step">> \o Builds!If(o.stl, <<"stl">>))
    BY <2>1 DEF Builds!If
  <2>. QED  BY <2>2, BlocksOfBuilds DEF Builds!exporter, Builds!If
<1>3. Block(Builds!active_cache(o)) /\ Block(Builds!_run_project_validators)
  BY BlocksOfBuilds DEF Builds!active_cache, Builds!_run_project_validators, BuildStep
<1>4. Block(Builds!_refresh_viewer_cache)
  BY BlocksOfBuilds, BlocksJoin DEF Builds!_refresh_viewer_cache
<1>5. Block(<<"clear">>) /\ Block(<<"decide both">>) /\ Block(<<"decide step">>)
  BY BlocksOfBuilds DEF BuildStep
<1> DEFINE a == Builds!If(o.mode \in Builds!Full /\ ~o.only, <<"clear">>)
           b == Builds!If(o.mode = "changed", IF o.stl THEN <<"decide both">> ELSE <<"decide step">>)
           c == Builds!If(Builds!definition_matches_profile(o), Builds!exporter(o))
           d == Builds!If(o.cache, Builds!active_cache(o))
           e == Builds!If(o.mode = "handoff", Builds!_run_project_validators)
           f == Builds!If(o.mode \in {"default", "handoff", "assembly-preview"},
                          Builds!_refresh_viewer_cache)
<1>6. Block(a) /\ Block(b) /\ Block(c) /\ Block(d) /\ Block(e) /\ Block(f)
  BY <1>1, <1>2, <1>3, <1>4, <1>5, BlocksOfBuilds DEF Builds!If
<1>7. Builds!build(o) = a \o b \o c \o d \o e \o f
  BY DEF Builds!build
<1> HIDE DEF a, b, c, d, e, f
<1>. QED  BY <1>6, <1>7, BlocksJoin

-----------------------------------------------------------------------------
(* The steps of a build and of the viewer.                                 *)

\* What moves an actor; only a build replaces the STEP file.
LEMMA ActorMoves ==
  ASSUME BuildInv, NEW a \in Builds!Actor, NEW s \in Seq(BuildStep), NEW kept \in Held,
         Builds!Becomes(a, s, kept), a = "build" \/ stepExport' = stepExport,
         a = "build" => Paired(s) /\ (s # <<>> => s[1] # "stl")
  PROVE  ScriptsFit'
<1>1. /\ program' = [program EXCEPT ![a] = s] /\ "build" \in Builds!Actor
      /\ carried' = [carried EXCEPT ![a] = IF s = <<>> THEN Builds!NoFile ELSE kept]
      /\ program \in [Builds!Actor -> Seq(BuildStep)] /\ carried \in [Builds!Actor -> Held]
      /\ Paired(program["build"]) /\ StlIsNext
  BY DEF Builds!Becomes, BuildInv, ScriptsFit, Builds!Actor
<1>2. program' \in [Builds!Actor -> Seq(BuildStep)] /\ carried' \in [Builds!Actor -> Held]
  BY <1>1 DEF Held, Builds!NoFile
<1>3. CASE a = "build"
  <2>1. program'["build"] = s
    BY <1>1, <1>3
  <2>2. ~Builds!Takes("build", "stl")'
    BY <1>3, <2>1 DEF Builds!Takes, Builds!Idle
  <2>. QED  BY <1>2, <1>3, <2>1, <2>2 DEF ScriptsFit, StlIsNext
<1>4. CASE a # "build"
  <2>1. program'["build"] = program["build"] /\ carried'["build"] = carried["build"]
    BY <1>1, <1>4
  <2>. QED  BY <1>1, <1>2, <2>1 DEF ScriptsFit, StlIsNext, Builds!Takes, Builds!Idle
<1>. QED  BY <1>3, <1>4

\* The next step of an actor, unless it writes the STEP file.
LEMMA ActorGoes ==
  ASSUME BuildInv, NEW a \in Builds!Actor, NEW kept \in Held, NEW x, x # "step",
         Builds!Takes(a, x), Builds!GoesWith(a, kept), a = "build" \/ stepExport' = stepExport
  PROVE  ScriptsFit'
<1> DEFINE s == Tail(program[a])
<1>1. program[a] \in Seq(BuildStep) /\ program[a] # <<>> /\ Head(program[a]) # "step"
  BY DEF Builds!Takes, Builds!Idle, BuildInv, ScriptsFit
<1>2. s \in Seq(BuildStep)
  BY <1>1
<1>3. a = "build" => Paired(s) /\ (s # <<>> => s[1] # "stl")
  BY <1>1, PairedParts DEF BuildInv, ScriptsFit
<1>4. Builds!Becomes(a, s, kept)
  BY DEF Builds!GoesWith
<1> HIDE DEF s
<1>. QED  BY <1>2, <1>3, <1>4, ActorMoves

LEMMA ActorEnds ==
  ASSUME BuildInv, NEW a \in Builds!Actor, Builds!Ends(a),
         a = "build" \/ stepExport' = stepExport
  PROVE  ScriptsFit'
<1>1. <<>> \in Seq(BuildStep) /\ Paired(<<>>)
  BY DEF Paired
<1>2. Builds!NoFile \in Held
  BY DEF Held, Builds!NoFile
<1>. QED  BY <1>1, <1>2, ActorMoves DEF Builds!Ends

\* What nobody was told.
LEMMA NothingTold ==
  ASSUME told' = Builds!NotTold
  PROVE  Builds!CurrentIsCurrent'
BY DEF Builds!CurrentIsCurrent, Builds!NotTold

LEMMA FilesStay ==
  ASSUME BuildInv, UNCHANGED <<params, stepExport, stlExport, metadata, cacheRow, meshFile, meshData,
                               snapFile>>
  PROVE  FilesFit'
BY DEF BuildInv, FilesFit, OfSource, StlFits, CacheFits, MeshFits

\* What an actor holds when it starts.
LEMMA HeldFiles ==
  ASSUME NEW w \in Nat
  PROVE  /\ [Builds!NoFile EXCEPT !.with = w, !.since = {}] \in Held
         /\ [Builds!NoFile EXCEPT !.of = TRUE, !.with = w, !.since = {}] \in Held
BY DEF Held, Builds!NoFile

LEMMA BuildBegins ==
  ASSUME BuildInv, Builds!Build
  PROVE  BuildInv'
<1>1. PICK o \in Builds!Modes :
        Builds!Becomes("build", Builds!build(o),
                       [Builds!NoFile EXCEPT !.of = TRUE, !.with = params, !.since = {}])
  BY DEF Builds!Build
<1> DEFINE kept == [Builds!NoFile EXCEPT !.of = TRUE, !.with = params, !.since = {}]
<1>2. kept \in Held
  <2>1. params \in Nat
    BY DEF BuildInv, FilesFit
  <2>. QED  BY <2>1, HeldFiles
<1>3. UNCHANGED <<params, stepExport, stlExport, metadata, cacheRow, meshFile, meshData, snapFile>>
      /\ told' = Builds!NotTold
  BY DEF Builds!Build, Builds!exports, Builds!cache, Builds!display
<1> HIDE DEF kept
<1>4. Builds!Becomes("build", Builds!build(o), kept)
  BY <1>1 DEF kept
<1>5. ScriptsFit'
  BY <1>2, <1>3, <1>4, BuildScripts, ActorMoves DEF Block, Builds!Actor
<1>. QED  BY <1>3, <1>5, FilesStay, NothingTold DEF BuildInv

LEMMA LookBegins ==
  ASSUME BuildInv, Builds!Look
  PROVE  BuildInv'
<1> DEFINE kept == [Builds!NoFile EXCEPT !.with = params, !.since = {}]
<1>1. kept \in Held
  <2>1. params \in Nat
    BY DEF BuildInv, FilesFit
  <2>. QED  BY <2>1, HeldFiles
<1>2. UNCHANGED <<params, stepExport, stlExport, metadata, cacheRow, meshFile, meshData, snapFile>>
      /\ told' = Builds!NotTold
  BY DEF Builds!Look, Builds!exports, Builds!cache, Builds!display
<1>3. PICK steps_ \in {<<"facts">>, Builds!model_path, Builds!snap_features} :
        Builds!Becomes("viewer", steps_, kept)
  BY DEF Builds!Look
<1> HIDE DEF kept
<1>4. Block(steps_)
  BY <1>3, BlocksOfBuilds DEF BuildStep
<1>5. ScriptsFit'
  BY <1>1, <1>2, <1>3, <1>4, ActorMoves DEF Block, Builds!Actor
<1>. QED  BY <1>2, <1>5, FilesStay, NothingTold DEF BuildInv

LEMMA ChangeKeeps ==
  ASSUME BuildInv, Builds!Change
  PROVE  BuildInv'
<1>1. /\ UNCHANGED <<meshFile, meshData, snapFile, program>> /\ told' = Builds!NotTold
      /\ "build" \in Builds!Actor
  BY DEF Builds!Change, Builds!display, Builds!Actor
<1>2. CASE params' = 3 - params /\ UNCHANGED <<stepExport, stlExport, metadata, cacheRow, carried>>
  BY <1>1, <1>2, NothingTold DEF BuildInv, FilesFit, OfSource, StlFits, CacheFits, MeshFits, ScriptsFit,
     StlIsNext, Builds!Takes, Builds!Idle
<1>3. CASE /\ stepExport' = Builds!Edited(stepExport) /\ stlExport' = Builds!Edited(stlExport)
           /\ metadata' = Builds!Edited(metadata) /\ cacheRow' = Builds!Edited(cacheRow)
           /\ carried' = [carried EXCEPT !["build"].of = FALSE]
           /\ params' = params
  <2>1. FilesFit'
    <3>1. /\ stepExport \in File /\ stlExport \in File /\ metadata \in File /\ cacheRow \in File
          /\ FilesFit
      BY DEF BuildInv, FilesFit
    <3>2. /\ stepExport' \in File /\ stlExport' \in File /\ metadata' \in File /\ cacheRow' \in File
          /\ OfSource(stepExport)' /\ OfSource(stlExport)' /\ OfSource(cacheRow)'
      BY <1>3, <3>1, AfterAnEdit DEF OfSource
    <3>3. StlFits'
      BY <1>3, <3>1, AfterAnEdit DEF StlFits, FilesFit
    <3>4. CacheFits'
      BY <1>3, <3>1, AfterAnEdit DEF CacheFits, FilesFit
    <3>5. MeshFits'
      BY <1>1, <3>1 DEF MeshFits, FilesFit
    <3>. QED  BY <1>1, <1>3, <3>1, <3>2, <3>3, <3>4, <3>5 DEF FilesFit
  <2>2. carried["build"] \in Held
    BY <1>1 DEF BuildInv, ScriptsFit
  <2>3. LET new == [carried["build"] EXCEPT !.of = FALSE] IN
        new \in Held /\ new.with = carried["build"].with
    BY <2>2 DEF Held
  <2>4. /\ carried' \in [Builds!Actor -> Held] /\ carried'["build"].with = carried["build"].with
    BY <1>1, <1>3, <2>3 DEF BuildInv, ScriptsFit
  <2>5. stepExport' \in RealFile <=> stepExport \in RealFile
    BY <1>3, AfterAnEdit DEF BuildInv, FilesFit
  <2>6. stepExport'.exact = stepExport.exact /\ stepExport'.with = stepExport.with
    BY <1>3, AfterAnEdit DEF BuildInv, FilesFit
  <2>7. ScriptsFit'
    BY <1>1, <2>4, <2>5, <2>6 DEF BuildInv, ScriptsFit, StlIsNext, Builds!Takes, Builds!Idle
  <2>. QED  BY <1>1, <2>1, <2>7, NothingTold DEF BuildInv
<1>. QED  BY <1>2, <1>3 DEF Builds!Change, Builds!exports, Builds!cache

LEMMA ActorSkips ==
  ASSUME BuildInv, NEW a \in Builds!Actor, stepExport' = stepExport,
         \/ Builds!Takes(a, "mesh") /\ Builds!Skips(a, 4)
         \/ Builds!Takes(a, "snap") /\ Builds!Skips(a, 3)
  PROVE  ScriptsFit'
<1>1. PICK n \in Nat : /\ Builds!Skips(a, n)
                      /\ \/ Builds!Takes(a, "mesh") /\ n = 4
                         \/ Builds!Takes(a, "snap") /\ n = 3
  OBVIOUS
<1> DEFINE s == program[a]
           t == SubSeq(s, n + 1, Len(s))
<1>2. s \in Seq(BuildStep) /\ s # <<>> /\ carried[a] \in Held /\ s[1] = Head(s)
  BY <1>1 DEF Builds!Takes, Builds!Idle, BuildInv, ScriptsFit
<1>3. t \in Seq(BuildStep)
  BY <1>2
<1>4. ASSUME a = "build" PROVE Paired(t) /\ (t # <<>> => t[1] # "stl")
  <2>1. Paired(s)
    BY <1>4 DEF BuildInv, ScriptsFit
  <2>2. n \in 1 .. Len(s) /\ s[n] # "step"
    <3>1. 1 \in 1 .. Len(s)
      BY <1>2
    <3>. HIDE DEF s
    <3>2. CASE s[1] = "mesh" /\ n = 4
      BY <2>1, <3>1, <3>2 DEF Paired
    <3>3. CASE s[1] = "snap" /\ n = 3
      BY <2>1, <3>1, <3>3 DEF Paired
    <3>4. Head(program[a]) = "mesh" \/ Head(program[a]) = "snap"
      BY <1>1 DEF Builds!Takes
    <3>. QED  BY <1>1, <1>2, <3>2, <3>3 DEF Builds!Takes, s
  <2>. HIDE DEF s
  <2>. QED  BY <1>2, <2>1, <2>2, PairedSkips
<1>5. Builds!Becomes(a, t, carried[a])
  BY <1>1 DEF Builds!Skips
<1> HIDE DEF s, t
<1>. QED  BY <1>2, <1>3, <1>4, <1>5, ActorMoves

\* The step of an actor that holds what it held.
LEMMA ActorKeeps ==
  ASSUME BuildInv, NEW a \in Builds!Actor, NEW x, x # "step",
         Builds!Takes(a, x), Builds!Goes(a), a = "build" \/ stepExport' = stepExport
  PROVE  ScriptsFit'
<1>1. carried[a] \in Held /\ Builds!GoesWith(a, carried[a])
  BY DEF Builds!Goes, Builds!GoesWith, BuildInv, ScriptsFit
<1>. QED  BY <1>1, ActorGoes

LEMMA ClearKeeps ==
  ASSUME BuildInv, Builds!clear
  PROVE  BuildInv'
<1>1. /\ Builds!Takes("build", "clear") /\ Builds!Goes("build") /\ "build" \in Builds!Actor
      /\ stepExport' = Builds!NoFile /\ stlExport' = Builds!NoFile /\ told' = Builds!NotTold
      /\ UNCHANGED <<params, metadata, cacheRow, meshFile, meshData, snapFile>>
  BY DEF Builds!clear, Builds!cache, Builds!display, Builds!Actor
<1>2. ScriptsFit'
  BY <1>1, ActorKeeps
<1>3. FilesFit'
  BY <1>1, NoFileFacts DEF BuildInv, FilesFit, OfSource, StlFits, CacheFits, MeshFits
<1>. QED  BY <1>1, <1>2, <1>3, NothingTold DEF BuildInv

LEMMA StepIsWritten ==
  ASSUME BuildInv, NEW new \in RealFile, new.since = {}, new.exact => new.of,
         Builds!WriteStep(new), UNCHANGED <<params, metadata, cacheRow>>
  PROVE  FilesFit'
<1>1. /\ FilesFit /\ stepExport' = new /\ new \in File
      /\ stlExport' = Builds!Replaced(stlExport) /\ meshFile' = Builds!Replaced(meshFile)
      /\ meshData' = Builds!Replaced(meshData) /\ snapFile' = Builds!Replaced(snapFile)
  BY DEF Builds!WriteStep, BuildInv, File
<1>2. /\ stlExport' \in File /\ meshFile' \in File /\ meshData' \in File /\ snapFile' \in File
  BY <1>1, AfterAnExport DEF FilesFit
<1>3. /\ stlExport' \in RealFile => "step" \in stlExport.since' /\ stlExport \in RealFile
      /\ stlExport' \in RealFile => stlExport.since' = stlExport.since \cup {"step"}
      /\ stlExport.of' = stlExport.of /\ stlExport.exact' = stlExport.exact
      /\ meshFile' \in RealFile => "step" \in meshFile.since'
  BY <1>1, AfterAnExport DEF FilesFit
<1>4. OfSource(stepExport)' /\ OfSource(stlExport)' /\ OfSource(cacheRow)'
  BY <1>1, <1>3 DEF OfSource, FilesFit
<1>5. StlFits' /\ CacheFits' /\ MeshFits'
  BY <1>1, <1>3 DEF StlFits, CacheFits, MeshFits, FilesFit
<1>. QED  BY <1>1, <1>2, <1>4, <1>5 DEF FilesFit

LEMMA ExportStepKeeps ==
  ASSUME BuildInv, Builds!export_step
  PROVE  BuildInv'
<1>1. /\ Builds!Takes("build", "step") /\ Builds!WriteStep(Builds!Made)
      /\ program' = [program EXCEPT !["build"] = Tail(@)]
      /\ carried' = [carried EXCEPT !["viewer"].step = FALSE]
      /\ told' = Builds!NotTold /\ UNCHANGED <<params, metadata, cacheRow>>
      /\ "build" \in Builds!Actor /\ "viewer" \in Builds!Actor
  BY DEF Builds!export_step, Builds!cache, Builds!Actor
<1>2. FilesFit'
  BY <1>1, MadeFacts, StepIsWritten
<1>3. /\ program["build"] \in Seq(BuildStep) /\ program["build"] # <<>>
      /\ Paired(program["build"]) /\ carried \in [Builds!Actor -> Held]
      /\ program \in [Builds!Actor -> Seq(BuildStep)]
  BY <1>1 DEF BuildInv, ScriptsFit, Builds!Takes, Builds!Idle
<1>4. /\ program' \in [Builds!Actor -> Seq(BuildStep)] /\ Paired(program'["build"])
  <2>1. Tail(program["build"]) \in Seq(BuildStep) /\ Paired(Tail(program["build"]))
    BY <1>3, PairedParts
  <2>. QED  BY <1>1, <1>3, <2>1
<1>5. carried' \in [Builds!Actor -> Held] /\ carried'["build"] = carried["build"]
  <2>1. [carried["viewer"] EXCEPT !.step = FALSE] \in Held
    BY <1>1, <1>3 DEF Held
  <2>. QED  BY <1>1, <1>3, <2>1
<1>6. StlIsNext'
  BY <1>1, <1>5, MadeFacts DEF StlIsNext, Builds!WriteStep
<1>. QED  BY <1>1, <1>2, <1>4, <1>5, <1>6, NothingTold DEF BuildInv, ScriptsFit

LEMMA ExportStlKeeps ==
  ASSUME BuildInv, Builds!export_stl
  PROVE  BuildInv'
<1>1. /\ Builds!Takes("build", "stl") /\ Builds!Goes("build") /\ stlExport' = Builds!Made
      /\ told' = Builds!NotTold /\ "build" \in Builds!Actor
      /\ UNCHANGED <<params, stepExport, metadata, cacheRow, meshFile, meshData, snapFile>>
  BY DEF Builds!export_stl, Builds!cache, Builds!display, Builds!Actor
<1>2. ScriptsFit'
  BY <1>1, ActorKeeps
<1>3. FilesFit /\ StlIsNext /\ stlExport' \in File
  BY <1>1, MadeFacts DEF BuildInv, ScriptsFit, File
<1>4. StlFits'
  BY <1>1, <1>3, MadeFacts DEF StlFits, StlIsNext
<1>5. OfSource(stepExport)' /\ OfSource(stlExport)' /\ OfSource(cacheRow)'
  BY <1>1, <1>3, MadeFacts DEF OfSource, FilesFit
<1>6. FilesFit'
  BY <1>1, <1>3, <1>4, <1>5 DEF FilesFit, CacheFits, MeshFits
<1>. QED  BY <1>1, <1>2, <1>6, NothingTold DEF BuildInv

LEMMA CacheKeeps ==
  ASSUME BuildInv, Builds!write_active_cache
  PROVE  BuildInv'
<1>1. /\ Builds!Goes("build") /\ told' = Builds!NotTold /\ "build" \in Builds!Actor
      /\ \/ Builds!Takes("build", "cache") /\ cacheRow' = Builds!Made
         \/ Builds!Takes("build", "forget") /\ cacheRow' = Builds!NoFile
      /\ metadata' = [Builds!Made EXCEPT !.with = carried["build"].with]
      /\ UNCHANGED <<params, stepExport, stlExport, meshFile, meshData, snapFile>>
  BY DEF Builds!write_active_cache, Builds!exports, Builds!display, Builds!Actor
<1>2. ScriptsFit'
  BY <1>1, ActorKeeps
<1>3. /\ FilesFit /\ carried["build"].with \in Nat
      /\ cacheRow' = Builds!Made \/ cacheRow' = Builds!NoFile
  BY <1>1 DEF BuildInv, ScriptsFit, Held
<1>4. /\ metadata' \in RealFile /\ metadata.since' = {}
      /\ metadata.with' = carried["build"].with
  BY <1>1, <1>3, MadeFacts DEF RealFile
<1>5. cacheRow' \in File /\ OfSource(cacheRow)' /\ CacheFits'
  BY <1>3, <1>4, MadeFacts, NoFileFacts DEF CacheFits, OfSource, File
<1>6. FilesFit'
  BY <1>1, <1>3, <1>4, <1>5 DEF FilesFit, StlFits, MeshFits, OfSource, File
<1>. QED  BY <1>1, <1>2, <1>6, NothingTold DEF BuildInv

LEMMA StopKeeps ==
  ASSUME BuildInv, Builds!Stop
  PROVE  BuildInv'
<1>1. /\ program' = [program EXCEPT !["build"] = <<>>] /\ told' = Builds!NotTold
      /\ "build" \in Builds!Actor /\ "viewer" \in Builds!Actor
      /\ UNCHANGED <<params, metadata, cacheRow>>
      /\ Builds!NoFile \in Held /\ carried \in [Builds!Actor -> Held]
      /\ program \in [Builds!Actor -> Seq(BuildStep)]
  BY DEF Builds!Stop, Builds!cache, Builds!Actor, Held, Builds!NoFile, BuildInv, ScriptsFit
<1>2. /\ program' \in [Builds!Actor -> Seq(BuildStep)] /\ program'["build"] = <<>>
  BY <1>1
<1>3. Paired(program'["build"]) /\ StlIsNext'
  BY <1>2 DEF Paired, StlIsNext, Builds!Takes, Builds!Idle
<1>4. CASE /\ carried' = [carried EXCEPT !["build"] = Builds!NoFile]
           /\ UNCHANGED <<Builds!exports, Builds!display>>
  <2>1. ScriptsFit'
    BY <1>1, <1>2, <1>3, <1>4 DEF ScriptsFit
  <2>. QED  BY <1>1, <1>4, <2>1, FilesStay, NothingTold DEF BuildInv, Builds!exports, Builds!display
<1>5. CASE /\ Builds!WriteStep(Builds!Torn)
           /\ carried' = [carried EXCEPT !["build"] = Builds!NoFile, !["viewer"].step = FALSE]
  <2>1. [carried["viewer"] EXCEPT !.step = FALSE] \in Held
    BY <1>1 DEF Held
  <2>2. carried' \in [Builds!Actor -> Held]
    BY <1>1, <1>5, <2>1
  <2>3. FilesFit'
    BY <1>1, <1>5, MadeFacts, StepIsWritten
  <2>. QED  BY <1>1, <1>2, <1>3, <2>2, <2>3, NothingTold DEF BuildInv, ScriptsFit
<1>6. CASE /\ stlExport' = Builds!Torn /\ carried' = [carried EXCEPT !["build"] = Builds!NoFile]
           /\ UNCHANGED <<stepExport, Builds!display>>
  <2>1. ScriptsFit'
    BY <1>1, <1>2, <1>3, <1>6 DEF ScriptsFit
  <2>2. FilesFit'
    BY <1>1, <1>6, MadeFacts
       DEF BuildInv, FilesFit, OfSource, StlFits, CacheFits, MeshFits, File, Builds!display
  <2>. QED  BY <1>1, <2>1, <2>2, NothingTold DEF BuildInv
<1>. QED  BY <1>4, <1>5, <1>6 DEF Builds!Stop

\* What the reason of a kept file says of it.
LEMMA CacheHits ==
  ASSUME NEW f \in File, NEW zone, Builds!_artifact_cache_reason(f, zone)
  PROVE  f \in RealFile /\ "step" \notin f.since /\ "factory" \notin f.since
BY NoFileFacts DEF Builds!_artifact_cache_reason, Builds!Older

LEMMA DecideKeeps ==
  ASSUME BuildInv, Builds!decide
  PROVE  BuildInv'
<1>1. /\ UNCHANGED <<params, stepExport, stlExport, metadata, cacheRow, meshFile, meshData, snapFile>>
      /\ "build" \in Builds!Actor
      /\ Builds!Takes("build", "decide both") \/ Builds!Takes("build", "decide step")
  BY DEF Builds!decide, Builds!exports, Builds!cache, Builds!display, Builds!Actor
<1>2. FilesFit'
  BY <1>1, FilesStay
<1> DEFINE both == Builds!Takes("build", "decide both")
<1>3. PICK zone \in Builds!Zone :
        IF Builds!_changed_definition_needs_rebuild(both, zone)
        THEN Builds!Goes("build") /\ told' = Builds!NotTold
        ELSE /\ Builds!Ends("build")
             /\ Builds!Tells("kept", stepExport, IF both THEN stlExport ELSE stepExport,
                             carried["build"].with, zone)
  BY DEF Builds!decide
<1>4. CASE Builds!_changed_definition_needs_rebuild(both, zone)
  <2>1. Builds!Goes("build") /\ told' = Builds!NotTold
    BY <1>3, <1>4
  <2>2. ScriptsFit'
    BY <1>1, <2>1, ActorKeeps
  <2>. QED  BY <1>2, <2>1, <2>2, NothingTold DEF BuildInv
<1>5. CASE ~Builds!_changed_definition_needs_rebuild(both, zone)
  <2> DEFINE aside == IF both THEN stlExport ELSE stepExport
  <2>1. /\ Builds!Ends("build") /\ told'.kind = "kept"
        /\ told'.file = stepExport /\ told'.beside = aside
    <3>1. Builds!Ends("build")
          /\ Builds!Tells("kept", stepExport, aside, carried["build"].with, zone)
      BY <1>3, <1>5
    <3>. HIDE DEF aside
    <3>. QED  BY <3>1 DEF Builds!Tells
  <2>2. ScriptsFit'
    BY <1>1, <2>1, ActorEnds
  <2>3. /\ stepExport \in File /\ stlExport \in File /\ FilesFit
    BY DEF BuildInv, FilesFit
  <2>4. /\ Builds!_artifact_cache_reason(stepExport, zone)
        /\ both => Builds!_artifact_cache_reason(stlExport, zone)
    BY <1>5 DEF Builds!_changed_definition_needs_rebuild
  <2>5. stepExport.exact => stepExport.of
    BY <2>3, <2>4, CacheHits DEF FilesFit, OfSource
  <2>6. both /\ stlExport.exact =>
          stlExport.of /\ (stepExport.exact => stlExport.with = stepExport.with)
    BY <2>3, <2>4, CacheHits DEF FilesFit, OfSource, StlFits
  <2>7. Builds!CurrentIsCurrent'
    BY <2>1, <2>5, <2>6 DEF Builds!CurrentIsCurrent
  <2>. QED  BY <1>2, <2>2, <2>7 DEF BuildInv
<1>. QED  BY <1>4, <1>5

LEMMA FactsKeep ==
  ASSUME BuildInv, NEW a \in Builds!Actor, Builds!active_cache_row(a)
  PROVE  BuildInv'
<1>1. /\ UNCHANGED <<params, stepExport, stlExport, metadata, cacheRow, meshFile, meshData, snapFile>>
      /\ Builds!Takes(a, "facts") /\ Builds!Goes(a)
  BY DEF Builds!active_cache_row, Builds!exports, Builds!cache, Builds!display
<1>2. FilesFit' /\ ScriptsFit'
  BY <1>1, FilesStay, ActorKeeps
<1>3. PICK zone \in Builds!Zone :
        IF cacheRow # Builds!NoFile /\ ~Builds!_cache_freshness_issues(a, zone)
        THEN Builds!Tells("facts", cacheRow, cacheRow, carried[a].with, zone)
        ELSE told' = Builds!NotTold
  BY DEF Builds!active_cache_row
<1>4. CASE cacheRow # Builds!NoFile /\ ~Builds!_cache_freshness_issues(a, zone)
  <2>1. /\ told'.kind = "facts" /\ told'.file = cacheRow /\ told'.with = carried[a].with
        /\ told'.zone = zone
    BY <1>3, <1>4 DEF Builds!Tells
  <2>2. cacheRow \in RealFile /\ metadata \in RealFile /\ metadata.since = cacheRow.since
    BY <1>4, NoFileFacts DEF BuildInv, FilesFit, CacheFits
  <2>3. metadata.with = carried[a].with /\ ~Builds!_definition_changed_since(zone)
    BY <1>4, <2>2, NoFileFacts DEF Builds!_cache_freshness_issues
  <2>4. zone # "west" => "factory" \notin metadata.since
    BY <2>3 DEF Builds!_definition_changed_since, Builds!Zone, Builds!Older
  <2>5. cacheRow.exact /\ zone # "west" => cacheRow.of /\ cacheRow.with = carried[a].with
    BY <2>2, <2>3, <2>4 DEF BuildInv, FilesFit, CacheFits, OfSource
  <2>6. Builds!CurrentIsCurrent'
    BY <2>1, <2>5 DEF Builds!CurrentIsCurrent
  <2>. QED  BY <1>2, <2>6 DEF BuildInv
<1>. QED  BY <1>2, <1>3, <1>4, NothingTold DEF BuildInv

LEMMA ShownKeeps ==
  ASSUME BuildInv, NEW a \in Builds!Actor,
         \/ Builds!NoStep(a) \/ Builds!_display_cache_is_fresh(a)
         \/ Builds!cache_metadata_matches(a)
  PROVE  BuildInv'
<1>1. UNCHANGED <<params, stepExport, stlExport, metadata, cacheRow, meshFile, meshData, snapFile>>
  BY DEF Builds!NoStep, Builds!_display_cache_is_fresh, Builds!cache_metadata_matches,
         Builds!exports, Builds!cache, Builds!display
<1>2. FilesFit' /\ FilesFit
  BY <1>1, FilesStay DEF BuildInv
<1>3. ScriptsFit'
  <2>1. CASE \/ Builds!Takes(a, "mesh") /\ Builds!Skips(a, 4)
             \/ Builds!Takes(a, "snap") /\ Builds!Skips(a, 3)
    BY <1>1, <2>1, ActorSkips
  <2>2. CASE Builds!Goes(a) /\ (Builds!Takes(a, "mesh") \/ Builds!Takes(a, "snap"))
    BY <1>1, <2>2, ActorKeeps
  <2>. QED
    BY <2>1, <2>2 DEF Builds!NoStep, Builds!_display_cache_is_fresh, Builds!cache_metadata_matches
<1>4. CASE Builds!NoStep(a)
  <2>1. told' = Builds!NotTold
    BY <1>4 DEF Builds!NoStep
  <2>. QED  BY <1>2, <1>3, <2>1, NothingTold DEF BuildInv
<1>5. CASE Builds!_display_cache_is_fresh(a)
  <2>1. CASE meshFile # Builds!NoFile /\ ~Builds!Older(meshFile, "step") /\ meshData.step
    <3>1. /\ told'.kind = "shown"
          /\ told'.file = [meshFile EXCEPT !.exact = @ /\ meshData.exact]
      BY <1>5, <2>1 DEF Builds!_display_cache_is_fresh, Builds!Tells
    <3>2. meshFile \in RealFile /\ "step" \notin meshFile.since
      BY <1>2, <2>1, NoFileFacts DEF FilesFit, Builds!Older
    <3>3. told'.file.exact => meshFile.exact
      BY <3>1, <3>2 DEF RealFile
    <3>4. told'.file.step = meshFile.step
      BY <3>1, <3>2 DEF RealFile
    <3>5. meshFile.exact => meshFile.step
      BY <1>2, <3>2 DEF FilesFit, MeshFits
    <3>6. Builds!CurrentIsCurrent'
      BY <3>1, <3>3, <3>4, <3>5 DEF Builds!CurrentIsCurrent
    <3>. QED  BY <1>2, <1>3, <3>6 DEF BuildInv
  <2>2. CASE ~(meshFile # Builds!NoFile /\ ~Builds!Older(meshFile, "step") /\ meshData.step)
    <3>1. told' = Builds!NotTold
      BY <1>5, <2>2 DEF Builds!_display_cache_is_fresh
    <3>. QED  BY <1>2, <1>3, <3>1, NothingTold DEF BuildInv
  <2>. QED  BY <2>1, <2>2
<1>6. CASE Builds!cache_metadata_matches(a)
  <2>1. CASE snapFile.step
    <3>1. told'.kind = "shown" /\ told'.file = snapFile
      BY <1>6, <2>1 DEF Builds!cache_metadata_matches, Builds!Tells
    <3>2. Builds!CurrentIsCurrent'
      BY <2>1, <3>1 DEF Builds!CurrentIsCurrent
    <3>. QED  BY <1>2, <1>3, <3>2 DEF BuildInv
  <2>2. CASE ~snapFile.step
    <3>1. told' = Builds!NotTold
      BY <1>6, <2>2 DEF Builds!cache_metadata_matches
    <3>. QED  BY <1>2, <1>3, <3>1, NothingTold DEF BuildInv
  <2>. QED  BY <2>1, <2>2
<1>. QED  BY <1>4, <1>5, <1>6

LEMMA ImportKeeps ==
  ASSUME BuildInv, NEW a \in Builds!Actor, Builds!import_step(a)
  PROVE  BuildInv'
<1>1. /\ UNCHANGED <<params, stepExport, stlExport, metadata, cacheRow, meshFile, meshData, snapFile>>
      /\ told' = Builds!NotTold /\ Builds!Takes(a, "read")
  BY DEF Builds!import_step, Builds!exports, Builds!cache, Builds!display
<1>2. [carried[a] EXCEPT !.step = TRUE] \in Held
  BY DEF BuildInv, ScriptsFit, Held
<1>3. ScriptsFit'
  <2>1. CASE Builds!Ends(a)
    BY <1>1, <2>1, ActorEnds
  <2>2. CASE Builds!GoesWith(a, [carried[a] EXCEPT !.step = TRUE])
    BY <1>1, <1>2, <2>2, ActorGoes
  <2>. QED  BY <2>1, <2>2 DEF Builds!import_step
<1>. QED  BY <1>1, <1>3, FilesStay, NothingTold DEF BuildInv

LEMMA ViewsKeep ==
  ASSUME BuildInv, NEW a \in Builds!Actor,
         \/ Builds!convert_step_to_stl(a) \/ Builds!display_mesh_cache_metadata(a)
         \/ Builds!extract_step_snap_features(a)
  PROVE  BuildInv'
<1>1. /\ UNCHANGED <<params, stepExport, stlExport, metadata, cacheRow>>
      /\ told' = Builds!NotTold
  BY DEF Builds!convert_step_to_stl, Builds!display_mesh_cache_metadata,
         Builds!extract_step_snap_features, Builds!exports, Builds!cache
<1>2. ScriptsFit'
  <2>1. CASE Builds!Ends(a)
    BY <1>1, <2>1, ActorEnds
  <2>2. CASE /\ Builds!Goes(a)
             /\ \/ Builds!Takes(a, "convert") \/ Builds!Takes(a, "describe")
                \/ Builds!Takes(a, "extract")
    BY <1>1, <2>2, ActorKeeps
  <2>. QED
    BY <2>1, <2>2 DEF Builds!convert_step_to_stl, Builds!display_mesh_cache_metadata,
                      Builds!extract_step_snap_features
<1>3. ASSUME NEW b \in BOOLEAN
      PROVE  LET new == Builds!Converted(a, b) IN new \in File /\ new.step = b /\ new.exact = carried[a].step
  <2>1. carried[a].step \in BOOLEAN
    BY DEF BuildInv, ScriptsFit, Held
  <2>2. /\ Builds!Converted(a, b) \in RealFile /\ Builds!Converted(a, b).step = b
        /\ Builds!Converted(a, b).exact = carried[a].step
    BY <1>3, <2>1 DEF Builds!Converted, Builds!NoFile, RealFile
  <2>. QED  BY <2>2 DEF File
<1>4. FilesFit /\ carried[a].step \in BOOLEAN
  BY DEF BuildInv, ScriptsFit, Held
<1>5. CASE Builds!convert_step_to_stl(a)
  <2>1. meshFile' = Builds!Converted(a, carried[a].step) /\ UNCHANGED <<meshData, snapFile>>
    BY <1>5 DEF Builds!convert_step_to_stl
  <2>2. meshFile' \in File /\ MeshFits'
    BY <1>3, <1>4, <2>1 DEF MeshFits
  <2>3. FilesFit'
    BY <1>1, <1>4, <2>1, <2>2 DEF FilesFit, OfSource, StlFits, CacheFits
  <2>. QED  BY <1>1, <1>2, <2>3, NothingTold DEF BuildInv
<1>6. CASE Builds!display_mesh_cache_metadata(a) \/ Builds!extract_step_snap_features(a)
  <2>1. meshFile' = meshFile /\ meshData' \in File /\ snapFile' \in File
    BY <1>3, <1>4, <1>6
       DEF FilesFit, Builds!display_mesh_cache_metadata, Builds!extract_step_snap_features
  <2>2. FilesFit'
    BY <1>1, <1>4, <2>1 DEF FilesFit, OfSource, StlFits, CacheFits, MeshFits
  <2>. QED  BY <1>1, <1>2, <2>2, NothingTold DEF BuildInv
<1>. QED  BY <1>5, <1>6

LEMMA BuildSteps ==
  ASSUME BuildInv, Builds!Next
  PROVE  BuildInv'
<1>1. CASE Builds!Build
  BY <1>1, BuildBegins
<1>2. CASE Builds!Look
  BY <1>2, LookBegins
<1>3. CASE Builds!Change
  BY <1>3, ChangeKeeps
<1>4. CASE Builds!Stop
  BY <1>4, StopKeeps
<1>5. CASE Builds!clear \/ Builds!export_step \/ Builds!export_stl
  BY <1>5, ClearKeeps, ExportStepKeeps, ExportStlKeeps
<1>6. CASE Builds!write_active_cache \/ Builds!decide
  BY <1>6, CacheKeeps, DecideKeeps
<1>7. ASSUME NEW a \in Builds!Actor,
             \/ Builds!active_cache_row(a) \/ Builds!NoStep(a)
             \/ Builds!_display_cache_is_fresh(a) \/ Builds!cache_metadata_matches(a)
             \/ Builds!import_step(a)
             \/ Builds!convert_step_to_stl(a) \/ Builds!display_mesh_cache_metadata(a)
             \/ Builds!extract_step_snap_features(a)
      PROVE  BuildInv'
  BY <1>7, FactsKeep, ShownKeeps, ImportKeeps, ViewsKeep
<1>. QED  BY <1>1, <1>2, <1>3, <1>4, <1>5, <1>6, <1>7 DEF Builds!Next

LEMMA BuildStarts ==
  ASSUME Builds!Init
  PROVE  BuildInv
<1>1. Builds!NoFile \in File /\ Builds!NoFile \in Held /\ Builds!NoFile \notin RealFile
  BY NoFileFacts DEF Held, Builds!NoFile
<1>2. FilesFit
  BY <1>1 DEF Builds!Init, FilesFit, OfSource, StlFits, CacheFits, MeshFits
<1>3. ScriptsFit
  BY <1>1 DEF Builds!Init, ScriptsFit, Paired, StlIsNext, Builds!Takes, Builds!Idle, Builds!Actor
<1>4. Builds!CurrentIsCurrent
  BY DEF Builds!Init, Builds!CurrentIsCurrent, Builds!NotTold
<1>. QED  BY <1>2, <1>3, <1>4 DEF BuildInv

LEMMA BuildAlways == WorkbenchSpec => []BuildInv
<1>1. WorkbenchInit => BuildInv
  BY BuildStarts DEF WorkbenchInit
<1>2. BuildInv /\ [WorkbenchNext]_workbenchVars => BuildInv'
  <2> SUFFICES ASSUME BuildInv, [WorkbenchNext]_workbenchVars PROVE BuildInv'
    OBVIOUS
  <2>1. CASE Builds!Next
    BY <2>1, BuildSteps
  <2>2. CASE UNCHANGED buildVars
    <3>1. UNCHANGED <<params, stepExport, stlExport, metadata, cacheRow, meshFile, meshData, snapFile,
                      program, carried, told>>
      BY <2>2 DEF buildVars
    <3>2. FilesFit'
      BY <3>1, FilesStay
    <3>3. ScriptsFit' /\ Builds!CurrentIsCurrent'
      BY <3>1 DEF BuildInv, ScriptsFit, StlIsNext, Builds!Takes, Builds!Idle,
                  Builds!CurrentIsCurrent
    <3>. QED  BY <3>2, <3>3 DEF BuildInv
  <2>. QED
    BY <2>1, <2>2 DEF WorkbenchNext, workbenchVars, fileVars
<1>. QED  BY <1>1, <1>2, PTL DEF WorkbenchSpec

(* What is taken for current is, for any number of steps: the exports that    *)
(* --changed keeps are of the part's present source and of one build, facts   *)
(* told without an issue are of the present source and parameters, and a mesh *)
(* or feature file that is shown is of the STEP file at the path, except where *)
(* an edit raced a build that no time tells of.  (core/cache.py and what reads  *)
(* exports: _artifact_cache_reason, step_artifact, the display mesh.)         *)
THEOREM WhatIsCurrentIs == WorkbenchSpec => []CurrentIsCurrent
<1>1. BuildInv => CurrentIsCurrent
  BY DEF BuildInv, CurrentIsCurrent
<1>. QED  BY <1>1, BuildAlways, PTL

-----------------------------------------------------------------------------
(* Exact views: the scripts of requests, jobs and builds, and their tails. *)

F1 == Views!lookup_features
F2 == Tail(F1)
S1 == Views!lookup_scene
S2 == Tail(S1)
M1 == Views!resolve_model
M2 == Tail(M1)
E1 == Views!extract_and_cache
E2 == Tail(E1)
E3 == Tail(E2)
E4 == Tail(E3)
P1 == Views!publish
P2 == Tail(P1)
P3 == Tail(P2)
P4 == Tail(P3)
P5 == Tail(P4)
B1 == Views!build_scene
B2 == Tail(B1)
B3 == Tail(B2)
D1 == Views!run_scoped_part_build
D2 == Tail(D1)
D3 == Tail(D2)
W1 == Views!export_workspace
W2 == Tail(W1)
W3 == Tail(W2)

ViewStep == {"read_cache", "features", "read_scene", "scene", "verify_bytes", "model", "verify",
             "extract", "write_cache", "bind", "stat", "replace_glb", "replace_metadata", "cached",
             "mesh", "replace_step", "index", "digest", "archive", "workspace"}

LEMMA ShortScripts ==
  /\ F1 # <<>> /\ Head(F1) = "read_cache" /\ F2 # <<>> /\ Head(F2) = "features" /\ Tail(F2) = <<>>
  /\ S1 # <<>> /\ Head(S1) = "read_scene" /\ S2 # <<>> /\ Head(S2) = "scene" /\ Tail(S2) = <<>>
  /\ M1 # <<>> /\ Head(M1) = "verify_bytes" /\ M2 # <<>> /\ Head(M2) = "model" /\ Tail(M2) = <<>>
  /\ E1 # <<>> /\ Head(E1) = "verify" /\ E2 # <<>> /\ Head(E2) = "extract"
  /\ E3 # <<>> /\ Head(E3) = "verify" /\ E4 # <<>> /\ Head(E4) = "write_cache" /\ Tail(E4) = <<>>
  /\ W1 # <<>> /\ Head(W1) = "digest" /\ W2 # <<>> /\ Head(W2) = "archive"
  /\ W3 # <<>> /\ Head(W3) = "workspace" /\ Tail(W3) = <<>>
BY DEF F1, F2, S1, S2, M1, M2, E1, E2, E3, E4, W1, W2, W3,
       Views!lookup_features, Views!lookup_scene, Views!resolve_model, Views!extract_and_cache,
       Views!export_workspace

LEMMA PublishScript ==
  /\ P1 # <<>> /\ Head(P1) = "bind" /\ P2 # <<>> /\ Head(P2) = "verify"
  /\ P3 # <<>> /\ Head(P3) = "stat" /\ P4 # <<>> /\ Head(P4) = "replace_glb"
  /\ P5 # <<>> /\ Head(P5) = "replace_metadata" /\ Tail(P5) = <<>>
BY DEF P1, P2, P3, P4, P5, Views!publish

LEMMA PublishIsScript == P1 \in Seq(ViewStep) /\ Len(P1) = 5
BY DEF P1, Views!publish, ViewStep

LEMMA NotEmpty ==
  ASSUME NEW s \in Seq(ViewStep), Len(s) # 0
  PROVE  s # <<>>
OBVIOUS

\* A script of three steps before those of a publication.
LEMMA ThenPublishes ==
  ASSUME NEW s \in Seq(ViewStep), Len(s) = 8, s[4] = P1[1], s[5] = P1[2],
         s[6] = P1[3], s[7] = P1[4], s[8] = P1[5]
  PROVE  /\ s # <<>> /\ Head(s) = s[1] /\ Tail(s) # <<>> /\ Head(Tail(s)) = s[2]
         /\ Tail(Tail(s)) # <<>> /\ Head(Tail(Tail(s))) = s[3] /\ Tail(Tail(Tail(s))) = P1
<1> DEFINE second == Tail(s)
           third == Tail(second)
           t == Tail(third)
<1>0. s # <<>>
  OBVIOUS
<1>1. /\ second \in Seq(ViewStep) /\ Len(second) = Len(s) - 1
      /\ \A i \in 1 .. Len(second) : second[i] = s[i + 1]
  BY <1>0, HeadTailProperties
<1> HIDE DEF second
<1>2. second # <<>> /\ Len(second) = 7
  BY <1>1
<1>5. /\ third \in Seq(ViewStep) /\ Len(third) = Len(second) - 1
      /\ \A i \in 1 .. Len(third) : third[i] = second[i + 1]
  BY <1>1, <1>2, HeadTailProperties
<1> HIDE DEF third
<1>6. third # <<>>
  <2>1. Len(third) = 6
    BY <1>2, <1>5
  <2>2. third \in Seq(ViewStep)
    BY <1>5
  <2>3. Len(third) # 0
    BY <2>1
  <2>4. \A u \in Seq(ViewStep) : Len(u) # 0 => u # <<>>
    BY NotEmpty
  <2>. QED  BY <2>3, <2>2, <2>4, Zenon
<1>7. /\ t \in Seq(ViewStep) /\ Len(t) = Len(third) - 1
      /\ \A i \in 1 .. Len(t) : t[i] = third[i + 1]
  BY <1>5, <1>6, HeadTailProperties
<1> HIDE DEF t
<1>8. Head(s) = s[1] /\ Head(second) = second[1] /\ Head(third) = third[1]
  OBVIOUS
<1>3. /\ t \in Seq(ViewStep) /\ Len(t) = 5 /\ t[1] = P1[1] /\ t[2] = P1[2] /\ t[3] = P1[3]
      /\ t[4] = P1[4] /\ t[5] = P1[5] /\ second[1] = s[2] /\ third[1] = s[3]
  BY <1>1, <1>2, <1>5, <1>7
<1>4. t = P1
  <2>1. \A i \in 1 .. Len(t) : t[i] = P1[i]
    BY <1>3
  <2>. QED  BY <1>3, <2>1, PublishIsScript, SeqEqual
<1>. QED  BY <1>0, <1>2, <1>6, <1>3, <1>4, <1>8 DEF second, third, t

LEMMA LongScripts ==
  /\ B1 # <<>> /\ Head(B1) = "cached" /\ B2 # <<>> /\ Head(B2) = "verify"
  /\ B3 # <<>> /\ Head(B3) = "mesh" /\ Tail(B3) = P1
  /\ D1 # <<>> /\ Head(D1) = "replace_step" /\ D2 # <<>> /\ Head(D2) = "index"
  /\ D3 # <<>> /\ Head(D3) = "bind" /\ Tail(D3) = P1
<1>1. /\ B1 \in Seq(ViewStep) /\ Len(B1) = 8 /\ B1[4] = P1[1] /\ B1[5] = P1[2]
      /\ B1[6] = P1[3] /\ B1[7] = P1[4] /\ B1[8] = P1[5]
      /\ B1[1] = "cached" /\ B1[2] = "verify" /\ B1[3] = "mesh"
  <2> DEFINE first == <<"cached", "verify", "mesh">>
  <2>1. /\ first \in Seq(ViewStep) /\ Len(first) = 3
        /\ first[1] = "cached" /\ first[2] = "verify" /\ first[3] = "mesh"
    BY DEF ViewStep
  <2>2. B1 = first \o P1
    BY DEF B1, P1, Views!build_scene
  <2> HIDE DEF first
  <2>3. /\ first \o P1 \in Seq(ViewStep) /\ Len(first \o P1) = Len(first) + Len(P1)
        /\ \A i \in 1 .. Len(first) + Len(P1) :
             (first \o P1)[i] = IF i <= Len(first) THEN first[i] ELSE P1[i - Len(first)]
    BY <2>1, PublishIsScript, ConcatProperties
  <2>. QED  BY <2>1, <2>2, <2>3, PublishIsScript
<1>2. /\ D1 \in Seq(ViewStep) /\ Len(D1) = 8 /\ D1[4] = P1[1] /\ D1[5] = P1[2]
      /\ D1[6] = P1[3] /\ D1[7] = P1[4] /\ D1[8] = P1[5]
      /\ D1[1] = "replace_step" /\ D1[2] = "index" /\ D1[3] = "bind"
  <2> DEFINE first == <<"replace_step", "index", "bind">>
  <2>1. /\ first \in Seq(ViewStep) /\ Len(first) = 3
        /\ first[1] = "replace_step" /\ first[2] = "index" /\ first[3] = "bind"
    BY DEF ViewStep
  <2>2. D1 = first \o P1
    BY DEF D1, P1, Views!run_scoped_part_build
  <2> HIDE DEF first
  <2>3. /\ first \o P1 \in Seq(ViewStep) /\ Len(first \o P1) = Len(first) + Len(P1)
        /\ \A i \in 1 .. Len(first) + Len(P1) :
             (first \o P1)[i] = IF i <= Len(first) THEN first[i] ELSE P1[i - Len(first)]
    BY <2>1, PublishIsScript, ConcatProperties
  <2>. QED  BY <2>1, <2>2, <2>3, PublishIsScript
<1>. QED  BY <1>1, <1>2, ThenPublishes DEF B2, B3, D2, D3

-----------------------------------------------------------------------------
(* What a request or a job may rely on at each step.                       *)

Entry == [asked : Nat, of : Nat, size : Nat, identity : Nat, moved : BOOLEAN]

\* The identity is recorded of a file that has the revision.
Named(c, f) == c.identity <= f.identity /\ (c.identity = f.identity => f.bytes = c.asked)
\* Between two checks: unless the file is another one, the result is of the revision.
Checked(c, f) == c.identity <= f.identity /\ (c.identity \in {0, f.identity} => c.of = c.asked)
ViewMade(c) == c.of = c.asked \/ c.moved
Fresh(c) == c.of = c.asked /\ c.identity = 0
Sized(c) == c.size \in {1, 2}

\* With these steps left, this held, this file at the path and these scenes.
Relies(s, c, f, g) ==
  \/ s = <<>>
  \/ /\ s \in {F1, S1, M1, E1, W1, B1, B2, D1, D2, D3}
     /\ Fresh(c) /\ Sized(c) /\ c.asked \in Views!Revision
  \/ s = E2 /\ Named(c, f) /\ c.identity # 0 /\ c.asked \in Views!Revision
  \/ s = B3 /\ Named(c, f) /\ c.identity # 0 /\ Sized(c) /\ c.asked \in Views!Revision
  \/ s = E3 /\ Checked(c, f) /\ c.asked \in Views!Revision
  \/ s \in {P1, P2} /\ Checked(c, f) /\ Sized(c) /\ c.asked \in Views!Revision
  \/ s = E4 /\ ViewMade(c) /\ Named(c, f) /\ c.asked \in Views!Revision
  \/ s \in {P3, P4, P5} /\ ViewMade(c) /\ Sized(c) /\ c.asked \in Views!Revision
  \/ s = F2 /\ ViewMade(c) /\ Named(c, f)
  \/ s = S2 /\ c.asked \in Views!Revision /\ g[c.asked].size # 0
  \/ s \in {M2, W2} /\ Named(c, f)
  \/ s = W3 /\ Named(c, f) /\ (c.identity = f.identity => c.of = c.asked)

Artifact == [bytes : Views!Revision, identity : Nat \ {0}]
Scenes == [Views!Revision -> Entry]

FeaturesFit ==
  /\ features \in [Views!Revision -> Entry]
  /\ \A r \in Views!Revision :
       features[r] # Views!Nothing =>
         features[r].asked = r /\ ViewMade(features[r]) /\ Named(features[r], artifact)
ScenesFit ==
  /\ glb \in Scenes /\ sceneData \in Scenes
  /\ \A r \in Views!Revision :
       /\ glb[r].size # 0 => glb[r].asked = r /\ ViewMade(glb[r])
       /\ sceneData[r] # Views!Nothing => Sized(sceneData[r])
VerifiedFits ==
  \A k \in verified :
    /\ k[2] <= artifact.identity /\ k[2] \in Nat
    /\ k[2] = artifact.identity => artifact.bytes = k[1]
ViewCaches ==
  /\ artifact \in Artifact /\ artifactRow \in Views!Revision
  /\ FeaturesFit /\ ScenesFit /\ VerifiedFits

ViewInv ==
  /\ ViewCaches
  /\ script \in [Views!Actor -> Seq(ViewStep)] /\ copy \in [Views!Actor -> Entry]
  /\ \A a \in Views!Actor : Relies(script[a], copy[a], artifact, glb)
  /\ Views!AnswerIsOfItsRevision

\* What others do: the file is replaced by one of a new identity, scenes are published.
Follows(f, new) == new = f \/ (new \in Artifact /\ new.identity = f.identity + 1)
Publishes(g, new) == \A r \in Views!Revision : g[r].size # 0 => new[r].size # 0

LEMMA ReliesStays ==
  ASSUME NEW f \in Artifact, NEW f2, Follows(f, f2), NEW g, NEW g2, Publishes(g, g2),
         NEW s, NEW c \in Entry, Relies(s, c, f, g)
  PROVE  Relies(s, c, f2, g2)
<1>1. f.identity \in Nat \ {0} /\ c.identity \in Nat
  BY DEF Artifact, Entry
<1>2. Named(c, f) => Named(c, f2)
  BY <1>1 DEF Named, Follows
<1>3. Checked(c, f) => Checked(c, f2)
  BY <1>1 DEF Checked, Follows
<1>4. Named(c, f) /\ (c.identity = f.identity => c.of = c.asked)
        => (c.identity = f2.identity => c.of = c.asked)
  BY <1>1 DEF Named, Follows
<1>5. c.asked \in Views!Revision /\ g[c.asked].size # 0 => g2[c.asked].size # 0
  BY DEF Publishes
<1>. QED  BY <1>2, <1>3, <1>4, <1>5 DEF Relies

\* Which scripts come to which step.
LEMMA AtStep ==
  ASSUME NEW s, NEW c, NEW f, NEW g, Relies(s, c, f, g), s # <<>>
  PROVE  /\ Head(s) = "read_cache" => s = F1
         /\ Head(s) = "features" => s = F2
         /\ Head(s) = "read_scene" => s = S1
         /\ Head(s) = "scene" => s = S2
         /\ Head(s) = "verify_bytes" => s = M1
         /\ Head(s) = "model" => s = M2
         /\ Head(s) = "verify" => s \in {E1, E3, B2, P2}
         /\ Head(s) = "extract" => s = E2
         /\ Head(s) = "write_cache" => s = E4
         /\ Head(s) = "bind" => s \in {D3, P1}
         /\ Head(s) = "stat" => s = P3
         /\ Head(s) = "replace_glb" => s = P4
         /\ Head(s) = "replace_metadata" => s = P5
         /\ Head(s) = "cached" => s = B1
         /\ Head(s) = "mesh" => s = B3
         /\ Head(s) = "replace_step" => s = D1
         /\ Head(s) = "index" => s = D2
         /\ Head(s) = "digest" => s = W1
         /\ Head(s) = "archive" => s = W2
         /\ Head(s) = "workspace" => s = W3
<1>1. s \in {F1, S1, M1, E1, W1, B1, B2, D1, D2, D3, E2, B3, E3, P1, P2, E4, P3, P4, P5, F2, S2,
             M2, W2, W3}
  BY DEF Relies
<1>. QED  BY <1>1, ShortScripts, PublishScript, LongScripts

LEMMA ViewMoves ==
  ASSUME ViewInv, Follows(artifact, artifact'), Publishes(glb, glb'),
         NEW a \in Views!Actor, NEW s \in Seq(ViewStep), NEW c \in Entry,
         script' = [script EXCEPT ![a] = s],
         copy' = [copy EXCEPT ![a] = IF s = <<>> THEN Views!Nothing ELSE c],
         Relies(s, c, artifact', glb'), ViewCaches', Views!AnswerIsOfItsRevision'
  PROVE  ViewInv'
<1>1. Views!Nothing \in Entry
  BY DEF Views!Nothing, Entry
<1>2. script \in [Views!Actor -> Seq(ViewStep)] /\ copy \in [Views!Actor -> Entry]
  BY DEF ViewInv
<1>3. script' \in [Views!Actor -> Seq(ViewStep)] /\ copy' \in [Views!Actor -> Entry]
  BY <1>1, <1>2
<1>4. ASSUME NEW b \in Views!Actor PROVE Relies(script'[b], copy'[b], artifact', glb')
  <2>1. CASE b = a /\ s = <<>>
    BY <1>2, <2>1 DEF Relies
  <2>2. CASE b = a /\ s # <<>>
    BY <1>2, <2>2
  <2>3. CASE b # a
    <3>1. script'[b] = script[b] /\ copy'[b] = copy[b]
      BY <1>2, <2>3
    <3>2. Relies(script[b], copy[b], artifact, glb) /\ copy[b] \in Entry /\ artifact \in Artifact
      BY <1>2 DEF ViewInv, ViewCaches
    <3>. QED  BY <3>1, <3>2, ReliesStays
  <2>. QED  BY <2>1, <2>2, <2>3
<1>. QED  BY <1>3, <1>4 DEF ViewInv

\* What an actor holds when it takes a step.
LEMMA ViewTakes ==
  ASSUME ViewInv, NEW a \in Views!Actor, NEW x, Views!Takes(a, x)
  PROVE  /\ script[a] \in Seq(ViewStep) /\ script[a] # <<>> /\ Head(script[a]) = x
         /\ Tail(script[a]) \in Seq(ViewStep) /\ copy[a] \in Entry
         /\ Relies(script[a], copy[a], artifact, glb)
         /\ artifact \in Artifact
BY DEF ViewInv, ViewCaches, Views!Takes, Views!Idle

\* The next step, with the file and the scenes as they were.
LEMMA ViewGoes ==
  ASSUME ViewInv, NEW a \in Views!Actor, NEW x, Views!Takes(a, x), NEW c \in Entry,
         Views!GoesWith(a, c), Relies(Tail(script[a]), c, artifact, glb),
         artifact' = artifact, glb' = glb, ViewCaches', Views!AnswerIsOfItsRevision'
  PROVE  ViewInv'
<1>1. Follows(artifact, artifact') /\ Publishes(glb, glb')
  BY DEF Follows, Publishes
<1>2. Tail(script[a]) \in Seq(ViewStep)
  BY ViewTakes
<1>. QED  BY <1>1, <1>2, ViewMoves DEF Views!GoesWith, Views!Becomes

LEMMA ViewEnds ==
  ASSUME ViewInv, NEW a \in Views!Actor, Views!Ends(a),
         artifact' = artifact, glb' = glb, ViewCaches', Views!AnswerIsOfItsRevision'
  PROVE  ViewInv'
<1>1. Follows(artifact, artifact') /\ Publishes(glb, glb')
  BY DEF Follows, Publishes
<1>2. <<>> \in Seq(ViewStep) /\ Views!Nothing \in Entry
  BY DEF Views!Nothing, Entry
<1>3. Relies(<<>>, Views!Nothing, artifact', glb')
  BY DEF Relies
<1>. QED  BY <1>1, <1>2, <1>3, ViewMoves DEF Views!Ends, Views!Becomes

LEMMA AnswerStays ==
  ASSUME ViewInv, answer' = answer
  PROVE  Views!AnswerIsOfItsRevision'
BY DEF ViewInv, Views!AnswerIsOfItsRevision

LEMMA CachesStay ==
  ASSUME ViewInv, UNCHANGED <<artifact, artifactRow, features, glb, sceneData, verified>>
  PROVE  ViewCaches'
BY DEF ViewInv, ViewCaches, FeaturesFit, ScenesFit, VerifiedFits

-----------------------------------------------------------------------------
(* The steps of requests, jobs and builds.                                 *)

LEMMA WholeScripts ==
  ASSUME NEW s \in {F1, S1, M1, E1, B1, D1, W1}
  PROVE  s \in Seq(ViewStep)
<1>1. F1 \in Seq(ViewStep) /\ S1 \in Seq(ViewStep) /\ M1 \in Seq(ViewStep)
  BY DEF F1, S1, M1, ViewStep, Views!lookup_features, Views!lookup_scene, Views!resolve_model
<1>2. E1 \in Seq(ViewStep) /\ W1 \in Seq(ViewStep)
  BY DEF E1, W1, ViewStep, Views!extract_and_cache, Views!export_workspace
<1>3. <<"cached", "verify", "mesh">> \in Seq(ViewStep)
      /\ <<"replace_step", "index", "bind">> \in Seq(ViewStep)
  BY DEF ViewStep
<1>4. B1 \in Seq(ViewStep) /\ D1 \in Seq(ViewStep)
  BY <1>3, PublishIsScript DEF B1, D1, P1, Views!build_scene, Views!run_scoped_part_build
<1>. QED  BY <1>1, <1>2, <1>4

LEMMA StartsKeep ==
  ASSUME ViewInv, NEW a \in Views!Actor, NEW scripts_, NEW revisions,
         scripts_ \subseteq {F1, S1, M1, E1, B1, D1, W1}, revisions \subseteq Views!Revision,
         Views!Starts(a, scripts_, revisions)
  PROVE  ViewInv'
<1>1. /\ UNCHANGED <<artifact, artifactRow, features, glb, sceneData, verified>>
      /\ answer' = Views!NoAnswer
  BY DEF Views!Starts, Views!files, Views!caches
<1>2. PICK s \in scripts_, r \in revisions :
        /\ script' = [script EXCEPT ![a] = s]
        /\ copy' = [copy EXCEPT ![a] = [Views!Nothing EXCEPT !.asked = r, !.of = r, !.size = 1]]
  BY DEF Views!Starts
<1> DEFINE c == [Views!Nothing EXCEPT !.asked = r, !.of = r, !.size = 1]
<1>3. r \in Views!Revision /\ r \in Nat
  BY RevisionAssumption DEF Views!Revision
<1>4. /\ c \in Entry /\ c.asked = r /\ c.of = r /\ c.size = 1 /\ c.identity = 0
  BY <1>3 DEF Views!Nothing, Entry
<1>5. copy' = [copy EXCEPT ![a] = c]
  BY <1>2
<1> HIDE DEF c
<1>6. s \in {F1, S1, M1, E1, B1, D1, W1} /\ s # <<>>
  BY ShortScripts, LongScripts
<1>7. s \in Seq(ViewStep)
  BY <1>6, WholeScripts
<1>8. Relies(s, c, artifact, glb)
  BY <1>3, <1>4, <1>6 DEF Relies, Fresh, Sized
<1>9. Follows(artifact, artifact') /\ Publishes(glb, glb')
  BY <1>1 DEF Follows, Publishes
<1>10. Views!AnswerIsOfItsRevision'
  BY <1>1 DEF Views!AnswerIsOfItsRevision, Views!NoAnswer
<1>11. ViewCaches'
  BY <1>1, CachesStay
<1>12. copy' = [copy EXCEPT ![a] = IF s = <<>> THEN Views!Nothing ELSE c]
  BY <1>5, <1>6
<1>. QED  BY <1>1, <1>2, <1>4, <1>7, <1>8, <1>9, <1>10, <1>11, <1>12, ViewMoves

LEMMA RequestsKeep ==
  ASSUME ViewInv, NEW a \in Views!Actor, Views!View(a) \/ Views!Query(a) \/ Views!Build(a)
  PROVE  ViewInv'
<1>1. {artifactRow} \subseteq Views!Revision
  BY DEF ViewInv, ViewCaches
<1>2. CASE Views!View(a)
  BY <1>1, <1>2, StartsKeep DEF Views!View, Views!Asks, F1, S1, M1
<1>3. CASE Views!Query(a)
  BY <1>1, <1>3, StartsKeep DEF Views!Query, Views!Asks, E1, B1, W1
<1>4. CASE Views!Build(a)
  BY <1>4, StartsKeep DEF Views!Build, D1
<1>. QED  BY <1>2, <1>3, <1>4

LEMMA StopKeepsViews ==
  ASSUME ViewInv, NEW a \in Views!Actor, Views!Stop(a)
  PROVE  ViewInv'
BY ViewEnds, CachesStay, AnswerStays DEF Views!Stop, Views!files, Views!caches

LEMMA BindKeeps ==
  ASSUME ViewInv, NEW a \in Views!Actor, Views!resolve_binding(a)
  PROVE  ViewInv'
<1>1. /\ Views!Takes(a, "bind")
      /\ UNCHANGED <<artifact, artifactRow, features, glb, sceneData, verified, answer>>
  BY DEF Views!resolve_binding, Views!files, Views!caches
<1>2. ViewCaches' /\ Views!AnswerIsOfItsRevision'
  BY <1>1, CachesStay, AnswerStays
<1>3. CASE Views!Ends(a)
  BY <1>1, <1>2, <1>3, ViewEnds
<1>4. CASE Views!GoesWith(a, copy[a])
  <2>1. /\ script[a] \in {D3, P1} /\ copy[a] \in Entry
        /\ Relies(script[a], copy[a], artifact, glb)
    BY <1>1, ViewTakes, AtStep
  <2>2. Relies(Tail(script[a]), copy[a], artifact, glb)
    <3>1. CASE script[a] = D3
      <4>1. Fresh(copy[a]) /\ Sized(copy[a]) /\ copy[a].asked \in Views!Revision
            /\ artifact.identity \in Nat \ {0}
        BY <2>1, <3>1, <1>1, ViewTakes, ShortScripts, PublishScript, LongScripts DEF Relies, Artifact
      <4>2. Checked(copy[a], artifact)
        BY <4>1 DEF Fresh, Checked
      <4>. QED  BY <3>1, <4>1, <4>2, LongScripts DEF Relies
    <3>2. CASE script[a] = P1
      <4>1. Checked(copy[a], artifact) /\ Sized(copy[a]) /\ copy[a].asked \in Views!Revision
        BY <2>1, <3>2, ShortScripts, PublishScript, LongScripts DEF Relies
      <4>. QED  BY <3>2, <4>1 DEF Relies, P2
    <3>. QED  BY <2>1, <3>1, <3>2
  <2>. QED  BY <1>1, <1>2, <1>4, <2>1, <2>2, ViewGoes
<1>. QED  BY <1>3, <1>4 DEF Views!resolve_binding, Views!GoesIf

LEMMA VerifyScripts ==
  E1 # E3 /\ E1 # B2 /\ E1 # P2 /\ E3 # B2 /\ E3 # P2 /\ B2 # P2
<1>1. Tail(E1) = E2 /\ Tail(E3) = E4 /\ Tail(B2) = B3 /\ Tail(P2) = P3
  BY DEF E2, E4, B3, P3
<1>2. /\ Head(E2) = "extract" /\ Head(E4) = "write_cache" /\ Head(B3) = "mesh"
      /\ Head(P3) = "stat"
  BY ShortScripts, PublishScript, LongScripts
<1>3. E2 # E4 /\ E2 # B3 /\ E2 # P3 /\ E4 # B3 /\ E4 # P3 /\ B3 # P3
  BY <1>2
<1>. QED  BY <1>1, <1>3

LEMMA VerifyKeeps ==
  ASSUME ViewInv, NEW a \in Views!Actor, Views!_verified_artifact(a)
  PROVE  ViewInv'
<1>1. /\ Views!Takes(a, "verify")
      /\ UNCHANGED <<artifact, artifactRow, features, glb, sceneData, verified, answer>>
  BY DEF Views!_verified_artifact, Views!files, Views!caches
<1>2. ViewCaches' /\ Views!AnswerIsOfItsRevision'
  BY <1>1, CachesStay, AnswerStays
<1> DEFINE c == copy[a]
           new == [copy[a] EXCEPT !.identity = artifact.identity,
                                  !.moved = copy[a].identity \notin {0, artifact.identity}]
<1>3. CASE Views!Ends(a)
  BY <1>1, <1>2, <1>3, ViewEnds
<1>4. CASE artifact.bytes = c.asked /\ Views!GoesWith(a, new)
  <2>1. /\ script[a] \in {E1, E3, B2, P2} /\ c \in Entry /\ Relies(script[a], c, artifact, glb)
        /\ artifact.identity \in Nat \ {0}
    BY <1>1, ViewTakes, AtStep DEF Artifact
  <2>2. /\ new \in Entry /\ new.asked = c.asked /\ new.of = c.of /\ new.size = c.size
        /\ new.identity = artifact.identity /\ (c.identity \notin {0, artifact.identity} => new.moved)
    BY <2>1 DEF Entry
  <2> HIDE DEF c, new
  <2>3. Named(new, artifact) /\ new.identity # 0 /\ (Checked(c, artifact) => ViewMade(new))
    BY <1>4, <2>1, <2>2 DEF Named, Checked, ViewMade
  <2>4. Relies(Tail(script[a]), new, artifact, glb)
    <3>1. CASE script[a] = E1
      <4>1. c.asked \in Views!Revision
        BY <2>1, <3>1, ShortScripts, PublishScript, LongScripts, VerifyScripts DEF Relies
      <4>. QED  BY <2>2, <2>3, <3>1, <4>1 DEF Relies, E2
    <3>2. CASE script[a] = E3
      <4>1. Checked(c, artifact) /\ c.asked \in Views!Revision
        BY <2>1, <3>2, ShortScripts, PublishScript, LongScripts, VerifyScripts DEF Relies
      <4>. QED  BY <2>2, <2>3, <3>2, <4>1 DEF Relies, E4
    <3>3. CASE script[a] = B2
      <4>1. Sized(c) /\ c.asked \in Views!Revision
        BY <2>1, <3>3, ShortScripts, PublishScript, LongScripts, VerifyScripts DEF Relies
      <4>. QED  BY <2>2, <2>3, <3>3, <4>1 DEF Relies, B3, Sized
    <3>4. CASE script[a] = P2
      <4>1. Checked(c, artifact) /\ Sized(c) /\ c.asked \in Views!Revision
        BY <2>1, <3>4, ShortScripts, PublishScript, LongScripts, VerifyScripts DEF Relies
      <4>. QED  BY <2>2, <2>3, <3>4, <4>1 DEF Relies, P3, Sized
    <3>. QED  BY <2>1, <3>1, <3>2, <3>3, <3>4
  <2>5. Views!GoesWith(a, new)
    BY <1>4
  <2>. QED  BY <1>1, <1>2, <2>2, <2>4, <2>5, ViewGoes
<1>. QED  BY <1>3, <1>4 DEF Views!_verified_artifact, Views!GoesIf, Views!asked

\* What each script relies on.
LEMMA ReliedOn ==
  ASSUME NEW c, NEW f, NEW g
  PROVE  /\ Relies(F1, c, f, g) => c.asked \in Views!Revision
         /\ Relies(F2, c, f, g) => ViewMade(c) /\ Named(c, f)
         /\ Relies(S1, c, f, g) => c.asked \in Views!Revision
         /\ Relies(S2, c, f, g) => c.asked \in Views!Revision /\ g[c.asked].size # 0
         /\ Relies(M2, c, f, g) => Named(c, f)
         /\ Relies(E2, c, f, g) => Named(c, f) /\ c.identity # 0 /\ c.asked \in Views!Revision
         /\ Relies(E4, c, f, g) => ViewMade(c) /\ Named(c, f) /\ c.asked \in Views!Revision
         /\ Relies(B1, c, f, g) => Fresh(c) /\ Sized(c) /\ c.asked \in Views!Revision
         /\ Relies(B3, c, f, g) => /\ Named(c, f) /\ c.identity # 0 /\ Sized(c)
                                  /\ c.asked \in Views!Revision
         /\ Relies(P3, c, f, g) => ViewMade(c) /\ Sized(c) /\ c.asked \in Views!Revision
         /\ Relies(P4, c, f, g) => ViewMade(c) /\ Sized(c) /\ c.asked \in Views!Revision
         /\ Relies(P5, c, f, g) => ViewMade(c) /\ Sized(c) /\ c.asked \in Views!Revision
         /\ Relies(D1, c, f, g) => Fresh(c) /\ Sized(c) /\ c.asked \in Views!Revision
         /\ Relies(D2, c, f, g) => Fresh(c) /\ Sized(c) /\ c.asked \in Views!Revision
         /\ Relies(W2, c, f, g) => Named(c, f)
         /\ Relies(W3, c, f, g) => Named(c, f) /\ (c.identity = f.identity => c.of = c.asked)
BY ShortScripts, PublishScript, LongScripts, VerifyScripts DEF Relies

\* The steps that read the file, and change what the actor holds.
LEMMA ReadersKeep ==
  ASSUME ViewInv, NEW a \in Views!Actor,
         \/ Views!extract_step_features(a) \/ Views!mesh(a) \/ Views!stat(a)
         \/ Views!digest(a) \/ Views!archive(a)
  PROVE  ViewInv'
<1>1. UNCHANGED <<artifact, artifactRow, features, glb, sceneData, verified, answer>>
  BY DEF Views!extract_step_features, Views!mesh, Views!stat, Views!digest, Views!archive,
         Views!files, Views!caches
<1>2. ViewCaches' /\ Views!AnswerIsOfItsRevision'
  BY <1>1, CachesStay, AnswerStays
<1> DEFINE c == copy[a]
<1>3. /\ artifact.identity \in Nat \ {0} /\ artifact.bytes \in Views!Revision
      /\ artifact.bytes \in Nat /\ c \in Entry
  BY RevisionAssumption DEF ViewInv, ViewCaches, Artifact, Views!Revision
<1>4. CASE Views!extract_step_features(a)
  <2> DEFINE new == [c EXCEPT !.of = artifact.bytes]
  <2>1. Views!Takes(a, "extract") /\ Views!GoesWith(a, new)
    BY <1>4 DEF Views!extract_step_features
  <2>2. /\ new \in Entry /\ new.asked = c.asked /\ new.of = artifact.bytes
        /\ new.identity = c.identity
    BY <1>3 DEF Entry
  <2> HIDE DEF c, new
  <2>3. script[a] = E2 /\ Relies(E2, c, artifact, glb)
    BY <2>1, ViewTakes, AtStep DEF c
  <2>4. Relies(Tail(script[a]), new, artifact, glb)
    <3>1. Named(c, artifact) /\ c.identity # 0 /\ c.asked \in Views!Revision
      BY <2>3, ReliedOn
    <3>2. Checked(new, artifact)
      BY <1>3, <2>2, <3>1 DEF Named, Checked
    <3>. QED  BY <2>2, <2>3, <3>1, <3>2 DEF Relies, E3
  <2>. QED  BY <1>1, <1>2, <2>1, <2>2, <2>4, ViewGoes
<1>5. CASE Views!mesh(a)
  <2> DEFINE new == [c EXCEPT !.of = artifact.bytes, !.size = 2]
  <2>1. Views!Takes(a, "mesh") /\ Views!GoesWith(a, new)
    BY <1>5 DEF Views!mesh
  <2>2. /\ new \in Entry /\ new.asked = c.asked /\ new.of = artifact.bytes
        /\ new.identity = c.identity /\ new.size = 2
    BY <1>3 DEF Entry
  <2> HIDE DEF c, new
  <2>3. script[a] = B3 /\ Relies(B3, c, artifact, glb)
    BY <2>1, ViewTakes, AtStep DEF c
  <2>4. Relies(Tail(script[a]), new, artifact, glb)
    <3>1. Named(c, artifact) /\ c.identity # 0 /\ c.asked \in Views!Revision
      BY <2>3, ReliedOn
    <3>2. Checked(new, artifact) /\ Sized(new)
      BY <1>3, <2>2, <3>1 DEF Named, Checked, Sized
    <3>. QED  BY <2>2, <2>3, <3>1, <3>2, LongScripts DEF Relies
  <2>. QED  BY <1>1, <1>2, <2>1, <2>2, <2>4, ViewGoes
<1>6. CASE Views!stat(a)
  <2> DEFINE new == [c EXCEPT !.identity = artifact.identity]
  <2>1. Views!Takes(a, "stat") /\ Views!GoesWith(a, new)
    BY <1>6 DEF Views!stat
  <2>2. /\ new \in Entry /\ new.asked = c.asked /\ new.of = c.of /\ new.moved = c.moved
        /\ new.size = c.size
    BY <1>3 DEF Entry
  <2> HIDE DEF c, new
  <2>3. script[a] = P3 /\ Relies(P3, c, artifact, glb)
    BY <2>1, ViewTakes, AtStep DEF c
  <2>4. Relies(Tail(script[a]), new, artifact, glb)
    <3>1. ViewMade(c) /\ Sized(c) /\ c.asked \in Views!Revision
      BY <2>3, ReliedOn
    <3>2. ViewMade(new) /\ Sized(new)
      BY <2>2, <3>1 DEF ViewMade, Sized
    <3>. QED  BY <2>2, <2>3, <3>1, <3>2 DEF Relies, P4
  <2>. QED  BY <1>1, <1>2, <2>1, <2>2, <2>4, ViewGoes
<1>7. CASE Views!digest(a)
  <2> DEFINE new == [c EXCEPT !.asked = artifact.bytes, !.identity = artifact.identity]
  <2>1. Views!Takes(a, "digest") /\ Views!GoesWith(a, new)
    BY <1>7 DEF Views!digest
  <2>2. /\ new \in Entry /\ new.asked = artifact.bytes /\ new.identity = artifact.identity
    BY <1>3 DEF Entry
  <2> HIDE DEF c, new
  <2>3. script[a] = W1
    BY <2>1, ViewTakes, AtStep DEF c
  <2>4. Named(new, artifact)
    BY <1>3, <2>2 DEF Named
  <2>5. Relies(Tail(script[a]), new, artifact, glb)
    BY <2>3, <2>4 DEF Relies, W2
  <2>. QED  BY <1>1, <1>2, <2>1, <2>2, <2>5, ViewGoes
<1>8. CASE Views!archive(a)
  <2> DEFINE new == [c EXCEPT !.of = artifact.bytes]
  <2>1. Views!Takes(a, "archive") /\ Views!GoesWith(a, new)
    BY <1>8 DEF Views!archive
  <2>2. /\ new \in Entry /\ new.asked = c.asked /\ new.of = artifact.bytes
        /\ new.identity = c.identity
    BY <1>3 DEF Entry
  <2> HIDE DEF c, new
  <2>3. script[a] = W2 /\ Relies(W2, c, artifact, glb)
    BY <2>1, ViewTakes, AtStep DEF c
  <2>4. Named(new, artifact) /\ (new.identity = artifact.identity => new.of = new.asked)
    BY <2>2, <2>3, ReliedOn DEF Named
  <2>5. Relies(Tail(script[a]), new, artifact, glb)
    BY <2>3, <2>4 DEF Relies, W3
  <2>. QED  BY <1>1, <1>2, <2>1, <2>2, <2>5, ViewGoes
<1>. QED  BY <1>4, <1>5, <1>6, <1>7, <1>8

LEMMA ReadCacheKeeps ==
  ASSUME ViewInv, NEW a \in Views!Actor, Views!_read_cache(a)
  PROVE  ViewInv'
<1>1. /\ Views!Takes(a, "read_cache")
      /\ UNCHANGED <<artifact, artifactRow, features, glb, sceneData, verified, answer>>
  BY DEF Views!_read_cache, Views!files, Views!caches
<1>2. ViewCaches' /\ Views!AnswerIsOfItsRevision'
  BY <1>1, CachesStay, AnswerStays
<1>3. CASE Views!Ends(a)
  BY <1>1, <1>2, <1>3, ViewEnds
<1>4. CASE features[copy[a].asked] # Views!Nothing /\ Views!GoesWith(a, features[copy[a].asked])
  <2>1. script[a] = F1 /\ copy[a].asked \in Views!Revision
    BY <1>1, ViewTakes, AtStep, ReliedOn
  <2>2. /\ features[copy[a].asked] \in Entry /\ ViewMade(features[copy[a].asked])
        /\ Named(features[copy[a].asked], artifact)
    BY <1>4, <2>1 DEF ViewInv, ViewCaches, FeaturesFit
  <2>3. Relies(Tail(script[a]), features[copy[a].asked], artifact, glb)
    BY <2>1, <2>2 DEF Relies, F2
  <2>. QED  BY <1>1, <1>2, <1>4, <2>2, <2>3, ViewGoes
<1>. QED  BY <1>3, <1>4 DEF Views!_read_cache, Views!GoesIf, Views!asked

LEMMA ReadSceneKeeps ==
  ASSUME ViewInv, NEW a \in Views!Actor, Views!read_scene(a)
  PROVE  ViewInv'
<1>1. /\ Views!Takes(a, "read_scene")
      /\ UNCHANGED <<artifact, artifactRow, features, glb, sceneData, verified, answer>>
  BY DEF Views!read_scene, Views!files, Views!caches
<1>2. ViewCaches' /\ Views!AnswerIsOfItsRevision'
  BY <1>1, CachesStay, AnswerStays
<1> DEFINE r == copy[a].asked
           new == [glb[r] EXCEPT !.identity = sceneData[r].identity]
<1>3. CASE Views!Ends(a)
  BY <1>1, <1>2, <1>3, ViewEnds
<1>4. CASE /\ sceneData[r] # Views!Nothing /\ glb[r].size = sceneData[r].size
           /\ Views!GoesWith(a, new)
  <2>1. script[a] = S1 /\ r \in Views!Revision
    BY <1>1, ViewTakes, AtStep, ReliedOn
  <2> HIDE DEF r
  <2>2. /\ glb[r] \in Entry /\ sceneData[r] \in Entry /\ glb[r].size # 0 /\ glb[r].asked = r
    <3>1. glb[r] \in Entry /\ sceneData[r] \in Entry
      BY <2>1 DEF ViewInv, ViewCaches, ScenesFit, Scenes
    <3>2. sceneData[r].size \in {1, 2}
      BY <1>4, <2>1 DEF ViewInv, ViewCaches, ScenesFit, Sized
    <3>3. glb[r].size # 0
      BY <1>4, <3>2
    <3>. QED  BY <2>1, <3>1, <3>3 DEF ViewInv, ViewCaches, ScenesFit
  <2>3. new \in Entry /\ new.asked = r
    BY <2>2 DEF Entry
  <2>4. Views!GoesWith(a, new)
    BY <1>4
  <2> HIDE DEF new
  <2>5. Relies(Tail(script[a]), new, artifact, glb)
    BY <2>1, <2>2, <2>3 DEF Relies, S2
  <2>. QED  BY <1>1, <1>2, <2>3, <2>4, <2>5, ViewGoes
<1>. QED  BY <1>3, <1>4 DEF Views!read_scene, Views!GoesIf, Views!asked

LEMMA CachedKeeps ==
  ASSUME ViewInv, NEW a \in Views!Actor, Views!cached(a)
  PROVE  ViewInv'
<1>1. /\ Views!Takes(a, "cached")
      /\ UNCHANGED <<artifact, artifactRow, features, glb, sceneData, verified, answer>>
  BY DEF Views!cached, Views!files, Views!caches
<1>2. ViewCaches' /\ Views!AnswerIsOfItsRevision'
  BY <1>1, CachesStay, AnswerStays
<1>3. CASE Views!Ends(a)
  BY <1>1, <1>2, <1>3, ViewEnds
<1>4. CASE Views!GoesWith(a, copy[a])
  <2>1. script[a] = B1 /\ Relies(B1, copy[a], artifact, glb) /\ copy[a] \in Entry
    BY <1>1, ViewTakes, AtStep
  <2>2. Fresh(copy[a]) /\ Sized(copy[a]) /\ copy[a].asked \in Views!Revision
    BY <2>1, ReliedOn
  <2>3. Relies(Tail(script[a]), copy[a], artifact, glb)
    BY <2>1, <2>2 DEF Relies, B2
  <2>. QED  BY <1>1, <1>2, <1>4, <2>1, <2>3, ViewGoes
<1>. QED  BY <1>3, <1>4 DEF Views!cached, Views!GoesIf

LEMMA WriteCacheKeeps ==
  ASSUME ViewInv, NEW a \in Views!Actor, Views!_write_cache(a)
  PROVE  ViewInv'
<1> DEFINE c == copy[a]
           new == [c EXCEPT !.size = 0]
<1>1. /\ Views!Takes(a, "write_cache") /\ Views!GoesWith(a, c)
      /\ UNCHANGED <<artifact, artifactRow, glb, sceneData, verified, answer>>
      /\ features' = [features EXCEPT ![c.asked] = new]
  BY DEF Views!_write_cache, Views!Goes, Views!asked, Views!files
<1>2. script[a] = E4 /\ Relies(E4, c, artifact, glb) /\ c \in Entry
  BY <1>1, ViewTakes, AtStep
<1>3. ViewMade(c) /\ Named(c, artifact) /\ c.asked \in Views!Revision
  BY <1>2, ReliedOn
<1>4. /\ new \in Entry /\ new.asked = c.asked /\ new.of = c.of /\ new.moved = c.moved
      /\ new.identity = c.identity
  BY <1>2 DEF Entry
<1> HIDE DEF new
<1>5. ViewMade(new) /\ Named(new, artifact)
  BY <1>3, <1>4 DEF ViewMade, Named
<1>6. FeaturesFit'
  <2>1. features \in [Views!Revision -> Entry] /\ FeaturesFit
    BY DEF ViewInv, ViewCaches, FeaturesFit
  <2>2. features' \in [Views!Revision -> Entry]
    BY <1>1, <1>4, <2>1
  <2>3. ASSUME NEW r \in Views!Revision, features'[r] # Views!Nothing
        PROVE  features'[r].asked = r /\ ViewMade(features'[r]) /\ Named(features'[r], artifact)
    <3>1. CASE r = c.asked
      BY <1>1, <1>3, <1>4, <1>5, <2>1, <3>1
    <3>2. CASE r # c.asked
      <4>1. features'[r] = features[r]
        BY <1>1, <2>1, <3>2
      <4>. QED  BY <2>1, <2>3, <4>1 DEF FeaturesFit
    <3>. QED  BY <3>1, <3>2
  <2>. QED  BY <1>1, <2>2, <2>3 DEF FeaturesFit
<1>7. ViewCaches'
  BY <1>1, <1>6 DEF ViewInv, ViewCaches, ScenesFit, VerifiedFits
<1>8. Relies(Tail(script[a]), c, artifact, glb)
  BY <1>2, ShortScripts DEF Relies
<1>. QED  BY <1>1, <1>2, <1>7, <1>8, AnswerStays, ViewGoes

LEMMA ReplaceGlbKeeps ==
  ASSUME ViewInv, NEW a \in Views!Actor, Views!replace_glb(a)
  PROVE  ViewInv'
<1> DEFINE c == copy[a]
           new == [c EXCEPT !.identity = 0]
<1>1. /\ Views!Takes(a, "replace_glb") /\ Views!Becomes(a, Tail(script[a]), c)
      /\ UNCHANGED <<artifact, artifactRow, features, sceneData, verified, answer>>
      /\ glb' = [glb EXCEPT ![c.asked] = new]
  BY DEF Views!replace_glb, Views!Goes, Views!GoesWith, Views!asked, Views!files
<1>2. /\ script[a] = P4 /\ Relies(P4, c, artifact, glb) /\ c \in Entry
      /\ Tail(script[a]) \in Seq(ViewStep)
  BY <1>1, ViewTakes, AtStep
<1>3. ViewMade(c) /\ Sized(c) /\ c.asked \in Views!Revision
  BY <1>2, ReliedOn
<1>4. /\ new \in Entry /\ new.asked = c.asked /\ new.of = c.of /\ new.moved = c.moved
      /\ new.size = c.size
  BY <1>2 DEF Entry
<1> HIDE DEF new
<1>5. ViewMade(new) /\ new.size # 0
  BY <1>3, <1>4 DEF ViewMade, Sized
<1>6. ScenesFit'
  <2>1. glb \in Scenes /\ ScenesFit
    BY DEF ViewInv, ViewCaches, ScenesFit
  <2>2. glb' \in Scenes
    BY <1>1, <1>4, <2>1 DEF Scenes
  <2>3. ASSUME NEW r \in Views!Revision, glb'[r].size # 0
        PROVE  glb'[r].asked = r /\ ViewMade(glb'[r])
    <3>1. CASE r = c.asked
      BY <1>1, <1>3, <1>4, <1>5, <2>1, <3>1 DEF Scenes
    <3>2. CASE r # c.asked
      <4>1. glb'[r] = glb[r]
        BY <1>1, <2>1, <3>2 DEF Scenes
      <4>. QED  BY <2>1, <2>3, <4>1 DEF ScenesFit
    <3>. QED  BY <3>1, <3>2
  <2>. QED  BY <1>1, <2>1, <2>2, <2>3 DEF ScenesFit
<1>7. ViewCaches'
  BY <1>1, <1>6 DEF ViewInv, ViewCaches, FeaturesFit, VerifiedFits
<1>8. Relies(Tail(script[a]), c, artifact', glb')
  BY <1>2, <1>3 DEF Relies, P5
<1>9. Follows(artifact, artifact') /\ Publishes(glb, glb')
  <2>1. glb \in [Views!Revision -> Entry]
    BY DEF ViewInv, ViewCaches, ScenesFit, Scenes
  <2>. QED  BY <1>1, <1>5, <2>1 DEF Follows, Publishes
<1>. QED  BY <1>1, <1>2, <1>7, <1>8, <1>9, AnswerStays, ViewMoves DEF Views!Becomes

LEMMA ReplaceMetadataKeeps ==
  ASSUME ViewInv, NEW a \in Views!Actor, Views!replace_metadata(a)
  PROVE  ViewInv'
<1> DEFINE c == copy[a]
           new == [Views!Nothing EXCEPT !.size = c.size, !.identity = c.identity]
<1>1. /\ Views!Takes(a, "replace_metadata") /\ Views!GoesWith(a, c)
      /\ UNCHANGED <<artifact, artifactRow, features, glb, verified, answer>>
      /\ sceneData' = [sceneData EXCEPT ![c.asked] = new]
  BY DEF Views!replace_metadata, Views!Goes, Views!asked, Views!files
<1>2. script[a] = P5 /\ Relies(P5, c, artifact, glb) /\ c \in Entry
  BY <1>1, ViewTakes, AtStep
<1>3. Sized(c) /\ c.asked \in Views!Revision
  BY <1>2, ReliedOn
<1>4. new \in Entry /\ new.size = c.size
  BY <1>2 DEF Entry, Views!Nothing
<1> HIDE DEF new
<1>6. ScenesFit'
  <2>1. sceneData \in Scenes /\ ScenesFit
    BY DEF ViewInv, ViewCaches, ScenesFit
  <2>2. sceneData' \in Scenes
    BY <1>1, <1>4, <2>1 DEF Scenes
  <2>3. ASSUME NEW r \in Views!Revision, sceneData'[r] # Views!Nothing
        PROVE  Sized(sceneData'[r])
    <3>1. CASE r = c.asked
      BY <1>1, <1>3, <1>4, <2>1, <3>1 DEF Scenes, Sized
    <3>2. CASE r # c.asked
      <4>1. sceneData'[r] = sceneData[r]
        BY <1>1, <2>1, <3>2 DEF Scenes
      <4>. QED  BY <2>1, <2>3, <4>1 DEF ScenesFit
    <3>. QED  BY <3>1, <3>2
  <2>. QED  BY <1>1, <2>1, <2>2, <2>3 DEF ScenesFit
<1>7. ViewCaches'
  BY <1>1, <1>6 DEF ViewInv, ViewCaches, FeaturesFit, VerifiedFits
<1>8. Relies(Tail(script[a]), c, artifact, glb)
  BY <1>2, PublishScript DEF Relies
<1>. QED  BY <1>1, <1>2, <1>7, <1>8, AnswerStays, ViewGoes

LEMMA VerifyBytesKeeps ==
  ASSUME ViewInv, NEW a \in Views!Actor, Views!_verify_bytes(a)
  PROVE  ViewInv'
<1> DEFINE c == copy[a]
           known_ == <<c.asked, artifact.identity>>
           good == known_ \in verified \/ artifact.bytes = c.asked
           new == [c EXCEPT !.identity = artifact.identity]
<1>1. /\ Views!Takes(a, "verify_bytes")
      /\ UNCHANGED <<artifact, artifactRow, features, glb, sceneData, answer>>
      /\ verified' = IF good THEN verified \cup {known_} ELSE verified
      /\ Views!GoesIf(a, good, new)
  BY DEF Views!_verify_bytes, Views!asked, Views!files
<1>2. script[a] = M1 /\ c \in Entry /\ artifact.identity \in Nat \ {0} /\ VerifiedFits
  BY <1>1, ViewTakes, AtStep DEF ViewInv, ViewCaches, Artifact
<1>3. good => artifact.bytes = c.asked
  BY <1>2 DEF VerifiedFits
<1>4. VerifiedFits'
  BY <1>1, <1>2, <1>3 DEF VerifiedFits
<1>5. ViewCaches' /\ Views!AnswerIsOfItsRevision'
  BY <1>1, <1>4, AnswerStays DEF ViewInv, ViewCaches, FeaturesFit, ScenesFit
<1>6. CASE Views!Ends(a)
  BY <1>1, <1>5, <1>6, ViewEnds
<1>7. CASE good /\ Views!GoesWith(a, new)
  <2>1. new \in Entry /\ new.asked = c.asked /\ new.identity = artifact.identity
    BY <1>2 DEF Entry
  <2>2. Named(new, artifact)
    BY <1>2, <1>3, <1>7, <2>1 DEF Named
  <2>3. Views!GoesWith(a, new)
    BY <1>7
  <2> HIDE DEF new
  <2>4. Relies(Tail(script[a]), new, artifact, glb)
    BY <1>2, <2>2 DEF Relies, M2
  <2>. QED  BY <1>1, <1>5, <2>1, <2>3, <2>4, ViewGoes
<1>. QED  BY <1>1, <1>6, <1>7 DEF Views!GoesIf

LEMMA ModelKeeps ==
  ASSUME ViewInv, NEW a \in Views!Actor, Views!model(a)
  PROVE  ViewInv'
<1>1. /\ Views!Takes(a, "model") /\ Views!Ends(a)
      /\ UNCHANGED <<artifact, artifactRow, features, glb, sceneData, verified>>
      /\ answer' = [kind |-> "model", asked |-> copy[a].asked, of |-> artifact.bytes,
                    there |-> artifact.bytes, moved |-> copy[a].identity # artifact.identity]
  BY DEF Views!model, Views!asked, Views!files, Views!caches
<1>2. Named(copy[a], artifact)
  BY <1>1, ViewTakes, AtStep, ReliedOn
<1>3. Views!AnswerIsOfItsRevision'
  BY <1>1, <1>2 DEF Views!AnswerIsOfItsRevision, Named
<1>. QED  BY <1>1, <1>3, CachesStay, ViewEnds

LEMMA WorkspaceKeeps ==
  ASSUME ViewInv, NEW a \in Views!Actor, Views!workspace(a)
  PROVE  ViewInv'
<1>1. /\ Views!Takes(a, "workspace") /\ Views!Ends(a)
      /\ UNCHANGED <<artifact, artifactRow, features, glb, sceneData, verified>>
  BY DEF Views!workspace, Views!files, Views!caches
<1>2. /\ Named(copy[a], artifact)
      /\ copy[a].identity = artifact.identity => copy[a].of = copy[a].asked
  BY <1>1, ViewTakes, AtStep, ReliedOn
<1>3. CASE copy[a].identity = artifact.identity
  <2>1. /\ answer'.kind = "workspace" /\ answer'.asked = copy[a].asked /\ answer'.of = copy[a].of
        /\ answer'.there = artifact.bytes
    BY <1>3 DEF Views!workspace, Views!Answers, Views!asked
  <2>2. Views!AnswerIsOfItsRevision'
    BY <1>2, <1>3, <2>1 DEF Views!AnswerIsOfItsRevision, Named
  <2>. QED  BY <1>1, <2>2, CachesStay, ViewEnds
<1>4. CASE copy[a].identity # artifact.identity
  BY <1>1, <1>4, CachesStay, AnswerStays, ViewEnds DEF Views!workspace
<1>. QED  BY <1>3, <1>4

LEMMA CompareKeeps ==
  ASSUME ViewInv, NEW a \in Views!Actor, Views!compare(a)
  PROVE  ViewInv'
<1>1. /\ Views!Ends(a) /\ UNCHANGED <<artifact, artifactRow, features, glb, sceneData, verified>>
  BY DEF Views!compare, Views!files, Views!caches
<1>2. PICK kind \in {"features", "scene"} :
        /\ Views!Takes(a, kind)
        /\ IF copy[a].identity = artifact.identity \/ artifact.bytes = copy[a].asked
           THEN Views!Answers(a, kind, artifact.bytes)
           ELSE UNCHANGED answer
  BY DEF Views!compare, Views!asked
<1>3. CASE UNCHANGED answer
  BY <1>1, <1>3, CachesStay, AnswerStays, ViewEnds
<1>4. CASE /\ copy[a].identity = artifact.identity \/ artifact.bytes = copy[a].asked
           /\ Views!Answers(a, kind, artifact.bytes)
  <2>1. CASE kind = "features"
    <3>1. ViewMade(copy[a]) /\ Named(copy[a], artifact)
      BY <1>2, <2>1, ViewTakes, AtStep, ReliedOn
    <3>2. /\ answer'.kind = "features" /\ answer'.asked = copy[a].asked
          /\ answer'.of = copy[a].of /\ answer'.moved = copy[a].moved
          /\ answer'.there = artifact.bytes
      BY <1>4, <2>1 DEF Views!Answers, Views!asked
    <3>3. Views!AnswerIsOfItsRevision'
      BY <1>4, <3>1, <3>2 DEF Views!AnswerIsOfItsRevision, ViewMade, Named
    <3>. QED  BY <1>1, <3>3, CachesStay, ViewEnds
  <2>2. CASE kind = "scene"
    <3> DEFINE r == copy[a].asked
    <3>1. r \in Views!Revision /\ glb[r].size # 0
      BY <1>2, <2>2, ViewTakes, AtStep, ReliedOn
    <3>2. glb[r].asked = r /\ ViewMade(glb[r])
      BY <3>1 DEF ViewInv, ViewCaches, ScenesFit
    <3>3. /\ answer'.kind = "scene" /\ answer'.asked = r
          /\ answer'.of = glb[r].of /\ answer'.moved = glb[r].moved
      BY <1>4, <2>2 DEF Views!Answers, Views!asked
    <3>4. Views!AnswerIsOfItsRevision'
      BY <3>2, <3>3 DEF Views!AnswerIsOfItsRevision, ViewMade
    <3>. QED  BY <1>1, <3>4, CachesStay, ViewEnds
  <2>. QED  BY <2>1, <2>2
<1>. QED  BY <1>2, <1>3, <1>4

LEMMA ReplaceStepKeeps ==
  ASSUME ViewInv, NEW a \in Views!Actor, Views!_publish_all(a)
  PROVE  ViewInv'
<1> DEFINE c == copy[a]
<1>1. /\ Views!Takes(a, "replace_step") /\ Views!Becomes(a, Tail(script[a]), c)
      /\ artifact' = [bytes |-> c.asked, identity |-> artifact.identity + 1]
      /\ UNCHANGED <<artifactRow, features, glb, sceneData, verified, answer>>
  BY DEF Views!_publish_all, Views!Goes, Views!GoesWith, Views!asked, Views!caches
<1>2. /\ script[a] = D1 /\ Relies(D1, c, artifact, glb) /\ c \in Entry
      /\ Tail(script[a]) \in Seq(ViewStep) /\ artifact.identity \in Nat \ {0}
  BY <1>1, ViewTakes, AtStep DEF Artifact
<1>3. Fresh(c) /\ Sized(c) /\ c.asked \in Views!Revision
  BY <1>2, ReliedOn
<1>4. artifact' \in Artifact /\ artifact'.identity = artifact.identity + 1
  BY <1>1, <1>2, <1>3 DEF Artifact
<1>5. FeaturesFit'
  <2>1. ASSUME NEW e \in Entry, Named(e, artifact) PROVE Named(e, artifact')
    BY <1>2, <1>4, <2>1 DEF Named, Entry
  <2>2. \A r \in Views!Revision : features[r] \in Entry
    BY DEF ViewInv, ViewCaches, FeaturesFit
  <2>. QED  BY <1>1, <2>1, <2>2 DEF ViewInv, ViewCaches, FeaturesFit
<1>6. VerifiedFits'
  BY <1>1, <1>2, <1>4 DEF ViewInv, ViewCaches, VerifiedFits
<1>7. ViewCaches'
  BY <1>1, <1>4, <1>5, <1>6 DEF ViewInv, ViewCaches, ScenesFit
<1>8. Relies(Tail(script[a]), c, artifact', glb')
  BY <1>2, <1>3 DEF Relies, D2
<1>9. Follows(artifact, artifact') /\ Publishes(glb, glb')
  BY <1>1, <1>4 DEF Follows, Publishes
<1>. QED  BY <1>1, <1>2, <1>7, <1>8, <1>9, AnswerStays, ViewMoves DEF Views!Becomes

LEMMA IndexKeeps ==
  ASSUME ViewInv, NEW a \in Views!Actor, Views!publish_part_build(a)
  PROVE  ViewInv'
<1> DEFINE c == copy[a]
<1>1. /\ Views!Takes(a, "index") /\ Views!GoesWith(a, c) /\ artifactRow' = c.asked
      /\ UNCHANGED <<artifact, features, glb, sceneData, verified, answer>>
  BY DEF Views!publish_part_build, Views!Goes, Views!asked, Views!caches
<1>2. script[a] = D2 /\ Relies(D2, c, artifact, glb) /\ c \in Entry
  BY <1>1, ViewTakes, AtStep
<1>3. Fresh(c) /\ Sized(c) /\ c.asked \in Views!Revision
  BY <1>2, ReliedOn
<1>4. ViewCaches'
  BY <1>1, <1>3 DEF ViewInv, ViewCaches, FeaturesFit, ScenesFit, VerifiedFits
<1>5. Relies(Tail(script[a]), c, artifact, glb)
  BY <1>2, <1>3 DEF Relies, D3
<1>. QED  BY <1>1, <1>2, <1>4, <1>5, AnswerStays, ViewGoes

LEMMA ViewSteps ==
  ASSUME ViewInv, Views!Next
  PROVE  ViewInv'
<1>1. ASSUME NEW v \in Viewer,
             \/ Views!View(v) \/ Views!_read_cache(v) \/ Views!read_scene(v) \/ Views!compare(v)
             \/ Views!_verify_bytes(v) \/ Views!model(v)
      PROVE  ViewInv'
  BY <1>1, RequestsKeep, ReadCacheKeeps, ReadSceneKeeps, CompareKeeps, VerifyBytesKeeps, ModelKeeps
     DEF Views!Actor
<1>2. ASSUME NEW w \in Worker,
             \/ Views!Query(w) \/ Views!extract_step_features(w) \/ Views!_write_cache(w)
             \/ Views!cached(w) \/ Views!mesh(w) \/ Views!digest(w) \/ Views!archive(w)
             \/ Views!workspace(w)
      PROVE  ViewInv'
  BY <1>2, RequestsKeep, ReadersKeep, WriteCacheKeeps, CachedKeeps, WorkspaceKeeps DEF Views!Actor
<1>3. ASSUME NEW b \in Builder,
             Views!Build(b) \/ Views!_publish_all(b) \/ Views!publish_part_build(b)
      PROVE  ViewInv'
  BY <1>3, RequestsKeep, ReplaceStepKeeps, IndexKeeps DEF Views!Actor
<1>4. ASSUME NEW a \in Views!Actor,
             \/ Views!resolve_binding(a) \/ Views!_verified_artifact(a) \/ Views!stat(a)
             \/ Views!replace_glb(a) \/ Views!replace_metadata(a) \/ Views!Stop(a)
      PROVE  ViewInv'
  BY <1>4, BindKeeps, VerifyKeeps, ReadersKeep, ReplaceGlbKeeps, ReplaceMetadataKeeps,
     StopKeepsViews
<1>. QED  BY <1>1, <1>2, <1>3, <1>4 DEF Views!Next

LEMMA ViewStarts ==
  ASSUME Views!Init
  PROVE  ViewInv
<1>1. Views!Nothing \in Entry /\ Views!Nothing.size = 0
  BY DEF Views!Nothing, Entry
<1>2. 1 \in Views!Revision
  BY RevisionAssumption DEF Views!Revision
<1>3. ViewCaches
  <2>1. artifact \in Artifact /\ artifactRow \in Views!Revision
    BY <1>2 DEF Views!Init, Artifact
  <2>. QED
    BY <1>1, <2>1 DEF Views!Init, ViewCaches, FeaturesFit, ScenesFit, VerifiedFits, Scenes
<1>4. /\ script \in [Views!Actor -> Seq(ViewStep)] /\ copy \in [Views!Actor -> Entry]
      /\ \A a \in Views!Actor : script[a] = <<>>
  BY <1>1 DEF Views!Init
<1>5. Views!AnswerIsOfItsRevision
  BY DEF Views!Init, Views!AnswerIsOfItsRevision, Views!NoAnswer
<1>. QED  BY <1>3, <1>4, <1>5 DEF ViewInv, Relies

LEMMA ViewAlways == WorkbenchSpec => []ViewInv
<1>1. WorkbenchInit => ViewInv
  BY ViewStarts DEF WorkbenchInit
<1>2. ViewInv /\ [WorkbenchNext]_workbenchVars => ViewInv'
  <2> SUFFICES ASSUME ViewInv, [WorkbenchNext]_workbenchVars PROVE ViewInv'
    OBVIOUS
  <2>1. CASE Views!Next
    BY <2>1, ViewSteps
  <2>2. CASE UNCHANGED viewVars
    <3>1. UNCHANGED <<artifact, artifactRow, features, glb, sceneData, verified, script, copy, answer>>
      BY <2>2 DEF viewVars
    <3>2. ViewCaches' /\ Views!AnswerIsOfItsRevision'
      BY <3>1, CachesStay, AnswerStays
    <3>. QED  BY <3>1, <3>2 DEF ViewInv
  <2>. QED
    BY <2>1, <2>2 DEF WorkbenchNext, workbenchVars, fileVars
<1>. QED  BY <1>1, <1>2, PTL DEF WorkbenchSpec

(* What is answered about a part is of the revision it names, for any number  *)
(* of viewers, workers, builders and revisions, however builds replace the    *)
(* file while jobs read it; only a file that went and came back between two   *)
(* checks may differ, and no workspace then.  (measurement/service.py, viewer/ *)
(* services: extract_and_cache verifies the file before and after it reads.)  *)
THEOREM AnswersAreOfTheirRevision == WorkbenchSpec => []AnswerIsOfItsRevision
<1>1. ViewInv => AnswerIsOfItsRevision
  BY DEF ViewInv, AnswerIsOfItsRevision
<1>. QED  BY <1>1, ViewAlways, PTL

-----------------------------------------------------------------------------
(* The manifest of a project.                                              *)

PartKey == {"a", "b", "c"}
Ways == PartKey \cup {"beside"}

\* No two parts have an export in common.
OwnExports(all) ==
  \A q, r \in all : \A s \in Projects!Made(q), t \in Projects!Made(r) : s.path = t.path => q = r

LEMMA ManifestKeys ==
  ASSUME manifest \in Projects!Manifests
  PROVE  /\ DOMAIN Projects!parts = {1, 2, 3}
         /\ Projects!parts[1].key = "a" /\ Projects!parts[2].key = "b" /\ Projects!parts[3].key = "c"
<1> DEFINE g == Projects!Good
<1> DEFINE fields == {"key", "aliases", "status", "package", "artifacts"}
<1>1. /\ DOMAIN g = {1, 2, 3} /\ g[1].key = "a" /\ g[2].key = "b" /\ g[3].key = "c"
      /\ DOMAIN g[1] = fields /\ DOMAIN g[2] = fields /\ DOMAIN g[3] = fields
  BY DEF Projects!Good, Projects!ManifestPart
<1>2. CASE manifest = "good"
  BY <1>1, <1>2 DEF Projects!parts, g
<1>3. CASE manifest = "mixed"
  <2>1. Projects!parts = [g EXCEPT ![2].status = "reference", ![3].status = "retired"]
    BY <1>3 DEF Projects!parts
  <2>. HIDE DEF g
  <2>. QED  BY <1>1, <2>1
<1>4. CASE manifest = "retired"
  <2>1. Projects!parts = [g EXCEPT ![1].status = "retired", ![2].status = "retired", ![3].status = "retired"]
    BY <1>4 DEF Projects!parts
  <2>. HIDE DEF g
  <2>. QED  BY <1>1, <2>1
<1>5. CASE manifest = "foreign"
  BY <1>1, <1>5 DEF Projects!parts, g
<1>6. CASE manifest = "shared"
  BY <1>1, <1>6 DEF Projects!parts, g
<1>7. CASE manifest = "onePath"
  BY <1>1, <1>7 DEF Projects!parts, g
<1>8. CASE manifest = "twoSteps"
  BY <1>1, <1>8 DEF Projects!parts, g
<1>9. CASE manifest = "noStep"
  BY <1>1, <1>9 DEF Projects!parts, g
<1>10. CASE manifest = "outside"
  BY <1>1, <1>10 DEF Projects!parts, g
<1>11. CASE manifest = "suffix"
  BY <1>1, <1>11 DEF Projects!parts, g
<1>. QED
  BY <1>2, <1>3, <1>4, <1>5, <1>6, <1>7, <1>8, <1>9, <1>10, <1>11 DEF Projects!Manifests

LEMMA PartsByKey ==
  ASSUME manifest \in Projects!Manifests
  PROVE  /\ \A p \in Projects!Parts : p.key \in PartKey
         /\ \A p, q \in Projects!Parts : p.key = q.key => p = q
         /\ \A k \in PartKey : \E p \in Projects!Parts : p.key = k
         /\ \A i \in {1, 2, 3} : Projects!parts[i] \in Projects!Parts
<1>1. Projects!Parts = {Projects!parts[1], Projects!parts[2], Projects!parts[3]}
  BY ManifestKeys DEF Projects!Parts
<1>. QED  BY <1>1, ManifestKeys DEF PartKey

\* The part of a key, among these parts.
PartIn(all, k) == CHOOSE p \in all : p.key = k

LEMMA PartOfKey ==
  ASSUME manifest \in Projects!Manifests, NEW k \in PartKey
  PROVE  /\ PartIn(Projects!Parts, k) \in Projects!Parts /\ PartIn(Projects!Parts, k).key = k
         /\ Projects!PartOf(k) = PartIn(Projects!Parts, k)
BY PartsByKey DEF PartIn, Projects!PartOf

LEMMA ManifestStays ==
  ASSUME manifest' = manifest
  PROVE  Projects!Parts' = Projects!Parts /\ Projects!Paths' = Projects!Paths
<1>1. Projects!Parts' = Projects!Parts
  BY DEF Projects!Parts, Projects!parts
<1>. QED  BY <1>1 DEF Projects!Paths

LEMMA TargetsAreMade ==
  ASSUME manifest \in Projects!Manifests, NEW p \in Projects!Parts, NEW stl
  PROVE  /\ Projects!Targets(p, stl) \subseteq Projects!Paths
         /\ \A path \in Projects!Targets(p, stl) : \E s \in Projects!Made(p) : s.path = path
BY DEF Projects!Targets, Projects!_selected_artifacts, Projects!Paths

\* What is selected are parts of the manifest.
LEMMA SelectedParts ==
  ASSUME manifest \in Projects!Manifests, NEW mode
  PROVE  Projects!Selected(mode) \in Seq(Projects!Parts)
<1>1. ASSUME NEW W
      PROVE  Projects!Only(W) \in Seq(Projects!Parts)
  <2> DEFINE place(i) == IF Projects!parts[i] \in W THEN <<Projects!parts[i]>> ELSE <<>>
  <2>1. \A i \in {1, 2, 3} : place(i) \in Seq(Projects!Parts)
    BY PartsByKey
  <2>2. Projects!Only(W) = place(1) \o place(2) \o place(3)
    BY DEF Projects!Only
  <2>. HIDE DEF place
  <2>3. place(1) \o place(2) \in Seq(Projects!Parts)
    BY <2>1, ConcatProperties
  <2>4. place(1) \o place(2) \o place(3) \in Seq(Projects!Parts)
    BY <2>1, <2>3, ConcatProperties
  <2>. QED  BY <2>2, <2>4
<1>2. <<>> \in Seq(Projects!Parts)
  BY EmptySeq
<1>. QED  BY <1>1, <1>2 DEF Projects!Selected, Projects!active

-----------------------------------------------------------------------------
(* A project build keeps to its plan.                                      *)

JobStates == {"none", "refused", "parts", "leaving", "report", "bundle", "publish", "succeeded", "failed",
              "cancelled", "interrupted"}
TaskStep == {"idle", "lock", "prepare", "publish", "built", "failed", "cancelled"}
BuildOrder == [parts : Seq(PartKey), stl : BOOLEAN, report : BOOLEAN, bundle : BOOLEAN]

WindowOf(steps1) == {k \in PartKey : steps1[k] # "idle"}
UnderWay(steps1) == {k \in PartKey : steps1[k] \notin {"idle", "built", "failed", "cancelled"}}
BuiltBy(b, other) == IF b = "beside" THEN other.key ELSE b
PartThere(all, k, stl, exports) == \A path \in Projects!Targets(PartIn(all, k), stl) : exports[path] # "none"
PathsOfAll(all, done, stl) == UNION {Projects!Targets(PartIn(all, done[i]), stl) : i \in DOMAIN done}

\* The parts that are not left to submit are under way or in the results.
Followed(keys, rest1, steps1, done) ==
  /\ Len(rest1) <= Len(keys) /\ Len(done) = Len(keys)
  /\ \A j \in 1 .. Len(rest1) : rest1[j] = keys[(Len(keys) - Len(rest1)) + j]
  /\ \A i \in 1 .. Len(keys) :
       i <= Len(keys) - Len(rest1) => steps1[keys[i]] # "idle" \/ done[i] = keys[i]

OrderTyped ==
  /\ manifest \in Projects!Manifests /\ exported \in [Projects!Paths -> {"none", "old", "stale"} \cup PartKey]
  /\ partLock \in [PartKey -> {"free"} \cup Ways] /\ order \in BuildOrder /\ jobState \in JobStates
  /\ left \in Seq(PartKey) /\ task \in [Ways -> TaskStep]
  /\ beside \in [key : PartKey \cup {"none"}, stl : BOOLEAN]
  /\ results \in Seq(PartKey \cup {"none"}) /\ buildCancelled \in BOOLEAN

EndFits(state, plan1, rest1, steps1, done) ==
  /\ state = "parts" => Followed(plan1.parts, rest1, steps1, done)
  /\ state \in {"none", "refused", "interrupted", "report", "bundle", "publish", "succeeded"} =>
       WindowOf(steps1) = {}
  /\ state \in {"failed", "cancelled"} => UnderWay(steps1) = {}
  /\ state \in {"report", "bundle", "publish", "succeeded"} => done = plan1.parts
  /\ state = "none" => done = <<>>
OutputsFit(state, plan1, done, all, paper, packed) ==
  /\ state \in {"bundle", "publish", "succeeded"} /\ plan1.report => paper = plan1.parts
  /\ state \in {"publish", "succeeded"} /\ plan1.bundle => packed = PathsOfAll(all, done, plan1.stl)
BuiltAreThere(all, plan1, steps1, done, exports) ==
  \A k \in PartKey :
    (steps1[k] = "built" \/ \E i \in 1 .. Len(done) : done[i] = k) => PartThere(all, k, plan1.stl, exports)
LocksFit(steps1, locks, other) ==
  /\ steps1["beside"] # "idle" => other.key \in PartKey
  /\ \A b \in Ways : steps1[b] \in {"prepare", "publish"} => locks[BuiltBy(b, other)] = b
OwnWhileBuilt(all, steps1) == (\E b \in Ways : steps1[b] # "idle") => OwnExports(all)
ExportsOwn(all, exports) ==
  \A p \in all : \A s \in Projects!Made(p) : exports[s.path] \in {"none", "old", "stale", p.key}

OrderInv ==
  /\ OrderTyped /\ Cardinality(WindowOf(task)) <= CadWorkers
  /\ EndFits(jobState, order, left, task, results)
  /\ OutputsFit(jobState, order, results, Projects!Parts, buildReport, bundle)
  /\ BuiltAreThere(Projects!Parts, order, task, results, exported)
  /\ LocksFit(task, partLock, beside) /\ OwnWhileBuilt(Projects!Parts, task)
  /\ ExportsOwn(Projects!Parts, exported)

LEMMA KeysAreFew ==
  ASSUME NEW W \in SUBSET PartKey
  PROVE  IsFiniteSet(W) /\ Cardinality(W) \in Nat
<1>1. IsFiniteSet(PartKey)
  <2>1. IsFiniteSet({"a"})
    BY FS_Singleton
  <2>2. IsFiniteSet({"a"} \cup {"b"})
    BY <2>1, FS_AddElement
  <2>3. IsFiniteSet(({"a"} \cup {"b"}) \cup {"c"})
    BY <2>2, FS_AddElement
  <2>4. PartKey = ({"a"} \cup {"b"}) \cup {"c"}
    BY DEF PartKey
  <2>. QED  BY <2>3, <2>4
<1>2. IsFiniteSet(W)
  BY <1>1, FS_Subset
<1>. QED  BY <1>2, FS_CardinalityType

\* A smaller window is not too large.
LEMMA WindowShrinks ==
  ASSUME NEW W \in SUBSET PartKey, NEW V \in SUBSET W, Cardinality(W) <= CadWorkers, CadWorkers \in Nat
  PROVE  Cardinality(V) <= CadWorkers
<1>1. Cardinality(V) <= Cardinality(W)
  BY KeysAreFew, FS_Subset
<1>. QED  BY <1>1, KeysAreFew

-----------------------------------------------------------------------------
(* The steps of a build.                                                   *)

\* The build of a part or of none goes on; nothing of the job changes.
LEMMA TaskSteps ==
  ASSUME OrderInv, NEW b \in Ways, NEW step1 \in TaskStep,
         task' = [task EXCEPT ![b] = step1], task[b] \notin {"idle", "built", "failed", "cancelled"},
         b # "beside" => step1 # "idle",
         UNCHANGED <<manifest, order, jobState, left, results, buildCancelled, buildReport, bundle, beside>>,
         partLock' \in [PartKey -> {"free"} \cup Ways],
         exported' \in [Projects!Paths -> {"none", "old", "stale"} \cup PartKey],
         LocksFit(task', partLock', beside'), ExportsOwn(Projects!Parts, exported'),
         \A path \in Projects!Paths : exported[path] # "none" => exported'[path] # "none",
         b # "beside" /\ step1 = "built" => PartThere(Projects!Parts, b, order.stl, exported')
  PROVE  OrderInv'
<1> DEFINE all == Projects!Parts
<1>1. all' = all /\ Projects!Paths' = Projects!Paths
  BY ManifestStays
<1>2. manifest \in Projects!Manifests
  BY DEF OrderInv, OrderTyped
<1>3. task'[b] = step1 /\ \A a \in Ways : a # b => task'[a] = task[a]
  BY DEF OrderInv, OrderTyped
<1>4. OrderTyped'
  BY <1>1 DEF OrderInv, OrderTyped
<1>5. WindowOf(task') = WindowOf(task) /\ UnderWay(task') \subseteq UnderWay(task)
      /\ \A k \in PartKey : task[k] # "idle" => task'[k] # "idle"
  <2>1. ASSUME NEW k \in PartKey
        PROVE  /\ task'[k] # "idle" <=> task[k] # "idle"
               /\ task'[k] \notin {"idle", "built", "failed", "cancelled"} =>
                    task[k] \notin {"idle", "built", "failed", "cancelled"}
    <3>1. k \in Ways /\ k # "beside"
      BY DEF Ways, PartKey
    <3>2. CASE k = b
      BY <1>3, <3>1, <3>2
    <3>3. CASE k # b
      BY <1>3, <3>1, <3>3
    <3>. QED  BY <3>2, <3>3
  <2>. QED  BY <2>1 DEF WindowOf, UnderWay
<1>6. EndFits(jobState, order, left, task', results)
  <2>1. \A k \in PartKey : task[k] # "idle" => task'[k] # "idle"
    BY <1>5
  <2>2. jobState = "parts" => Followed(order.parts, left, task', results)
    <3>1. ASSUME jobState = "parts"
          PROVE  Followed(order.parts, left, task', results)
      <4>1. Followed(order.parts, left, task, results) /\ order.parts \in Seq(PartKey)
        BY <3>1 DEF OrderInv, EndFits, OrderTyped, BuildOrder
      <4>. QED  BY <2>1, <4>1 DEF Followed
    <3>. QED  BY <3>1
  <2>. QED  BY <1>5, <2>2 DEF OrderInv, EndFits
<1>7. BuiltAreThere(all, order, task', results, exported')
  <2>1. ASSUME NEW k \in PartKey, task'[k] = "built" \/ \E i \in 1 .. Len(results) : results[i] = k
        PROVE  PartThere(all, k, order.stl, exported')
    <3>1. PartIn(all, k) \in all
      BY <1>2, PartOfKey
    <3>2. PartThere(all, k, order.stl, exported) => PartThere(all, k, order.stl, exported')
      BY <1>2, <3>1, TargetsAreMade DEF PartThere
    <3>3. CASE k = b /\ step1 = "built"
      <4>1. b # "beside"
        BY <3>3 DEF PartKey
      <4>. QED  BY <3>3, <4>1
    <3>4. CASE ~(k = b /\ step1 = "built")
      <4>1. task[k] = "built" \/ \E i \in 1 .. Len(results) : results[i] = k
        BY <1>3, <2>1, <3>4 DEF Ways
      <4>. QED  BY <3>2, <4>1 DEF OrderInv, BuiltAreThere
    <3>. QED  BY <3>3, <3>4
  <2>. QED  BY <2>1 DEF BuiltAreThere
<1>8. OwnWhileBuilt(all, task')
  BY DEF OrderInv, OwnWhileBuilt
<1>. HIDE DEF all
<1>9. OutputsFit(jobState', order', results', all', buildReport', bundle')
  BY <1>1 DEF OrderInv, OutputsFit, all
<1>10. /\ Cardinality(WindowOf(task')) <= CadWorkers /\ EndFits(jobState', order', left', task', results')
       /\ BuiltAreThere(all', order', task', results', exported') /\ OwnWhileBuilt(all', task')
       /\ ExportsOwn(all', exported')
  BY <1>1, <1>5, <1>6, <1>7, <1>8 DEF OrderInv, all
<1>. QED  BY <1>4, <1>9, <1>10 DEF OrderInv, all

\* A build that ends gives up its lock.
LEMMA EndsBuild ==
  ASSUME OrderInv, NEW b \in Ways, NEW end \in TaskStep, Projects!Ends(b, end),
         end \notin {"prepare", "publish"}
  PROVE  /\ LocksFit(task', partLock', beside') /\ partLock' \in [PartKey -> {"free"} \cup Ways]
         /\ task' = [task EXCEPT ![b] = IF b = "beside" THEN "idle" ELSE end] /\ beside' = beside
<1>1. /\ task' = [task EXCEPT ![b] = IF b = "beside" THEN "idle" ELSE end] /\ beside' = beside
      /\ partLock' = [k \in PartKey |-> IF partLock[k] = b THEN "free" ELSE partLock[k]]
  BY DEF Projects!Ends, Projects!Key, PartKey
<1>2. task'[b] \notin {"prepare", "publish"} /\ (b = "beside" => task'[b] = "idle")
      /\ \A a \in Ways : a # b => task'[a] = task[a]
  BY <1>1 DEF OrderInv, OrderTyped
<1>3. partLock' \in [PartKey -> {"free"} \cup Ways]
  BY <1>1 DEF OrderInv, OrderTyped
<1>4. ASSUME NEW a \in Ways, task'[a] \in {"prepare", "publish"}
      PROVE  partLock'[BuiltBy(a, beside)] = a
  <2>1. a # b /\ task[a] \in {"prepare", "publish"}
    BY <1>2, <1>4
  <2>2. partLock[BuiltBy(a, beside)] = a
    BY <2>1 DEF OrderInv, LocksFit
  <2>3. BuiltBy(a, beside) \in PartKey
    BY <2>1 DEF OrderInv, LocksFit, BuiltBy, Ways
  <2>. QED  BY <1>1, <2>1, <2>2, <2>3
<1>5. task'["beside"] # "idle" => beside'.key \in PartKey
  BY <1>1, <1>2 DEF OrderInv, LocksFit, Ways
<1>. QED  BY <1>1, <1>3, <1>4, <1>5 DEF LocksFit

LEMMA CheckpointKeeps ==
  ASSUME OrderInv, NEW b \in Ways, Projects!checkpoint(b)
  PROVE  OrderInv'
<1>1. /\ task[b] \in {"lock", "prepare"} /\ Projects!Ends(b, "cancelled")
      /\ UNCHANGED <<manifest, order, jobState, left, results, buildCancelled, buildReport, bundle, exported>>
  BY DEF Projects!checkpoint, Projects!Others, Projects!running, Projects!outputs
<1> DEFINE step1 == IF b = "beside" THEN "idle" ELSE "cancelled"
<1>2. step1 \in TaskStep /\ (b # "beside" => step1 # "idle") /\ step1 # "built" /\ "cancelled" \in TaskStep
  BY DEF TaskStep
<1>3. /\ LocksFit(task', partLock', beside') /\ partLock' \in [PartKey -> {"free"} \cup Ways]
      /\ task' = [task EXCEPT ![b] = step1] /\ beside' = beside
  BY <1>1, <1>2, EndsBuild
<1>4. /\ exported' \in [Projects!Paths -> {"none", "old", "stale"} \cup PartKey]
      /\ ExportsOwn(Projects!Parts, exported')
  BY <1>1 DEF OrderInv, OrderTyped
<1>. HIDE DEF step1
<1>. QED  BY <1>1, <1>2, <1>3, <1>4, TaskSteps

LEMMA LockKeeps ==
  ASSUME OrderInv, NEW b \in Ways, Projects!_part_build_lock(b)
  PROVE  OrderInv'
<1> DEFINE k == BuiltBy(b, beside)
<1>1. /\ task[b] = "lock" /\ partLock[k] = "free"
      /\ task' = [task EXCEPT ![b] = "prepare"] /\ partLock' = [partLock EXCEPT ![k] = b]
      /\ UNCHANGED <<manifest, order, jobState, left, results, buildCancelled, buildReport, bundle, exported, beside>>
  BY DEF Projects!_part_build_lock, Projects!Others, Projects!running, Projects!outputs, Projects!At,
         Projects!Built, BuiltBy
<1>2. k \in PartKey
  BY <1>1 DEF OrderInv, LocksFit, BuiltBy, Ways
<1>. HIDE DEF k
<1>3. partLock'[k] = b /\ (\A l \in PartKey : l # k => partLock'[l] = partLock[l])
      /\ partLock' \in [PartKey -> {"free"} \cup Ways]
  BY <1>1, <1>2 DEF OrderInv, OrderTyped
<1>4. task'[b] = "prepare" /\ \A a \in Ways : a # b => task'[a] = task[a]
  BY <1>1 DEF OrderInv, OrderTyped
<1>5. ASSUME NEW a \in Ways, task'[a] \in {"prepare", "publish"}
      PROVE  partLock'[BuiltBy(a, beside)] = a
  <2>1. CASE a = b
    BY <2>1, <1>3 DEF k
  <2>2. CASE a # b
    <3>1. partLock[BuiltBy(a, beside)] = a /\ BuiltBy(a, beside) \in PartKey
      BY <1>4, <1>5, <2>2 DEF OrderInv, LocksFit, BuiltBy, Ways
    <3>2. a # "free"
      BY DEF Ways, PartKey
    <3>3. BuiltBy(a, beside) # k
      BY <1>1, <3>1, <3>2
    <3>. QED  BY <1>3, <3>1, <3>3
  <2>. QED  BY <2>1, <2>2
<1>6. task'["beside"] # "idle" => beside'.key \in PartKey
  BY <1>1, <1>4 DEF OrderInv, LocksFit, Ways
<1>7. LocksFit(task', partLock', beside')
  BY <1>1, <1>5, <1>6 DEF LocksFit
<1>8. /\ exported' \in [Projects!Paths -> {"none", "old", "stale"} \cup PartKey]
      /\ ExportsOwn(Projects!Parts, exported') /\ "prepare" \in TaskStep
  BY <1>1 DEF OrderInv, OrderTyped, TaskStep
<1>. QED  BY <1>1, <1>3, <1>7, <1>8, TaskSteps

LEMMA PrepareKeeps ==
  ASSUME OrderInv, NEW b \in Ways, Projects!prepare(b)
  PROVE  OrderInv'
<1>1. /\ task[b] = "prepare"
      /\ UNCHANGED <<manifest, order, jobState, left, results, buildCancelled, buildReport, bundle, exported>>
      /\ \/ task' = [task EXCEPT ![b] = "publish"] /\ UNCHANGED <<partLock, beside>>
         \/ Projects!Ends(b, "failed")
  BY DEF Projects!prepare, Projects!Goes, Projects!Others, Projects!running, Projects!outputs, Projects!At
<1>2. /\ exported' \in [Projects!Paths -> {"none", "old", "stale"} \cup PartKey]
      /\ ExportsOwn(Projects!Parts, exported') /\ "publish" \in TaskStep /\ "failed" \in TaskStep
  BY <1>1 DEF OrderInv, OrderTyped, TaskStep
<1>3. CASE task' = [task EXCEPT ![b] = "publish"] /\ UNCHANGED <<partLock, beside>>
  <2>1. task'[b] = "publish" /\ \A a \in Ways : a # b => task'[a] = task[a]
    BY <1>3 DEF OrderInv, OrderTyped
  <2>2. LocksFit(task', partLock', beside')
    <3>1. \A a \in Ways : task'[a] \in {"prepare", "publish"} => task[a] \in {"prepare", "publish"}
      BY <1>1, <2>1
    <3>2. task'["beside"] # "idle" => task["beside"] # "idle"
      BY <1>1, <2>1 DEF Ways
    <3>. QED  BY <1>3, <3>1, <3>2 DEF OrderInv, LocksFit
  <2>3. partLock' \in [PartKey -> {"free"} \cup Ways]
    BY <1>3 DEF OrderInv, OrderTyped
  <2>. QED  BY <1>1, <1>2, <1>3, <2>2, <2>3, TaskSteps
<1>4. CASE Projects!Ends(b, "failed")
  <2> DEFINE step1 == IF b = "beside" THEN "idle" ELSE "failed"
  <2>1. step1 \in TaskStep /\ (b # "beside" => step1 # "idle") /\ step1 # "built"
    BY DEF TaskStep
  <2>2. /\ LocksFit(task', partLock', beside') /\ partLock' \in [PartKey -> {"free"} \cup Ways]
        /\ task' = [task EXCEPT ![b] = step1] /\ beside' = beside
    BY <1>2, <1>4, EndsBuild
  <2>. HIDE DEF step1
  <2>. QED  BY <1>1, <1>2, <2>1, <2>2, TaskSteps
<1>. QED  BY <1>1, <1>3, <1>4

LEMMA PublishKeeps ==
  ASSUME OrderInv, NEW b \in Ways, Projects!publish(b)
  PROVE  OrderInv'
<1> DEFINE k == BuiltBy(b, beside)
           stl == IF b = "beside" THEN beside.stl ELSE order.stl
           all == Projects!Parts
           written == Projects!Targets(Projects!PartOf(k), stl)
<1>1. /\ task[b] = "publish"
      /\ UNCHANGED <<manifest, order, jobState, left, results, buildCancelled, buildReport, bundle>>
      /\ exported' = [path \in Projects!Paths |-> IF path \in written THEN k ELSE exported[path]]
      /\ \E end \in {"failed", "cancelled", "built"} : Projects!Ends(b, end)
  BY DEF Projects!publish, Projects!Others, Projects!running, Projects!outputs, Projects!At,
         Projects!Built, BuiltBy
<1>2. k \in PartKey /\ manifest \in Projects!Manifests
  BY <1>1 DEF OrderInv, LocksFit, BuiltBy, Ways, OrderTyped
<1>3. PICK end \in {"failed", "cancelled", "built"} : Projects!Ends(b, end)
  BY <1>1
<1> DEFINE step1 == IF b = "beside" THEN "idle" ELSE end
<1>4. step1 \in TaskStep /\ (b # "beside" => step1 # "idle") /\ end \in TaskStep /\ end \notin {"prepare", "publish"}
  BY <1>3 DEF TaskStep
<1>5. /\ LocksFit(task', partLock', beside') /\ partLock' \in [PartKey -> {"free"} \cup Ways]
      /\ task' = [task EXCEPT ![b] = step1] /\ beside' = beside
  BY <1>3, <1>4, EndsBuild
<1>6. PartIn(all, k) \in all /\ PartIn(all, k).key = k /\ written = Projects!Targets(PartIn(all, k), stl)
  BY <1>2, PartOfKey
<1>7. OwnExports(all)
  BY <1>1 DEF OrderInv, OwnWhileBuilt
<1>8. b # "beside" => k = b /\ stl = order.stl
  BY DEF BuiltBy
<1>. HIDE DEF step1, k, stl, written
<1>9. exported' \in [Projects!Paths -> {"none", "old", "stale"} \cup PartKey]
  BY <1>1, <1>2 DEF OrderInv, OrderTyped
<1>10. \A path \in Projects!Paths : exported[path] # "none" => exported'[path] # "none"
  BY <1>1, <1>2 DEF PartKey
<1>11. ExportsOwn(all, exported')
  <2>1. ASSUME NEW p \in all, NEW s \in Projects!Made(p)
        PROVE  exported'[s.path] \in {"none", "old", "stale", p.key}
    <3>1. s.path \in Projects!Paths
      BY <2>1 DEF Projects!Paths
    <3>2. CASE s.path \in written
      <4>1. PICK t \in Projects!Made(PartIn(all, k)) : t.path = s.path
        BY <1>2, <1>6, <3>2, TargetsAreMade
      <4>2. p = PartIn(all, k)
        BY <1>6, <1>7, <4>1 DEF OwnExports
      <4>. QED  BY <1>1, <1>6, <3>1, <3>2, <4>2
    <3>3. CASE s.path \notin written
      BY <1>1, <3>1, <3>3 DEF OrderInv, ExportsOwn
    <3>. QED  BY <3>2, <3>3
  <2>. QED  BY <2>1 DEF ExportsOwn
<1>12. b # "beside" => PartThere(all, b, order.stl, exported')
  <2>1. ASSUME b # "beside", NEW path \in Projects!Targets(PartIn(all, b), order.stl)
        PROVE  exported'[path] # "none"
    <3>1. path \in written /\ path \in Projects!Paths
      BY <1>2, <1>6, <1>8, <2>1, TargetsAreMade
    <3>. QED  BY <1>1, <1>2, <3>1 DEF PartKey
  <2>. QED  BY <2>1 DEF PartThere
<1>. QED  BY <1>1, <1>4, <1>5, <1>9, <1>10, <1>11, <1>12, TaskSteps

-----------------------------------------------------------------------------
(* The steps of a job.                                                     *)

LEMMA OrderMoves ==
  ASSUME OrderInv, UNCHANGED <<manifest, exported, task, partLock, beside, order, left, results>>,
         jobState' \in JobStates, buildCancelled' \in BOOLEAN,
         EndFits(jobState', order, left, task, results),
         OutputsFit(jobState', order, results, Projects!Parts, buildReport', bundle')
  PROVE  OrderInv'
<1>1. Projects!Parts' = Projects!Parts /\ Projects!Paths' = Projects!Paths
  BY ManifestStays
<1>2. OrderTyped'
  BY <1>1 DEF OrderInv, OrderTyped
<1>. QED  BY <1>1, <1>2 DEF OrderInv

LEMMA CancelKeeps ==
  ASSUME OrderInv, Projects!Cancel
  PROVE  OrderInv'
<1>1. /\ UNCHANGED <<manifest, exported, task, partLock, beside, order, left, results, jobState, buildReport, bundle>>
      /\ buildCancelled' = TRUE
  BY DEF Projects!Cancel, Projects!running, Projects!tasks, Projects!outputs
<1>. QED  BY <1>1, OrderMoves DEF OrderInv, OrderTyped

LEMMA ShowsKeeps ==
  ASSUME OrderInv, Projects!Shows
  PROVE  OrderInv'
<1>1. UNCHANGED <<manifest, exported, task, partLock, beside, order, left, results, jobState, buildReport, bundle,
                  buildCancelled>>
  BY DEF Projects!Shows, Projects!running, Projects!tasks, Projects!outputs
<1>. QED  BY <1>1, OrderMoves DEF OrderInv, OrderTyped

LEMMA InterruptKeeps ==
  ASSUME OrderInv, Projects!Interrupt
  PROVE  OrderInv'
<1>1. /\ UNCHANGED <<manifest, exported, task, partLock, beside, order, left, results, buildReport, bundle,
                     buildCancelled>>
      /\ jobState' = "leaving"
  BY DEF Projects!Interrupt, Projects!tasks, Projects!outputs
<1>2. EndFits("leaving", order, left, task, results) /\ OutputsFit("leaving", order, results, Projects!Parts, buildReport, bundle)
  BY DEF EndFits, OutputsFit
<1>. QED  BY <1>1, <1>2, OrderMoves DEF OrderInv, OrderTyped, JobStates

LEMMA LeaveKeeps ==
  ASSUME OrderInv, Projects!Leave
  PROVE  OrderInv'
<1>1. /\ UNCHANGED <<manifest, exported, task, partLock, beside, order, left, results, buildReport, bundle,
                     buildCancelled>>
      /\ jobState' \in {"cancelled", "failed"} /\ Projects!Under = {}
  BY DEF Projects!Leave, Projects!GoesTo, Projects!tasks, Projects!outputs
<1>2. UnderWay(task) = {}
  BY <1>1 DEF UnderWay, Projects!Under, Projects!Key, PartKey
<1>3. /\ EndFits(jobState', order, left, task, results)
      /\ OutputsFit(jobState', order, results, Projects!Parts, buildReport, bundle)
  BY <1>1, <1>2 DEF EndFits, OutputsFit
<1>. QED  BY <1>1, <1>3, OrderMoves DEF OrderInv, OrderTyped, JobStates

\* Nothing is under way once nothing is in the window.
LEMMA EmptyWindow ==
  ASSUME NEW steps1, WindowOf(steps1) = {}
  PROVE  UnderWay(steps1) = {}
BY DEF WindowOf, UnderWay

LEMMA PaperKeeps ==
  ASSUME OrderInv, Projects!Report
  PROVE  OrderInv'
<1>1. /\ UNCHANGED <<manifest, exported, task, partLock, beside, order, left, results, bundle, buildCancelled>>
      /\ jobState = "report" /\ jobState' = IF buildCancelled THEN "cancelled" ELSE "bundle"
      /\ buildReport' = IF order.report /\ ~buildCancelled THEN results ELSE buildReport
  BY DEF Projects!Report, Projects!Unless, Projects!GoesTo, Projects!tasks, Projects!_write_json_atomic
<1>2. WindowOf(task) = {} /\ results = order.parts /\ UnderWay(task) = {}
  BY <1>1, EmptyWindow DEF OrderInv, EndFits
<1>3. EndFits(jobState', order, left, task, results)
  BY <1>1, <1>2 DEF EndFits
<1>4. OutputsFit(jobState', order, results, Projects!Parts, buildReport', bundle')
  BY <1>1, <1>2 DEF OutputsFit
<1>. QED  BY <1>1, <1>3, <1>4, OrderMoves DEF OrderInv, OrderTyped, JobStates

LEMMA PublishedKeeps ==
  ASSUME OrderInv, Projects!Publish
  PROVE  OrderInv'
<1>1. /\ UNCHANGED <<manifest, exported, task, partLock, beside, order, left, results, bundle, buildReport, buildCancelled>>
      /\ jobState = "publish" /\ jobState' = IF buildCancelled THEN "cancelled" ELSE "succeeded"
  BY DEF Projects!Publish, Projects!Unless, Projects!GoesTo, Projects!tasks, Projects!outputs
<1>2. WindowOf(task) = {} /\ results = order.parts /\ UnderWay(task) = {}
  BY <1>1, EmptyWindow DEF OrderInv, EndFits
<1>3. EndFits(jobState', order, left, task, results)
  BY <1>1, <1>2 DEF EndFits
<1>4. OutputsFit(jobState', order, results, Projects!Parts, buildReport, bundle)
  BY <1>1 DEF OrderInv, OutputsFit
<1>. QED  BY <1>1, <1>3, <1>4, OrderMoves DEF OrderInv, OrderTyped, JobStates

\* The paths of the parts in the results are there.
LEMMA ResultsAreThere ==
  ASSUME OrderInv, results = order.parts
  PROVE  /\ Projects!active_paths = PathsOfAll(Projects!Parts, results, order.stl)
         /\ \A path \in Projects!active_paths : path \in Projects!Paths /\ exported[path] # "none"
<1>1. manifest \in Projects!Manifests /\ results \in Seq(PartKey)
  BY DEF OrderInv, OrderTyped, BuildOrder
<1>2. DOMAIN results = 1 .. Len(results) /\ \A i \in DOMAIN results : results[i] \in PartKey
  BY <1>1
<1>3. \A i \in DOMAIN results : Projects!PartOf(results[i]) = PartIn(Projects!Parts, results[i])
  BY <1>1, <1>2, PartOfKey
<1>4. Projects!active_paths = PathsOfAll(Projects!Parts, results, order.stl)
  BY <1>3 DEF Projects!active_paths, PathsOfAll
<1>5. ASSUME NEW path \in Projects!active_paths
      PROVE  path \in Projects!Paths /\ exported[path] # "none"
  <2>1. PICK i \in DOMAIN results : path \in Projects!Targets(PartIn(Projects!Parts, results[i]), order.stl)
    BY <1>4, <1>5 DEF PathsOfAll
  <2>2. results[i] \in PartKey
    BY <1>2
  <2>3. PartIn(Projects!Parts, results[i]) \in Projects!Parts
    BY <1>1, <2>2, PartOfKey
  <2>4. path \in Projects!Paths
    BY <1>1, <2>1, <2>3, TargetsAreMade
  <2>5. PartThere(Projects!Parts, results[i], order.stl, exported)
    BY <1>2, <2>2 DEF OrderInv, BuiltAreThere
  <2>. QED  BY <2>1, <2>4, <2>5 DEF PartThere
<1>. QED  BY <1>4, <1>5

LEMMA BundleKeeps ==
  ASSUME OrderInv, Projects!create_bundle
  PROVE  OrderInv'
<1>1. /\ UNCHANGED <<manifest, exported, task, partLock, beside, order, left, results, buildReport, buildCancelled>>
      /\ jobState = "bundle"
      /\ \/ jobState' = "failed" /\ bundle' = bundle
         \/ /\ jobState' = IF buildCancelled THEN "cancelled" ELSE "publish"
            /\ bundle' = IF order.bundle /\ ~buildCancelled
                         THEN {path \in Projects!Paths : exported[path] # "none" /\ Projects!should_include(path)}
                         ELSE bundle
  BY DEF Projects!create_bundle, Projects!Unless, Projects!GoesTo, Projects!tasks
<1>2. WindowOf(task) = {} /\ results = order.parts /\ UnderWay(task) = {}
  BY <1>1, EmptyWindow DEF OrderInv, EndFits
<1>3. EndFits(jobState', order, left, task, results)
  BY <1>1, <1>2 DEF EndFits
<1>4. {path \in Projects!Paths : exported[path] # "none" /\ Projects!should_include(path)}
        = PathsOfAll(Projects!Parts, results, order.stl)
  BY <1>2, ResultsAreThere DEF Projects!should_include
<1>5. OutputsFit(jobState', order, results, Projects!Parts, buildReport', bundle')
  BY <1>1, <1>4 DEF OrderInv, OutputsFit
<1>. QED  BY <1>1, <1>3, <1>5, OrderMoves DEF OrderInv, OrderTyped, JobStates

LEMMA PartBuildKeeps ==
  ASSUME OrderInv, Projects!PartBuild
  PROVE  OrderInv'
<1>1. /\ UNCHANGED <<manifest, exported, order, jobState, left, results, buildCancelled, buildReport, bundle, partLock>>
      /\ task["beside"] = "idle" /\ task' = [task EXCEPT !["beside"] = "lock"]
  BY DEF Projects!PartBuild, Projects!submit_part, Projects!Idle, Projects!running, Projects!outputs
<1>2. \E p \in Projects!Parts : Projects!plan_scoped_part_build(p, FALSE) /\ beside' = [key |-> p.key, stl |-> FALSE]
  BY DEF Projects!PartBuild, Projects!submit_part, Projects!_resolve_part
<1>3. PICK p \in Projects!Parts : Projects!plan_scoped_part_build(p, FALSE) /\ beside' = [key |-> p.key, stl |-> FALSE]
  BY <1>2
<1>4. OwnExports(Projects!Parts)
  BY <1>3 DEF Projects!plan_scoped_part_build, Projects!_validate_output_ownership, OwnExports
<1>5. Projects!Parts' = Projects!Parts /\ Projects!Paths' = Projects!Paths /\ p.key \in PartKey
  BY <1>1, ManifestStays, PartsByKey DEF OrderInv, OrderTyped
<1>6. task'["beside"] = "lock" /\ (\A b \in Ways : b # "beside" => task'[b] = task[b]) /\ task' \in [Ways -> TaskStep]
  BY <1>1 DEF OrderInv, OrderTyped, Ways, TaskStep
<1>7. \A k \in PartKey : task'[k] = task[k]
  BY <1>6 DEF PartKey, Ways
<1>8. WindowOf(task') = WindowOf(task) /\ UnderWay(task') = UnderWay(task)
  BY <1>7 DEF WindowOf, UnderWay
<1>9. EndFits(jobState, order, left, task', results)
  <2>1. ASSUME jobState = "parts"
        PROVE  Followed(order.parts, left, task', results)
    <3>1. Followed(order.parts, left, task, results) /\ order.parts \in Seq(PartKey)
      BY <2>1 DEF OrderInv, EndFits, OrderTyped, BuildOrder
    <3>2. \A i \in 1 .. Len(order.parts) : task'[order.parts[i]] = task[order.parts[i]]
      BY <3>1, <1>7
    <3>. QED  BY <3>1, <3>2 DEF Followed
  <2>. QED  BY <1>8, <2>1 DEF OrderInv, EndFits
<1>10. BuiltAreThere(Projects!Parts, order, task', results, exported)
  BY <1>7 DEF OrderInv, BuiltAreThere
<1>11. LocksFit(task', partLock, beside')
  <2>1. ASSUME NEW b \in Ways, task'[b] \in {"prepare", "publish"}
        PROVE  partLock[BuiltBy(b, beside')] = b
    BY <1>6, <2>1 DEF OrderInv, LocksFit, BuiltBy
  <2>. QED  BY <1>3, <1>5, <2>1 DEF LocksFit
<1>12. OrderTyped'
  BY <1>1, <1>3, <1>5, <1>6 DEF OrderInv, OrderTyped
<1>. QED  BY <1>1, <1>4, <1>5, <1>8, <1>9, <1>10, <1>11, <1>12 DEF OrderInv, OwnWhileBuilt

LEMMA EndedKeeps ==
  ASSUME OrderInv, CadWorkers \in Nat, Projects!Crash
  PROVE  OrderInv'
<1>1. /\ jobState' = "interrupted" /\ order' = Projects!NoOrder /\ left' = <<>> /\ results' = <<>>
      /\ task' = [b \in Ways |-> IF b = "beside" THEN task[b] ELSE "idle"]
      /\ partLock' = [k \in PartKey |-> IF partLock[k] = "beside" THEN "beside" ELSE "free"]
      /\ buildCancelled' = FALSE /\ UNCHANGED <<manifest, exported, beside, buildReport, bundle>>
  BY DEF Projects!Crash, Projects!outputs, Projects!Building, Projects!Key, Ways, PartKey
<1>2. Projects!Parts' = Projects!Parts /\ Projects!Paths' = Projects!Paths
  BY <1>1, ManifestStays
<1>3. <<>> \in Seq(PartKey) /\ <<>> \in Seq(PartKey \cup {"none"}) /\ Len(<<>>) = 0
  BY EmptySeq
<1>4. /\ task'["beside"] = task["beside"] /\ \A b \in Ways : b # "beside" => task'[b] = "idle"
      /\ task' \in [Ways -> TaskStep] /\ partLock' \in [PartKey -> {"free"} \cup Ways]
  BY <1>1 DEF OrderInv, OrderTyped, Ways, TaskStep
<1>5. \A k \in PartKey : task'[k] = "idle"
  BY <1>4 DEF PartKey, Ways
<1>6. WindowOf(task') = {}
  BY <1>5 DEF WindowOf
<1>7. OrderTyped'
  <2>1. order' \in BuildOrder
    BY <1>1, <1>3 DEF Projects!NoOrder, BuildOrder
  <2>. QED  BY <1>1, <1>2, <1>3, <1>4, <2>1 DEF OrderInv, OrderTyped, JobStates
<1>8. Cardinality(WindowOf(task')) <= CadWorkers
  BY <1>6, FS_EmptySet
<1>9. /\ EndFits(jobState', order', left', task', results')
      /\ OutputsFit(jobState', order', results', Projects!Parts, buildReport', bundle')
  BY <1>1, <1>6 DEF EndFits, OutputsFit
<1>10. BuiltAreThere(Projects!Parts, order', task', results', exported)
  BY <1>1, <1>3, <1>5 DEF BuiltAreThere
<1>11. LocksFit(task', partLock', beside)
  <2>1. ASSUME NEW b \in Ways, task'[b] \in {"prepare", "publish"}
        PROVE  partLock'[BuiltBy(b, beside)] = b
    <3>1. b = "beside" /\ task[b] \in {"prepare", "publish"}
      BY <1>4, <2>1
    <3>2. partLock[BuiltBy(b, beside)] = b /\ BuiltBy(b, beside) \in PartKey
      BY <3>1 DEF OrderInv, LocksFit, BuiltBy
    <3>. QED  BY <1>1, <3>1, <3>2
  <2>. QED  BY <1>4, <2>1 DEF OrderInv, LocksFit
<1>12. OwnWhileBuilt(Projects!Parts, task')
  BY <1>4 DEF OrderInv, OwnWhileBuilt
<1>. QED  BY <1>1, <1>2, <1>7, <1>8, <1>9, <1>10, <1>11, <1>12 DEF OrderInv

-----------------------------------------------------------------------------
(* The beginning of a build, and what it does with a part that is done.    *)

\* A sequence has no more values than places.
LEMMA FewFirst ==
  ASSUME NEW keys \in Seq(PartKey), NEW n \in Nat, n <= Len(keys)
  PROVE  Cardinality({keys[i] : i \in 1 .. n}) <= n
<1> DEFINE I == 1 .. n
           T == {keys[i] : i \in I}
           f == [i \in I |-> keys[i]]
<1>1. IsFiniteSet(I) /\ Cardinality(I) = n
  BY FS_Interval
<1>2. f \in Surjection(I, T)
  BY DEF Surjection
<1>. HIDE DEF I, T, f
<1>3. Cardinality(T) <= Cardinality(I)
  BY <1>1, <1>2, FS_Surjection
<1>. QED  BY <1>1, <1>3 DEF T, I

\* A plan is carried out with its first parts under way.
LEMMA PlanKeeps ==
  ASSUME OrderInv, CadWorkers \in Nat, NEW keys \in Seq(PartKey), NEW n \in Nat, NEW all \in BOOLEAN,
         jobState = "none", n <= Len(keys), n <= CadWorkers, keys = <<>> => n = 0,
         keys # <<>> => OwnExports(Projects!Parts),
         order' = [parts |-> keys, stl |-> all, report |-> all, bundle |-> all],
         jobState' = IF keys = <<>> THEN "report" ELSE "parts",
         left' = SubSeq(keys, n + 1, Len(keys)),
         task' = [b \in Ways |-> IF b \in {keys[i] : i \in 1 .. n} THEN "lock" ELSE task[b]],
         results' = [i \in 1 .. Len(keys) |-> "none"],
         UNCHANGED <<manifest, exported, partLock, beside, buildCancelled, buildReport, bundle>>
  PROVE  OrderInv'
<1> DEFINE all0 == Projects!Parts
           firsts == {keys[i] : i \in 1 .. n}
<1>1. Projects!Parts' = all0 /\ Projects!Paths' = Projects!Paths
  BY ManifestStays
<1>2. WindowOf(task) = {}
  BY DEF OrderInv, EndFits
<1>3. firsts \subseteq PartKey
  OBVIOUS
<1>4. \A b \in Ways : task'[b] = IF b \in firsts THEN "lock" ELSE task[b]
  OBVIOUS
<1>. HIDE DEF firsts
<1>5. \A k \in PartKey : /\ k \in firsts => task'[k] = "lock"
                         /\ k \notin firsts => task'[k] = "idle"
  BY <1>2, <1>4 DEF WindowOf, Ways
<1>6. "beside" \notin firsts /\ task'["beside"] = task["beside"]
  BY <1>3, <1>4 DEF PartKey, Ways
<1>7. WindowOf(task') = firsts
  BY <1>3, <1>5 DEF WindowOf
<1>8. Cardinality(WindowOf(task')) <= CadWorkers
  <2>1. Cardinality(firsts) <= n
    BY FewFirst DEF firsts
  <2>2. Cardinality(firsts) \in Nat
    BY <1>3, KeysAreFew
  <2>. QED  BY <1>7, <2>1, <2>2
<1>9. /\ left' \in Seq(PartKey) /\ Len(left') = Len(keys) - n
      /\ \A j \in 1 .. Len(left') : left'[j] = keys[n + j]
  <2> DEFINE m == n + 1
             z == Len(keys)
  <2>1. m \in Int /\ z \in Int /\ \A i \in m .. z : keys[i] \in PartKey
    OBVIOUS
  <2>2. /\ left' = SubSeq(keys, m, z)
        /\ (IF m <= z THEN z - m + 1 ELSE 0) = z - n /\ z - m + 1 = z - n
        /\ \A i \in 1 .. z - n : m + i - 1 = n + i
    OBVIOUS
  <2>. HIDE DEF m, z
  <2>3. /\ SubSeq(keys, m, z) \in Seq(PartKey)
        /\ Len(SubSeq(keys, m, z)) = IF m <= z THEN z - m + 1 ELSE 0
        /\ \A i \in 1 .. z - m + 1 : SubSeq(keys, m, z)[i] = keys[m + i - 1]
    BY <2>1, SubSeqProperties
  <2>. QED  BY <2>2, <2>3 DEF z
<1>10. /\ results' \in Seq(PartKey \cup {"none"}) /\ Len(results') = Len(keys)
       /\ \A i \in 1 .. Len(keys) : results'[i] = "none"
  OBVIOUS
<1>11. task' \in [Ways -> TaskStep]
  BY DEF OrderInv, OrderTyped, TaskStep
<1>12. OrderTyped'
  <2>1. order' \in BuildOrder /\ jobState' \in JobStates
    BY DEF BuildOrder, JobStates
  <2>. QED  BY <1>1, <1>9, <1>10, <1>11, <2>1 DEF OrderInv, OrderTyped
<1>13. EndFits(jobState', order', left', task', results')
  <2>1. CASE keys = <<>>
    <3>1. firsts = {} /\ results' = <<>>
      BY <2>1, <1>10, EmptySeq DEF firsts
    <3>. QED  BY <1>7, <2>1, <3>1 DEF EndFits
  <2>2. CASE keys # <<>>
    <3>1. ASSUME NEW i \in 1 .. Len(keys), i <= n
          PROVE  task'[keys[i]] = "lock"
      <4>1. i \in 1 .. n /\ keys[i] \in PartKey
        BY <3>1
      <4>2. keys[i] \in firsts
        BY <4>1 DEF firsts
      <4>. QED  BY <1>5, <4>1, <4>2
    <3>2. Followed(keys, left', task', results')
      <4>1. Len(left') <= Len(keys) /\ Len(keys) - Len(left') = n
        BY <1>9
      <4>2. \A j \in 1 .. Len(left') : left'[j] = keys[(Len(keys) - Len(left')) + j]
        BY <1>9, <4>1
      <4>3. \A i \in 1 .. Len(keys) : i <= Len(keys) - Len(left') => task'[keys[i]] # "idle"
        BY <3>1, <4>1
      <4>. QED  BY <1>10, <4>1, <4>2, <4>3 DEF Followed
    <3>. QED  BY <2>2, <3>2 DEF EndFits
  <2>. QED  BY <2>1, <2>2
<1>14. OutputsFit(jobState', order', results', all0, buildReport', bundle')
  BY DEF OutputsFit
<1>15. BuiltAreThere(all0, order', task', results', exported')
  <2>1. \A k \in PartKey : task'[k] # "built"
    BY <1>5
  <2>2. \A k \in PartKey : k # "none"
    BY DEF PartKey
  <2>. QED  BY <1>10, <2>1, <2>2 DEF BuiltAreThere
<1>16. LocksFit(task', partLock', beside')
  <2>1. \A b \in Ways : task'[b] \in {"prepare", "publish"} => task[b] \in {"prepare", "publish"}
    BY <1>4
  <2>. QED  BY <1>6, <2>1 DEF OrderInv, LocksFit
<1>17. OwnWhileBuilt(all0, task')
  <2>1. CASE keys = <<>>
    BY <1>4, <2>1 DEF OrderInv, firsts, OwnWhileBuilt
  <2>2. CASE keys # <<>>
    BY <2>2 DEF OwnWhileBuilt
  <2>. QED  BY <2>1, <2>2
<1>18. ExportsOwn(all0, exported')
  BY DEF OrderInv
<1>. HIDE DEF all0
<1>. QED  BY <1>1, <1>8, <1>12, <1>13, <1>14, <1>15, <1>16, <1>17, <1>18 DEF OrderInv

LEMMA ProjectBuildKeeps ==
  ASSUME OrderInv, CadWorkers \in Nat, Projects!ProjectBuild
  PROVE  OrderInv'
<1>1. /\ jobState = "none"
      /\ UNCHANGED <<manifest, exported, buildCancelled, buildReport, bundle>>
      /\ \E r \in Projects!Requests : Projects!submit_project(r)
  BY DEF Projects!ProjectBuild, Projects!outputs
<1>2. PICK r \in Projects!Requests : Projects!submit_project(r)
  BY <1>1
<1> DEFINE p == Projects!Selected(r.mode)
           n == Projects!count(Len(p))
           keys == [i \in DOMAIN p |-> p[i].key]
           all == r.all \/ r.mode = "handoff"
<1>3. p \in Seq(Projects!Parts) /\ manifest \in Projects!Manifests
  BY SelectedParts DEF OrderInv, OrderTyped
<1>4. CASE Projects!Refused(p, all)
  <2>1. jobState' = "refused" /\ UNCHANGED <<order, left, results, task, partLock, beside>>
    BY <1>2, <1>4 DEF Projects!submit_project, Projects!tasks
  <2>2. EndFits("refused", order, left, task, results)
        /\ OutputsFit("refused", order, results, Projects!Parts, buildReport, bundle)
    BY <1>1 DEF OrderInv, EndFits, OutputsFit
  <2>. QED  BY <1>1, <2>1, <2>2, OrderMoves DEF OrderInv, OrderTyped, JobStates
<1>5. CASE ~Projects!Refused(p, all)
  <2>1. /\ order' = [parts |-> keys, stl |-> all, report |-> all, bundle |-> all]
        /\ jobState' = IF p = <<>> THEN "report" ELSE "parts"
        /\ left' = SubSeq(keys, n + 1, Len(p))
        /\ task' = [b \in Ways |-> IF b \in {keys[i] : i \in 1 .. n} THEN "lock" ELSE task[b]]
        /\ results' = [i \in DOMAIN p |-> "none"] /\ UNCHANGED <<partLock, beside>>
    BY <1>2, <1>5 DEF Projects!submit_project, Projects!Building, Projects!Key, Ways, PartKey
  <2>2. p # <<>> => OwnExports(Projects!Parts)
    <3>1. ASSUME p # <<>>
          PROVE  OwnExports(Projects!Parts)
      <4>1. 1 \in DOMAIN p
        BY <1>3, <3>1, EmptySeq
      <4>2. Projects!plan_scoped_part_build(p[1], all)
        BY <1>5, <4>1 DEF Projects!Refused
      <4>. QED  BY <4>2 DEF Projects!plan_scoped_part_build, Projects!_validate_output_ownership, OwnExports
    <3>. QED  BY <3>1
  <2>3. all \in BOOLEAN
    OBVIOUS
  <2>4. DOMAIN p = 1 .. Len(p) /\ Len(p) \in Nat /\ \A i \in 1 .. Len(p) : p[i].key \in PartKey
    BY <1>3, PartsByKey
  <2>5. n \in Nat /\ n <= Len(p) /\ n <= CadWorkers
    BY <2>4 DEF Projects!count
  <2>6. p = <<>> <=> Len(p) = 0
    BY <1>3, EmptySeq
  <2>. HIDE DEF p, n, all
  <2>7. keys \in Seq(PartKey) /\ Len(keys) = Len(p)
    BY <2>4
  <2>. HIDE DEF keys
  <2>8. (keys = <<>> <=> p = <<>>)
    BY <2>6, <2>7, EmptySeq
  <2>9. /\ jobState' = IF keys = <<>> THEN "report" ELSE "parts"
        /\ left' = SubSeq(keys, n + 1, Len(keys)) /\ results' = [i \in 1 .. Len(keys) |-> "none"]
        /\ n <= Len(keys) /\ (keys = <<>> => n = 0) /\ (keys # <<>> => OwnExports(Projects!Parts))
    BY <2>1, <2>2, <2>4, <2>5, <2>6, <2>7, <2>8
  <2>. QED  BY <1>1, <2>1, <2>3, <2>5, <2>7, <2>9, PlanKeeps
<1>. QED  BY <1>4, <1>5

\* The part whose task is done takes its place, and the next one begins.
LEMMA PlacedKeeps ==
  ASSUME OrderInv, CadWorkers \in Nat, jobState = "parts", NEW k \in PartKey, task[k] = "built",
         results' = [i \in DOMAIN results |-> IF order.parts[i] = k THEN k ELSE results[i]],
         left' = IF left = <<>> THEN left ELSE Tail(left),
         task' = [b \in Ways |-> IF b = k THEN "idle"
                                 ELSE IF left # <<>> /\ b = Head(left) THEN "lock" ELSE task[b]],
         jobState' = IF WindowOf(task) = {k} /\ left = <<>> THEN "report" ELSE "parts",
         UNCHANGED <<manifest, exported, order, partLock, beside, buildCancelled, buildReport, bundle>>
  PROVE  OrderInv'
<1> DEFINE all0 == Projects!Parts
           keys == order.parts
           W == WindowOf(task)
           next == Head(left)
<1>1. Projects!Parts' = all0 /\ Projects!Paths' = Projects!Paths
  BY ManifestStays
<1>2. /\ Followed(keys, left, task, results) /\ keys \in Seq(PartKey)
      /\ left \in Seq(PartKey) /\ results \in Seq(PartKey \cup {"none"})
  BY DEF OrderInv, EndFits, OrderTyped, BuildOrder
<1>3. left # <<>> => /\ next \in PartKey /\ left' \in Seq(PartKey) /\ Len(left') = Len(left) - 1
                     /\ \A j \in 1 .. Len(left') : left'[j] = left[j + 1]
  BY <1>2, HeadTailProperties
<1>4. left = <<>> => left' = left
  OBVIOUS
<1>5. left # <<>> => next = left[1] /\ Len(left) \in Nat /\ Len(left) >= 1
  BY <1>2, EmptySeq
<1>6. "beside" # k /\ (left # <<>> => "beside" # next)
  BY <1>3 DEF PartKey
<1>. HIDE DEF next
<1>7. /\ task'["beside"] = task["beside"] /\ task'[k] = "idle"
      /\ \A l \in PartKey \ {k} : /\ left # <<>> /\ l = next => task'[l] = "lock"
                                  /\ ~(left # <<>> /\ l = next) => task'[l] = task[l]
  BY <1>6 DEF next, Ways
<1>8. task' \in [Ways -> TaskStep]
  BY DEF OrderInv, OrderTyped, TaskStep
<1>9. /\ DOMAIN results = 1 .. Len(keys) /\ Len(results') = Len(keys)
      /\ \A i \in 1 .. Len(keys) : /\ keys[i] = k => results'[i] = k
                                   /\ keys[i] # k => results'[i] = results[i]
      /\ results' \in Seq(PartKey \cup {"none"})
  <2>1. DOMAIN results = 1 .. Len(keys) /\ Len(keys) \in Nat
    BY <1>2 DEF Followed
  <2>2. results' = [i \in 1 .. Len(keys) |-> IF keys[i] = k THEN k ELSE results[i]]
    BY <2>1
  <2>3. \A i \in 1 .. Len(keys) : results[i] \in PartKey \cup {"none"}
    BY <1>2, <2>1
  <2>. HIDE DEF keys
  <2>. QED  BY <2>1, <2>2, <2>3
<1>10. jobState' \in JobStates
  BY DEF JobStates
<1>11. left' \in Seq(PartKey)
  BY <1>2, <1>3, <1>4
<1>12. OrderTyped'
  BY <1>1, <1>8, <1>9, <1>10, <1>11 DEF OrderInv, OrderTyped
<1>13. k \in W /\ W \in SUBSET PartKey
  BY DEF WindowOf
<1>14. WindowOf(task') \subseteq (W \ {k}) \cup (IF left = <<>> THEN {} ELSE {next})
  <2>1. ASSUME NEW l \in PartKey, task'[l] # "idle"
        PROVE  l \in (W \ {k}) \cup (IF left = <<>> THEN {} ELSE {next})
    <3>1. l # k
      BY <1>7, <2>1
    <3>2. CASE left # <<>> /\ l = next
      BY <3>2
    <3>3. CASE ~(left # <<>> /\ l = next)
      BY <1>7, <2>1, <3>1, <3>3 DEF WindowOf
    <3>. QED  BY <3>2, <3>3
  <2>. QED  BY <2>1 DEF WindowOf
<1>15. Cardinality(WindowOf(task')) <= CadWorkers
  <2> DEFINE V == W \ {k}
             U == V \cup {next}
  <2>1. IsFiniteSet(W) /\ Cardinality(W) \in Nat /\ Cardinality(W) <= CadWorkers
    BY <1>13, KeysAreFew DEF OrderInv
  <2>2. IsFiniteSet(V) /\ Cardinality(V) = Cardinality(W) - 1
    BY <1>13, <2>1, FS_RemoveElement
  <2>3. Cardinality(V) \in Nat
    BY <2>2, FS_CardinalityType
  <2>. HIDE DEF V, W
  <2>9. IsFiniteSet(U) /\ Cardinality(U) = IF next \in V THEN Cardinality(V) ELSE Cardinality(V) + 1
    BY <2>2, FS_AddElement
  <2>4. IsFiniteSet(U) /\ Cardinality(U) <= Cardinality(V) + 1
    <3>. HIDE DEF U
    <3>. QED  BY <2>3, <2>9
  <2>5. WindowOf(task') \subseteq U
    BY <1>14 DEF V
  <2>. HIDE DEF U
  <2>8. Cardinality(U) \in Nat
    BY <2>4, FS_CardinalityType
  <2>6. Cardinality(WindowOf(task')) <= Cardinality(U) /\ IsFiniteSet(WindowOf(task'))
    BY <2>4, <2>5, FS_Subset
  <2>7. Cardinality(WindowOf(task')) \in Nat
    BY <2>6, FS_CardinalityType
  <2>. QED  BY <2>1, <2>2, <2>3, <2>4, <2>6, <2>7, <2>8
<1>16. Followed(keys, left', task', results')
  <2>1. Len(left') <= Len(keys) /\ Len(results') = Len(keys) /\ Len(left') \in Nat /\ Len(keys) \in Nat
    BY <1>2, <1>3, <1>4, <1>5, <1>9, <1>11 DEF Followed
  <2>2. ASSUME NEW j \in 1 .. Len(left')
        PROVE  left'[j] = keys[(Len(keys) - Len(left')) + j]
    <3>1. CASE left = <<>>
      BY <1>2, <1>4, <3>1 DEF Followed
    <3>2. CASE left # <<>>
      <4>1. left'[j] = left[j + 1] /\ j + 1 \in 1 .. Len(left) /\ Len(left') = Len(left) - 1
        BY <1>3, <1>5, <3>2
      <4>2. left[j + 1] = keys[(Len(keys) - Len(left)) + (j + 1)]
        BY <1>2, <4>1 DEF Followed
      <4>3. (Len(keys) - Len(left)) + (j + 1) = (Len(keys) - Len(left')) + j
        <5>1. \A a, b \in Nat : \A n \in Nat : (a - b) + (n + 1) = (a - (b - 1)) + n
          OBVIOUS
        <5>2. Len(left) \in Nat /\ j \in Nat
          BY <1>5, <2>1, <3>2
        <5>3. (Len(keys) - Len(left)) + (j + 1) = (Len(keys) - (Len(left) - 1)) + j
          BY <2>1, <5>1, <5>2
        <5>. QED  BY <4>1, <5>3
      <4>. QED  BY <4>1, <4>2, <4>3
    <3>. QED  BY <3>1, <3>2
  <2>3. ASSUME NEW i \in 1 .. Len(keys), i <= Len(keys) - Len(left')
        PROVE  task'[keys[i]] # "idle" \/ results'[i] = keys[i]
    <3>1. keys[i] \in PartKey
      BY <1>2
    <3>2. CASE keys[i] = k
      BY <1>9, <3>2
    <3>3. CASE keys[i] # k /\ left # <<>> /\ keys[i] = next
      BY <1>7, <3>1, <3>3
    <3>4. CASE keys[i] # k /\ ~(left # <<>> /\ keys[i] = next)
      <4>1. task'[keys[i]] = task[keys[i]] /\ results'[i] = results[i]
        BY <1>7, <1>9, <3>1, <3>4
      <4>2. i <= Len(keys) - Len(left)
        <5>1. CASE left = <<>>
          BY <1>4, <2>3, <5>1
        <5>2. CASE left # <<>>
          <6>1. Len(left') = Len(left) - 1 /\ keys[(Len(keys) - Len(left)) + 1] = next
            BY <1>2, <1>3, <1>5, <5>2 DEF Followed
          <6>2. i # (Len(keys) - Len(left)) + 1
            BY <3>4, <5>2, <6>1
          <6>. QED  BY <1>5, <2>1, <2>3, <5>2, <6>1, <6>2
        <5>. QED  BY <5>1, <5>2
      <4>. QED  BY <1>2, <4>1, <4>2 DEF Followed
    <3>. QED  BY <3>2, <3>3, <3>4
  <2>. QED  BY <2>1, <2>2, <2>3 DEF Followed
<1>17. EndFits(jobState', order', left', task', results')
  <2>1. CASE W = {k} /\ left = <<>>
    <3>1. WindowOf(task') = {}
      BY <1>14, <2>1
    <3>2. \A i \in 1 .. Len(keys) : results'[i] = keys[i]
      <4>1. ASSUME NEW i \in 1 .. Len(keys)
            PROVE  results'[i] = keys[i]
        <5>1. keys[i] \in PartKey /\ i <= Len(keys) - Len(left')
          BY <1>2, <1>4, <2>1, EmptySeq
        <5>2. task'[keys[i]] = "idle"
          BY <3>1, <5>1 DEF WindowOf
        <5>. QED  BY <1>16, <5>1, <5>2 DEF Followed
      <4>. QED  BY <4>1
    <3>3. results' = keys
      <4>1. keys \in Seq(PartKey \cup {"none"})
        BY <1>2
      <4>. HIDE DEF keys
      <4>. QED  BY <1>9, <3>2, <4>1, SeqEqual
    <3>. QED  BY <2>1, <3>1, <3>3 DEF EndFits
  <2>2. CASE ~(W = {k} /\ left = <<>>)
    BY <1>16, <2>2 DEF EndFits
  <2>. QED  BY <2>1, <2>2
<1>18. OutputsFit(jobState', order', results', all0, buildReport', bundle')
  BY DEF OutputsFit
<1>19. BuiltAreThere(all0, order', task', results', exported')
  <2>1. ASSUME NEW l \in PartKey, task'[l] = "built" \/ \E i \in 1 .. Len(results') : results'[i] = l
        PROVE  PartThere(all0, l, order.stl, exported)
    <3>1. task[l] = "built" \/ \E i \in 1 .. Len(results) : results[i] = l
      <4>1. CASE task'[l] = "built"
        <5>1. l # k
          BY <1>7, <4>1
        <5>. QED  BY <1>7, <4>1, <5>1
      <4>2. CASE \E i \in 1 .. Len(results') : results'[i] = l
        <5>1. PICK i \in 1 .. Len(results') : results'[i] = l
          BY <4>2
        <5>2. i \in 1 .. Len(keys) /\ i \in 1 .. Len(results)
          BY <1>2, <1>9, <5>1 DEF Followed
        <5>3. CASE keys[i] = k
          BY <1>9, <5>1, <5>2, <5>3
        <5>4. CASE keys[i] # k
          BY <1>9, <5>1, <5>2, <5>4
        <5>. QED  BY <5>3, <5>4
      <4>. QED  BY <2>1, <4>1, <4>2
    <3>. QED  BY <3>1 DEF OrderInv, BuiltAreThere
  <2>. QED  BY <2>1 DEF BuiltAreThere
<1>20. LocksFit(task', partLock', beside')
  <2>1. \A b \in Ways : task'[b] \in {"prepare", "publish"} => task[b] \in {"prepare", "publish"}
    BY <1>7 DEF Ways
  <2>. QED  BY <1>7, <2>1 DEF OrderInv, LocksFit
<1>21. OwnWhileBuilt(all0, task')
  BY DEF OrderInv, OwnWhileBuilt, Ways
<1>22. ExportsOwn(all0, exported')
  BY DEF OrderInv
<1>. HIDE DEF all0
<1>. QED  BY <1>1, <1>12, <1>15, <1>17, <1>18, <1>19, <1>20, <1>21, <1>22 DEF OrderInv

LEMMA CollectKeeps ==
  ASSUME OrderInv, CadWorkers \in Nat, Projects!Collect
  PROVE  OrderInv'
<1>1. /\ jobState = "parts"
      /\ UNCHANGED <<manifest, exported, order, partLock, beside, buildCancelled, buildReport, bundle>>
      /\ \E k \in PartKey :
           \/ /\ task[k] = "built"
              /\ results' = [i \in DOMAIN results |-> IF order.parts[i] = k THEN k ELSE results[i]]
              /\ left' = IF left = <<>> THEN left ELSE Tail(left)
              /\ task' = [b \in Ways |-> IF b = k THEN "idle"
                                         ELSE IF left # <<>> /\ b = Head(left) THEN "lock" ELSE task[b]]
              /\ jobState' = IF WindowOf(task) = {k} /\ left = <<>> THEN "report" ELSE "parts"
           \/ jobState' = "leaving" /\ UNCHANGED <<results, left, task>>
  BY DEF Projects!Collect, Projects!outputs, Projects!At, Projects!Window, Projects!Under, Projects!Idle,
         Projects!Key, Projects!Building, PartKey, Ways, WindowOf
<1>2. PICK k \in PartKey :
        \/ /\ task[k] = "built"
           /\ results' = [i \in DOMAIN results |-> IF order.parts[i] = k THEN k ELSE results[i]]
           /\ left' = IF left = <<>> THEN left ELSE Tail(left)
           /\ task' = [b \in Ways |-> IF b = k THEN "idle"
                                      ELSE IF left # <<>> /\ b = Head(left) THEN "lock" ELSE task[b]]
           /\ jobState' = IF WindowOf(task) = {k} /\ left = <<>> THEN "report" ELSE "parts"
        \/ jobState' = "leaving" /\ UNCHANGED <<results, left, task>>
  BY <1>1
<1>3. CASE jobState' = "leaving" /\ UNCHANGED <<results, left, task>>
  <2>1. EndFits("leaving", order, left, task, results)
        /\ OutputsFit("leaving", order, results, Projects!Parts, buildReport, bundle)
    BY DEF EndFits, OutputsFit
  <2>. QED  BY <1>1, <1>3, <2>1, OrderMoves DEF OrderInv, OrderTyped, JobStates
<1>4. CASE ~(jobState' = "leaving" /\ UNCHANGED <<results, left, task>>)
  BY <1>1, <1>2, <1>4, PlacedKeeps
<1>. QED  BY <1>3, <1>4

LEMMA OrderSteps ==
  ASSUME OrderInv, CadWorkers \in Nat, Projects!Next
  PROVE  OrderInv'
<1>1. ASSUME NEW b \in Projects!Building,
             \/ Projects!checkpoint(b) \/ Projects!_part_build_lock(b) \/ Projects!prepare(b) \/ Projects!publish(b)
      PROVE  OrderInv'
  <2>1. b \in Ways
    BY DEF Projects!Building, Projects!Key, Ways, PartKey
  <2>. QED  BY <1>1, <2>1, CheckpointKeeps, LockKeeps, PrepareKeeps, PublishKeeps
<1>. QED
  BY <1>1, ProjectBuildKeeps, PartBuildKeeps, CancelKeeps, CollectKeeps, InterruptKeeps, LeaveKeeps, PaperKeeps,
     BundleKeeps, PublishedKeeps, ShowsKeeps, EndedKeeps DEF Projects!Next

LEMMA OrderStarts ==
  ASSUME Projects!Init, CadWorkers \in Nat
  PROVE  OrderInv
<1>1. /\ manifest \in Projects!Manifests
      /\ partLock = [k \in PartKey |-> "free"] /\ order = Projects!NoOrder /\ jobState = "none" /\ left = <<>>
      /\ results = <<>> /\ task = [b \in Ways |-> "idle"] /\ beside = [key |-> "none", stl |-> FALSE]
      /\ buildCancelled = FALSE
      /\ \E before \in {"none", "old"} :
           exported = [path \in Projects!Paths |->
                         IF before = "old" /\ path \in Projects!Targets(Projects!parts[1], FALSE) THEN "stale" ELSE before]
  BY DEF Projects!Init, Projects!Key, Projects!Building, Projects!NoBeside, PartKey, Ways
<1>2. <<>> \in Seq(PartKey) /\ <<>> \in Seq(PartKey \cup {"none"}) /\ Len(<<>>) = 0
  BY EmptySeq
<1>3. /\ \A b \in Ways : task[b] = "idle"
      /\ task \in [Ways -> TaskStep] /\ partLock \in [PartKey -> {"free"} \cup Ways]
  BY <1>1 DEF TaskStep
<1>4. WindowOf(task) = {}
  BY <1>3 DEF WindowOf, Ways
<1>5. exported \in [Projects!Paths -> {"none", "old", "stale"}]
  BY <1>1
<1>6. OrderTyped
  <2>1. order \in BuildOrder
    BY <1>1, <1>2 DEF Projects!NoOrder, BuildOrder
  <2>2. exported \in [Projects!Paths -> {"none", "old", "stale"} \cup PartKey]
    BY <1>5
  <2>. QED  BY <1>1, <1>2, <1>3, <2>1, <2>2 DEF OrderTyped, JobStates
<1>7. Cardinality(WindowOf(task)) <= CadWorkers
  BY <1>4, FS_EmptySet
<1>8. EndFits(jobState, order, left, task, results) /\ OutputsFit(jobState, order, results, Projects!Parts, buildReport, bundle)
  BY <1>1, <1>4 DEF EndFits, OutputsFit
<1>9. BuiltAreThere(Projects!Parts, order, task, results, exported)
  BY <1>1, <1>2, <1>3 DEF BuiltAreThere, Ways
<1>10. LocksFit(task, partLock, beside) /\ OwnWhileBuilt(Projects!Parts, task)
  BY <1>3 DEF LocksFit, OwnWhileBuilt, Ways
<1>11. ExportsOwn(Projects!Parts, exported)
  BY <1>5 DEF ExportsOwn, Projects!Paths
<1>. QED  BY <1>6, <1>7, <1>8, <1>9, <1>10, <1>11 DEF OrderInv

\* What the invariant says of the end of a build.
LEMMA BuildEnds ==
  ASSUME OrderInv, CadWorkers \in Nat
  PROVE  Projects!BuildEndsWithItsParts
<1>1. Projects!Under = UnderWay(task)
  BY DEF Projects!Under, Projects!Key, UnderWay, PartKey
<1>2. jobState \in Projects!Terminal => UnderWay(task) = {}
  BY EmptyWindow DEF Projects!Terminal, OrderInv, EndFits
<1>3. Cardinality(UnderWay(task)) <= CadWorkers
  <2>1. WindowOf(task) \in SUBSET PartKey /\ UnderWay(task) \in SUBSET WindowOf(task)
    BY DEF WindowOf, UnderWay
  <2>. QED  BY <2>1, WindowShrinks DEF OrderInv
<1>4. ASSUME jobState = "succeeded"
      PROVE  /\ results = order.parts
             /\ order.report => buildReport = order.parts
             /\ order.bundle => bundle = Projects!active_paths
  <2>1. results = order.parts
    BY <1>4 DEF OrderInv, EndFits
  <2>. QED  BY <1>4, <2>1, ResultsAreThere DEF OrderInv, OutputsFit
<1>5. \A p \in Projects!Parts : \A s \in Projects!Made(p) : exported[s.path] \in {"none", "old", "stale", p.key}
  BY DEF OrderInv, ExportsOwn
<1>6. ASSUME NEW b \in Projects!Building, NEW c \in Projects!Building, Projects!At(b, "publish"),
             Projects!At(c, "publish"), Projects!Built(b) = Projects!Built(c)
      PROVE  b = c
  <2>1. /\ b \in Ways /\ c \in Ways /\ task[b] = "publish" /\ task[c] = "publish"
        /\ BuiltBy(b, beside) = BuiltBy(c, beside)
    BY <1>6 DEF Projects!Building, Projects!Key, Projects!At, Projects!Built, Ways, PartKey, BuiltBy
  <2>2. partLock[BuiltBy(b, beside)] = b /\ partLock[BuiltBy(c, beside)] = c
    BY <2>1 DEF OrderInv, LocksFit
  <2>. QED  BY <2>1, <2>2
<1>7. /\ jobState \in Projects!Terminal => Projects!Under = {}
      /\ Projects!Cardinality(Projects!Under) <= CadWorkers
  <2>1. Projects!Cardinality(Projects!Under) = Cardinality(Projects!Under)
    BY DEF Projects!Cardinality, Cardinality
  <2>. QED  BY <1>1, <1>2, <1>3, <2>1
<1>8. \A b, c \in Projects!Building :
        Projects!At(b, "publish") /\ Projects!At(c, "publish") /\ Projects!Built(b) = Projects!Built(c) => b = c
  BY <1>6
<1>. QED  BY <1>4, <1>5, <1>7, <1>8 DEF Projects!BuildEndsWithItsParts

(***************************************************************************)
(* A project build ends with its parts (project_worker.py): when its job   *)
(* has ended none of its parts is under way, never more of them than there *)
(* are workers, and one that succeeded has built every part of its plan,   *)
(* names them in its report and has exactly their exports in its bundle.   *)
(* An export is only ever replaced by a build of its own part, and two     *)
(* builds of one part never publish at once (_part_build_lock).            *)
(***************************************************************************)
THEOREM BuildsEndWithTheirParts == WorkbenchSpec => []BuildEndsWithItsParts
<1>1. WorkbenchInit => OrderInv
  BY OrderStarts, CadAssumption DEF WorkbenchInit
<1>2. OrderInv /\ [WorkbenchNext]_workbenchVars => OrderInv'
  <2>1. ASSUME OrderInv, Projects!Next
        PROVE  OrderInv'
    BY <2>1, OrderSteps, CadAssumption
  <2>2. ASSUME OrderInv, UNCHANGED projectVars
        PROVE  OrderInv'
    <3>1. Projects!Parts' = Projects!Parts /\ Projects!Paths' = Projects!Paths
      BY <2>2, ManifestStays DEF projectVars
    <3>. QED  BY <2>2, <3>1 DEF projectVars, OrderInv, OrderTyped
  <2>. QED  BY <2>1, <2>2 DEF WorkbenchNext, workbenchVars, fileVars
<1>3. OrderInv => BuildEndsWithItsParts
  BY BuildEnds, CadAssumption DEF BuildEndsWithItsParts
<1>. QED  BY <1>1, <1>2, <1>3, PTL DEF WorkbenchSpec

-----------------------------------------------------------------------------
(* Preservation: the steps that are left to a command.                     *)

StepName == {"hash", "look", "open", "fill", "verify", "both", "manifest", "unwritten", "map"}

\* The steps of a file: it is opened before it is filled, and verified at the end.
FileBlock(b, p) ==
  /\ b \in Seq(StepName \X (0 .. 2))
  /\ \A i \in 1 .. Len(b) :
       /\ b[i][2] = p /\ b[i][1] # "hash"
       /\ b[i][1] = "fill" => i - 1 \in 1 .. Len(b) /\ b[i - 1][1] = "open"
       /\ b[i][1] = "verify" <=> i = Len(b)

Ordered(s) ==
  /\ \A i \in 1 .. Len(s) :
       /\ s[i][1] = "hash" => i = 1
       /\ s[i][1] = "fill" /\ i # 1 => s[i - 1][1] = "open" /\ s[i - 1][2] = s[i][2]
  /\ \A i, j \in 1 .. Len(s) : i < j /\ s[i][1] = "verify" => s[j][2] # s[i][2]

Left(s, p) == \E i \in 1 .. Len(s) : s[i][1] = "verify" /\ s[i][2] = p
Gone(s, p) == \A i \in 1 .. Len(s) : s[i][2] # p

StepBlock(scope, names, p) ==
  IF p \in scope THEN [n \in DOMAIN names |-> <<names[n], p>>] ELSE <<>>

LEMMA CopyBlocks ==
  ASSUME NEW p \in 1 .. 2
  PROVE  FileBlock([n \in DOMAIN (<<"look", "open", "fill">> \o Preserves!_verify_pair) |->
                      <<(<<"look", "open", "fill">> \o Preserves!_verify_pair)[n], p>>], p)
<1> DEFINE names == <<"look", "open", "fill">> \o Preserves!_verify_pair
           b == [n \in DOMAIN names |-> <<names[n], p>>]
<1>1. /\ names \in Seq(StepName) /\ Len(names) = 4 /\ DOMAIN names = 1 .. 4
      /\ names[1] = "look" /\ names[2] = "open" /\ names[3] = "fill" /\ names[4] = "verify"
  BY DEF Preserves!_verify_pair, StepName
<1> HIDE DEF names
<1>2. /\ b \in Seq(StepName \X (0 .. 2)) /\ Len(b) = 4
      /\ \A i \in 1 .. 4 : b[i] = <<names[i], p>>
  BY <1>1
<1>3. /\ b[1][1] = "look" /\ b[2][1] = "open" /\ b[3][1] = "fill" /\ b[4][1] = "verify"
      /\ \A i \in 1 .. 4 : b[i][2] = p
  BY <1>1, <1>2
<1> HIDE DEF b
<1>4. ASSUME NEW i \in 1 .. 4
      PROVE  /\ b[i][2] = p /\ b[i][1] # "hash"
             /\ b[i][1] = "fill" => i - 1 \in 1 .. 4 /\ b[i - 1][1] = "open"
             /\ b[i][1] = "verify" <=> i = 4
  <2>1. CASE i = 1
    BY <2>1, <1>3
  <2>2. CASE i = 2
    BY <2>2, <1>3
  <2>3. CASE i = 3
    BY <2>3, <1>3
  <2>4. CASE i = 4
    BY <2>4, <1>3
  <2>. QED  BY <2>1, <2>2, <2>3, <2>4
<1>5. FileBlock(b, p)
  BY <1>2, <1>4 DEF FileBlock
<1>. QED  BY <1>5 DEF names, b

LEMMA VerifyBlocks ==
  ASSUME NEW p \in 1 .. 2
  PROVE  FileBlock([n \in DOMAIN (<<"both">> \o Preserves!_verify_pair) |->
                      <<(<<"both">> \o Preserves!_verify_pair)[n], p>>], p)
<1> DEFINE names == <<"both">> \o Preserves!_verify_pair
           b == [n \in DOMAIN names |-> <<names[n], p>>]
<1>1. /\ names \in Seq(StepName) /\ Len(names) = 2 /\ DOMAIN names = 1 .. 2
      /\ names[1] = "both" /\ names[2] = "verify"
  BY DEF Preserves!_verify_pair, StepName
<1> HIDE DEF names
<1>2. /\ b \in Seq(StepName \X (0 .. 2)) /\ Len(b) = 2
      /\ \A i \in 1 .. 2 : b[i] = <<names[i], p>>
  BY <1>1
<1>3. /\ b[1][1] = "both" /\ b[2][1] = "verify" /\ \A i \in 1 .. 2 : b[i][2] = p
  BY <1>1, <1>2
<1> HIDE DEF b
<1>. QED  BY <1>2, <1>3 DEF FileBlock, names, b

LEMMA BlocksInOrder ==
  ASSUME NEW b1, FileBlock(b1, 1), NEW b2, FileBlock(b2, 2)
  PROVE  LET s == <<<<"hash", 0>>>> \o (b1 \o b2)
         IN /\ s \in Seq(StepName \X (0 .. 2)) /\ s # <<>> /\ Ordered(s)
            /\ b1 # <<>> => Left(s, 1)
            /\ b2 # <<>> => Left(s, 2)
            /\ \A i \in 1 .. Len(s) : s[i][2] = 1 => b1 # <<>>
            /\ \A i \in 1 .. Len(s) : s[i][2] = 2 => b2 # <<>>
            /\ s[1] = <<"hash", 0>>
<1> DEFINE hash == <<"hash", 0>>
           s == <<hash>> \o (b1 \o b2)
           m == Len(b1)
           n == Len(b2)
<1>1. /\ b1 \in Seq(StepName \X (0 .. 2)) /\ b2 \in Seq(StepName \X (0 .. 2))
      /\ hash \in StepName \X (0 .. 2) /\ m \in Nat /\ n \in Nat
      /\ hash[1] = "hash" /\ hash[2] = 0
  BY DEF FileBlock, StepName
<1> HIDE DEF hash
<1>2. /\ b1 \o b2 \in Seq(StepName \X (0 .. 2)) /\ Len(b1 \o b2) = m + n
      /\ \A i \in 1 .. m + n : (b1 \o b2)[i] = IF i <= m THEN b1[i] ELSE b2[i - m]
  BY <1>1, ConcatProperties
<1>3. /\ <<hash>> \in Seq(StepName \X (0 .. 2)) /\ Len(<<hash>>) = 1 /\ <<hash>>[1] = hash
  BY <1>1
<1>4. /\ s \in Seq(StepName \X (0 .. 2)) /\ Len(s) = 1 + m + n
      /\ \A i \in 1 .. 1 + m + n : s[i] = IF i <= 1 THEN <<hash>>[i] ELSE (b1 \o b2)[i - 1]
  BY <1>1, <1>2, <1>3, ConcatProperties
<1>5. /\ s[1] = hash
      /\ \A i \in 1 .. m : s[i + 1] = b1[i]
      /\ \A i \in 1 .. n : s[i + m + 1] = b2[i]
  BY <1>1, <1>2, <1>3, <1>4
<1> HIDE DEF s, m, n
<1>6. ASSUME NEW k \in 1 .. m
      PROVE  /\ b1[k][2] = 1 /\ b1[k][1] # "hash"
             /\ b1[k][1] = "fill" => k - 1 \in 1 .. m /\ b1[k - 1][1] = "open"
             /\ b1[k][1] = "verify" <=> k = m
  BY DEF FileBlock, m
<1>22. ASSUME NEW k \in 1 .. n
       PROVE  /\ b2[k][2] = 2 /\ b2[k][1] # "hash"
              /\ b2[k][1] = "fill" => k - 1 \in 1 .. n /\ b2[k - 1][1] = "open"
              /\ b2[k][1] = "verify" <=> k = n
  BY DEF FileBlock, n
<1>7. \A i \in 1 .. Len(s) : \/ i = 1
                             \/ i - 1 \in 1 .. m /\ i = (i - 1) + 1
                             \/ i - 1 - m \in 1 .. n /\ i = (i - 1 - m) + m + 1
  BY <1>1, <1>4
<1>8. ASSUME NEW i \in 1 .. Len(s)
      PROVE  \/ i = 1 /\ s[i] = hash
             \/ \E k \in 1 .. m : i = k + 1 /\ s[i] = b1[k]
             \/ \E k \in 1 .. n : i = k + m + 1 /\ s[i] = b2[k]
  <2>1. CASE i = 1
    BY <2>1, <1>5
  <2>2. CASE i - 1 \in 1 .. m /\ i = (i - 1) + 1
    <3>1. s[i] = b1[i - 1]
      BY <2>2, <1>5
    <3>. QED  BY <2>2, <3>1
  <2>3. CASE i - 1 - m \in 1 .. n /\ i = (i - 1 - m) + m + 1
    <3>1. s[i] = b2[i - 1 - m]
      BY <2>3, <1>5
    <3>. QED  BY <2>3, <3>1
  <2>. QED  BY <2>1, <2>2, <2>3, <1>7
<1>9. ASSUME NEW i \in 1 .. Len(s)
      PROVE  /\ s[i][1] = "hash" => i = 1
             /\ s[i][2] = 1 => b1 # <<>>
             /\ s[i][2] = 2 => b2 # <<>>
  <2>1. CASE i = 1 /\ s[i] = hash
    BY <2>1, <1>1
  <2>2. CASE \E k \in 1 .. m : i = k + 1 /\ s[i] = b1[k]
    <3>1. PICK k \in 1 .. m : i = k + 1 /\ s[i] = b1[k]
      BY <2>2
    <3>2. b1[k][2] = 1 /\ b1[k][1] # "hash" /\ b1 # <<>>
      BY <1>6, <1>1 DEF m
    <3>. QED  BY <3>1, <3>2
  <2>3. CASE \E k \in 1 .. n : i = k + m + 1 /\ s[i] = b2[k]
    <3>1. PICK k \in 1 .. n : i = k + m + 1 /\ s[i] = b2[k]
      BY <2>3
    <3>2. b2[k][2] = 2 /\ b2[k][1] # "hash" /\ b2 # <<>>
      BY <1>22, <1>1 DEF n
    <3>. QED  BY <3>1, <3>2
  <2>. QED  BY <1>8, <2>1, <2>2, <2>3
<1>10. ASSUME NEW i \in 1 .. Len(s), s[i][1] = "fill"
       PROVE  s[i - 1][1] = "open" /\ s[i - 1][2] = s[i][2]
  <2>1. s[i] # hash
    BY <1>10, <1>1
  <2>2. CASE \E k \in 1 .. m : i = k + 1 /\ s[i] = b1[k]
    <3>1. PICK k \in 1 .. m : i = k + 1 /\ s[i] = b1[k]
      BY <2>2
    <3>2. b1[k][1] = "fill"
      BY <3>1, <1>10
    <3>3. k - 1 \in 1 .. m /\ b1[k - 1][1] = "open" /\ b1[k][2] = 1
      BY <3>2, <1>6
    <3>4. b1[k - 1][2] = 1 /\ s[(k - 1) + 1] = b1[k - 1]
      BY <3>3, <1>6, <1>5
    <3>5. (k - 1) + 1 = i - 1
      BY <3>1, <1>1
    <3>6. s[i - 1] = b1[k - 1]
      BY <3>4, <3>5
    <3>. QED  BY <3>1, <3>3, <3>4, <3>6
  <2>3. CASE \E k \in 1 .. n : i = k + m + 1 /\ s[i] = b2[k]
    <3>1. PICK k \in 1 .. n : i = k + m + 1 /\ s[i] = b2[k]
      BY <2>3
    <3>2. b2[k][1] = "fill"
      BY <3>1, <1>10
    <3>3. k - 1 \in 1 .. n /\ b2[k - 1][1] = "open" /\ b2[k][2] = 2
      BY <3>2, <1>22
    <3>4. b2[k - 1][2] = 2 /\ s[(k - 1) + m + 1] = b2[k - 1]
      BY <3>3, <1>22, <1>5
    <3>5. (k - 1) + m + 1 = i - 1
      BY <3>1, <1>1
    <3>6. s[i - 1] = b2[k - 1]
      BY <3>4, <3>5
    <3>. QED  BY <3>1, <3>3, <3>4, <3>6
  <2>. QED  BY <2>1, <2>2, <2>3, <1>8
<1>11. ASSUME NEW i \in 1 .. Len(s), NEW j \in 1 .. Len(s), i < j, s[i][1] = "verify"
       PROVE  s[j][2] # s[i][2]
  <2>1. s[i] # hash
    BY <1>11, <1>1
  <2>2. CASE \E k \in 1 .. m : i = k + 1 /\ s[i] = b1[k]
    <3>1. PICK k \in 1 .. m : i = k + 1 /\ s[i] = b1[k]
      BY <2>2
    <3>2. b1[k][1] = "verify"
      BY <3>1, <1>11
    <3>3. k = m /\ b1[k][2] = 1
      BY <3>2, <1>6
    <3>4. ~(j = 1) /\ \A q \in 1 .. m : j # q + 1
      BY <3>1, <3>3, <1>11, <1>1, <1>4
    <3>5. PICK q \in 1 .. n : j = q + m + 1 /\ s[j] = b2[q]
      BY <3>4, <1>8
    <3>6. b2[q][2] = 2
      BY <1>22
    <3>. QED  BY <3>1, <3>3, <3>5, <3>6
  <2>3. CASE \E k \in 1 .. n : i = k + m + 1 /\ s[i] = b2[k]
    <3>1. PICK k \in 1 .. n : i = k + m + 1 /\ s[i] = b2[k]
      BY <2>3
    <3>2. b2[k][1] = "verify"
      BY <3>1, <1>11
    <3>3. k = n
      BY <3>2, <1>22
    <3>. QED  BY <3>1, <3>3, <1>11, <1>4, <1>1
  <2>. QED  BY <2>1, <2>2, <2>3, <1>8
<1>12. Ordered(s)
  BY <1>9, <1>10, <1>11 DEF Ordered
<1>13. /\ b1 # <<>> => m # 0
       /\ b2 # <<>> => n # 0
  BY <1>1, EmptySeq DEF m, n
<1>14. b1 # <<>> => Left(s, 1)
  <2> SUFFICES ASSUME b1 # <<>> PROVE Left(s, 1)
    OBVIOUS
  <2>1. m \in 1 .. m /\ m + 1 \in 1 .. Len(s) /\ s[m + 1] = b1[m]
    BY <1>13, <1>1, <1>4, <1>5
  <2>2. b1[m][1] = "verify" /\ b1[m][2] = 1
    BY <2>1, <1>6
  <2>. QED  BY <2>1, <2>2 DEF Left
<1>15. b2 # <<>> => Left(s, 2)
  <2> SUFFICES ASSUME b2 # <<>> PROVE Left(s, 2)
    OBVIOUS
  <2>1. n \in 1 .. n /\ n + m + 1 \in 1 .. Len(s) /\ s[n + m + 1] = b2[n]
    BY <1>13, <1>1, <1>4, <1>5
  <2>2. b2[n][1] = "verify" /\ b2[n][2] = 2
    BY <2>1, <1>22
  <2>. QED  BY <2>1, <2>2 DEF Left
<1>19. s # <<>>
  BY <1>4, <1>1
<1>20. s = <<<<"hash", 0>>>> \o (b1 \o b2)
  BY DEF s, hash
<1>21. s[1] = <<"hash", 0>>
  BY <1>5 DEF hash
<1> HIDE DEF Ordered, Left
<1>. QED  BY <1>4, <1>12, <1>9, <1>14, <1>15, <1>19, <1>20, <1>21

LEMMA StepsLeft ==
  ASSUME NEW s \in Seq(StepName \X (0 .. 2)), s # <<>>, Ordered(s)
  PROVE  /\ Tail(s) \in Seq(StepName \X (0 .. 2)) /\ Ordered(Tail(s))
         /\ Head(s) = s[1] /\ 1 \in 1 .. Len(s)
         /\ Len(s) = 1 => Tail(s) = <<>>
         /\ Tail(s) # <<>> => /\ Tail(s)[1][1] # "hash"
                              /\ Tail(s)[1][1] = "fill" => s[1] = <<"open", Tail(s)[1][2]>>
         /\ \A i \in 1 .. Len(Tail(s)) : \E j \in 1 .. Len(s) : Tail(s)[i] = s[j]
         /\ \A p \in 1 .. 2 : /\ Gone(s, p) => Gone(Tail(s), p) /\ s[1][2] # p
                              /\ Left(s, p) /\ s[1] # <<"verify", p>> => Left(Tail(s), p)
                              /\ s[1] = <<"verify", p>> => Gone(Tail(s), p)
<1> DEFINE t == Tail(s)
<1>1. /\ Head(s) = s[1] /\ t \in Seq(StepName \X (0 .. 2)) /\ Len(s) \in Nat \ {0} /\ Len(t) = Len(s) - 1
      /\ \A i \in 1 .. Len(t) : t[i] = s[i + 1]
  BY HeadTailProperties, EmptySeq
<1> HIDE DEF t
<1>2. ASSUME NEW i \in 1 .. Len(t)
      PROVE  i + 1 \in 1 .. Len(s) /\ t[i] = s[i + 1] /\ i + 1 # 1
  BY <1>1
<1>3. /\ \A i \in 1 .. Len(s) : s[i][1] = "hash" => i = 1
      /\ \A i \in 1 .. Len(s) : s[i][1] = "fill" /\ i # 1 => s[i - 1][1] = "open" /\ s[i - 1][2] = s[i][2]
      /\ \A i, j \in 1 .. Len(s) : i < j /\ s[i][1] = "verify" => s[j][2] # s[i][2]
  BY DEF Ordered
<1>4. \A i \in 1 .. Len(t) : t[i][1] # "hash"
  BY <1>2, <1>3
<1>5. ASSUME NEW i \in 1 .. Len(t), t[i][1] = "fill", i # 1
      PROVE  t[i - 1][1] = "open" /\ t[i - 1][2] = t[i][2]
  <2>1. s[i + 1][1] = "fill" /\ i + 1 \in 1 .. Len(s) /\ i + 1 # 1 /\ (i + 1) - 1 = i
    BY <1>2, <1>5
  <2>2. s[i][1] = "open" /\ s[i][2] = s[i + 1][2]
    BY <2>1, <1>3
  <2>3. i - 1 \in 1 .. Len(t) /\ (i - 1) + 1 = i
    BY <1>5, <1>1
  <2>4. t[i - 1] = s[i]
    BY <2>3, <1>2
  <2>. QED  BY <2>2, <2>4, <1>2
<1>6. ASSUME NEW i \in 1 .. Len(t), NEW j \in 1 .. Len(t), i < j, t[i][1] = "verify"
      PROVE  t[j][2] # t[i][2]
  BY <1>2, <1>3, <1>6
<1>7. Ordered(t)
  BY <1>4, <1>5, <1>6 DEF Ordered
<1>8. \A i \in 1 .. Len(t) : \E j \in 1 .. Len(s) : t[i] = s[j]
  BY <1>2
<1>9. 1 \in 1 .. Len(s) /\ s[1] \in StepName \X (0 .. 2)
  BY <1>1
<1>10. ASSUME t # <<>>
       PROVE  /\ t[1][1] # "hash"
              /\ t[1][1] = "fill" => s[1] = <<"open", t[1][2]>>
  <2>1. 1 \in 1 .. Len(t)
    BY <1>1, <1>10, EmptySeq
  <2>2. 2 \in 1 .. Len(s) /\ t[1] = s[2]
    BY <2>1, <1>2
  <2>3. t[1][1] = "fill" => s[1][1] = "open" /\ s[1][2] = t[1][2]
    BY <2>2, <1>3
  <2>. QED  BY <2>1, <2>3, <1>4, <1>9
<1>11. ASSUME NEW p \in 1 .. 2
       PROVE  /\ Gone(s, p) => Gone(t, p) /\ s[1][2] # p
              /\ Left(s, p) /\ s[1] # <<"verify", p>> => Left(t, p)
              /\ s[1] = <<"verify", p>> => Gone(t, p)
  <2>1. Gone(s, p) => Gone(t, p) /\ s[1][2] # p
    BY <1>2, <1>9 DEF Gone
  <2>2. ASSUME Left(s, p), s[1] # <<"verify", p>>
        PROVE  Left(t, p)
    <3>1. PICK i \in 1 .. Len(s) : s[i][1] = "verify" /\ s[i][2] = p
      BY <2>2 DEF Left
    <3>2. i # 1
      BY <3>1, <2>2, <1>9
    <3>3. i - 1 \in 1 .. Len(t) /\ (i - 1) + 1 = i
      BY <3>2, <1>1
    <3>4. t[i - 1] = s[i]
      BY <3>3, <1>2
    <3>. QED  BY <3>1, <3>3, <3>4 DEF Left
  <2>3. ASSUME s[1] = <<"verify", p>>, NEW i \in 1 .. Len(t)
        PROVE  t[i][2] # p
    <3>1. s[1][1] = "verify" /\ s[1][2] = p /\ 1 < i + 1
      BY <2>3
    <3>. QED  BY <3>1, <1>2, <1>3, <1>9
  <2>. QED  BY <2>1, <2>2, <2>3 DEF Gone
<1>12. Len(s) = 1 => t = <<>>
  BY <1>1, EmptySeq
<1> HIDE DEF Ordered, Left, Gone
<1>. QED  BY <1>1, <1>7, <1>8, <1>9, <1>10, <1>11, <1>12 DEF t

\* The script of a command: in order, about its scope, and verifying all of it.
LEMMA ScriptInOrder ==
  ASSUME NEW c, c.scope \subseteq 1 .. 2, c.op \in {"manifest", "copy", "verify", "migration-map"}
  PROVE  LET s == Preserves!Script(c)
         IN /\ s \in Seq(StepName \X (0 .. 2)) /\ s # <<>> /\ Ordered(s)
            /\ s[1] = <<"hash", 0>>
            /\ \A i \in 1 .. Len(s) : s[i][2] \in c.scope \cup {0}
            /\ Preserves!Archives(c) => \A p \in c.scope : Left(s, p)
<1> DEFINE s == Preserves!Script(c)
           Right == /\ s \in Seq(StepName \X (0 .. 2)) /\ s # <<>> /\ Ordered(s)
                    /\ s[1] = <<"hash", 0>>
                    /\ \A i \in 1 .. Len(s) : s[i][2] \in c.scope \cup {0}
                    /\ Preserves!Archives(c) => \A p \in c.scope : Left(s, p)
           nc == <<"look", "open", "fill">> \o Preserves!_verify_pair
           nv == <<"both">> \o Preserves!_verify_pair
           Each(names, p) == IF p \in c.scope THEN [n \in DOMAIN names |-> <<names[n], p>>] ELSE <<>>
<1> SUFFICES Right
  OBVIOUS
<1>9. ASSUME NEW a, NEW b, NEW d
      PROVE  <<a>> \o <<b>> = <<a, b>> /\ <<a>> \o <<b, d>> = <<a, b, d>>
  <2> DEFINE S == {a, b, d}
  <2>1. <<a>> \in Seq(S) /\ <<b>> \in Seq(S) /\ <<b, d>> \in Seq(S) /\ <<a, b>> \in Seq(S) /\ <<a, b, d>> \in Seq(S)
    OBVIOUS
  <2>2. <<a>> \o <<b>> = <<a, b>>
    <3> DEFINE x == <<a>> \o <<b>>
               y == <<a, b>>
    <3>1. /\ x \in Seq(S) /\ Len(x) = 2 /\ x[1] = a /\ x[2] = b
          /\ y \in Seq(S) /\ Len(y) = 2 /\ y[1] = a /\ y[2] = b
      BY <2>1
    <3> HIDE DEF x, y, S
    <3>2. \A i \in 1 .. Len(x) : x[i] = y[i]
      BY <3>1
    <3>3. x = y
      BY <3>1, <3>2, SeqEqual
    <3>. QED  BY <3>3 DEF x, y
  <2>3. <<a>> \o <<b, d>> = <<a, b, d>>
    <3> DEFINE x == <<a>> \o <<b, d>>
               y == <<a, b, d>>
    <3>1. /\ x \in Seq(S) /\ Len(x) = 3 /\ x[1] = a /\ x[2] = b /\ x[3] = d
          /\ y \in Seq(S) /\ Len(y) = 3 /\ y[1] = a /\ y[2] = b /\ y[3] = d
      BY <2>1
    <3> HIDE DEF x, y, S
    <3>2. \A i \in 1 .. Len(x) : x[i] = y[i]
      BY <3>1
    <3>3. x = y
      BY <3>1, <3>2, SeqEqual
    <3>. QED  BY <3>3 DEF x, y
  <2>. QED  BY <2>2, <2>3
<1>1. CASE c.op = "manifest"
  <2>1. s = <<<<"hash", 0>>, <<"manifest", 0>>>>
    <3>1. s = Preserves!build_inventory \o Preserves!write_manifest_atomic
      BY <1>1 DEF Preserves!Script
    <3>. QED  BY <3>1, <1>9 DEF Preserves!build_inventory, Preserves!write_manifest_atomic
  <2> HIDE DEF s
  <2>2. /\ Len(s) = 2 /\ s[1] = <<"hash", 0>> /\ s[2] = <<"manifest", 0>>
        /\ s \in Seq(StepName \X (0 .. 2)) /\ s # <<>>
    BY <2>1 DEF StepName
  <2>3. \A i \in 1 .. Len(s) : i = 1 \/ i = 2
    BY <2>2
  <2>4. Ordered(s) /\ \A i \in 1 .. Len(s) : s[i][2] \in c.scope \cup {0}
    BY <2>2, <2>3 DEF Ordered
  <2>. QED  BY <2>2, <2>4, <1>1 DEF Preserves!Archives
<1>2. CASE c.op = "migration-map"
  <2>1. s = <<<<"hash", 0>>, <<"unwritten", 0>>, <<"map", 0>>>>
    <3>1. s = Preserves!build_inventory \o Preserves!_write_migration_map
      BY <1>2 DEF Preserves!Script
    <3>. QED  BY <3>1, <1>9 DEF Preserves!build_inventory, Preserves!_write_migration_map
  <2> HIDE DEF s
  <2>2. /\ Len(s) = 3 /\ s[1] = <<"hash", 0>> /\ s[2] = <<"unwritten", 0>> /\ s[3] = <<"map", 0>>
        /\ s \in Seq(StepName \X (0 .. 2)) /\ s # <<>>
    BY <2>1 DEF StepName
  <2>3. \A i \in 1 .. Len(s) : i = 1 \/ i = 2 \/ i = 3
    BY <2>2
  <2>4. Ordered(s) /\ \A i \in 1 .. Len(s) : s[i][2] \in c.scope \cup {0}
    BY <2>2, <2>3 DEF Ordered
  <2>. QED  BY <2>2, <2>4, <1>2 DEF Preserves!Archives
<1>3. /\ FileBlock(Each(nc, 1), 1) /\ FileBlock(Each(nc, 2), 2)
      /\ FileBlock(Each(nv, 1), 1) /\ FileBlock(Each(nv, 2), 2)
  <2>1. FileBlock(<<>>, 1) /\ FileBlock(<<>>, 2)
    BY DEF FileBlock
  <2>. QED  BY <2>1, CopyBlocks, VerifyBlocks
<1>4. /\ \A p \in 1 .. 2 : p \notin c.scope => Each(nc, p) = <<>> /\ Each(nv, p) = <<>>
      /\ \A p \in 1 .. 2 : p \in c.scope => Each(nc, p) # <<>> /\ Each(nv, p) # <<>>
  <2>1. 1 \in DOMAIN nc /\ 1 \in DOMAIN nv
    BY DEF Preserves!_verify_pair
  <2> HIDE DEF nc, nv
  <2>2. ASSUME NEW p \in 1 .. 2, p \in c.scope
        PROVE  Each(nc, p) # <<>> /\ Each(nv, p) # <<>>
    <3>1. 1 \in DOMAIN Each(nc, p) /\ 1 \in DOMAIN Each(nv, p)
      BY <2>1, <2>2
    <3>2. DOMAIN <<>> = {}
      OBVIOUS
    <3>. QED  BY <3>1, <3>2
  <2>. QED  BY <2>2
<1>5. ASSUME NEW b1, NEW b2, FileBlock(b1, 1), FileBlock(b2, 2),
             1 \in c.scope <=> b1 # <<>>, 2 \in c.scope <=> b2 # <<>>,
             s = <<<<"hash", 0>>>> \o (b1 \o b2)
      PROVE  Right
  <2> HIDE DEF s
  <2>1. /\ s \in Seq(StepName \X (0 .. 2)) /\ s # <<>> /\ Ordered(s)
        /\ b1 # <<>> => Left(s, 1)
        /\ b2 # <<>> => Left(s, 2)
        /\ \A i \in 1 .. Len(s) : s[i][2] = 1 => b1 # <<>>
        /\ \A i \in 1 .. Len(s) : s[i][2] = 2 => b2 # <<>>
        /\ s[1] = <<"hash", 0>>
    <3> DEFINE x == <<<<"hash", 0>>>> \o (b1 \o b2)
    <3>1. /\ x \in Seq(StepName \X (0 .. 2)) /\ x # <<>> /\ Ordered(x)
          /\ b1 # <<>> => Left(x, 1)
          /\ b2 # <<>> => Left(x, 2)
          /\ \A i \in 1 .. Len(x) : x[i][2] = 1 => b1 # <<>>
          /\ \A i \in 1 .. Len(x) : x[i][2] = 2 => b2 # <<>>
          /\ x[1] = <<"hash", 0>>
      BY <1>5, BlocksInOrder
    <3>2. s = x
      BY <1>5
    <3> HIDE DEF x
    <3>. QED  BY <3>1, <3>2
  <2>2. ASSUME NEW i \in 1 .. Len(s)
        PROVE  s[i][2] \in c.scope \cup {0}
    <3>1. s[i][2] \in 0 .. 2
      BY <2>1
    <3>. QED  BY <3>1, <2>1, <1>5
  <2>3. ASSUME NEW p \in c.scope
        PROVE  Left(s, p)
    <3>1. p = 1 \/ p = 2
      OBVIOUS
    <3>2. CASE p = 1
      BY <3>2, <2>1, <1>5
    <3>3. CASE p = 2
      BY <3>3, <2>1, <1>5
    <3>. QED  BY <3>1, <3>2, <3>3
  <2>. QED  BY <2>1, <2>2, <2>3
<1>6. CASE c.op = "copy"
  <2>1. s = <<<<"hash", 0>>>> \o (Each(nc, 1) \o Each(nc, 2))
    BY <1>6 DEF Preserves!Script, Preserves!copy_archive, Preserves!build_inventory, Preserves!Each
  <2> HIDE DEF s, nc, nv, Each, Right
  <2> DEFINE b1 == Each(nc, 1)
             b2 == Each(nc, 2)
  <2>2. FileBlock(b1, 1) /\ FileBlock(b2, 2)
    BY <1>3
  <2>3. (1 \in c.scope <=> b1 # <<>>) /\ (2 \in c.scope <=> b2 # <<>>)
    BY <1>4
  <2>4. s = <<<<"hash", 0>>>> \o (b1 \o b2)
    BY <2>1
  <2> HIDE DEF b1, b2
  <2>. QED  BY <2>2, <2>3, <2>4, <1>5
<1>7. CASE c.op = "verify"
  <2>1. s = <<<<"hash", 0>>>> \o (Each(nv, 1) \o Each(nv, 2))
    BY <1>7 DEF Preserves!Script, Preserves!verify_archive, Preserves!build_inventory, Preserves!Each
  <2> HIDE DEF s, nc, nv, Each, Right
  <2> DEFINE b1 == Each(nv, 1)
             b2 == Each(nv, 2)
  <2>2. FileBlock(b1, 1) /\ FileBlock(b2, 2)
    BY <1>3
  <2>3. (1 \in c.scope <=> b1 # <<>>) /\ (2 \in c.scope <=> b2 # <<>>)
    BY <1>4
  <2>4. s = <<<<"hash", 0>>>> \o (b1 \o b2)
    BY <2>1
  <2> HIDE DEF b1, b2
  <2>. QED  BY <2>2, <2>3, <2>4, <1>5
<1>. QED  BY <1>1, <1>2, <1>6, <1>7

-----------------------------------------------------------------------------
(* Preservation: what a command relies on.                                 *)

Files == Preserves!Content \cup {"missing", "link"}
Copies == [content : Files \cup {"partial", "mixed", "old"}, by : Operator \cup {"nobody"}]
CommandName == {"none", "manifest", "copy", "verify", "migration-map"}

\* s are the steps left to command c of operator o, sn what its files have been
\* since it began and ds the copies it has lost; the files are org and arc.
Preserving(o, s, c, sn, ds, org, arc) ==
  /\ s \in Seq(StepName \X (0 .. 2)) /\ Ordered(s)
  /\ \A i \in 1 .. Len(s) : s[i][2] \in c.scope \cup {0}
  /\ s # <<>> /\ s[1][1] # "hash" => \A p \in c.scope : org[p] # "link"
  /\ \A p \in 1 .. 2 : s # <<>> /\ s[1] = <<"fill", p>> /\ arc[p].by = o => arc[p].content \notin Preserves!Content
  /\ Preserves!Archives(c) =>
       \A p \in c.scope :
         /\ org[p] \in sn[p]
         /\ \/ Left(s, p)
            \/ Gone(s, p) /\ (p \in ds \/ arc[p].content \in sn[p] \cap Preserves!Content)

\* Copies arc become arc2, and operator o, whose command is c, is told in ds2.
Spares(o, c, ds2, arc, arc2) ==
  \A p \in 1 .. 2 :
    \/ arc2[p] = arc[p]
    \/ /\ arc2[p] = Preserves!NoCopy
       /\ Preserves!Archives(c) /\ arc[p] # Preserves!NoCopy => p \in ds2
    \/ arc[p].content \notin Preserves!Content /\ arc2[p].by # o

\* Step <<name, p>> of command c makes arc2 of the copies arc.
Fits(c, name, p, org, arc, arc2) ==
  /\ \A q \in 1 .. 2 : q # p => arc2[q] = arc[q]
  /\ name = "hash" => \A q \in c.scope : org[q] # "link"
  /\ name = "open" /\ p \in 1 .. 2 => arc2[p].content \notin Preserves!Content
  /\ name = "verify" => arc2 = arc /\ (p \in 1 .. 2 => org[p] = arc[p].content /\ org[p] # "missing")

\* File p becomes content, and command c is told in sn2.
Edited(c, p, content, org, org2, sn, sn2) ==
  /\ \A q \in 1 .. 2 : org2[q] = IF q = p THEN content ELSE org[q]
  /\ Preserves!Archives(c) => \A q \in 1 .. 2 : sn2[q] = IF q = p THEN sn[q] \cup {content} ELSE sn[q]

\* A command that is over, or that nobody began.
LEMMA IdlePreserves ==
  ASSUME NEW o, NEW sn, NEW ds, NEW org, NEW arc
  PROVE  Preserving(o, <<>>, Preserves!NoCommand, sn, ds, org, arc)
<1>1. <<>> \in Seq(StepName \X (0 .. 2)) /\ Len(<<>>) = 0 /\ 1 .. 0 = {}
  OBVIOUS
<1>2. Ordered(<<>>)
  BY <1>1 DEF Ordered
<1>3. ~Preserves!Archives(Preserves!NoCommand)
  BY DEF Preserves!Archives, Preserves!NoCommand
<1>. QED  BY <1>1, <1>2, <1>3 DEF Preserving

\* A command that begins.
LEMMA StartPreserves ==
  ASSUME NEW c, c.scope \subseteq 1 .. 2, c.op \in {"manifest", "copy", "verify", "migration-map"},
         NEW o, NEW sn, NEW ds, NEW org, NEW arc,
         Preserves!Archives(c) => \A p \in c.scope : org[p] \in sn[p]
  PROVE  Preserving(o, Preserves!Script(c), c, sn, ds, org, arc)
<1> DEFINE s == Preserves!Script(c)
<1>1. /\ s \in Seq(StepName \X (0 .. 2)) /\ s # <<>> /\ Ordered(s)
      /\ s[1] = <<"hash", 0>>
      /\ \A i \in 1 .. Len(s) : s[i][2] \in c.scope \cup {0}
      /\ Preserves!Archives(c) => \A p \in c.scope : Left(s, p)
  BY ScriptInOrder
<1> HIDE DEF s
<1>2. s[1][1] = "hash" /\ \A p \in 1 .. 2 : s[1] # <<"fill", p>>
  BY <1>1
<1>3. Preserving(o, s, c, sn, ds, org, arc)
  BY <1>1, <1>2 DEF Preserving
<1>. QED  BY <1>3 DEF s

\* What other operators do to the copies.
LEMMA OthersPreserve ==
  ASSUME NEW o, NEW s, NEW c, NEW sn, NEW ds, NEW org, NEW arc, NEW ds2, NEW arc2,
         c.scope \subseteq 1 .. 2,
         Preserving(o, s, c, sn, ds, org, arc),
         ds \subseteq ds2,
         Spares(o, c, ds2, arc, arc2)
  PROVE  Preserving(o, s, c, sn, ds2, org, arc2)
<1>1. Preserves!NoCopy.content \notin Preserves!Content
  BY DEF Preserves!NoCopy, Preserves!Copy, Preserves!Content
<1>2. ASSUME NEW p \in 1 .. 2, s # <<>>, s[1] = <<"fill", p>>, arc2[p].by = o
      PROVE  arc2[p].content \notin Preserves!Content
  <2>1. CASE arc2[p] = arc[p]
    BY <2>1, <1>2 DEF Preserving
  <2>2. CASE arc2[p] = Preserves!NoCopy
    BY <2>2, <1>1
  <2>. QED  BY <2>1, <2>2, <1>2 DEF Spares
<1>3. ASSUME NEW p \in c.scope, Preserves!Archives(c), Gone(s, p), p \notin ds2,
             arc[p].content \in sn[p] \cap Preserves!Content
      PROVE  arc2[p].content \in sn[p] \cap Preserves!Content
  <2>1. arc[p] # Preserves!NoCopy
    BY <1>1, <1>3
  <2>2. arc2[p] = arc[p]
    BY <2>1, <1>3 DEF Spares
  <2>. QED  BY <2>2, <1>3
<1>. QED  BY <1>2, <1>3 DEF Preserving

\* What the operator's own step does.
LEMMA StepPreserves ==
  ASSUME NEW o, NEW s, NEW c, NEW sn, NEW ds, NEW org, NEW arc, NEW arc2, NEW name, NEW p,
         c.scope \subseteq 1 .. 2,
         org \in [1 .. 2 -> Files],
         Preserving(o, s, c, sn, ds, org, arc),
         s # <<>>, Head(s) = <<name, p>>,
         Fits(c, name, p, org, arc, arc2)
  PROVE  Preserving(o, Tail(s), c, sn, ds, org, arc2)
<1> DEFINE t == Tail(s)
<1>1. s \in Seq(StepName \X (0 .. 2)) /\ Ordered(s)
  BY DEF Preserving
<1>2. /\ t \in Seq(StepName \X (0 .. 2)) /\ Ordered(t)
      /\ Head(s) = s[1] /\ 1 \in 1 .. Len(s)
      /\ t # <<>> => /\ t[1][1] # "hash"
                     /\ t[1][1] = "fill" => s[1] = <<"open", t[1][2]>>
      /\ \A i \in 1 .. Len(t) : \E j \in 1 .. Len(s) : t[i] = s[j]
      /\ \A q \in 1 .. 2 : /\ Gone(s, q) => Gone(t, q) /\ s[1][2] # q
                           /\ Left(s, q) /\ s[1] # <<"verify", q>> => Left(t, q)
                           /\ s[1] = <<"verify", q>> => Gone(t, q)
  BY <1>1, StepsLeft
<1> HIDE DEF t
<1>3. s[1] = <<name, p>>
  BY <1>2
<1>4. \A i \in 1 .. Len(t) : t[i][2] \in c.scope \cup {0}
  BY <1>2 DEF Preserving
<1>5. t # <<>> => \A q \in c.scope : org[q] # "link"
  <2>1. CASE name = "hash"
    BY <2>1 DEF Fits
  <2>2. CASE name # "hash"
    BY <2>2, <1>3 DEF Preserving
  <2>. QED  BY <2>1, <2>2
<1>6. ASSUME NEW q \in 1 .. 2, t # <<>>, t[1] = <<"fill", q>>
      PROVE  arc2[q].content \notin Preserves!Content
  <2>1. t[1][1] = "fill" /\ t[1][2] = q
    BY <1>6
  <2>2. name = "open" /\ p = q
    BY <2>1, <1>6, <1>2, <1>3
  <2>. QED  BY <2>2 DEF Fits
<1>7. ASSUME NEW q \in c.scope, Preserves!Archives(c)
      PROVE  /\ org[q] \in sn[q]
             /\ \/ Left(t, q)
                \/ Gone(t, q) /\ (q \in ds \/ arc2[q].content \in sn[q] \cap Preserves!Content)
  <2>1. q \in 1 .. 2 /\ org[q] \in sn[q]
    BY <1>7 DEF Preserving
  <2>2. CASE Gone(s, q) /\ (q \in ds \/ arc[q].content \in sn[q] \cap Preserves!Content)
    <3>1. Gone(t, q) /\ q # p
      BY <2>1, <2>2, <1>2, <1>3
    <3>. QED  BY <3>1, <2>1, <2>2 DEF Fits
  <2>3. CASE Left(s, q) /\ s[1] # <<"verify", q>>
    BY <2>1, <2>3, <1>2
  <2>4. CASE s[1] = <<"verify", q>>
    <3>1. name = "verify" /\ p = q /\ Gone(t, q)
      BY <2>1, <2>4, <1>2, <1>3
    <3>2. org[q] = arc[q].content /\ org[q] # "missing" /\ arc2 = arc
      BY <3>1, <2>1 DEF Fits
    <3>3. org[q] # "link"
      BY <3>1, <1>3, <2>4 DEF Preserving
    <3>4. org[q] \in Preserves!Content
      BY <3>2, <3>3, <2>1 DEF Files
    <3>. QED  BY <3>1, <3>2, <3>4, <2>1
  <2>. QED  BY <2>1, <2>2, <2>3, <2>4, <1>7 DEF Preserving
<1>8. Preserving(o, t, c, sn, ds, org, arc2)
  BY <1>2, <1>4, <1>5, <1>6, <1>7 DEF Preserving
<1>. QED  BY <1>8 DEF t

\* What an edit of a file does.
LEMMA EditPreserves ==
  ASSUME NEW o, NEW s, NEW c, NEW sn, NEW ds, NEW org, NEW arc, NEW sn2, NEW org2, NEW p, NEW content,
         c.scope \subseteq 1 .. 2,
         Preserving(o, s, c, sn, ds, org, arc),
         content = "link" => s = <<>>,
         Edited(c, p, content, org, org2, sn, sn2)
  PROVE  Preserving(o, s, c, sn2, ds, org2, arc)
<1>1. ASSUME s # <<>>, s[1][1] # "hash", NEW q \in c.scope
      PROVE  org2[q] # "link"
  BY <1>1 DEF Preserving, Edited
<1>2. ASSUME Preserves!Archives(c), NEW q \in c.scope
      PROVE  /\ org2[q] \in sn2[q]
             /\ sn[q] \subseteq sn2[q]
  BY <1>2 DEF Preserving, Edited
<1>. QED  BY <1>1, <1>2 DEF Preserving

-----------------------------------------------------------------------------
(* Preservation: the inductive invariant.                                  *)

PreserveTyped ==
  /\ original \in [1 .. 2 -> Files] /\ archived \in [1 .. 2 -> Copies]
  /\ agenda \in [Operator -> Seq(StepName \X (0 .. 2))]
  /\ command \in [Operator -> [op : CommandName, scope : SUBSET (1 .. 2)]]
  /\ reading \in [Operator -> SUBSET Files]
  /\ since \in [Operator -> [1 .. 2 -> SUBSET Files]]
  /\ disturbed \in [Operator -> SUBSET (1 .. 2)]
  /\ reported \subseteq Operator /\ \A o \in reported : agenda[o] = <<>>

OperatorsPreserve ==
  \A o \in Operator :
    Preserving(o, agenda[o], command[o], since[o], disturbed[o], original, archived)

PreserveInv == PreserveTyped /\ OperatorsPreserve

LEMMA NamesOfFiles ==
  /\ Preserves!Path = 1 .. 2 /\ Preserves!Content \subseteq Files
  /\ "missing" \in Files /\ "link" \in Files /\ "missing" \notin Preserves!Content /\ "link" \notin Preserves!Content
  /\ Preserves!NoCopy \in Copies /\ Preserves!NoCopy.content \notin Preserves!Content
  /\ \A o \in Operator : Preserves!Copy("partial", o) \in Copies
  /\ \A o \in Operator : Preserves!Copy("partial", o).content \notin Preserves!Content
  /\ \A o \in Operator : Preserves!Copy("partial", o).by = o
  /\ Preserves!Unseen \in [1 .. 2 -> SUBSET Files]
  /\ Preserves!NoCommand \in [op : CommandName, scope : SUBSET (1 .. 2)]
BY DEF Preserves!Path, Preserves!Content, Files, Preserves!NoCopy, Preserves!Copy, Copies, Preserves!Unseen,
       Preserves!NoCommand, CommandName

LEMMA CommandGoes ==
  ASSUME PreserveInv, NEW o \in Operator, agenda[o] # <<>>, Preserves!Goes(o)
  PROVE  /\ agenda' \in [Operator -> Seq(StepName \X (0 .. 2))] /\ agenda'[o] = Tail(agenda[o])
         /\ \A x \in Operator : x # o => agenda'[x] = agenda[x]
         /\ reported' \subseteq Operator /\ \A x \in reported' : agenda'[x] = <<>>
         /\ command' = command /\ since' = since
<1>1. agenda[o] \in Seq(StepName \X (0 .. 2)) /\ Ordered(agenda[o])
  BY DEF PreserveInv, PreserveTyped, OperatorsPreserve, Preserving
<1>2. Tail(agenda[o]) \in Seq(StepName \X (0 .. 2)) /\ (Len(agenda[o]) = 1 => Tail(agenda[o]) = <<>>)
  BY <1>1, StepsLeft
<1>3. agenda' = [agenda EXCEPT ![o] = Tail(agenda[o])]
  BY DEF Preserves!Goes
<1>4. /\ agenda' \in [Operator -> Seq(StepName \X (0 .. 2))] /\ agenda'[o] = Tail(agenda[o])
      /\ \A x \in Operator : x # o => agenda'[x] = agenda[x]
  BY <1>2, <1>3 DEF PreserveInv, PreserveTyped
<1>5. reported' \subseteq Operator /\ \A x \in reported' : agenda'[x] = <<>>
  <2>1. reported \subseteq Operator /\ \A x \in reported : agenda[x] = <<>> /\ x # o
    BY DEF PreserveInv, PreserveTyped
  <2>2. CASE Len(agenda[o]) = 1
    BY <2>1, <2>2, <1>2, <1>4 DEF Preserves!Goes
  <2>3. CASE Len(agenda[o]) # 1
    BY <2>1, <2>3, <1>4 DEF Preserves!Goes
  <2>. QED  BY <2>2, <2>3
<1>. QED  BY <1>4, <1>5 DEF Preserves!Goes

LEMMA CommandRaises ==
  ASSUME PreserveInv, NEW o \in Operator, agenda[o] # <<>>, Preserves!Raises(o)
  PROVE  /\ agenda' \in [Operator -> Seq(StepName \X (0 .. 2))]
         /\ command' \in [Operator -> [op : CommandName, scope : SUBSET (1 .. 2)]]
         /\ since' \in [Operator -> [1 .. 2 -> SUBSET Files]]
         /\ \A x \in Operator : x # o => agenda'[x] = agenda[x] /\ command'[x] = command[x] /\ since'[x] = since[x]
         /\ reported' \subseteq Operator /\ \A x \in reported' : agenda'[x] = <<>>
         /\ \A ds, org, arc : Preserving(o, agenda'[o], command'[o], since'[o], ds, org, arc)
<1>1. /\ agenda' = [agenda EXCEPT ![o] = <<>>] /\ command' = [command EXCEPT ![o] = Preserves!NoCommand]
      /\ since' = [since EXCEPT ![o] = Preserves!Unseen] /\ reported' = reported
  BY DEF Preserves!Raises
<1>2. /\ agenda'[o] = <<>> /\ command'[o] = Preserves!NoCommand
      /\ agenda' \in [Operator -> Seq(StepName \X (0 .. 2))]
      /\ command' \in [Operator -> [op : CommandName, scope : SUBSET (1 .. 2)]]
      /\ since' \in [Operator -> [1 .. 2 -> SUBSET Files]]
  BY <1>1, NamesOfFiles DEF PreserveInv, PreserveTyped
<1>3. \A x \in Operator : x # o => agenda'[x] = agenda[x] /\ command'[x] = command[x] /\ since'[x] = since[x]
  BY <1>1 DEF PreserveInv, PreserveTyped
<1>4. reported' \subseteq Operator /\ \A x \in reported' : agenda'[x] = <<>>
  BY <1>1, <1>3 DEF PreserveInv, PreserveTyped
<1>5. \A ds, org, arc : Preserving(o, agenda'[o], command'[o], since'[o], ds, org, arc)
  BY <1>2, IdlePreserves
<1>. QED  BY <1>2, <1>3, <1>4, <1>5

\* A step of an operator whose copies the others do not mistake for their own.
LEMMA TurnKeeps ==
  ASSUME PreserveInv, NEW o \in Operator, PreserveTyped', original' = original,
         Preserving(o, agenda'[o], command'[o], since'[o], disturbed'[o], original, archived'),
         \A x \in Operator : x # o => /\ agenda'[x] = agenda[x] /\ command'[x] = command[x] /\ since'[x] = since[x]
                                      /\ disturbed[x] \subseteq disturbed'[x],
         \A x \in Operator : x # o => Spares(x, command[x], disturbed'[x], archived, archived')
  PROVE  PreserveInv'
<1>1. ASSUME NEW x \in Operator, x # o
      PROVE  Preserving(x, agenda'[x], command'[x], since'[x], disturbed'[x], original, archived')
  <2>1. Preserving(x, agenda[x], command[x], since[x], disturbed[x], original, archived)
    BY DEF PreserveInv, OperatorsPreserve
  <2>2. command[x].scope \subseteq 1 .. 2
    BY DEF PreserveInv, PreserveTyped
  <2>3. Preserving(x, agenda[x], command[x], since[x], disturbed'[x], original, archived')
    BY <1>1, <2>1, <2>2, OthersPreserve
  <2>. QED  BY <1>1, <2>3
<1>2. OperatorsPreserve'
  BY <1>1 DEF OperatorsPreserve
<1>. QED  BY <1>2 DEF PreserveInv

-----------------------------------------------------------------------------
(* Preservation: the steps keep it.                                        *)

\* A step that changes no copy.
LEMMA QuietStepKeeps ==
  ASSUME PreserveInv, NEW o \in Operator, NEW name, NEW p, Preserves!Takes(o, name, p), Preserves!Goes(o),
         UNCHANGED <<original, archived, reading, disturbed>>,
         name = "hash" => \A q \in command[o].scope : original[q] # "link",
         name # "open",
         name = "verify" => p \in 1 .. 2 /\ Preserves!Same(p)
  PROVE  PreserveInv'
<1>1. agenda[o] # <<>> /\ Head(agenda[o]) = <<name, p>>
  BY DEF Preserves!Takes
<1>2. /\ agenda' \in [Operator -> Seq(StepName \X (0 .. 2))] /\ agenda'[o] = Tail(agenda[o])
      /\ \A x \in Operator : x # o => agenda'[x] = agenda[x]
      /\ reported' \subseteq Operator /\ \A x \in reported' : agenda'[x] = <<>>
      /\ command' = command /\ since' = since
  BY <1>1, CommandGoes
<1>3. Preserving(o, agenda[o], command[o], since[o], disturbed[o], original, archived)
  BY DEF PreserveInv, OperatorsPreserve
<1>4. command[o].scope \subseteq 1 .. 2 /\ original \in [1 .. 2 -> Files]
  BY DEF PreserveInv, PreserveTyped
<1>5. name = "verify" => original[p] = archived[p].content /\ original[p] # "missing"
  BY DEF Preserves!Same
<1>9. Fits(command[o], name, p, original, archived, archived)
  BY <1>5 DEF Fits
<1>6. Preserving(o, Tail(agenda[o]), command[o], since[o], disturbed[o], original, archived)
  BY <1>1, <1>3, <1>4, <1>9, StepPreserves
<1>7. PreserveTyped'
  BY <1>2 DEF PreserveInv, PreserveTyped
<1>8. Preserving(o, agenda'[o], command'[o], since'[o], disturbed'[o], original, archived')
  BY <1>2, <1>6
<1>10. \A x \in Operator : x # o => Spares(x, command[x], disturbed'[x], archived, archived')
  BY DEF Spares
<1>. QED  BY <1>2, <1>7, <1>8, <1>10, TurnKeeps

\* A failure that changes no copy.
LEMMA QuietFailureKeeps ==
  ASSUME PreserveInv, NEW o \in Operator, agenda[o] # <<>>, Preserves!Raises(o),
         UNCHANGED <<original, archived, disturbed>>, reading' \in [Operator -> SUBSET Files]
  PROVE  PreserveInv'
<1>1. /\ agenda' \in [Operator -> Seq(StepName \X (0 .. 2))]
      /\ command' \in [Operator -> [op : CommandName, scope : SUBSET (1 .. 2)]]
      /\ since' \in [Operator -> [1 .. 2 -> SUBSET Files]]
      /\ \A x \in Operator : x # o => agenda'[x] = agenda[x] /\ command'[x] = command[x] /\ since'[x] = since[x]
      /\ reported' \subseteq Operator /\ \A x \in reported' : agenda'[x] = <<>>
      /\ \A ds, org, arc : Preserving(o, agenda'[o], command'[o], since'[o], ds, org, arc)
  BY CommandRaises
<1>2. PreserveTyped'
  BY <1>1 DEF PreserveInv, PreserveTyped
<1>3. Preserving(o, agenda'[o], command'[o], since'[o], disturbed'[o], original, archived')
  BY <1>1
<1>4. \A x \in Operator : x # o => Spares(x, command[x], disturbed'[x], archived, archived')
  BY DEF Spares
<1>. QED  BY <1>1, <1>2, <1>3, <1>4, TurnKeeps

\* A failure that removes a copy: who has lost it is told.
LEMMA UnlinkKeeps ==
  ASSUME PreserveInv, NEW o \in Operator, agenda[o] # <<>>, Preserves!Raises(o), NEW p \in 1 .. 2,
         Preserves!Unlink(o, p), original' = original, reading' \in [Operator -> SUBSET Files]
  PROVE  PreserveInv'
<1>1. /\ agenda' \in [Operator -> Seq(StepName \X (0 .. 2))]
      /\ command' \in [Operator -> [op : CommandName, scope : SUBSET (1 .. 2)]]
      /\ since' \in [Operator -> [1 .. 2 -> SUBSET Files]]
      /\ \A x \in Operator : x # o => agenda'[x] = agenda[x] /\ command'[x] = command[x] /\ since'[x] = since[x]
      /\ reported' \subseteq Operator /\ \A x \in reported' : agenda'[x] = <<>>
      /\ \A ds, org, arc : Preserving(o, agenda'[o], command'[o], since'[o], ds, org, arc)
  BY CommandRaises
<1>2. /\ archived' \in [1 .. 2 -> Copies] /\ archived'[p] = Preserves!NoCopy
      /\ \A q \in 1 .. 2 : q # p => archived'[q] = archived[q]
  BY NamesOfFiles DEF Preserves!Unlink, PreserveInv, PreserveTyped
<1>3. /\ disturbed' \in [Operator -> SUBSET (1 .. 2)]
      /\ \A x \in Operator : x # o => /\ disturbed[x] \subseteq disturbed'[x]
                                      /\ Preserves!Archives(command[x]) /\ archived[p] # Preserves!NoCopy => p \in disturbed'[x]
  <2>1. disturbed' = [x \in Operator |->
                        IF x # o /\ Preserves!Archives(command[x]) /\ archived[p] # Preserves!NoCopy
                        THEN disturbed[x] \cup {p} ELSE disturbed[x]]
    BY DEF Preserves!Unlink, Preserves!Disturbs
  <2>2. disturbed \in [Operator -> SUBSET (1 .. 2)]
    BY DEF PreserveInv, PreserveTyped
  <2>. QED  BY <2>1, <2>2
<1>4. PreserveTyped'
  BY <1>1, <1>2, <1>3 DEF PreserveInv, PreserveTyped
<1>5. Preserving(o, agenda'[o], command'[o], since'[o], disturbed'[o], original, archived')
  BY <1>1
<1>7. ASSUME NEW x \in Operator, x # o, NEW q \in 1 .. 2
      PROVE  \/ archived'[q] = archived[q]
             \/ /\ archived'[q] = Preserves!NoCopy
                /\ Preserves!Archives(command[x]) /\ archived[q] # Preserves!NoCopy => q \in disturbed'[x]
  <2>1. CASE q = p
    <3>1. archived'[q] = Preserves!NoCopy
      BY <2>1, <1>2
    <3>2. Preserves!Archives(command[x]) /\ archived[q] # Preserves!NoCopy => q \in disturbed'[x]
      BY <2>1, <1>3, <1>7
    <3>. QED  BY <3>1, <3>2
  <2>2. CASE q # p
    BY <2>2, <1>2
  <2>. QED  BY <2>1, <2>2
<1>6. \A x \in Operator : x # o => Spares(x, command[x], disturbed'[x], archived, archived')
  BY <1>7 DEF Spares
<1>. QED  BY <1>1, <1>3, <1>4, <1>5, <1>6, TurnKeeps

LEMMA HashScopeKeeps ==
  ASSUME PreserveInv, NEW o \in Operator, Preserves!HashScope(o)
  PROVE  PreserveInv'
<1>1. /\ Preserves!Takes(o, "hash", 0) /\ UNCHANGED <<original, archived, reading, disturbed>>
      /\ agenda[o] # <<>>
  BY DEF Preserves!HashScope, Preserves!trees, Preserves!Takes
<1>2. CASE Preserves!Goes(o) /\ \A q \in command[o].scope : Preserves!_require_regular_file(original[q])
  <2>1. \A q \in command[o].scope : original[q] # "link"
    BY <1>2 DEF Preserves!_require_regular_file, Preserves!Content
  <2>. QED  BY <1>1, <1>2, <2>1, QuietStepKeeps
<1>3. CASE Preserves!Raises(o)
  <2>1. reading' \in [Operator -> SUBSET Files]
    BY <1>1 DEF PreserveInv, PreserveTyped
  <2>. QED  BY <1>1, <1>3, <2>1, QuietFailureKeeps
<1>. QED  BY <1>2, <1>3 DEF Preserves!HashScope, Preserves!GoesIf

LEMMA LookAtPairKeeps ==
  ASSUME PreserveInv, NEW o \in Operator, NEW p \in 1 .. 2, Preserves!LookAtPair(o, p)
  PROVE  PreserveInv'
<1>1. /\ UNCHANGED <<original, archived, reading, disturbed>> /\ agenda[o] # <<>>
  BY DEF Preserves!LookAtPair, Preserves!trees, Preserves!Takes
<1>2. ASSUME Preserves!Goes(o)
      PROVE  PreserveInv'
  <2>1. PICK name \in {"look", "both"} : Preserves!Takes(o, name, p)
    BY DEF Preserves!LookAtPair
  <2>2. name # "hash" /\ name # "open" /\ name # "verify"
    OBVIOUS
  <2>. QED  BY <1>1, <1>2, <2>1, <2>2, QuietStepKeeps
<1>3. CASE Preserves!Raises(o)
  <2>1. reading' \in [Operator -> SUBSET Files]
    BY <1>1 DEF PreserveInv, PreserveTyped
  <2>. QED  BY <1>1, <1>3, <2>1, QuietFailureKeeps
<1>. QED  BY <1>2, <1>3 DEF Preserves!LookAtPair, Preserves!GoesIf

LEMMA VerifyPairKeeps ==
  ASSUME PreserveInv, NEW o \in Operator, NEW p \in 1 .. 2, Preserves!VerifyPair(o, p)
  PROVE  PreserveInv'
<1>1. /\ Preserves!Takes(o, "verify", p)
      /\ UNCHANGED <<original, archived, reading, disturbed>> /\ agenda[o] # <<>>
  BY DEF Preserves!VerifyPair, Preserves!trees, Preserves!Takes
<1>2. CASE Preserves!Goes(o) /\ Preserves!Same(p)
  BY <1>1, <1>2, QuietStepKeeps
<1>3. CASE Preserves!Raises(o)
  <2>1. reading' \in [Operator -> SUBSET Files]
    BY <1>1 DEF PreserveInv, PreserveTyped
  <2>. QED  BY <1>1, <1>3, <2>1, QuietFailureKeeps
<1>. QED  BY <1>2, <1>3 DEF Preserves!VerifyPair, Preserves!GoesIf

LEMMA WriteRecordKeeps ==
  ASSUME PreserveInv, NEW o \in Operator, Preserves!WriteRecord(o)
  PROVE  PreserveInv'
<1>1. /\ UNCHANGED <<original, archived, reading, disturbed>> /\ agenda[o] # <<>>
  BY DEF Preserves!WriteRecord, Preserves!trees, Preserves!Takes
<1>2. ASSUME Preserves!Goes(o)
      PROVE  PreserveInv'
  <2>1. PICK name \in {"manifest", "unwritten", "map"} : Preserves!Takes(o, name, 0)
    BY DEF Preserves!WriteRecord
  <2>2. name # "hash" /\ name # "open" /\ name # "verify"
    OBVIOUS
  <2>. QED  BY <1>1, <1>2, <2>1, <2>2, QuietStepKeeps
<1>3. CASE Preserves!Raises(o)
  <2>1. reading' \in [Operator -> SUBSET Files]
    BY <1>1 DEF PreserveInv, PreserveTyped
  <2>. QED  BY <1>1, <1>3, <2>1, QuietFailureKeeps
<1>. QED  BY <1>2, <1>3 DEF Preserves!WriteRecord, Preserves!GoesIf

LEMMA KillKeeps ==
  ASSUME PreserveInv, NEW o \in Operator, Preserves!Kill(o)
  PROVE  PreserveInv'
<1>1. reading' \in [Operator -> SUBSET Files]
  BY DEF PreserveInv, PreserveTyped, Preserves!Kill
<1>. QED  BY <1>1, QuietFailureKeeps DEF Preserves!Kill, Preserves!trees

\* A file that is opened has no copy yet.
LEMMA OpenFilesKeeps ==
  ASSUME PreserveInv, NEW o \in Operator, NEW p \in 1 .. 2, Preserves!OpenFiles(o, p)
  PROVE  PreserveInv'
<1>1. /\ Preserves!Takes(o, "open", p) /\ agenda[o] # <<>> /\ Head(agenda[o]) = <<"open", p>>
      /\ original' = original
  BY DEF Preserves!OpenFiles, Preserves!Takes
<1>2. /\ reading \in [Operator -> SUBSET Files] /\ archived \in [1 .. 2 -> Copies]
      /\ original \in [1 .. 2 -> Files] /\ command[o].scope \subseteq 1 .. 2
      /\ disturbed \in [Operator -> SUBSET (1 .. 2)]
      /\ command \in [Operator -> [op : CommandName, scope : SUBSET (1 .. 2)]]
      /\ since \in [Operator -> [1 .. 2 -> SUBSET Files]]
  BY DEF PreserveInv, PreserveTyped
<1>3. CASE original[p] = "missing"
  <2>1. Preserves!Raises(o) /\ Preserves!Unlink(o, p) /\ reading' = reading
    BY <1>3 DEF Preserves!OpenFiles
  <2>. QED  BY <1>1, <1>2, <2>1, UnlinkKeeps
<1>4. CASE original[p] # "missing" /\ archived[p] # Preserves!NoCopy
  <2>1. Preserves!Raises(o) /\ UNCHANGED <<archived, reading, disturbed>>
    BY <1>4 DEF Preserves!OpenFiles, Preserves!GoesIf
  <2>. QED  BY <1>1, <1>2, <2>1, QuietFailureKeeps
<1>5. CASE original[p] # "missing" /\ archived[p] = Preserves!NoCopy
  <2>1. /\ Preserves!Goes(o) /\ disturbed' = disturbed
        /\ archived' = [archived EXCEPT ![p] = Preserves!Copy("partial", o)]
        /\ reading' = [reading EXCEPT ![o] = {original[p]}]
    BY <1>5 DEF Preserves!OpenFiles, Preserves!GoesIf
  <2>2. /\ agenda' \in [Operator -> Seq(StepName \X (0 .. 2))] /\ agenda'[o] = Tail(agenda[o])
        /\ \A x \in Operator : x # o => agenda'[x] = agenda[x]
        /\ reported' \subseteq Operator /\ \A x \in reported' : agenda'[x] = <<>>
        /\ command' = command /\ since' = since
    BY <1>1, <2>1, CommandGoes
  <2>3. /\ archived' \in [1 .. 2 -> Copies] /\ archived'[p].by = o
        /\ archived'[p].content \notin Preserves!Content
        /\ \A q \in 1 .. 2 : q # p => archived'[q] = archived[q]
    BY <2>1, <1>2, NamesOfFiles
  <2>4. reading' \in [Operator -> SUBSET Files]
    BY <2>1, <1>2
  <2>5. Preserving(o, agenda[o], command[o], since[o], disturbed[o], original, archived)
    BY DEF PreserveInv, OperatorsPreserve
  <2>6. Preserving(o, Tail(agenda[o]), command[o], since[o], disturbed[o], original, archived')
    <3>1. Fits(command[o], "open", p, original, archived, archived')
      BY <2>3 DEF Fits
    <3>. QED  BY <1>1, <1>2, <2>5, <3>1, StepPreserves
  <2>7. PreserveTyped'
    BY <1>1, <1>2, <2>1, <2>2, <2>3, <2>4 DEF PreserveTyped
  <2>8. archived[p].content \notin Preserves!Content
    BY <1>5, NamesOfFiles
  <2>9. \A x \in Operator : x # o =>
          Spares(x, command[x], disturbed'[x], archived, archived')
    BY <2>3, <2>8 DEF Spares
  <2>. QED  BY <1>1, <2>1, <2>2, <2>6, <2>7, <2>9, TurnKeeps
<1>. QED  BY <1>3, <1>4, <1>5

\* What is filled is the operator's own, or nothing.
LEMMA CopyFileKeeps ==
  ASSUME PreserveInv, NEW o \in Operator, NEW p \in 1 .. 2, Preserves!_copy_file(o, p)
  PROVE  PreserveInv'
<1>1. /\ Preserves!Takes(o, "fill", p) /\ agenda[o] # <<>> /\ Head(agenda[o]) = <<"fill", p>>
      /\ original' = original /\ reading' = [reading EXCEPT ![o] = {}]
  BY DEF Preserves!_copy_file, Preserves!Takes
<1>2. /\ reading \in [Operator -> SUBSET Files] /\ archived \in [1 .. 2 -> Copies]
      /\ original \in [1 .. 2 -> Files] /\ command[o].scope \subseteq 1 .. 2
      /\ disturbed \in [Operator -> SUBSET (1 .. 2)]
      /\ command \in [Operator -> [op : CommandName, scope : SUBSET (1 .. 2)]]
      /\ since \in [Operator -> [1 .. 2 -> SUBSET Files]]
  BY DEF PreserveInv, PreserveTyped
<1>3. reading' \in [Operator -> SUBSET Files]
  BY <1>1, <1>2
<1>4. CASE Preserves!Raises(o) /\ Preserves!Unlink(o, p)
  BY <1>1, <1>3, <1>4, UnlinkKeeps
<1>5. ASSUME NEW content \in Preserves!Mixtures(o) \ {"missing"},
             archived' = IF archived[p].by = o THEN [archived EXCEPT ![p].content = content] ELSE archived,
             Preserves!Goes(o), disturbed' = disturbed
      PROVE  PreserveInv'
  <2>1. content \in Files \cup {"mixed"}
    BY <1>2, <1>5 DEF Preserves!Mixtures
  <2>2. /\ agenda' \in [Operator -> Seq(StepName \X (0 .. 2))] /\ agenda'[o] = Tail(agenda[o])
        /\ \A x \in Operator : x # o => agenda'[x] = agenda[x]
        /\ reported' \subseteq Operator /\ \A x \in reported' : agenda'[x] = <<>>
        /\ command' = command /\ since' = since
    BY <1>1, <1>5, CommandGoes
  <2>3. /\ archived' \in [1 .. 2 -> Copies]
        /\ \A q \in 1 .. 2 : q # p => archived'[q] = archived[q]
        /\ archived'[p] = archived[p] \/ (archived[p].by = o /\ archived'[p].by = o)
    <3>1. CASE archived[p].by = o
      <4>1. archived' = [archived EXCEPT ![p].content = content]
        BY <3>1, <1>5
      <4>. QED  BY <3>1, <4>1, <2>1, <1>2 DEF Copies
    <3>2. CASE archived[p].by # o
      <4>1. archived' = archived
        BY <3>2, <1>5
      <4>2. archived' \in [1 .. 2 -> Copies]
        BY <4>1, <1>2
      <4>3. \A q \in 1 .. 2 : archived'[q] = archived[q]
        BY <4>1
      <4>. QED  BY <4>2, <4>3
    <3>. QED  BY <3>1, <3>2
  <2>4. Preserving(o, agenda[o], command[o], since[o], disturbed[o], original, archived)
    BY DEF PreserveInv, OperatorsPreserve
  <2>5. Preserving(o, Tail(agenda[o]), command[o], since[o], disturbed[o], original, archived')
    <3>1. Fits(command[o], "fill", p, original, archived, archived')
      BY <2>3 DEF Fits
    <3>. QED  BY <1>1, <1>2, <2>4, <3>1, StepPreserves
  <2>6. PreserveTyped'
    BY <1>1, <1>2, <1>3, <1>5, <2>2, <2>3 DEF PreserveTyped
  <2>7. archived[p].by = o => archived[p].content \notin Preserves!Content
    <3>1. agenda[o] \in Seq(StepName \X (0 .. 2)) /\ Ordered(agenda[o])
      BY <2>4 DEF Preserving
    <3>2. agenda[o][1] = <<"fill", p>>
      BY <3>1, <1>1, StepsLeft
    <3>. QED  BY <3>2, <1>1, <2>4 DEF Preserving
  <2>8. \A x \in Operator : x # o =>
          Spares(x, command[x], disturbed'[x], archived, archived')
    BY <2>3, <2>7 DEF Spares
  <2>. QED  BY <1>1, <1>5, <2>2, <2>5, <2>6, <2>8, TurnKeeps
<1>. QED  BY <1>4, <1>5 DEF Preserves!_copy_file

LEMMA CommandStartKeeps ==
  ASSUME PreserveInv, NEW o \in Operator, Preserves!Start(o)
  PROVE  PreserveInv'
<1>1. PICK op \in {"manifest", "copy", "verify", "migration-map"}, scope \in Preserves!collect_scope :
        command' = [command EXCEPT ![o] = [op |-> op, scope |-> scope]]
  BY DEF Preserves!Start
<1>2. scope \in SUBSET (1 .. 2)
  <2>1. Preserves!Path = 1 .. 2
    BY NamesOfFiles
  <2>. QED  BY <2>1 DEF Preserves!collect_scope
<1>3. /\ original \in [1 .. 2 -> Files]
      /\ agenda \in [Operator -> Seq(StepName \X (0 .. 2))]
      /\ command \in [Operator -> [op : CommandName, scope : SUBSET (1 .. 2)]]
      /\ since \in [Operator -> [1 .. 2 -> SUBSET Files]]
      /\ disturbed \in [Operator -> SUBSET (1 .. 2)]
      /\ reported \subseteq Operator /\ \A x \in reported : agenda[x] = <<>>
  BY DEF PreserveInv, PreserveTyped
<1> DEFINE c == [op |-> op, scope |-> scope]
<1>4. /\ c \in [op : CommandName, scope : SUBSET (1 .. 2)] /\ c.scope \subseteq 1 .. 2
      /\ c.op \in {"manifest", "copy", "verify", "migration-map"}
  BY <1>2 DEF CommandName
<1>5. command' = [command EXCEPT ![o] = c]
  BY <1>1
<1> HIDE DEF c
<1>6. /\ command' \in [Operator -> [op : CommandName, scope : SUBSET (1 .. 2)]] /\ command'[o] = c
      /\ \A x \in Operator : x # o => command'[x] = command[x]
  BY <1>3, <1>4, <1>5
<1>7. /\ agenda' = [agenda EXCEPT ![o] = Preserves!Script(c)]
      /\ reported' = reported \ {o}
      /\ since' = [since EXCEPT ![o] = IF Preserves!Archives(c) THEN [p \in Preserves!Path |-> {original[p]}]
                                       ELSE Preserves!Unseen]
      /\ disturbed' = [disturbed EXCEPT ![o] = {}]
      /\ UNCHANGED <<original, archived, reading>>
  BY <1>6 DEF Preserves!Start, Preserves!trees
<1>8. Preserves!Script(c) \in Seq(StepName \X (0 .. 2))
  BY <1>4, ScriptInOrder
<1>9. /\ agenda' \in [Operator -> Seq(StepName \X (0 .. 2))] /\ agenda'[o] = Preserves!Script(c)
      /\ \A x \in Operator : x # o => agenda'[x] = agenda[x]
      /\ reported' \subseteq Operator /\ \A x \in reported' : agenda'[x] = <<>>
      /\ disturbed' \in [Operator -> SUBSET (1 .. 2)]
      /\ \A x \in Operator : x # o => disturbed[x] \subseteq disturbed'[x]
  BY <1>3, <1>7, <1>8
<1>10. /\ since' \in [Operator -> [1 .. 2 -> SUBSET Files]]
       /\ \A x \in Operator : x # o => since'[x] = since[x]
       /\ Preserves!Archives(c) => \A p \in c.scope : original[p] \in since'[o][p]
  <2>1. Preserves!Path = 1 .. 2 /\ Preserves!Unseen \in [1 .. 2 -> SUBSET Files]
    BY NamesOfFiles
  <2> DEFINE seen == IF Preserves!Archives(c) THEN [p \in 1 .. 2 |-> {original[p]}] ELSE Preserves!Unseen
  <2>2. seen \in [1 .. 2 -> SUBSET Files]
    BY <2>1, <1>3
  <2>3. Preserves!Archives(c) => \A p \in c.scope : original[p] \in seen[p]
    BY <1>4
  <2>4. since' = [since EXCEPT ![o] = seen]
    BY <1>7, <2>1
  <2> HIDE DEF seen
  <2>. QED  BY <2>2, <2>3, <2>4, <1>3
<1>11. PreserveTyped'
  BY <1>6, <1>7, <1>9, <1>10 DEF PreserveInv, PreserveTyped
<1>12. Preserving(o, Preserves!Script(c), c, since'[o], disturbed'[o], original, archived')
  BY <1>4, <1>10, StartPreserves
<1>13. Preserving(o, agenda'[o], command'[o], since'[o], disturbed'[o], original, archived')
  BY <1>6, <1>9, <1>12
<1>14. \A x \in Operator : x # o => Spares(x, command[x], disturbed'[x], archived, archived')
  BY <1>7 DEF Spares
<1>. QED  BY <1>6, <1>7, <1>9, <1>10, <1>11, <1>13, <1>14, TurnKeeps

LEMMA FileChangeKeeps ==
  ASSUME PreserveInv, Preserves!Change
  PROVE  PreserveInv'
<1>1. Preserves!Path = 1 .. 2 /\ Preserves!Content \cup {"missing", "link"} = Files
  BY NamesOfFiles DEF Files
<1> DEFINE changed(p, content) ==
        /\ content = "link" => \A o \in Operator : agenda[o] = <<>>
        /\ original' = [original EXCEPT ![p] = content]
        /\ since' = [o \in Operator |-> IF Preserves!Archives(command[o])
                                        THEN [since[o] EXCEPT ![p] = @ \cup {content}]
                                        ELSE Preserves!Unseen]
        /\ reading' = [o \in Operator |-> IF Preserves!Takes(o, "fill", p) THEN reading[o] \cup {content}
                                          ELSE reading[o]]
<1>2. PICK p \in 1 .. 2, content \in Files : changed(p, content)
  <2>1. \E p \in Preserves!Path, content \in (Preserves!Content \cup {"missing", "link"}) : changed(p, content)
    BY DEF Preserves!Change
  <2>. HIDE DEF changed
  <2>. QED  BY <1>1, <2>1
<1>3. UNCHANGED <<archived, agenda, command, reported, disturbed>>
  BY DEF Preserves!Change
<1>4. /\ original \in [1 .. 2 -> Files] /\ since \in [Operator -> [1 .. 2 -> SUBSET Files]]
      /\ reading \in [Operator -> SUBSET Files]
      /\ command \in [Operator -> [op : CommandName, scope : SUBSET (1 .. 2)]]
  BY DEF PreserveInv, PreserveTyped
<1>5. /\ original' \in [1 .. 2 -> Files]
      /\ \A q \in 1 .. 2 : original'[q] = IF q = p THEN content ELSE original[q]
  BY <1>2, <1>4
<1>6. ASSUME NEW o \in Operator
      PROVE  /\ since'[o] \in [1 .. 2 -> SUBSET Files]
             /\ Preserves!Archives(command[o]) =>
                  \A q \in 1 .. 2 : since'[o][q] = IF q = p THEN since[o][q] \cup {content} ELSE since[o][q]
  <2>1. since[o] \in [1 .. 2 -> SUBSET Files]
    BY <1>4
  <2>2. CASE Preserves!Archives(command[o])
    <3>1. since'[o] = [since[o] EXCEPT ![p] = since[o][p] \cup {content}]
      BY <1>2, <2>2
    <3>2. since[o][p] \cup {content} \in SUBSET Files
      BY <2>1
    <3>3. since'[o] \in [1 .. 2 -> SUBSET Files]
      BY <3>1, <3>2, <2>1
    <3>4. since'[o][p] = since[o][p] \cup {content}
      BY <3>1, <2>1
    <3>5. \A q \in 1 .. 2 : q # p => since'[o][q] = since[o][q]
      BY <3>1, <2>1
    <3>. QED  BY <3>3, <3>4, <3>5
  <2>3. CASE ~Preserves!Archives(command[o])
    BY <2>3, <1>2, NamesOfFiles
  <2>. QED  BY <2>2, <2>3
<1>7. since' \in [Operator -> [1 .. 2 -> SUBSET Files]]
  BY <1>2, <1>6
<1>8. reading' \in [Operator -> SUBSET Files]
  BY <1>2, <1>4
<1>9. PreserveTyped'
  BY <1>3, <1>5, <1>7, <1>8 DEF PreserveInv, PreserveTyped
<1>10. ASSUME NEW o \in Operator
       PROVE  Preserving(o, agenda'[o], command'[o], since'[o], disturbed'[o], original', archived')
  <2>1. Preserving(o, agenda[o], command[o], since[o], disturbed[o], original, archived)
    BY DEF PreserveInv, OperatorsPreserve
  <2>2. command[o].scope \subseteq 1 .. 2
    BY <1>4
  <2>3. content = "link" => agenda[o] = <<>>
    BY <1>2
  <2>4. Preserving(o, agenda[o], command[o], since'[o], disturbed[o], original', archived)
    <3>1. Edited(command[o], p, content, original, original', since[o], since'[o])
      BY <1>5, <1>6 DEF Edited
    <3>. QED  BY <2>1, <2>2, <2>3, <3>1, EditPreserves
  <2>. QED  BY <2>4, <1>3
<1>11. OperatorsPreserve'
  BY <1>10 DEF OperatorsPreserve
<1>. QED  BY <1>9, <1>11 DEF PreserveInv

LEMMA PreserveSteps ==
  ASSUME PreserveInv, Preserves!Next
  PROVE  PreserveInv'
<1>1. Preserves!Path = 1 .. 2
  BY NamesOfFiles
<1>2. ASSUME NEW o \in Operator,
             \/ Preserves!Start(o) \/ Preserves!Kill(o) \/ Preserves!HashScope(o) \/ Preserves!WriteRecord(o)
      PROVE  PreserveInv'
  BY <1>2, CommandStartKeeps, KillKeeps, HashScopeKeeps, WriteRecordKeeps
<1>3. ASSUME NEW o \in Operator, NEW p \in 1 .. 2,
             \/ Preserves!LookAtPair(o, p) \/ Preserves!OpenFiles(o, p) \/ Preserves!_copy_file(o, p)
             \/ Preserves!VerifyPair(o, p)
      PROVE  PreserveInv'
  BY <1>3, LookAtPairKeeps, OpenFilesKeeps, CopyFileKeeps, VerifyPairKeeps
<1>. QED  BY <1>1, <1>2, <1>3, FileChangeKeeps DEF Preserves!Next

LEMMA PreserveStarts ==
  ASSUME Preserves!Init
  PROVE  PreserveInv
<1>1. Preserves!Path = 1 .. 2 /\ "first" \in Files
  BY NamesOfFiles DEF Files, Preserves!Content
<1>2. archived \in [1 .. 2 -> Copies]
  <2>1. Preserves!Copy("old", "nobody") \in Copies
    BY DEF Preserves!Copy, Copies
  <2>2. Preserves!NoCopy \in Copies
    BY NamesOfFiles
  <2>3. CASE archived = [p \in 1 .. 2 |-> Preserves!NoCopy]
    BY <2>2, <2>3
  <2>4. CASE archived = <<Preserves!NoCopy, Preserves!Copy("old", "nobody")>>
    BY <2>1, <2>2, <2>4
  <2>. QED  BY <1>1, <2>3, <2>4 DEF Preserves!Init
<1>3. /\ original \in [1 .. 2 -> Files]
      /\ agenda \in [Operator -> Seq(StepName \X (0 .. 2))]
      /\ command \in [Operator -> [op : CommandName, scope : SUBSET (1 .. 2)]]
      /\ reading \in [Operator -> SUBSET Files] /\ since \in [Operator -> [1 .. 2 -> SUBSET Files]]
      /\ disturbed \in [Operator -> SUBSET (1 .. 2)] /\ reported = {}
      /\ \A o \in Operator : agenda[o] = <<>> /\ command[o] = Preserves!NoCommand
  BY <1>1, NamesOfFiles DEF Preserves!Init
<1>4. OperatorsPreserve
  BY <1>3, IdlePreserves DEF OperatorsPreserve
<1>. QED  BY <1>2, <1>3, <1>4 DEF PreserveInv, PreserveTyped

LEMMA PreserveAlways == WorkbenchSpec => []PreserveInv
<1>1. WorkbenchInit => PreserveInv
  BY PreserveStarts DEF WorkbenchInit
<1>2. PreserveInv /\ [WorkbenchNext]_workbenchVars => PreserveInv'
  <2> SUFFICES ASSUME PreserveInv, [WorkbenchNext]_workbenchVars PROVE PreserveInv'
    OBVIOUS
  <2>1. CASE Preserves!Next
    BY <2>1, PreserveSteps
  <2>2. CASE UNCHANGED preserveVars
    <3>1. UNCHANGED <<original, archived, agenda, command, reading, reported, since, disturbed>>
      BY <2>2 DEF preserveVars
    <3>2. PreserveTyped'
      BY <3>1 DEF PreserveInv, PreserveTyped
    <3>3. OperatorsPreserve'
      BY <3>1 DEF PreserveInv, OperatorsPreserve
    <3>. QED  BY <3>2, <3>3 DEF PreserveInv
  <2>. QED
    BY <2>1, <2>2 DEF WorkbenchNext, workbenchVars, copyVars
<1>. QED  BY <1>1, <1>2, PTL DEF WorkbenchSpec

(* A copy or a verification that reported success leaves, for every file of   *)
(* its scope that no other command removed meanwhile, a whole copy of what the *)
(* file held since the command began, for any number of operators, runs and   *)
(* edits, whatever kills and other commands come between.                     *)
(* (artifacts/preservation.py: copy_archive, verify_archive, _copy_file.)      *)
THEOREM ReportedCopiesAreWhole == WorkbenchSpec => []ArchivedIsWhole
<1>1. ASSUME PreserveInv, NEW o \in reported, Preserves!Archives(command[o]),
             NEW p \in command[o].scope \ disturbed[o]
      PROVE  archived[p].content \in since[o][p] \cap Preserves!Content
  <2>1. o \in Operator /\ agenda[o] = <<>>
    BY <1>1 DEF PreserveInv, PreserveTyped
  <2>2. Preserving(o, <<>>, command[o], since[o], disturbed[o], original, archived)
    BY <2>1, <1>1 DEF PreserveInv, OperatorsPreserve
  <2>3. ~Left(<<>>, p)
    BY DEF Left
  <2>. QED  BY <1>1, <2>2, <2>3 DEF Preserving
<1>2. PreserveInv => ArchivedIsWhole
  BY <1>1 DEF ArchivedIsWhole, Preserves!ArchivedIsWhole
<1>. QED  BY <1>2, PreserveAlways, PTL
=============================================================================
