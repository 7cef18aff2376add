----------------------------- MODULE ReleaseGate -----------------------------
(***************************************************************************)
(* Production release gates: jobs of kind release-gate over the journal of *)
(* JobStore, each a fixed order of phases, some of them in a killable      *)
(* child process.                                                          *)
(*                                                                         *)
(* The content of a part's exports is the revision of the project source   *)
(* they were built from, and so is their hash in the index.  What a phase  *)
(* judges (a manifest, imports, tests, thresholds, the worktree) is a      *)
(* choice; progress events, texts and timings are left out, and a project  *)
(* has one release hook.  A step is one replacement or commit, one turn of *)
(* a loop, or what lies between two of them.                               *)
(***************************************************************************)
EXTENDS JobStore, SequencesExt

CONSTANTS
  Part,            \* the active parts
  MaxConcurrency,  \* worker threads of the job service: 1 in the command line
  MaxEdits,        \* bound on edits of the project source
  MaxFaults,       \* bound on cancellations, passed deadlines and crashes, together
  NoGate, NoPart, NoArtifacts

\* No gate is mistaken for the absence of one.
ASSUME GateAssumption == NoGate \notin Job

Gate == Job
Artifacts == [Part -> 0 .. MaxEdits]

VARIABLES
  source,       \* the revision of the project source
  file,         \* file[p]: the content of the exports of p
  indexed,      \* indexed[p]: the hash of p in the index
  sums,         \* artifact-manifest.sha256, and the gate that wrote it (history)
  hookContext,  \* hook-context.json
  report,       \* latest.json
  phase, step,  \* where gate g is
  child,        \* the state of its child process
  half, built,  \* the part a child has published and not indexed; those done
  known,        \* the artifacts that g verified
  hookSaw,      \* the artifacts that the hook of g was given
  began,        \* the revision of the source when g began (history)
  expired,      \* the gates whose deadline, or that of their phase, is past
  lost,         \* the gates whose runtime crashed
  faults

published == <<file, indexed>>
outputs == <<sums, hookContext, report>>
control == <<phase, step>>
processes == <<child, half, built, hookSaw>>
rest == <<known, began, expired, lost, faults>>
vars == <<journal, source, published, outputs, control, processes, rest>>

Phases == <<"manifest", "ownership", "symbols", "build", "index", "artifacts", "hook",
            "tests", "benchmarks", "git", "report">>
InProcess == {"symbols", "build", "hook", "tests", "git"}
Following(p) == Phases[1 + CHOOSE i \in 1 .. Len(Phases) : Phases[i] = p]

NoSums == [gate |-> NoGate, artifacts |-> NoArtifacts]
NoReport == [gate |-> NoGate, status |-> "none", artifacts |-> NoArtifacts]

Init ==
  /\ JournalInit
  /\ source = 0
  /\ file = [p \in Part |-> 0] /\ indexed = file
  /\ sums = NoSums /\ hookContext = NoArtifacts /\ report = NoReport
  /\ phase = [g \in Gate |-> "manifest"] /\ step = [g \in Gate |-> "idle"]
  /\ child = [g \in Gate |-> "none"]
  /\ half = [g \in Gate |-> NoPart] /\ built = [g \in Gate |-> {}]
  /\ hookSaw = [g \in Gate |-> NoArtifacts] /\ known = hookSaw
  /\ began = [g \in Gate |-> 0]
  /\ expired = {} /\ lost = {} /\ faults = 0

At(g, there) == step[g] = there
Goto(g, there) == step' = [step EXCEPT ![g] = there]
Stay(g, there) == Goto(g, there) /\ UNCHANGED phase
Advance(g) == Goto(g, "between") /\ phase' = [phase EXCEPT ![g] = Following(@)]
AdvanceIf(g, passed) == IF passed THEN Advance(g) ELSE Stay(g, "fail")
Running == {g \in Gate : step[g] \notin {"idle", "done", "lost"}}

-----------------------------------------------------------------------------
(* The job of a gate.                                                      *)

Submit(g) ==
  /\ row[g] = NoRow
  /\ Create(g)
  /\ UNCHANGED <<source, published, outputs, control, processes, rest>>

Begin(g) ==
  /\ Exists(g) /\ row[g].state = "queued" /\ At(g, "idle")
  /\ Cardinality(Running) < MaxConcurrency
  /\ Start(g)
  /\ Stay(g, "between")
  /\ began' = [began EXCEPT ![g] = source]
  /\ UNCHANGED <<source, published, outputs, processes, known, expired, lost, faults>>

Cancel(g) ==
  /\ IsLive(g) /\ ~row[g].cancel /\ faults < MaxFaults
  /\ RequestCancel(g)
  /\ faults' = faults + 1
  /\ UNCHANGED <<source, published, outputs, control, processes, known, began, expired, lost>>

\* The gate's deadline passes, or that of the phase it is in: where they are
\* looked at.
Expire(g) ==
  /\ step[g] \in {"between", "wait"} /\ g \notin expired /\ faults < MaxFaults
  /\ expired' = expired \cup {g}
  /\ faults' = faults + 1
  /\ UNCHANGED <<journal, source, published, outputs, control, processes, known, began, lost>>

-----------------------------------------------------------------------------
(* Phases.                                                                 *)

\* _check_deadline: a checkpoint, then the deadline.  A request that comes after
\* it is seen where the phase, or the next one, looks again.
Stopped(g) == row[g].cancel \/ g \in expired

_check_deadline(g) ==
  /\ At(g, "between") /\ Stopped(g)
  /\ Stay(g, "fail")
  /\ UNCHANGED <<journal, source, published, outputs, processes, rest>>

Acting(g, p) == At(g, "between") /\ phase[g] = p /\ ~Stopped(g)

\* A phase in the gate's own thread that only judges.
Judge(g) ==
  /\ \E p \in {"manifest", "ownership", "benchmarks"} : Acting(g, p)
  /\ \E passed \in BOOLEAN : AdvanceIf(g, passed)
  /\ UNCHANGED <<journal, source, published, outputs, processes, rest>>

\* _verify_viewer_index reads the rows ...
ReadIndex(g) ==
  /\ Acting(g, "index")
  /\ known' = [known EXCEPT ![g] = indexed]
  /\ Stay(g, "hash")
  /\ UNCHANGED <<journal, source, published, outputs, processes, began, expired, lost, faults>>

\* ... and then hashes every file they name.
HashFiles(g) ==
  /\ At(g, "hash")
  /\ AdvanceIf(g, file = known[g])
  /\ UNCHANGED <<journal, source, published, outputs, processes, rest>>

\* Once the list is written, the context for the hook is.
WriteArtifacts(g) ==
  \/ /\ Acting(g, "artifacts")
     /\ sums' = [gate |-> g, artifacts |-> known[g]]
     /\ Stay(g, "context")
     /\ UNCHANGED <<journal, source, published, hookContext, report, processes, rest>>
  \/ /\ At(g, "context")
     /\ hookContext' = known[g]
     /\ Advance(g)
     /\ UNCHANGED <<journal, source, published, sums, report, processes, rest>>

-----------------------------------------------------------------------------
(* Child processes.                                                        *)

Spawn(g) ==
  /\ \E p \in InProcess : Acting(g, p)
  /\ child' = [child EXCEPT ![g] = "working"]
  /\ Stay(g, "wait")
  /\ UNCHANGED <<journal, source, published, outputs, half, built, hookSaw, rest>>

Working(g, p) == child[g] = "working" /\ phase[g] = p

\* build-active replaces the exports of a part, under the part's lock ...
ChildPublishes(g) ==
  /\ Working(g, "build") /\ half[g] = NoPart
  /\ \E p \in Part \ built[g] :
       /\ \A h \in Gate : child[h] = "working" => half[h] # p
       /\ file' = [file EXCEPT ![p] = source]
       /\ half' = [half EXCEPT ![g] = p]
  /\ UNCHANGED <<journal, source, indexed, outputs, control, child, built, hookSaw, rest>>

\* ... and then their hashes.
ChildIndexes(g) ==
  /\ Working(g, "build") /\ half[g] # NoPart
  /\ indexed' = [indexed EXCEPT ![half[g]] = file[half[g]]]
  /\ built' = [built EXCEPT ![g] = @ \cup {half[g]}]
  /\ half' = [half EXCEPT ![g] = NoPart]
  /\ UNCHANGED <<journal, source, file, outputs, control, child, hookSaw, rest>>

\* The hook's process reads its context.
ChildReads(g) ==
  /\ Working(g, "hook")
  /\ hookSaw' = [hookSaw EXCEPT ![g] = hookContext]
  /\ UNCHANGED <<journal, source, published, outputs, control, child, half, built, rest>>

\* It fails at any time; it succeeds with all parts built, or a hook that ran.
ChildExits(g) ==
  /\ child[g] = "working"
  /\ \/ child' = [child EXCEPT ![g] = "bad"]
     \/ /\ Working(g, "build") => built[g] = Part
        /\ Working(g, "hook") => hookSaw[g] # NoArtifacts
        /\ child' = [child EXCEPT ![g] = "good"]
  /\ UNCHANGED <<journal, source, published, outputs, control, half, built, hookSaw, rest>>

\* Mutant: the process of a cancelled gate is left to itself.
Poll_Leaves(g) ==
  /\ At(g, "wait")
  /\ \/ row[g].cancel /\ Stay(g, "fail")
     \/ g \in expired /\ Stay(g, "terminate")
     \/ child[g] \in {"good", "bad"} /\ AdvanceIf(g, child[g] = "good")
  /\ UNCHANGED <<journal, source, published, outputs, processes, rest>>

\* Mutant: the return code of the process is not looked at.
Poll_AnyCode(g) ==
  /\ At(g, "wait")
  /\ \/ (row[g].cancel \/ g \in expired) /\ Stay(g, "terminate")
     \/ child[g] \in {"good", "bad"} /\ AdvanceIf(g, TRUE)
  /\ UNCHANGED <<journal, source, published, outputs, processes, rest>>

\* One turn of the loop of _run_process.
Poll(g) ==
  /\ At(g, "wait")
  /\ \/ (row[g].cancel \/ g \in expired) /\ Stay(g, "terminate")
     \/ child[g] \in {"good", "bad"} /\ AdvanceIf(g, child[g] = "good")
  /\ UNCHANGED <<journal, source, published, outputs, processes, rest>>

\* SIGTERM, and SIGKILL to one that is still there after two seconds; what
\* the process was doing stays half done.
Terminate(g) ==
  /\ At(g, "terminate")
  /\ IF child[g] = "working"
     THEN child' = [child EXCEPT ![g] = "asked"] /\ UNCHANGED control
     ELSE child' = [child EXCEPT ![g] = "gone"] /\ Stay(g, "fail")
  /\ UNCHANGED <<journal, source, published, outputs, half, built, hookSaw, rest>>

-----------------------------------------------------------------------------
(* The end of a gate.                                                      *)

\* The list of verified artifacts is in the report; the job goes on.
WritePassed(g) ==
  /\ Acting(g, "report")
  /\ report' = [gate |-> g, status |-> "passed", artifacts |-> known[g]]
  /\ Stay(g, "reported")
  /\ UNCHANGED <<journal, source, published, sums, hookContext, processes, rest>>

\* The last progress report of the job is a checkpoint.
ReportProgress(g) ==
  /\ At(g, "reported")
  /\ Stay(g, IF row[g].cancel THEN "fail" ELSE "return")
  /\ UNCHANGED <<journal, source, published, outputs, processes, rest>>

Return(g) ==
  /\ At(g, "return")
  /\ Succeed(g)
  /\ step' = [step EXCEPT ![g] = "done"] /\ phase' = [phase EXCEPT ![g] = "manifest"]
  /\ child' = [child EXCEPT ![g] = "none"]
  /\ built' = [built EXCEPT ![g] = {}] /\ known' = [known EXCEPT ![g] = NoArtifacts]
  /\ expired' = expired \ {g}
  /\ UNCHANGED <<source, published, outputs, half, hookSaw, began, lost, faults>>

\* Whatever was raised, the report says so before the job does.
WriteFailed(g) ==
  /\ At(g, "fail")
  /\ report' = [gate |-> g, status |-> IF row[g].cancel THEN "cancelled" ELSE "failed",
                artifacts |-> known[g]]
  /\ Stay(g, "raise")
  /\ UNCHANGED <<journal, source, published, sums, hookContext, processes, rest>>

\* complete_cancelled() for JobCancelled, which needs a request, else fail(),
\* which a request turns into the same.  What the gate knew is gone.
Raise(g) ==
  /\ At(g, "raise")
  /\ Fail(g)
  /\ step' = [step EXCEPT ![g] = "done"] /\ phase' = [phase EXCEPT ![g] = "manifest"]
  /\ child' = [child EXCEPT ![g] = "none"]
  /\ half' = [half EXCEPT ![g] = NoPart] /\ built' = [built EXCEPT ![g] = {}]
  /\ hookSaw' = [hookSaw EXCEPT ![g] = NoArtifacts]
  /\ known' = [known EXCEPT ![g] = NoArtifacts] /\ began' = [began EXCEPT ![g] = 0]
  /\ expired' = expired \ {g}
  /\ UNCHANGED <<source, published, outputs, lost, faults>>

\* The runtime crashes and the next one recovers its jobs.  The child has a
\* session of its own and lives on.
Crash ==
  /\ Running # {} /\ faults < MaxFaults
  /\ faults' = faults + 1
  /\ FailInterrupted
  /\ lost' = lost \cup Running
  /\ step' = [g \in Gate |-> IF g \in Running THEN "lost" ELSE step[g]]
  /\ UNCHANGED <<source, published, outputs, phase, processes, known, began, expired>>

Edit ==
  /\ source < MaxEdits
  /\ source' = source + 1
  /\ UNCHANGED <<journal, published, outputs, control, processes, rest>>

-----------------------------------------------------------------------------
GateStep(g) ==
  \/ _check_deadline(g) \/ Judge(g) \/ ReadIndex(g) \/ HashFiles(g) \/ WriteArtifacts(g)
  \/ Spawn(g) \/ Poll(g) \/ Terminate(g)
  \/ WritePassed(g) \/ ReportProgress(g) \/ Return(g) \/ WriteFailed(g) \/ Raise(g)

ChildStep(g) == ChildPublishes(g) \/ ChildIndexes(g) \/ ChildReads(g) \/ ChildExits(g)

Next ==
  \/ \E g \in Gate : Submit(g) \/ Begin(g) \/ Cancel(g) \/ Expire(g) \/ GateStep(g)
                     \/ ChildStep(g)
  \/ Crash \/ Edit

Spec == Init /\ [][Next]_vars

-----------------------------------------------------------------------------
(* Properties.                                                             *)

(* The type invariant.                                                     *)
TypeOK ==
  /\ JournalTypeOK
  /\ source \in 0 .. MaxEdits /\ file \in Artifacts /\ indexed \in Artifacts
  /\ sums \in [gate : Gate \cup {NoGate}, artifacts : Artifacts \cup {NoArtifacts}]
  /\ hookContext \in Artifacts \cup {NoArtifacts}
  /\ report \in [gate : Gate \cup {NoGate}, status : {"none", "passed", "failed", "cancelled"},
                 artifacts : Artifacts \cup {NoArtifacts}]
  /\ phase \in [Gate -> ToSet(Phases)]
  /\ step \in [Gate -> {"idle", "between", "hash", "context", "wait", "terminate",
                        "reported", "return", "fail", "raise", "done", "lost"}]
  /\ child \in [Gate -> {"none", "working", "asked", "good", "bad", "gone"}]
  /\ half \in [Gate -> Part \cup {NoPart}] /\ built \in [Gate -> SUBSET Part]
  /\ {known, hookSaw} \subseteq [Gate -> Artifacts \cup {NoArtifacts}]
  /\ began \in [Gate -> 0 .. MaxEdits]
  /\ expired \subseteq Gate /\ lost \subseteq Gate /\ faults \in 0 .. MaxFaults

(* A report that says passed was earned: the gate that wrote it did not    *)
(* fail afterwards, its artifacts were built from source no older than the *)
(* gate, and they are those that its hook was given and that its checksum  *)
(* file lists.  (docs/RELEASE_GATE.md 3 to 6, and both reports of          *)
(* _run_release_gate.)                                                     *)
PassedReportIsEarned ==
  report.status = "passed" =>
    LET g == report.gate IN
      /\ row[g].state = "failed" => g \in lost
      /\ \A p \in Part : report.artifacts[p] >= began[g]
      /\ hookSaw[g] = report.artifacts
      /\ sums.gate = g => sums.artifacts = report.artifacts

(* No child process outlives the phase it was started for, however the     *)
(* phase ended; only those of a runtime that crashed do.  (_run_process    *)
(* and _terminate_process.)                                                *)
NoChildOutlivesItsPhase ==
  \A g \in Gate \ lost : child[g] \in {"working", "asked"} => step[g] \in {"wait", "terminate"}

=============================================================================
