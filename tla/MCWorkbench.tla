----------------------------- MODULE MCWorkbench -----------------------------
(***************************************************************************)
(* The components beside the job and chat services, in one run.  They      *)
(* share no state that their modules keep, so a behaviour exercises one of *)
(* them, its focus, and the states of the run are the sum of theirs.       *)
(***************************************************************************)
EXTENDS ReleaseGate

CONSTANTS Components

-----------------------------------------------------------------------------
CONSTANTS Client, Host, Token, MaxFeatures, MaxOperations, MaxExports, MaxCrashes

\* The host that every client has is there.
ASSUME HostAssumption == "viewer" \in Host
HostOf == [c \in Client |-> "viewer"]
ToolsetOf == [h \in Host |-> h]

VARIABLES draftOf, txOf, draftFile, txFile, stepFile, review, mesh, meshOf, call, todo, crashes
draftVars == <<draftOf, txOf, draftFile, txFile, stepFile, review, mesh, meshOf, call, todo, crashes>>
Drafts == INSTANCE DraftStore

-----------------------------------------------------------------------------
\* The module of the release gates is the one this one extends.
releaseVars == vars

-----------------------------------------------------------------------------
CONSTANTS Caller, Thread, MaxRequests, MaxChats
\* There is a thread, and room for the request that one may begin with.
ASSUME ThreadAssumption == Thread # {} /\ MaxRequests \in Nat \ {0}

VARIABLES listed, record, messages, snapshots, images, described, asked, drafts, turn, work,
          requests, restarts
threadVars == <<listed, record, messages, snapshots, images, described, asked, drafts, turn, work,
                requests, restarts>>
Threads == INSTANCE DesignThreads

-----------------------------------------------------------------------------
CONSTANTS WorkerJob, MaxCommands
\* Who asks is no job, and there is one.
ASSUME CallerAssumption == Caller \cap WorkerJob = {} /\ WorkerJob # {}

VARIABLES jobs, events, registered, signalled, steps, held, aim, closed, tree, head,
          commands, edits, reboots
workerVars == <<jobs, events, registered, signalled, steps, held, aim, closed, tree, head,
                commands, edits, reboots>>
Workers == INSTANCE WorkerJobs

-----------------------------------------------------------------------------
CONSTANTS Chat, MaxTurns, MaxWords, MaxBreaks

VARIABLES bindings, codexThreads, codexEver, chat, stage, due, codex, inbox, pending, item, spoken,
          deltaItems, said, asks, notices, provider_events, cancelled, interrupt_sent, outcome,
          verdict, turns, breaks
codexVars == <<bindings, codexThreads, codexEver, chat, stage, due, codex, inbox, pending, item,
               spoken, deltaItems, said, asks, notices, provider_events, cancelled, interrupt_sent,
               outcome, verdict, turns, breaks>>
Codex == INSTANCE CodexProvider

-----------------------------------------------------------------------------
CONSTANTS Viewer, Worker, Builder, MaxRevision, MaxWrites, MaxTasks
\* The file has a revision.
ASSUME RevisionAssumption == MaxRevision \in Nat \ {0}

VARIABLES artifact, artifactRow, features, glb, sceneData, verified, script, copy,
          answer, tasks
viewVars == <<artifact, artifactRow, features, glb, sceneData, verified, script, copy,
              answer, tasks>>
Views == INSTANCE ExactViews

-----------------------------------------------------------------------------
CONSTANT MaxSpent

VARIABLES params, stepExport, stlExport, metadata, cacheRow, meshFile, meshData, snapFile,
          program, carried, told, spent
buildVars == <<params, stepExport, stlExport, metadata, cacheRow, meshFile, meshData, snapFile,
               program, carried, told, spent>>
Builds == INSTANCE PartBuilds

-----------------------------------------------------------------------------
CONSTANTS Process, MaxSaves

VARIABLES reviewJournal, schema, locker, rows, opened, plan, holds, reply, follower, saves
journalVars == <<reviewJournal, schema, locker, rows, opened, plan, holds, reply, follower, saves>>
Journals == INSTANCE ReviewJournals WITH journal <- reviewJournal

-----------------------------------------------------------------------------
CONSTANT CadWorkers
\* The number of parts a project build has under way at a time.
ASSUME CadAssumption == CadWorkers \in Nat

VARIABLES manifest, exported, partLock, order, jobState, left, task, beside, results, stopped,
          buildCancelled, buildReport, bundle, shown
projectVars == <<manifest, exported, partLock, order, jobState, left, task, beside, results, stopped,
                 buildCancelled, buildReport, bundle, shown>>
Projects == INSTANCE ProjectBuilds

-----------------------------------------------------------------------------
CONSTANTS Operator, MaxRuns, MaxChanges

VARIABLES original, archived, checksums, migrationMap, agenda, command, inventory, reading, reported,
          since, disturbed, runs, changes
preserveVars == <<original, archived, checksums, migrationMap, agenda, command, inventory, reading,
                  reported, since, disturbed, runs, changes>>
Preserves == INSTANCE Preservation

-----------------------------------------------------------------------------
CONSTANTS Route, MaxNames, MaxShots, MaxAsks, MaxStops
\* The bounds are numbers.
ASSUME ScreenAssumption == MaxNames \in Nat /\ MaxShots \in Nat

VARIABLES shots, shotOf, latestShot, wanted, dated, polled, route, inHand, shotCount, askCount,
          stopCount
screenVars == <<shots, shotOf, latestShot, wanted, dated, polled, route, inHand, shotCount, askCount,
                stopCount>>
Screens == INSTANCE AgentScreen

-----------------------------------------------------------------------------
VARIABLE focus

runtimeVars == <<draftVars, releaseVars>>
sessionVars == <<threadVars, workerVars, codexVars>>
fileVars == <<viewVars, buildVars, journalVars, projectVars>>
copyVars == <<preserveVars, screenVars>>
workbenchVars == <<focus, runtimeVars, sessionVars, fileVars, copyVars>>

WorkbenchInit ==
  /\ focus \in Components
  /\ Drafts!Init /\ Init
  /\ Threads!Init /\ (focus = "threads" \/ listed = {})
  /\ Workers!Init /\ Codex!Init
  /\ Views!Init /\ Builds!Init
  /\ Journals!Init /\ (focus = "journals" \/ reviewJournal = "annotations")
  /\ Projects!Init /\ (focus = "projects" \/ (manifest = "good" /\ exported[<<"a", "step">>] = "none"))
  /\ Preserves!Init /\ (focus = "preserves" \/ archived[2] = archived[1])
  /\ Screens!Init

\* Gates are alike, and so are callers, operators and routes: of those that wait
\* for work one is taken.
GatesInOrder ==
  LET new == {g \in Job : row[g] = NoRow}
  IN \A g \in new : row'[g] # NoRow => g = CHOOSE n \in new : TRUE
InOrder(callers, scripts, after) ==
  LET idle == {c \in callers : scripts[c] = <<>>}
  IN \A c \in idle : after[c] # <<>> => c = CHOOSE i \in idle : TRUE
\* An operator that was told of a success still waits for nothing.
OperatorsInOrder == InOrder(Operator \ reported, agenda, agenda')

WorkbenchNext ==
  /\ UNCHANGED focus
  /\ \/ focus = "drafts" /\ Drafts!Next /\ UNCHANGED <<releaseVars, sessionVars, fileVars, copyVars>>
     \/ focus = "release" /\ Next /\ GatesInOrder
          /\ UNCHANGED <<draftVars, sessionVars, fileVars, copyVars>>
     \/ focus = "threads" /\ Threads!Next /\ InOrder(Caller, work, work')
          /\ UNCHANGED <<runtimeVars, workerVars, codexVars, fileVars, copyVars>>
     \/ focus = "workers" /\ Workers!Next /\ InOrder(Caller, steps, steps')
          /\ UNCHANGED <<runtimeVars, threadVars, codexVars, fileVars, copyVars>>
     \/ focus = "codex" /\ Codex!Next
          /\ UNCHANGED <<runtimeVars, threadVars, workerVars, fileVars, copyVars>>
     \/ focus = "views" /\ Views!Next
          /\ UNCHANGED <<runtimeVars, sessionVars, buildVars, journalVars, projectVars, copyVars>>
     \/ focus = "builds" /\ Builds!Next
          /\ UNCHANGED <<runtimeVars, sessionVars, viewVars, journalVars, projectVars, copyVars>>
     \/ focus = "journals" /\ Journals!Next
          /\ UNCHANGED <<runtimeVars, sessionVars, viewVars, buildVars, projectVars, copyVars>>
     \/ focus = "projects" /\ Projects!Next
          /\ UNCHANGED <<runtimeVars, sessionVars, viewVars, buildVars, journalVars, copyVars>>
     \/ focus = "preserves" /\ Preserves!Next /\ OperatorsInOrder
          /\ UNCHANGED <<runtimeVars, sessionVars, fileVars, screenVars>>
     \/ focus = "screens" /\ Screens!Next /\ InOrder(Route, route, route')
          /\ UNCHANGED <<runtimeVars, sessionVars, fileVars, preserveVars>>

WorkbenchSpec == WorkbenchInit /\ [][WorkbenchNext]_workbenchVars

\* What is not the focus stays as it began.
RecordedIsApplied == focus = "drafts" => Drafts!RecordedIsApplied
MeshIsOfItsExport == focus = "drafts" => Drafts!MeshIsOfItsExport
AcceptedIsReadOnly == focus = "drafts" => Drafts!AcceptedIsReadOnly
EveryReferenceResolves ==
  /\ focus = "threads" => Threads!EveryReferenceResolves
  /\ focus = "screens" => Screens!EveryReferenceResolves
ArchivedIsWhole == focus = "preserves" => Preserves!ArchivedIsWhole
StreamTellsSuccess == focus = "workers" => Workers!StreamTellsSuccess
SettledIsWhole == focus = "workers" => Workers!SettledIsWhole
EveryWordOnce == focus = "codex" => Codex!EveryWordOnce
AnswerIsOfItsRevision == focus = "views" => Views!AnswerIsOfItsRevision
CurrentIsCurrent == focus = "builds" => Builds!CurrentIsCurrent
JournalTellsAll == focus = "journals" => Journals!JournalTellsAll
BuildEndsWithItsParts == focus = "projects" => Projects!BuildEndsWithItsParts
KeptHasItsParameters == focus = "builds" => Builds!KeptHasItsParameters
=============================================================================
