# A TLA+ verification of flow-cad

flow-cad is a local CAD workbench: a Python service that builds parts in
spawned CAD processes, keeps a registry of parts and their exported artifacts,
serves a browser workbench, runs release gates and talks to a chat provider.
What makes it hard is not the geometry. It is that durable records (SQLite
journals, a manifest, files under `exports/`) are changed by threads of one
runtime process, by several runtime processes over the same project, and by
child processes that may crash, while clients cancel, retry and shut down.
This directory models that part of the program, checks it with TLC and proves
the most important results with TLAPS.

All paths below are relative to `src/src/flow_cad/`.

## 1. Inventory

| Component | State it keeps | Operations | What is hard |
|---|---|---|---|
| Job journal (`jobs/store.py`) | tables `jobs` and `job_events` in `.flow/jobs.sqlite3` | create, start, report, request_cancel, succeed, fail, complete_cancelled, fail_interrupted, each one transaction | every thread and process writes the same rows; terminal states must be final |
| Job service and executor (`jobs/service.py`, `jobs/executor.py`) | `_active`, cancel events, a priority queue with Futures and stop markers, the runtime `flock` | construct (and recover), submit, cancel, run, shutdown | recovery of a dead runtime next to a live one; cancellation against completion; shutdown against workers |
| CAD worker pool (`workers/pool.py`) | tickets, workers with child process, pipe, revision label and task count, slot file locks | run, close, the child's loop | cancelled or crashed children, warm reuse against edited source, slots shared by processes |
| Scoped and project builds (`build/`) | staging directories, part locks, exported files, index rows, a report, a bundle | plan, submit, prepare, publish, report, bundle | publication in several steps against deletion, sync and crashes; a failing part with siblings in flight |
| Part registry (`registry/`) | the manifest, the index database, trash | sync, rename, retire, delete | read-change-replace without a lock, rollback, a digest that must describe the content |
| Chat dispatch (`chat/dispatch.py`, `chat/store.py`, `chat/api.py`) | append-only `chat_events`, active turns, capacity | begin_turn, start_turn, cancel_turn, recovery, streams | cancellation against the provider, capacity, restart |
| Codex provider (`chat/codex_provider.py`) | a JSON-RPC child process per turn, thread bindings | stream_turn, request, server requests, interrupt | notifications put aside while an answer is due, late answers, exit of the child |
| Release gate (`release/`) | a job, two reports, a checksum file, child processes | the gate's phases, termination, both reports | a report that outlives its job, children that outlive their phase |
| Legacy part builds (`main.py`, `core/`, `validation/facts.py`) | exports, cache rows, facts, meshes | `flow cad build` in every mode, looks by validator and viewer | currency decided by times, without a lock |
| Display scenes, previews, measurement (`viewer/services/`, `measurement/`) | cached features, meshes and metadata named by revision | lookup, extract, build, export of a workspace | a cached result of a replaced file; two files published as one thing |
| Review journals (`annotations/`, `measurement/` labels) | two SQLite journals | open and migrate, save, follow, latest | two openers of an old schema, idempotent retries, cursors |
| Draft geometry store (`draft_geometry.py`) | drafts, transactions, exports, review files | every draft and transaction operation | two files per edit, an in-memory copy, acceptance against an edit |
| Design threads (`viewer/threads.py`, `viewer/app.py`) | index, records, messages, snapshots, images, requests | create, chat, attach, request, fulfil, validate | files without locks, references between them |
| Worker jobs (`viewer/worker_jobs.py`) | a record and an event log per job, the git tree | start, read, stream, cancel, commit, run | unlocked read-change-write by routes and a thread, orphans |
| Agent screen (`viewer/agent_screen.py`) | requests, pictures, their metadata, latest | request, poll, capture, fail | unlocked read-change-write, files that name each other |
| Artifact preservation (`preservation.py`) | archive, checksums, migration map | manifest, copy, verify, migration-map | files edited while they are hashed and copied |
| Validation, manifest SDK, agent runtime, registry-backed API, MCP server, command line | none that is shared | | case analysis on one input |
| Geometry, planning, exporters, browser client | none that is shared | | left aside: floating point, text, rendering |

Interactions: a client request becomes a job (`JobService.submit`); a worker
thread of the executor runs its work; a build's work takes the part lock and
calls `CadWorkerPool.run`, which takes a slot and a child process; when the
child has staged its files the parent publishes them and updates the registry
index; deletion asks the job journal whether a CAD job is active. Jobs of one
project may be run by several processes (API server, command line), which meet
only in the journal, the file locks and the files. Release gates are jobs too.
The viewer's routes (drafts, design threads, worker jobs, agent screen) run side
by side in a thread pool and meet only in their files; a design thread names
drafts and images that other stores keep, a chat turn goes through the Codex
provider, and a look at a part reads the files that builds replace.

`PROJECT.json` lists every component with its status and every hazard found in
the code with the line where it bites and the properties that cover it.

## 2. Modules

| Module | Models |
|---|---|
| `JobStore` | the journal: one action per transaction |
| `JobService` | runtimes, executor threads, submit, cancel, shutdown, crash; extends `JobStore` |
| `JobContract` | what a client may rely on, without processes; refined by `JobService` |
| `WorkerPool` | the pools of the runtimes, their children and the shared slots |
| `ChatDispatch` | the chat journal, the dispatch service with its workers, requests and streams |
| `CodexProvider` | one turn over the Codex app server, its two pipes and the bindings |
| `PartRegistry` | manifest, exports, trash and index under reload, edit, deletion and part builds |
| `ProjectBuilds` | the build of a whole project: plan, window of parts, report, bundle |
| `PartBuilds` | the builds of a project without a strict manifest, and what is then taken for current |
| `ReleaseGate` | gates over the job journal, their phases, children and reports; extends `JobStore` |
| `ExactViews` | features, scenes, models and workspaces answered from one part's STEP file |
| `ReviewJournals` | the annotation and label journals, their migration, saves and followers |
| `DraftStore` | drafts and transactions in files and in the memory of their hosts |
| `DesignThreads` | design threads, their messages, images, requests and chat turns |
| `WorkerJobs` | the jobs a thread gives to Codex in the working tree |
| `AgentScreen` | pictures of the workbench asked for by an agent |
| `Preservation` | the preserve commands over files that are edited |
| `MCJobService`, `MCWorkerPool`, `MCChatDispatch`, `MCPartRegistry` | instances for TLC |
| `MCWorkbench` | the components beside the job and chat services in one instance |
| `JobStoreProofs`, `JobServiceProofs`, `WorkerPoolProofs`, `ChatDispatchProofs`, `PartRegistryProofs`, `ArtifactProofs`, `WorkbenchProofs`, `SessionProofs` | theorems |

### JobStore and JobService

A job is its `request_id`. `row[j]` holds the columns a later transaction or a
client decides on: state, `cancellation_requested`, progress, whether it was
started, and which kind of error; `log[j]` is the sequence of its event types.
Each JobStore operation runs in one `BEGIN IMMEDIATE` transaction, so it is one
action whichever process runs it. A terminal row makes each of them the no-op it
is in `_transition`.

A process is one incarnation of a runtime: it constructs a service (`Open`,
`TryExclusive`, `Recover`, `Share`), is up, and ends by `Shutdown` and the steps
of `ShutdownStep`, or by `Die` at any point, which takes its threads, queue and
locks but not the journal. A restart is another element of `Proc`. Worker
threads run `ThreadStep`; `pc` is the position in `PriorityExecutor._run` around
`JobService._run`. `submit` holds the service's lock across its transaction and
the executor's `submit`, hence `submitting` and `LockFree`. `cancel` is its
transaction and then a block under the lock, in which other steps may come.

Abstractions: the queue's `get()` and `set_running_or_notify_cancel()` are one
step, because nothing but a cancellation of that Future comes between them and
its order with either gives the same result; the conversion of the `flock` from
exclusive to shared gives the first up before it waits for the second, as the
system call does; a dispatch failure in `submit` is left out because the
service's lock orders every `submit` before the executor closes. Database
errors are not modelled.

### WorkerPool

A call is one `CadWorkerPool.run`. Its steps are the blocks under the
condition (`Enter`, `Claim`, `GiveUp`, `Release`) and the turns of its polling
loop (`Send`, `Receive`, `Abandon`). The child process (`ChildBegin`, `ChildReport`,
`ChildAnswer`, `ChildExit`) talks through a FIFO pipe, imports the source when it
serves its first build, exits after an error, and survives a crash of its parent
until its work is over. The time budget, the memory budget, a failed spawn and a
child found dead are one nondeterministic failure of `Abandon`. Computing a
revision and taking the ticket are one step.

### ChatDispatch

`log[t]` is the sequence of event types of a turn in `chat_events`, and `order`
the order of the user messages, which is the order of recovery. The steps of
the service are its blocks under the lock, with the transaction inside
(`Schedule`, `Take`, `Begin`, `Finish`, `Cancel`, shutdown), and the steps outside it: a
request that has read "no terminal event" and not yet scheduled, a cancellation
between its event and the Future it cancels, and a read of the journal by a stream.
`permits` is the semaphore `_capacity`: every way out of `_active` must give one
back. The provider is nondeterministic: it adds output, ends with a result or without
one, fails, or says nothing. `Shutdown` and `Exit`, or `Die`, end the process; the next
`Open` reads what is pending and `Recover` schedules it. The kinds of output, texts
and the titles of threads are left out.

### PartRegistry

A manifest is the state of every part ("absent", "original" or "edited"), and its
digest is itself: two manifests with the same digest are the same. The content of
an exported file is the build that wrote it, its hash is that too. The index is one
record with a generation, because `sync_project` replaces the database file while
others may have it open: `holds[a]` is the generation in which an actor has the
write lock, and a commit in an older generation goes to a file that nobody reads
any more. Commands and builds take one read, one rename or replacement, or one commit
at a time; the two nested rollback handlers of `delete_part` are `Rollback`, then
`MoveBack` and `RestoreManifest`. `latest` is a history variable: what was last
written to a path, wherever it is now.

Two switches say which concurrency an instance has. With `LateBuilds` and
`ManyCommands` false, no reload or edit meets a build, a deletion may begin during
one (and is refused), no build is requested during a deletion, and commands
follow each other: what the documentation asks of the user. The run with
`LateBuilds` true shows what happens otherwise (section 4).

### CodexProvider

A turn is `stage`, where `stream_turn` is, and `due`, the answer it waits for. The
two pipes are `inbox` (what Codex has sent) and `pending` (what the provider put aside
while an answer was due); `next_message` takes from `pending` first. Codex is an
external actor: it says `MaxWords` words in items, streamed word by word and
repeated whole or only given whole, asks questions of its own, ends or breaks.
Words are numbers, so order, repetition and loss are visible. `bindings` is the
journal's thread binding, `codexEver` the threads Codex has ever had.

### ProjectBuilds and PartBuilds

`ProjectBuilds` follows a strict manifest: every refusal of the planner is a kind of
manifest; the four modes (whole project, some parts, `--changed`, with a bundle) are a
plan; `task` holds the parts of the window of `CadWorkers`, and when one fails or the
job is cancelled its siblings are still in flight. Files and index rows of one part
are `PartRegistry`'s matter, the call into the pool is `WorkerPool`'s.

`PartBuilds` is `flow cad build` without such a manifest, where everything is decided
by modification times. A file is a record of what it was made from and of what was
written *since*: comparing two times is a membership test, and no clock is needed. `exact`
marks files whose making was raced by an edit or cut short, which no time tells;
`zone` is the side of UTC on which local time runs, because `compiled_at` is written
without a zone and read as local.

### ReleaseGate

A gate is a job of `JobStore` (which it extends; the executor around it is
`JobService`'s). `phase` is the entry of `Phases`, `step` where in it the gate is: between
phases, in a turn of the loop of `_run_process`, in `_terminate_process`, writing one of the
two reports, returning. A child process publishes a part, then indexes it, and
goes on in a crashed runtime's stead until it is done. What a phase judges is a choice; what it reads
and hands on (`known`, `hookSaw`, `sums`, `report`) is kept as the revisions of the
source the artifacts were built from.

### ExactViews and ReviewJournals

In `ExactViews` a revision stands for the bytes that have it, and each replacement of
the STEP file gives it an identity no other has, so that "same path, same size, same
time" checks and hashes can be told apart. Requests, jobs and builds are scripts of steps
named after the functions (`lookup_features`, `extract_and_cache`, `build_scene`, `publish`,
`resolve_model`, `export_workspace`). A publication of a scene is two replacements.

In `ReviewJournals` processes (`Process`; two in the run) open, migrate (statement by statement), save and retry
by request id; `follower` is a client with a cursor. Validation of what is saved is
a predicate over small records, and reading applies it again.

### DraftStore

`draftFile[t]` and `txFile[t]` are the two state files of a token, `draftOf[h]` and `txOf[h]` what
host `h` loaded of them. Each operation is the list of steps the code takes: writing a
file is opening it, which empties it, and closing it. Composite commands (a panel
command, annotated walls, a display) are lists put together of the others. A
draft is the faces of its features.

### DesignThreads, WorkerJobs and AgentScreen

Three stores of the viewer without locks. A caller, a job's thread or a route is a list
of steps; each step reads or replaces one file as a whole. In `DesignThreads` whatever a
request creates carries the request's number, so a reference and what it
names can be compared; the chat turn may follow either route (planner or agent). In
`WorkerJobs` the copy of the record that an actor holds is `held`, the working tree is a
number and `head` what of it is committed; a reboot leaves records without a thread,
which whoever reads them marks failed. In `AgentScreen` a tab that once saw a request
pending may post for it more than once.

### Preservation

A command collects its scope, hashes it (`inventory`), then goes file by file. Every
file's content is a version; a read during an edit may give a mixture. `since[o]` is the
history of what files held since operator `o`'s command began, `disturbed` the
copies that another command's failure removed.

### MCWorkbench

These components share no state that their modules keep (what one needs of
another is any answer the other may give), so their product would only multiply
states. `MCWorkbench` extends `ReleaseGate`, instantiates the ten others, and a behaviour
exercises one of them, its `focus`. Its states are the sum of theirs, not the product.
Constraints on the order of interchangeable gates, callers, operators and routes
(`GatesInOrder`, `InOrder`, `OperatorsInOrder`) stand in for symmetry: an idle actor begins
only if it is the chosen one of the idle ones.

## 3. Runs

| Run | Instance | Shows |
|---|---|---|
| `job_runtimes` | 2 processes, 1 thread each, 1 job, 3 events before the terminal one, symmetric | `LogMatchesRow`, `CancelHonoured`, `LiveWorkIsRunning`, and the refinement `ContractSpec` |
| `job_executor` | 1 process, 2 threads, 2 jobs of different priority, fairness | `WorkRunsOnce`, `ActiveIsTracked`, `ShutdownQuiesces`, and the liveness of `AcceptedJobsEnd` and `ShutdownEnds` |
| `worker_pool` | 2 runtimes, 1 slot, 3 calls, 2 source revisions, 2 faults, fairness | `AnswerIsOwn`, `SlotIsExclusive`, `ClosedPoolIsEmpty`, `NoStaleSource`, `CallsEnd` |
| `worker_pool_undo` | 1 runtime, 1 slot, 2 builds, an edit and its undoing | a violation: `NoStaleSource` |
| `chat_dispatch` | 3 turns (2 in one thread, 1 found by recovery), 2 workers, no queued place, 2 requests, 2 starts | `CapacityAccounted`, `TurnIsTracked`, `EndIsQuiet`, `PromptSentOnce` |
| `chat_stream` | 2 turns, 1 worker and 1 queued place, 1 request, a stream opened at the start of one turn, fairness | the liveness of `CancelledTurnsLeave`, `TurnsEnd`, `StreamEnds` |
| `chat_resume` | 1 turn, a stream that may be opened after any event already seen, fairness | a violation: `StreamEnds` |
| `registry_commands` | 2 parts with 2 files each, a deletion and 2 builds of one, an edit of the other, a reload, 2 faults | `DeletedStaysDeleted`, `FailedDeletionRestores`, `NothingIsLost`, `IndexAgrees`, `IndexIsFresh`, `RevisionAdvances` |
| `registry_late_build` | the same with `LateBuilds`, no faults | a violation: `DeletedStaysDeleted` |
| `workbench` | eleven components, see below | the thirteen properties below |
| `draft_accepted` | 2 clients of one viewer, 1 token, no crash | a violation: `AcceptedIsReadOnly` |
| `build_changed` | the builds of one part, one edit of its parameters | a violation: `KeptHasItsParameters` |

The run `workbench`, component by component:

| Focus | Instance | Property, in words |
|---|---|---|
| drafts | 1 client, 1 token, 3 features, 5 operations, 2 exports, 1 crash | `RecordedIsApplied`: what a transaction on disk has recorded is in the draft on disk, and an accepted one has a whole review. `MeshIsOfItsExport`: a mesh that names the present export was made from it |
| release | 2 gates one after the other, 1 part, 1 edit, 2 of crash, cancellation and deadline | `PassedReportIsEarned`: a report that says passed belongs to a gate that did not fail, and to one set of artifacts no older than the gate. `NoChildOutlivesItsPhase` |
| threads | 2 callers, 1 thread (waiting at the start), 3 requests, 2 chats, a restart | `EveryReferenceResolves`: whatever a file names is there |
| workers | 2 callers, 1 job, 3 commands, an edit or a reboot in place of one | `StreamTellsSuccess`: a stream that ends succeeded has sent that event. `SettledIsWhole`: when nobody works on a job, record, message and log agree |
| codex | 1 chat, 2 turns, 2 words, 1 break | `EveryWordOnce`: what a chat is given is what Codex said, in order, once |
| views | 1 request, 1 query, 1 build at a time, 2 revisions, 3 replacements, 2 tasks | `AnswerIsOfItsRevision`: an answer is made of the revision it names |
| builds | 1 part, 4 of build, edit and look together | `CurrentIsCurrent`: what is taken for current was made from the present source |
| journals | 2 processes, 2 saves, either journal | `JournalTellsAll`: an open store has its schema, a request has one row, a follower misses none |
| projects | 3 parts, 2 at a time, a build of one part beside, ten kinds of manifest | `BuildEndsWithItsParts`: an ended build has no part under way; a succeeded one built, reported and bundled them all |
| preserves | 2 operators, 2 commands, 1 edit, 2 files | `ArchivedIsWhole`: a reported success left whole copies of what the files held |
| screens | 2 routes, 2 pictures, 1 name asked for twice, 1 stop | `EveryReferenceResolves`, for pictures |

Bounds. Two processes are what recovery, joining and slot sharing are about: a
third one adds no new pair. Two threads and two jobs give the executor a task
that waits, one that runs and one that is cancelled in between, and a stop marker
too few or too many is seen with two threads. `MaxEvents` bounds repeated
cancellation requests and reports of one job; `MaxFaults` bounds cancellations,
edits, closes, child deaths and crashes together: two of them are a fault while
another one is handled. One slot makes calls queue; several slots only meet in
the scan that claims one. In the chat,
two workers and three turns give a turn that waits for its thread's lock, one that
runs and one that is refused for capacity; two starts are a process and the one
that recovers from it. In the registry, two files are what a move, a rollback or a
publication can stop between, and two builds of one part are what its lock is for;
two faults are a failure and a second one in its handler, or a crash.

In `workbench`, a race in a store without locks needs two callers and the files of one
request; a third request or chat is what finds the leftovers of the other two. The
files of two tokens, two threads or two worker jobs never meet, so one of each
suffices. The passing draft instance has one client, because two of them break
`AcceptedIsReadOnly` (`draft_accepted`) and what is built on it; its crash falls between any
two steps. Two gates are a report and the gate that replaces it; one part suffices for
both reports, which treat parts alike. Two revisions and three replacements
are a file that goes and comes back between two checks. Two words are one that is
streamed and one that is repeated, in either order. Four events of `builds` are an
edit, a build that misses it, one that does not, and a look. Two files are what a copy
can stop between, and two operators what one can remove of the other.

Deadlock is not checked: a system whose clients ask
for nothing more, or whose processes have ended, stops.

Fairness. Worker threads are scheduled by the operating system and their
transactions end; a shutdown that was begun goes on; the lock of a service is
held for short blocks only. A work may report as often as `MaxEvents` allows
and then ends. `run()` polls every 50 ms and its time budget ends a call whose
child does not answer, so its steps are weakly fair; a child is not. Nothing
obliges a client to act, a process to start, to die or to stay.
In the chat, the worker threads and the constructor's recovery are fair, and a
stream polls. A provider need not answer until its turn is asked to cancel, which
is when the code relies on it too; that every scheduled turn ends is claimed only
where the provider's streams end (the premise of `TurnsEnd`). The registry and the
components of `workbench` have no liveness property: what they do ends with the
request, and no one else waits for it.

Exceptions that the properties name. `CurrentIsCurrent` leaves apart files whose making
was raced by an edit and facts read west of UTC; `AnswerIsOfItsRevision` a result whose
file went and came back between the two checks of its job; `ArchivedIsWhole` copies
that another command's failure removed. Each is a way the code can go wrong that its own
checks cannot see; the properties say what holds apart from them.

## 4. Findings

`worker_pool_undo`: a worker's revision label is computed before its call waits
for a slot, its source is imported later. After an edit in between that is
undone again, the label matches and the source does not.

`chat_resume`: a stream is said to close after its turn's terminal event. It closes
when the last event after its cursor is terminal; a client that resumes with the
sequence number of the terminal event gets nothing and no end.

`registry_late_build`: deletion asks the job journal once, before it syncs and
moves. A build whose submission comes later, planned from the manifest as it still
was, replaces the exports of the part after it was deleted.

`draft_accepted`: `docs/DraftGeometryAPI.md` calls an accepted transaction read-only. Its
status is checked once, without a lock; an edit that passed the check is recorded
after an acceptance that came between, and the review files do not have its feature.

`build_changed`: `--changed` is said to use the current parameters as a rebuild
input. It compares them with the latest row of the active cache, which partial builds
do not write and snapshot-only builds write without exporting; exports made with
other parameters are kept as a cache hit.

## 5. Proofs

TLAPS proves the following for any values of the constants that satisfy the named
`ASSUME`s of the modules: the bounds are numbers, the null values are not in the
sets they are null for, the kinds of a part's files are finitely many and at least
one, and so are the threads of an executor (`ThreadAssumption`; the code refuses a
number below one); a caller of the worker jobs is no job, and there is a job
(`CallerAssumption`); there are a design thread and room for a request
(`ThreadAssumption` of `MCWorkbench`), a part's file has a revision (`RevisionAssumption`), and the
viewer is a host (`HostAssumption`). Five theorems of the registry, one of the gates, one of the
pool and the two of the draft store have a hypothesis more, which the table names and the text below justifies.

| Theorem | In words |
|---|---|
| `JobServiceProofs!TypeCorrect` | the types of service, executor and journal |
| `JobServiceProofs!LogTellsTheStory` | the event log of a job has one terminal event, the last, exactly when its row is terminal |
| `JobServiceProofs!CancellationIsHonoured` | a recorded cancellation is never overtaken by success or failure of the work |
| `JobServiceProofs!LiveWorkIsKept` | what a lock-holding runtime executes is running in the journal, whatever others recover |
| `JobServiceProofs!WorkIsEnteredOnce` | the work of a job is entered at most once |
| `JobServiceProofs!ActiveJobsAreTracked` | a job a service counts as active waits in its queue or is with one of its threads |
| `JobServiceProofs!ShutdownLeavesNothing` | after a shutdown that waited, every accepted job has its terminal record |
| `JobServiceProofs!ServiceImplementsContract` | the whole system implements the client's contract |
| `WorkerPoolProofs!SlotsAreExclusive` | no two living runtimes have children at work under one slot |
| `WorkerPoolProofs!ClosedPoolsAreEmpty` | a worker of a closed pool that no call has is without a child |
| `WorkerPoolProofs!AnswersAreOwn` | a call that returns a result returns its own |
| `WorkerPoolProofs!SourceIsNotStale` | if no edit is ever undone (`~CanUndo`, assumed by the theorem), a build's child imported a revision that was current since the build was asked for |
| `ChatDispatchProofs!CapacityIsAccounted` | permits are neither leaked nor given twice, and a turn of `_active` has one place |
| `ChatDispatchProofs!TurnEndsQuietly` | nothing follows the completion or cancellation of a turn but a late failure record |
| `ChatDispatchProofs!PromptIsSentOnce` | one process sends a turn's prompt at most once |
| `ChatDispatchProofs!NoTurnIsForgotten` | while the service is up, a pending turn is active, or a request that will start it is under way |
| `PartRegistryProofs!TypeCorrect` | the types of manifest, index, files and of what each actor holds |
| `PartRegistryProofs!FilesAreNeverLost` | under `~LateBuilds`, the last content of an export is in its place or in a trash |
| `PartRegistryProofs!DeletionIsFinal` | under `~LateBuilds` and `~ManyCommands` (also the next four), a deleted part stays out of manifest, index and exports |
| `PartRegistryProofs!FailedDeletionIsUndone` | a deletion that failed and could undo its moves left everything as it was |
| `PartRegistryProofs!IndexIsOfTheManifest` | between commands the index is that of the manifest |
| `PartRegistryProofs!IndexIsOfTheFiles` | the hashes of the index are those of the files |
| `PartRegistryProofs!EveryChangeIsARevision` | every step that changes the index advances its revision |
| `ArtifactProofs!ChildrenEndWithTheirPhase` | a phase leaves no child behind, however it ends |
| `ArtifactProofs!PassedReportsAreEarned` | under `MaxConcurrency = 1`, a report that says passed was earned by its gate |
| `ArtifactProofs!WhatIsCurrentIs` | exports that are kept, facts and meshes that are shown, are of the present source or file |
| `ArtifactProofs!AnswersAreOfTheirRevision` | an answer about a part is of the revision it names, however builds replace the file |
| `ArtifactProofs!BuildsEndWithTheirParts` | an ended project build has no part under way; one that succeeded has built, reported and bundled exactly its plan |
| `WorkbenchProofs!WordsAreToldOnce` | a chat is given what Codex said, in order, each word once |
| `WorkbenchProofs!JournalsTellAll` | an open store has its schema, a save is answered with the one row of its request, a follower misses no row; for any number of processes |
| `ArtifactProofs!ReportedCopiesAreWhole` | a preserve command that reported success leaves whole copies of what the files held since it began |
| `WorkbenchProofs!WhatIsRecordedIsApplied` | with one client (`Client = {c}`), what a transaction on disk has recorded is in the draft on disk, and an accepted one has a whole review |
| `WorkbenchProofs!MeshesAreOfTheirExport` | with one client, a mesh that names the present export was made from it |
| `SessionProofs!StreamsTellSuccess` | a stream that ends on a succeeded job has sent the event that says so |
| `SessionProofs!SettledJobsAreWhole` | until the first restart, the record, message and events of a job that nobody works on agree |
| `SessionProofs!WhatIsNamedIsThere` | whatever a design thread or the agent's screen names is there |

The job system has three layers.

1. The journal (`JobStoreProofs`). `JournalInv` (types, the shape of a row, and log
   against row) is inductive over `JournalStep`, any operation on any job. The same
   module proves what each operation can never do (`Evolves`): rows stay, terminal
   rows are final, a started job stays started. This is proved without processes,
   so it holds whoever calls.
2. The service (`JobServiceProofs`). Every step of a process is a journal operation or
   leaves the journal alone (`ServiceStepOperations`), which carries `JournalInv` over.
   The properties themselves are not inductive: that live work is running needs to
   know that recovery holds the exclusive lock (`LockDiscipline`), where each job
   can be on its way from queue to thread (`ThreadPlace`, `WaitingPlace`), and what its
   row must be there (`JobProgress`). Their conjunction `IInv` is inductive.
   `TrackInv` adds that no job is lost between `submit` and its end: a job of a
   process that is not dead has its terminal record, is being submitted, waits, or
   is with a thread (`Accounted`); what the executor drains was cancelled before
   (`DrainedOfWork`), and a thread leaves only after the last task (`Markers`). TLC
   checked both invariants on both job instances before they were proved. There is a
   step of the proof for each action.
3. The refinement (the last part of `JobServiceProofs`). The initial states map, and by the facts of
   layer 1 every step maps to a step of `JobContract` or to a stutter.

The pool (`WorkerPoolProofs`) has one inductive invariant, `IInv`: the types, and `PoolInv`. That
says of each worker that its holder is a call of its own process on its way (`Placed`), that
the process of a held worker has the slot's lock (`Held`), that a child at work
works for the holder and what is in the pipe is for it, with nothing after a result
(`Served`), and that a closed pool has emptied what nobody holds (`Emptied`); further that a
call holds one worker, and that the calls of a dead runtime are over.
`SlotIsExclusive` follows from `Held` and `Served`, `AnswerIsOwn` is kept by what `Served` says of
the pipe. The last part adds `SourceInv`: what was
current when a call asked (`Asked`), how a worker's label relates to it (`Labelled`), what
a child being built will import (`Building`), and what is known of a loaded one (`Known`).
It holds because revisions only grow, which is the assumption that the
run `worker_pool_undo` shows to be needed.

The chat (`ChatDispatchProofs`). `Inv` says where a turn of `_active` is (`Placed`: in the
queue or with one worker, never both), that an entry or a worker which calls its turn ended is
right (`StatesAreTold`), that a sent turn is streamed or over (`Sent`), that the worker of a turn
which was completed or cancelled knows it (`Quiet`), and who will still schedule a pending
turn (`Tracked`). `EndIsQuiet`, `PromptSentOnce` and `TurnIsTracked` follow. `CapacityAccounted` is a
statement about numbers: `Counted` says that the permits and the entries of `_active` add up
to the capacity, and that the entries are as many as queued turns and busy workers, and each
kind of step is shown to change both sides by the same amount, with the lemmas on
cardinality of `FiniteSetTheorems`.

The registry (`PartRegistryProofs`) has two inductive invariants. `FilesInv` is about exports
and trash: a deletion that has moved files has their last content, nothing is in their place, and
no other deletion has moved them (`Trashed`); commands and builds of one part keep
apart (`Apart`). It needs `~LateBuilds`, and holds with any number of commands at a time.
`CommandsInv` adds that commands follow each other: what the one command under way has read or locked
is still so (`InHand`: the manifest it will restore, the digest and rows its sync copies, the
generation its transaction is on), a part leaves the index after the manifest (`Absences`), the
index follows the manifest (`Agreement`) and the last publication (`Publications`, `Hashed`).
The hypotheses are what the documentation asks of a user: to wait for builds
before a deletion, and one command at a time. Without the first one,
`DeletedStaysDeleted` is false, as `registry_late_build` shows; without the second two commands
write over each other's manifest. Nothing is assumed on failures and crashes.

The gates (`ArtifactProofs`). `NoChildOutlivesItsPhase` is inductive by itself once the domains of
`step` and `child` are known. `PassedReportIsEarned` is not: `EarnInv` follows the one running gate
(`Solo`) from phase to phase. Past the build the index is no older than the gate, past the index
neither is what the gate knows, past the hook that is what the hook was given (`Progress`),
and the child of a crashed gate can only make exports newer (`Content`, `ChildWork`). Its hypothesis
is one worker thread, which is what `release/cli.py` and `main.py` give the executor. It is
needed: with two, TLC finds two gates that hand their hooks the same context file, and a report of
artifacts its own hook never saw.

The components of `workbench` (`ArtifactProofs`, `WorkbenchProofs`, `SessionProofs`). A step of the composition is a step of the
component or leaves its variables alone, so that an invariant of one of them is one of
`WorkbenchSpec`. Codex: `EveryWordOnce` speaks of what the chat has; `CodexInv` adds what is still to be
read, first the notifications that were put aside and then the pipe. `Tells` says of a queue that
some function counts the words told before each of its messages: it grows by one
at a message that adds a word and by nothing at others, and counts to the last word at the end of a turn.
`InFlight` chains the two queues from what the chat has to what Codex has said. Putting a message
aside, which takes it from the front of one to the end of the other, keeps the chain
(`PutAside`). Besides, a request has at most one answer in the pipe and none when its answer is still due
(`AnsweredOnce`), or an old answer could start a turn that Codex did not.

Journals: `JournalTellsAll` speaks of rows and of answers; what makes it true is between the
statements of several processes. `JournalInv` says it of the step each process has ahead of it.
Who is past `BEGIN IMMEDIATE` has the write lock, and nobody else (`JournalLock`). A store at its
version has all that a migration makes, and a migration under way has made what comes before
the statement ahead, whoever made it (`JournalSchema`). A request that was looked for and not
found has no row as long as the lock is held (`JournalSaves`), so that committing makes its only
one. What a caller is answered is the row of its request (`JournalReply`). Rows are valid when they
are saved, and reading validates no more than that, so that a follower gets every row
up to its cursor (`JournalFollower`).

Worker jobs (`SessionProofs`): `WorkInv` says of each actor, by the steps it has left, what its copy of the record
may say and what it still owes. A copy or a record that says succeeded is told and in the
log, or is the copy of a thread about to tell (`CopyFits`, `RecordFits`); as logs only grow, the
stream that reads it finds the event (`StreamFits`). A job has one starter, whose thread is idle until
it is registered (`StarterFits`), and a thread with steps left is registered, so that nobody takes
its job for an orphan (`ThreadFits`). Whoever overwrites a record owes it the message and the event
until they agree (`Owes`), and each record agrees or has somebody who owes (`Accounted`). When every
script that aims at the job is empty nobody owes, which is `SettledIsWhole`. A restart forgets
scripts, so `Accounted`, like the property, is stated until the first one; the other parts, and
`StreamTellsSuccess`, hold over restarts.

Several components keep what is left of an operation as a sequence of steps. Their invariants say of
every step still to come what it will rely on, in terms of what is there or of what an earlier step
left in the sequence will have made, so that taking the first step leaves the same statement of the
rest:

- Design threads: `TurnFits` walks a caller's steps. Each one needs facts of its thread
  (`NeedsOf`) that either hold already or are given by a step before it (`GivesOf`, `Grounded`). Nothing is ever deleted, so that a fact that
  holds goes on to hold, and a restart only forgets scripts; a message, when it is appended, names what is there.
- The agent's screen: `Serving` says where a call is between the picture, its metadata and the
  request, by the few scripts there are; nobody writes a number another call has drawn (`PicturesAreOwn`).
- Preservation: `Preserving` says of each file of the scope that it is still ahead of the command, or is
  copied and verified as it was at some time since the command began, or was disturbed by another.
- Part builds: `ScriptsFit` says that in what is left of a build an STL export follows its STEP export, and
  nothing of the build comes between a mesh or feature file and what is noted of it (`Paired`);
  `FilesFit` says of every file which source, parameters or STEP file it is of, and which edits since it was begun
  (`since`) it may be of instead.
- Exact views: `Relies` says of a reader's copy that it is of what the file was when it was asked for, or that
  the file's identity has moved on and the check still ahead will see it. Identities only grow.
- Project builds: a plan is a sequence of distinct parts; what is left of it is always its end
  (`Followed`: of the rest, each part has its result or a task), the tasks under way are no more than the
  workers (by counting, with `FiniteSetTheorems`), and a task at `publish` has its part's
  lock (`LocksFit`), so that an export is of its own part.

- Drafts: `TokenFits` relates the two files of a token to the copies its host holds in memory and to review and mesh:
  no transaction, in memory or on disk, has recorded more than either draft holds.
  `CallFits` says what the rest of a request relies on, by which steps are left (`DraftScript`): a
  step that records comes only after the draft was written, or the review of an acceptance, and a
  discarded draft is forgotten before its file goes, and neither is written again by that request. That every request, the composite ones
  too, is a script of this kind is proved from how they are put together (`Plain`, `Joined`). Crashes
  and new stores forget the memory, and the files fit alone.

Every strengthened invariant was checked by TLC on the instance of its run before it was proved.

Only model-checked: all liveness (fairness and `ENABLED` are out of the prover's reach), that is
`AcceptedJobsEnd`, `ShutdownEnds`, `CallsEnd`, `CancelledTurnsLeave`, `TurnsEnd` and `StreamEnds`. Every
invariant and every action property of a passing run is stated by a theorem.

The hypothesis of the two theorems about drafts, one client, is the one the run has: a user of one
viewer. TLC finds both properties false with two clients of a viewer, whose handlers run on threads: a request that
read a state before another wrote it puts the old one back.

## 6. Not modelled

Components without a model, and why:

- The agent runtime turns the output lines of a model server or of `codex exec` into
  events and keeps nothing between calls; in `DesignThreads` it may answer anything.
- Validation and the manifest SDK are rules over one input, without state: a unit
  test reaches them as well as a model would. What a validator is told from the cache
  is in `PartBuilds`; the rules a build relies on are refusals in `ProjectBuilds`.
- The registry-backed viewer API and the MCP server route requests to services that
  are modelled and keep nothing. The command line parses arguments.
- Design planning interprets text; the CAD core, drafting and the exporters compute
  floating-point geometry and file formats; the browser renders.

Left out of the modelled components: database errors and full disks in the job and chat
journals; the migration of the chat schema; two API processes that serve chat at
once; in the registry shared exports, assemblies, parameters, dependencies and the
uniqueness of keys and aliases; snapshots of builds and the crash inside the writing of
a bundle. `PROJECT.json` says for each component what its model leaves out.

Met while reading, and not the subject of a property:

- `jobs/service.py:200`, `jobs/store.py:314`: a database locked beyond its timeout fails both a
  work's end and its `fail()`; the first-open migration commits statement by statement.
- `JobService`'s docstring promises that construction finalizes orphans; a service that
  joins a live owner with a shared lock recovers nothing, also when the owner has died
  by the time the lock is granted.
- `main.py:550`: a command-line build that reuses the request of a dead runtime polls for ever.
- `workers/pool.py:115`: a crashed runtime releases its slots while a child in native code
  still works.
- `chat/dispatch.py:184` and `:57`: availability is asked before the active turns are looked at;
  recovery has no test of who owns a live turn.
- `chat/codex_provider.py:434`: a refused interrupt after completion reports a failure; an
  oversized context raises outside the first `try` of `stream_turn`.
- `registry/lifecycle.py:75`: two commands overwrite each other's manifest, so an edit can
  undo a deletion in it; `registry/sync.py:86` and `:53`: a sync replaces the index under an open
  transaction, and reads the manifest twice.
- `build/worker.py:354`: a crash between files and index leaves old hashes beside new files.
- `core/exporter.py:88`: exports of legacy builds are written in place; `--changed` compares only
  the generator and the provider module; with a bundle it bundles only what was rebuilt.
  `validation/facts.py:360`: `compiled_at` is written in UTC and read as local time.
- `viewer/worker_jobs.py:245`, `viewer/threads.py:784`: records are read, changed and replaced
  without a lock.
- `viewer/service.py:394`: `acceptance.json` is looked for where `accept` does not write it;
  the build route of a draft checks its token and builds a registered part.
- Model files are served as immutable for a year (`query_routes.py:82`).
- `preservation.py:320`: a copy that fails unlinks its target, also when another command made
  it; the migration map is tested for and written later. `latest.json` of the agent screen may
  name the older of two pictures taken at once.
- An interrupted migration of a review journal of the older form makes later openings fail.

## 7. What is left

1. `ChatDispatch`'s provider as the abstract specification of `CodexProvider`, by a refinement.
2. Pure algorithms against reference definitions: uniqueness and references in the
   manifest, comparison of inventories.
