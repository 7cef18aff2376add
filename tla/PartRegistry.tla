---------------------------- MODULE PartRegistry ----------------------------
(***************************************************************************)
(* What a project records of its parts: the manifest flowcad.toml, the     *)
(* exported files, and the index database that is built from both.  Three  *)
(* commands change them (reload, i.e. sync_project; an edit, i.e.          *)
(* rename_part or retire_part; delete_part) and so do part builds, which   *)
(* replace the files and then update the index.                            *)
(*                                                                         *)
(* A manifest is the state of every part in it, and its digest is itself.  *)
(* The content of a file is the build that wrote it, and its hash is that  *)
(* too.  Key names, aliases, assemblies, dependencies and the other        *)
(* columns of the index are left out; every file here is an unshared       *)
(* export of its part.  A step is one read, one replacement, rename or     *)
(* commit.                                                                 *)
(***************************************************************************)
EXTENDS Naturals, FiniteSets

CONSTANTS
  Part, Kind,    \* the parts; the kinds of artifact each of them exports
  Command,       \* the commands, each carried out at most once
  What, Target,  \* What[c]: "reload", "edit" or "delete"; Target[c]: of which part
  Build, Of,     \* the build jobs, each run at most once; Of[b]: of which part
  LateBuilds,    \* whether a command may begin or go on while a build is requested
  ManyCommands,  \* whether two commands may be under way at once
  MaxFaults,     \* bound on failures of steps and crashes of the runtime
  First, NoFile, \* the content before any build, the lack of a file
  NoIndex        \* the generation held by who has no transaction open

Manifest == [Part -> {"absent", "original", "edited"}]
Content == {First, NoFile} \cup Build
Files == [Kind -> Content]

ASSUME CommandAssumption ==
  /\ What \in [Command -> {"reload", "edit", "delete"}] /\ Target \in [Command -> Part]
  /\ Command \cap Build = {}
ASSUME BuildAssumption ==
  /\ Of \in [Build -> Part] /\ IsFiniteSet(Kind) /\ Kind # {}
  /\ First # NoFile /\ {First, NoFile} \cap Build = {}
ASSUME SettingAssumption ==
  /\ LateBuilds \in BOOLEAN /\ ManyCommands \in BOOLEAN /\ MaxFaults \in Nat
  /\ NoIndex \notin Nat

VARIABLES
  manifest,      \* the manifest file
  file,          \* file[p][k]: the content of an export
  latest,        \* latest[p][k]: the last content written there (history)
  trash,         \* trash[c][k]: the content that deletion c has moved away
  index,         \* the file flowcad.db: generation, digest, rows and hashes
  holds,         \* holds[a]: the generation in which a has the write lock
  at,            \* at[a]: the step of command or build a
  seen,          \* seen[c]: the manifest that command c started from
  sync,          \* sync[c]: what its sync_project has read so far
  faults         \* how often something failed, up to MaxFaults

disk == <<manifest, file, latest, trash>>
vars == <<disk, index, holds, at, seen, sync, faults>>

Actor == Command \cup Build
AllOriginal == [p \in Part |-> "original"]
NoFiles == [k \in Kind |-> NoFile]
FreshIndex == [generation |-> 0, digest |-> AllOriginal, rows |-> AllOriginal,
               revision |-> 1, hashes |-> [p \in Part |-> [k \in Kind |-> First]]]
NoSync == [digest |-> AllOriginal, rows |-> AllOriginal, revision |-> 0,
           hashes |-> [p \in Part |-> NoFiles], restoring |-> FALSE]

Init ==
  /\ manifest = AllOriginal
  /\ file = [p \in Part |-> [k \in Kind |-> First]] /\ latest = file
  /\ trash = [c \in Command |-> NoFiles]
  /\ index = FreshIndex
  /\ holds = [a \in Actor |-> NoIndex]
  /\ at = [a \in Actor |-> "idle"]
  /\ seen = [c \in Command |-> AllOriginal]
  /\ sync = [c \in Command |-> NoSync]
  /\ faults = 0

Goto(a, there) == at' = [at EXCEPT ![a] = there]
Ended == {"done", "refused", "raised", "unrestored", "broken", "lost"}
UnderWay(a) == at[a] \notin {"idle", "planned"} \cup Ended
Building == {b \in Build : UnderWay(b)}
Commanding == {c \in Command : UnderWay(c)}
Fault == faults < MaxFaults /\ faults' = faults + 1

WriteLockFree == \A a \in Actor : holds[a] # index.generation
OnCurrent(a) == holds[a] = index.generation
TakeWriteLock(a) == WriteLockFree /\ holds' = [holds EXCEPT ![a] = index.generation]
ReleaseWriteLock(a) == holds' = [holds EXCEPT ![a] = NoIndex]

-----------------------------------------------------------------------------
(* sync_project, as a part of every command.                               *)

\* The manifest is read for its digest ...
SyncRead(c) ==
  /\ at[c] = "sync"
  /\ sync' = [sync EXCEPT ![c].digest = manifest]
  /\ Goto(c, "load")
  /\ UNCHANGED <<disk, index, holds, seen, faults>>

Return(c) ==
  IF What[c] = "delete" THEN "plan" ELSE IF sync[c].restoring THEN "raised" ELSE "done"

\* ... and a second time for its content; an index of this digest is kept,
\* unless an edit forces a new one.
SyncLoad(c) ==
  /\ at[c] = "load"
  /\ sync' = [sync EXCEPT ![c].rows = manifest, ![c].revision = index.revision + 1]
  /\ Goto(c, IF What[c] # "edit" /\ sync[c].digest = index.digest THEN Return(c) ELSE "populate")
  /\ UNCHANGED <<disk, index, holds, seen, faults>>

\* Mutant: no row, rather than an empty one, for a part that is not there.
SyncPopulate_NoRow(c) ==
  /\ at[c] = "populate"
  /\ sync' = [sync EXCEPT ![c].hashes =
                [p \in {q \in Part : sync[c].rows[q] # "absent"} |-> file[p]]]
  /\ Goto(c, "replace")
  /\ UNCHANGED <<disk, index, holds, seen, faults>>

\* The rows of a new database, with the hashes of the files as they are.
SyncPopulate(c) ==
  /\ at[c] = "populate"
  /\ sync' = [sync EXCEPT ![c].hashes =
                [p \in Part |-> IF sync[c].rows[p] = "absent" THEN NoFiles ELSE file[p]]]
  /\ Goto(c, "replace")
  /\ UNCHANGED <<disk, index, holds, seen, faults>>

\* Mutant: the number of the new index goes on from that of the first one.
SyncReplace_RevisionRestarts(c) ==
  /\ at[c] = "replace"
  /\ index' = [generation |-> index.generation + 1, digest |-> sync[c].digest,
               rows |-> sync[c].rows, revision |-> 1, hashes |-> sync[c].hashes]
  /\ Goto(c, "flush")
  /\ UNCHANGED <<disk, holds, seen, sync, faults>>

\* os.replace, whoever has the database open.
SyncReplace(c) ==
  /\ at[c] = "replace"
  /\ index' = [generation |-> index.generation + 1, digest |-> sync[c].digest,
               rows |-> sync[c].rows, revision |-> sync[c].revision,
               hashes |-> sync[c].hashes]
  /\ Goto(c, "flush")
  /\ UNCHANGED <<disk, holds, seen, sync, faults>>

SyncFlush(c) ==
  /\ at[c] = "flush"
  /\ Goto(c, Return(c))
  /\ UNCHANGED <<disk, index, holds, seen, sync, faults>>

\* An edit whose sync fails restores the manifest and syncs once more.
SyncFails(c) ==
  /\ at[c] \in {"sync", "load", "populate", "replace", "flush"}
  /\ Goto(c, IF sync[c].restoring THEN "unrestored"
             ELSE IF What[c] = "edit" THEN "unedit" ELSE "raised")
  /\ Fault
  /\ UNCHANGED <<disk, index, holds, seen, sync>>

-----------------------------------------------------------------------------
(* The commands.                                                           *)

\* The manifest is read; a part that is not in it is refused.
Start(c) ==
  /\ at[c] = "idle"
  /\ ManyCommands \/ Commanding = {}
  /\ \/ LateBuilds
     \/ /\ What[c] = "delete" \/ Building = {}
        /\ \A b \in Build : at[b] # "planned"
  /\ seen' = [seen EXCEPT ![c] = manifest]
  /\ Goto(c, IF What[c] = "reload" THEN "sync"
             ELSE IF manifest[Target[c]] = "absent" THEN "refused"
             ELSE IF What[c] = "edit" THEN "edit" ELSE "jobs")
  /\ UNCHANGED <<disk, index, holds, sync, faults>>

\* _transact: the manifest that was read, with the part renamed or retired.
Edit(c) ==
  /\ at[c] = "edit"
  /\ manifest' = [seen[c] EXCEPT ![Target[c]] = "edited"]
  /\ Goto(c, "sync")
  /\ UNCHANGED <<file, latest, trash, index, holds, seen, sync, faults>>

\* Mutant: the index is not built again for the manifest that was restored.
Unedit_WithoutSync(c) ==
  /\ at[c] = "unedit"
  /\ manifest' = seen[c]
  /\ Goto(c, "raised")
  /\ UNCHANGED <<file, latest, trash, index, holds, seen, sync, faults>>

Unedit(c) ==
  /\ at[c] = "unedit"
  /\ manifest' = seen[c]
  /\ sync' = [sync EXCEPT ![c].restoring = TRUE]
  /\ Goto(c, "sync")
  /\ UNCHANGED <<file, latest, trash, index, holds, seen, faults>>

\* Mutant: a build that is under way does not keep a part from being deleted.
CheckJobs_Ignored(c) ==
  /\ at[c] = "jobs"
  /\ Goto(c, "sync")
  /\ UNCHANGED <<disk, index, holds, seen, sync, faults>>

\* No build job may be queued or running.
CheckJobs(c) ==
  /\ at[c] = "jobs"
  /\ Goto(c, IF Building = {} THEN "sync" ELSE "refused")
  /\ UNCHANGED <<disk, index, holds, seen, sync, faults>>

\* The paths are listed, and BEGIN IMMEDIATE waits for the write lock.
OpenDeletion(c) ==
  /\ at[c] = "plan"
  /\ TakeWriteLock(c)
  /\ Goto(c, "verify")
  /\ UNCHANGED <<disk, index, seen, sync, faults>>

Verify(c) ==
  /\ at[c] = "verify"
  /\ Goto(c, IF manifest = seen[c] THEN "move" ELSE "fail")
  /\ UNCHANGED <<disk, index, holds, seen, sync, faults>>

\* Mutant: the files are unlinked.
Move_Unlinks(c) ==
  /\ at[c] = "move"
  /\ \E k \in Kind :
       /\ file[Target[c]][k] # NoFile
       /\ file' = [file EXCEPT ![Target[c]][k] = NoFile]
  /\ UNCHANGED <<manifest, latest, trash, index, holds, at, seen, sync, faults>>

Move(c) ==
  /\ at[c] = "move"
  /\ \E k \in Kind :
       /\ file[Target[c]][k] # NoFile /\ trash[c][k] = NoFile
       /\ trash' = [trash EXCEPT ![c][k] = file[Target[c]][k]]
       /\ file' = [file EXCEPT ![Target[c]][k] = NoFile]
  /\ UNCHANGED <<manifest, latest, index, holds, at, seen, sync, faults>>

\* Once all are moved: the rows are deleted, which fails in a database that
\* was replaced meanwhile, and the manifest is written.
Updated(c) == [seen[c] EXCEPT ![Target[c]] = "absent"]

WriteManifest(c) ==
  /\ at[c] = "move"
  /\ \A k \in Kind : file[Target[c]][k] = NoFile \/ trash[c][k] # NoFile
  /\ IF OnCurrent(c)
     THEN manifest' = Updated(c) /\ Goto(c, "commit")
     ELSE UNCHANGED manifest /\ Goto(c, "fail")
  /\ UNCHANGED <<file, latest, trash, index, holds, seen, sync, faults>>

\* A transaction that is committed in a database that was replaced is lost.
CommitDeletion(c) ==
  /\ at[c] = "commit"
  /\ index' = IF OnCurrent(c)
              THEN [index EXCEPT !.digest = Updated(c), !.rows[Target[c]] = "absent",
                                 !.hashes[Target[c]] = NoFiles, !.revision = @ + 1]
              ELSE index
  /\ ReleaseWriteLock(c)
  /\ Goto(c, "done")
  /\ UNCHANGED <<disk, seen, sync, faults>>

\* Any step of the transaction may fail, the commit included; and so may
\* the moves back, which ends the command there.
DeletionFails(c) ==
  /\ at[c] \in {"verify", "move", "commit", "back"}
  /\ Goto(c, IF at[c] = "back" THEN "unrestored" ELSE "fail")
  /\ Fault
  /\ UNCHANGED <<disk, index, holds, seen, sync>>

Rollback(c) ==
  /\ at[c] = "fail"
  /\ ReleaseWriteLock(c)
  /\ Goto(c, "back")
  /\ UNCHANGED <<disk, index, seen, sync, faults>>

MoveBack(c) ==
  /\ at[c] = "back"
  /\ \E k \in Kind :
       /\ trash[c][k] # NoFile
       /\ file' = [file EXCEPT ![Target[c]][k] = trash[c][k]]
       /\ trash' = [trash EXCEPT ![c][k] = NoFile]
  /\ UNCHANGED <<manifest, latest, index, holds, at, seen, sync, faults>>

\* Mutant: the manifest of a deletion that failed is not restored.
RestoreManifest_Skipped(c) ==
  /\ at[c] = "back" /\ trash[c] = NoFiles
  /\ Goto(c, "raised")
  /\ UNCHANGED <<disk, index, holds, seen, sync, faults>>

RestoreManifest(c) ==
  /\ at[c] = "back" /\ trash[c] = NoFiles
  /\ manifest' = IF manifest = Updated(c) THEN seen[c] ELSE manifest
  /\ Goto(c, "raised")
  /\ UNCHANGED <<file, latest, trash, index, holds, seen, sync, faults>>

-----------------------------------------------------------------------------
(* A build: planned from the manifest, submitted as a job, and run.        *)

Plan(b) ==
  /\ at[b] = "idle" /\ manifest[Of[b]] # "absent"
  /\ LateBuilds \/ Commanding = {}
  /\ Goto(b, "planned")
  /\ UNCHANGED <<disk, index, holds, seen, sync, faults>>

Submit(b) ==
  /\ at[b] = "planned"
  /\ Goto(b, "active")
  /\ UNCHANGED <<disk, index, holds, seen, sync, faults>>

Publishing == {"publish", "open", "update"}
Siblings(b) == {d \in Build \ {b} : Of[d] = Of[b]}

\* Mutant: builds of one part do not wait for each other.
Prepared_Unlocked(b) ==
  /\ at[b] = "active"
  /\ Goto(b, "publish")
  /\ UNCHANGED <<disk, index, holds, seen, sync, faults>>

\* The files are staged; from here on the part's build lock matters, which
\* is held from the start of the job to its end.
Prepared(b) ==
  /\ at[b] = "active"
  /\ \A d \in Siblings(b) : at[d] \notin Publishing
  /\ Goto(b, "publish")
  /\ UNCHANGED <<disk, index, holds, seen, sync, faults>>

\* A build that fails or is cancelled before it publishes changes nothing.
NotPrepared(b) ==
  /\ at[b] = "active"
  /\ Goto(b, "refused")
  /\ UNCHANGED <<disk, index, holds, seen, sync, faults>>

\* _publish_all: one replacement after the other.
ReplaceFile(b) ==
  /\ at[b] = "publish"
  /\ \E k \in Kind :
       /\ latest[Of[b]][k] # b
       /\ file' = [file EXCEPT ![Of[b]][k] = b]
       /\ latest' = [latest EXCEPT ![Of[b]][k] = b]
       /\ Goto(b, IF \A j \in Kind \ {k} : latest[Of[b]][j] = b THEN "open" ELSE "publish")
  /\ UNCHANGED <<manifest, trash, index, holds, seen, sync, faults>>

\* publish_part_build: the files are there, the transaction begins.
OpenPublication(b) ==
  /\ at[b] = "open"
  /\ IF \E k \in Kind : file[Of[b]][k] = NoFile
     THEN Goto(b, "broken") /\ UNCHANGED holds
     ELSE TakeWriteLock(b) /\ Goto(b, "update")
  /\ UNCHANGED <<disk, index, seen, sync, faults>>

\* Mutant: the viewer's revision is not advanced.
Update_SameRevision(b) ==
  /\ at[b] = "update"
  /\ IF OnCurrent(b) /\ index.rows[Of[b]] # "absent"
     THEN /\ index' = [index EXCEPT !.hashes[Of[b]] = [k \in Kind |-> b]]
          /\ Goto(b, "done")
     ELSE UNCHANGED index /\ Goto(b, "broken")
  /\ ReleaseWriteLock(b)
  /\ UNCHANGED <<disk, seen, sync, faults>>

\* The rows must be there; in a database that was replaced meanwhile the
\* first write fails, or a later commit is lost without an error.
Update(b) ==
  LET present == index.rows[Of[b]] # "absent" IN
    /\ at[b] = "update"
    /\ index' = IF OnCurrent(b) /\ present
                THEN [index EXCEPT !.hashes[Of[b]] = [k \in Kind |-> b], !.revision = @ + 1]
                ELSE index
    /\ \E end \in IF ~OnCurrent(b) THEN {"broken", "done"}
                  ELSE IF present THEN {"done"} ELSE {"broken"} :
         Goto(b, end)
    /\ ReleaseWriteLock(b)
    /\ UNCHANGED <<disk, seen, sync, faults>>

\* A replacement, the lock or the commit fails; what was replaced stays.
PublicationFails(b) ==
  /\ at[b] \in Publishing
  /\ Goto(b, "broken") /\ ReleaseWriteLock(b)
  /\ Fault
  /\ UNCHANGED <<disk, index, seen, sync>>

\* The runtime crashes: whatever was under way stops where it is.
Crash ==
  /\ Commanding \cup Building # {}
  /\ at' = [a \in Actor |-> IF UnderWay(a) \/ at[a] = "planned" THEN "lost" ELSE at[a]]
  /\ holds' = [a \in Actor |-> NoIndex]
  /\ Fault
  /\ UNCHANGED <<disk, index, seen, sync>>

-----------------------------------------------------------------------------
SyncStep(c) ==
  \/ SyncRead(c) \/ SyncLoad(c) \/ SyncPopulate(c) \/ SyncReplace(c) \/ SyncFlush(c)
  \/ SyncFails(c)

DeletionStep(c) ==
  \/ CheckJobs(c) \/ OpenDeletion(c) \/ Verify(c) \/ Move(c) \/ WriteManifest(c)
  \/ CommitDeletion(c) \/ DeletionFails(c) \/ Rollback(c) \/ MoveBack(c) \/ RestoreManifest(c)

BuildStep(b) ==
  \/ Plan(b) \/ Submit(b) \/ Prepared(b) \/ NotPrepared(b) \/ ReplaceFile(b)
  \/ OpenPublication(b) \/ Update(b) \/ PublicationFails(b)

Next ==
  \/ \E c \in Command : Start(c) \/ Edit(c) \/ Unedit(c) \/ SyncStep(c) \/ DeletionStep(c)
  \/ \E b \in Build : BuildStep(b)
  \/ Crash

Spec == Init /\ [][Next]_vars

-----------------------------------------------------------------------------
(* Properties.                                                             *)

IsDeletionOf(c, p) == What[c] = "delete" /\ Target[c] = p

(* A deletion that reported success is final: the manifest, the index and  *)
(* the exports stay without the part, whatever a build, another command or *)
(* a crash does around it.  (docs/PART_DELETION.md; the job check of       *)
(* delete_part and its order of steps.)                                    *)
DeletedStaysDeleted ==
  \A c \in Command : What[c] = "delete" /\ at[c] = "done" =>
    /\ manifest[Target[c]] = "absent" /\ index.rows[Target[c]] = "absent"
    /\ file[Target[c]] = NoFiles

(* A deletion that failed and could undo its moves leaves every file in    *)
(* its place and the part in manifest and index, at whichever step it      *)
(* failed.  (The two nested rollbacks of delete_part.)                     *)
FailedDeletionRestores ==
  \A c \in Command : What[c] = "delete" /\ at[c] = "raised" =>
    /\ trash[c] = NoFiles
    /\ \/ manifest[Target[c]] # "absent" /\ index.rows[Target[c]] # "absent"
          /\ file[Target[c]] = latest[Target[c]]
       \/ \E d \in Command \ {c} : IsDeletionOf(d, Target[c]) /\ at[d] # "idle"

(* No export is ever lost: the last content written to it is in its place  *)
(* or in the trash of a deletion, also after a crash in the middle of one. *)
(* (delete_part moves files and never unlinks them.)                       *)
NothingIsLost ==
  \A p \in Part, k \in Kind :
    \/ file[p][k] = latest[p][k]
    \/ \E c \in Command : Target[c] = p /\ trash[c][k] = latest[p][k]

(* Between commands the index describes the manifest that is there, after  *)
(* failures that were restored as well as after successes.  (_transact and *)
(* sync_project.)                                                          *)
IndexAgrees ==
  Commanding = {} /\ (\A c \in Command : at[c] \notin {"lost", "unrestored"}) =>
    index.rows = manifest /\ index.digest = manifest

(* The hashes of a part are those of its files, unless a publication of it *)
(* or a deletion is in progress or broke off.  (The two steps of a         *)
(* publication, the part's build lock, and what a sync rereads.)           *)
IndexIsFresh ==
  \A p \in Part :
    /\ index.rows[p] # "absent"
    /\ \A b \in Build : Of[b] = p => at[b] \notin Publishing \cup {"broken", "lost"}
    /\ \A c \in Command :
         IsDeletionOf(c, p) => ~UnderWay(c) /\ at[c] \notin {"lost", "unrestored"}
    => index.hashes[p] = file[p]

(* Whenever the index changes its revision grows, so what a viewer cached  *)
(* under one revision is never taken for another.  (sync_project's         *)
(* previous revision, and the increments of the other writers.)            *)
RevisionAdvances == [][index' # index => index'.revision > index.revision]_vars
=============================================================================
