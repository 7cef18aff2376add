------------------------- MODULE PartRegistryProofs -------------------------
(***************************************************************************)
(* What is proved of the part registry, for any parts, kinds of exports,   *)
(* commands, builds and bound on failures and crashes.                     *)
(*                                                                         *)
(* FilesInv needs no build to be submitted late: Apart keeps builds and    *)
(* commands from each other's way, so what a deletion has in its trash is  *)
(* the last content of a file that is missing from its place, and is in no *)
(* other deletion's trash (Trashed).  That suffices for NothingIsLost,     *)
(* with any number of commands at a time.                                  *)
(*                                                                         *)
(* CommandsInv adds commands one at a time.  Then whatever the command at  *)
(* work has read or locked is still so (InHand), a part leaves the index   *)
(* after the manifest (Absences), and the index follows both the manifest  *)
(* (Agreement) and the last publications (Publications, Hashed).           *)
(***************************************************************************)
EXTENDS PartRegistry, TLAPS

-----------------------------------------------------------------------------
(* Types.                                                                  *)

CommandPlace == {"idle", "sync", "load", "populate", "replace", "flush", "edit", "unedit", "jobs",
                 "plan", "verify", "move", "commit", "fail", "back"} \cup Ended
BuildPlace == {"idle", "planned", "active"} \cup Publishing \cup Ended
Written == {First} \cup Build

SyncRecord == [digest : Manifest, rows : Manifest, revision : Nat, hashes : [Part -> Files],
              restoring : BOOLEAN]
IndexRecord == [generation : Nat, digest : Manifest, rows : Manifest, revision : Nat,
           hashes : [Part -> Files]]

RegistryTypes ==
  /\ manifest \in Manifest
  /\ file \in [Part -> Files] /\ latest \in [Part -> [Kind -> Written]]
  /\ trash \in [Command -> Files]
  /\ index \in IndexRecord
  /\ DOMAIN holds = Actor /\ DOMAIN at = Actor
  /\ \A c \in Command : at[c] \in CommandPlace
  /\ \A b \in Build : at[b] \in BuildPlace
  /\ seen \in [Command -> Manifest]
  /\ sync \in [Command -> SyncRecord]

LEMMA InitTypes == Init => RegistryTypes
<1>. SUFFICES ASSUME Init PROVE RegistryTypes
  OBVIOUS
<1>1. AllOriginal \in Manifest /\ NoFiles \in Files /\ First \in Content
  BY DEF AllOriginal, Manifest, NoFiles, Files, Content
<1>2. [k \in Kind |-> First] \in Files /\ [k \in Kind |-> First] \in [Kind -> Written]
  BY <1>1 DEF Files, Written
<1>3. FreshIndex \in IndexRecord /\ NoSync \in SyncRecord
  BY <1>1, <1>2 DEF FreshIndex, NoSync, IndexRecord, SyncRecord
<1>4. \A c \in Command : at[c] \in CommandPlace
  BY DEF Init, CommandPlace, Actor
<1>5. \A b \in Build : at[b] \in BuildPlace
  BY DEF Init, BuildPlace, Actor
<1>. QED  BY <1>1, <1>2, <1>3, <1>4, <1>5 DEF Init, RegistryTypes

Places ==
  /\ DOMAIN at = Actor
  /\ \A c \in Command : at[c] \in CommandPlace
  /\ \A b \in Build : at[b] \in BuildPlace

\* Where everyone is after a step of one.
LEMMA GoesTo ==
  ASSUME RegistryTypes, NEW a \in Actor, NEW there, Goto(a, there)
  PROVE  /\ at'[a] = there /\ DOMAIN at' = Actor
         /\ \A d \in Actor \ {a} : at'[d] = at[d]
         /\ (a \in Command => there \in CommandPlace) /\ (a \in Build => there \in BuildPlace)
              => Places'
<1>1. at'[a] = there /\ DOMAIN at' = Actor /\ \A d \in Actor \ {a} : at'[d] = at[d]
  BY DEF RegistryTypes, Goto
<1>. QED  BY <1>1, CommandAssumption DEF Places, RegistryTypes, Actor

LEMMA CommandPlaces ==
  ASSUME RegistryTypes, NEW c \in Command,
         Start(c) \/ Edit(c) \/ Unedit(c) \/ SyncStep(c) \/ DeletionStep(c)
  PROVE  Places'
<1>1. c \in Actor /\ c \notin Build
  BY CommandAssumption DEF Actor
<1>2. CASE \E there \in CommandPlace : Goto(c, there)
  BY <1>1, <1>2, GoesTo
<1>3. CASE UNCHANGED at
  BY <1>3 DEF RegistryTypes, Places
<1>4. Return(c) \in CommandPlace
  BY DEF Return, CommandPlace, Ended
<1>. QED
  BY <1>2, <1>3, <1>4
     DEF Start, Edit, Unedit, SyncStep, SyncRead, SyncLoad, SyncPopulate, SyncReplace,
     SyncFlush, SyncFails, DeletionStep, CheckJobs, OpenDeletion, Verify, Move, WriteManifest,
     CommitDeletion, DeletionFails, Rollback, MoveBack, RestoreManifest, CommandPlace, Ended

LEMMA BuildPlaces ==
  ASSUME RegistryTypes, NEW b \in Build, BuildStep(b)
  PROVE  Places'
<1>1. b \in Actor /\ b \notin Command
  BY CommandAssumption DEF Actor
<1>2. CASE \E there \in BuildPlace : Goto(b, there)
  BY <1>1, <1>2, GoesTo
<1>. QED
  BY <1>2 DEF BuildStep, Plan, Submit, Prepared, NotPrepared, ReplaceFile, OpenPublication,
     Update, PublicationFails, BuildPlace, Publishing, Ended

LEMMA TypesKept ==
  ASSUME RegistryTypes, [Next]_vars
  PROVE  RegistryTypes'
<1>. USE DEF disk
<1>1. ASSUME NEW c \in Command,
             Start(c) \/ Edit(c) \/ Unedit(c) \/ SyncStep(c) \/ DeletionStep(c)
      PROVE  RegistryTypes'
  <2>1. Places' /\ c \in Actor
    BY <1>1, CommandPlaces DEF Actor
  <2>2. /\ Target[c] \in Part /\ seen[c] \in Manifest /\ trash[c] \in Files
        /\ sync[c] \in SyncRecord
    BY CommandAssumption DEF RegistryTypes
  <2>3. CASE Start(c)
    BY <2>1, <2>3 DEF Start, RegistryTypes, Places
  <2>4. CASE Edit(c) \/ WriteManifest(c) \/ RestoreManifest(c)
    BY <2>1, <2>2, <2>4 DEF Edit, WriteManifest, RestoreManifest, Updated, Manifest, RegistryTypes,
       Places
  <2>5. CASE Unedit(c)
    BY <2>1, <2>2, <2>5 DEF Unedit, SyncRecord, RegistryTypes, Places
  <2>6. CASE SyncStep(c)
    <3>1. CASE SyncRead(c)
      BY <2>1, <2>2, <3>1 DEF SyncRead, SyncRecord, RegistryTypes, Places
    <3>2. CASE SyncLoad(c)
      <4>1. index.revision + 1 \in Nat
        BY DEF RegistryTypes, IndexRecord
      <4>. QED  BY <2>1, <2>2, <3>2, <4>1 DEF SyncLoad, SyncRecord, RegistryTypes, Places
    <3>3. CASE SyncPopulate(c)
      <4>1. [p \in Part |-> IF sync[c].rows[p] = "absent" THEN NoFiles ELSE file[p]]
              \in [Part -> Files]
        BY DEF RegistryTypes, NoFiles, Files, Content
      <4>. QED  BY <2>1, <2>2, <3>3, <4>1 DEF SyncPopulate, SyncRecord, RegistryTypes, Places
    <3>4. CASE SyncReplace(c)
      <4>1. index' \in IndexRecord
        BY <2>2, <3>4 DEF SyncReplace, RegistryTypes, SyncRecord, IndexRecord
      <4>. QED  BY <2>1, <3>4, <4>1 DEF SyncReplace, RegistryTypes, Places
    <3>5. CASE SyncFlush(c) \/ SyncFails(c)
      BY <2>1, <3>5 DEF SyncFlush, SyncFails, RegistryTypes, Places
    <3>. QED  BY <2>6, <3>1, <3>2, <3>3, <3>4, <3>5 DEF SyncStep
  <2>7. CASE CheckJobs(c) \/ Verify(c) \/ DeletionFails(c)
    BY <2>1, <2>7 DEF CheckJobs, Verify, DeletionFails, RegistryTypes, Places
  <2>8. CASE OpenDeletion(c) \/ Rollback(c)
    BY <2>1, <2>8 DEF OpenDeletion, TakeWriteLock, Rollback, ReleaseWriteLock, RegistryTypes, Places
  <2>9. CASE Move(c)
    BY <2>1, <2>2, <2>9 DEF Move, RegistryTypes, Places, Files, Content
  <2>10. CASE MoveBack(c)
    BY <2>1, <2>2, <2>10 DEF MoveBack, RegistryTypes, Places, Files, Content
  <2>11. CASE CommitDeletion(c)
    <3>1. index' \in IndexRecord
      <4>1. Updated(c) \in Manifest /\ NoFiles \in Files /\ index.revision + 1 \in Nat
        BY <2>2 DEF Updated, Manifest, NoFiles, Files, Content, RegistryTypes, IndexRecord
      <4>. QED  BY <2>2, <2>11, <4>1 DEF CommitDeletion, RegistryTypes, IndexRecord, Manifest
    <3>. QED  BY <2>1, <2>11, <3>1 DEF CommitDeletion, ReleaseWriteLock, RegistryTypes, Places
  <2>. QED  BY <1>1, <2>3, <2>4, <2>5, <2>6, <2>7, <2>8, <2>9, <2>10, <2>11 DEF DeletionStep
<1>2. ASSUME NEW b \in Build, BuildStep(b)
      PROVE  RegistryTypes'
  <2>1. Places' /\ Of[b] \in Part
    BY <1>2, BuildPlaces, BuildAssumption
  <2>2. CASE Plan(b) \/ Submit(b) \/ Prepared(b) \/ NotPrepared(b)
    BY <2>1, <2>2 DEF Plan, Submit, Prepared, NotPrepared, RegistryTypes, Places
  <2>3. CASE ReplaceFile(b)
    BY <2>1, <2>3 DEF ReplaceFile, RegistryTypes, Places, Files, Content, Written
  <2>4. CASE OpenPublication(b) \/ PublicationFails(b)
    BY <2>1, <2>4 DEF OpenPublication, TakeWriteLock, PublicationFails, ReleaseWriteLock,
       RegistryTypes, Places
  <2>5. CASE Update(b)
    <3>1. index' \in IndexRecord
      <4>1. [k \in Kind |-> b] \in Files /\ index.revision + 1 \in Nat
        BY DEF Files, Content, RegistryTypes, IndexRecord
      <4>. QED  BY <2>1, <2>5, <4>1 DEF Update, RegistryTypes, IndexRecord
    <3>. QED  BY <2>1, <2>5, <3>1 DEF Update, ReleaseWriteLock, RegistryTypes, Places
  <2>. QED  BY <1>2, <2>2, <2>3, <2>4, <2>5 DEF BuildStep
<1>3. CASE Crash
  <2>1. Places' /\ DOMAIN holds' = Actor
    BY <1>3 DEF Crash, Places, RegistryTypes, Actor, CommandPlace, BuildPlace, Ended
  <2>. QED  BY <1>3, <2>1 DEF Crash, RegistryTypes, Places
<1>4. CASE UNCHANGED vars
  BY <1>4 DEF vars, RegistryTypes
<1>. QED  BY <1>1, <1>2, <1>3, <1>4 DEF Next

(* The manifest, the index, the files and what every command and build has *)
(* of them keep their types, without any assumption on who runs when.      *)
THEOREM TypeCorrect == Spec => []RegistryTypes
<1>1. Init => RegistryTypes
  BY InitTypes
<1>2. RegistryTypes /\ [Next]_vars => RegistryTypes'
  BY TypesKept
<1>. QED  BY <1>1, <1>2, PTL DEF Spec

-----------------------------------------------------------------------------
(* Files and trash: all that is needed is that no build comes late.        *)

\* Builds wait for commands and commands for builds, but for a deletion that
\* has yet to ask.
Apart ==
  \A c \in Command, b \in Build : UnderWay(c) =>
    at[b] # "planned" /\ (at[c] # "jobs" => ~UnderWay(b))

\* The steps of a deletion that has moved files, and where it may leave them.
Holding == {"move", "commit", "fail", "back"}
Left == {"done", "lost", "unrestored"}

Kept == \A p \in Part, k \in Kind : file[p][k] \in {NoFile, latest[p][k]}

\* What a deletion under way has in its trash is missing from its place, and
\* is in no other deletion's.
Trashed ==
  \A c \in Command, k \in Kind : trash[c][k] # NoFile =>
    /\ What[c] = "delete" /\ at[c] \in Holding \cup Left
    /\ at[c] \in Holding =>
         /\ trash[c][k] = latest[Target[c]][k] /\ file[Target[c]][k] = NoFile
         /\ \A d \in Command \ {c} :
              Target[d] = Target[c] /\ at[d] \in Holding => trash[d][k] = NoFile

\* The roles of the steps that touch the trash.
Roles ==
  \A c \in Command :
    /\ at[c] \in {"jobs", "plan", "verify"} \cup Holding => What[c] = "delete"
    /\ at[c] \in {"edit", "unedit"} => What[c] = "edit"

FilesInv == RegistryTypes /\ Apart /\ Roles /\ Kept /\ Trashed /\ NothingIsLost

LEMMA InitFilesInv == Init => FilesInv
<1>. SUFFICES ASSUME Init PROVE FilesInv
  OBVIOUS
<1>1. \A c \in Command : at[c] = "idle" /\ trash[c] = NoFiles /\ c \in Actor
  BY DEF Init, Actor
<1>2. Apart /\ Roles
  BY <1>1 DEF Apart, Roles, UnderWay, Ended, Holding
<1>3. Kept /\ NothingIsLost
  BY DEF Init, Kept, NothingIsLost
<1>4. Trashed
  BY <1>1 DEF Trashed, NoFiles
<1>. QED  BY <1>2, <1>3, <1>4, InitTypes DEF FilesInv

\* A command goes on, and leaves every file where it is.
LEMMA CommandMoves ==
  ASSUME FilesInv, RegistryTypes', NEW c \in Command, NEW there, Goto(c, there),
         UNCHANGED <<file, latest, trash>>,
         at[c] \notin Ended,
         at[c] \in Holding => there \in Holding \cup Left \/ trash[c] = NoFiles,
         there \in {"jobs", "plan", "verify"} \cup Holding => What[c] = "delete",
         there \in {"edit", "unedit"} => What[c] = "edit",
         \/ there \in Ended
         \/ UnderWay(c) /\ at[c] # "jobs"
         \/ /\ \A b \in Build : at[b] # "planned"
            /\ there = "jobs" \/ \A b \in Build : ~UnderWay(b)
  PROVE  FilesInv'
<1>1. /\ at'[c] = there /\ c \notin Build
      /\ \A d \in Command \ {c} : at'[d] = at[d]
      /\ \A b \in Build : at'[b] = at[b]
  BY GoesTo, CommandAssumption DEF FilesInv, Actor
<1>2. Apart'
  BY <1>1 DEF FilesInv, Apart, UnderWay
<1>3. Roles'
  BY <1>1 DEF FilesInv, Roles
<1>4. Kept' /\ NothingIsLost'
  BY DEF FilesInv, Kept, NothingIsLost
<1>5. Trashed'
  <2>1. at[c] \notin Holding => \A k \in Kind : trash[c][k] = NoFile
    BY DEF FilesInv, Trashed, Left, Ended
  <2>2. trash[c] = NoFiles => \A k \in Kind : trash[c][k] = NoFile
    BY DEF NoFiles
  <2>3. there \in Holding \cup Left \/ \A k \in Kind : trash[c][k] = NoFile
    BY <2>1, <2>2
  <2>. QED  BY <1>1, <2>1, <2>3 DEF FilesInv, Trashed
<1>. QED  BY <1>2, <1>3, <1>4, <1>5 DEF FilesInv

\* A build goes on, and leaves every file where it is.
LEMMA BuildMoves ==
  ASSUME FilesInv, RegistryTypes', NEW b \in Build, NEW there, Goto(b, there),
         UNCHANGED <<file, latest, trash>>,
         \/ there \in Ended
         \/ there # "planned" /\ (UnderWay(b) \/ at[b] = "planned")
         \/ \A c \in Command : ~UnderWay(c)
  PROVE  FilesInv'
<1>1. /\ at'[b] = there /\ b \notin Command
      /\ \A d \in Build \ {b} : at'[d] = at[d]
      /\ \A c \in Command : at'[c] = at[c]
  BY GoesTo, CommandAssumption DEF FilesInv, Actor
<1>2. Apart'
  BY <1>1 DEF FilesInv, Apart, UnderWay, Ended
<1>3. Roles'
  BY <1>1 DEF FilesInv, Roles
<1>4. Kept' /\ NothingIsLost'
  BY DEF FilesInv, Kept, NothingIsLost
<1>5. Trashed'
  BY <1>1 DEF FilesInv, Trashed
<1>. QED  BY <1>2, <1>3, <1>4, <1>5 DEF FilesInv

LEMMA QuietCommandStep ==
  ASSUME ~LateBuilds, FilesInv, RegistryTypes', NEW c \in Command,
         \/ Start(c) \/ Edit(c) \/ Unedit(c) \/ SyncStep(c)
         \/ CheckJobs(c) \/ OpenDeletion(c) \/ Verify(c) \/ WriteManifest(c)
         \/ CommitDeletion(c) \/ DeletionFails(c) \/ Rollback(c) \/ RestoreManifest(c)
  PROVE  FilesInv'
<1>. USE DEF Ended, Holding, Left, disk
<1>1. CASE Start(c)
  <2>1. \A b \in Build : at[b] # "planned"
    BY <1>1 DEF Start
  <2>2. What[c] = "delete" \/ \A b \in Build : ~UnderWay(b)
    BY <1>1 DEF Start, Building
  <2>3. PICK there : /\ Goto(c, there)
                     /\ there \in {"sync", "refused", "edit", "jobs"}
                     /\ there = "jobs" => What[c] = "delete"
                     /\ there = "edit" => What[c] = "edit"
                     /\ What[c] = "delete" => there \in {"jobs", "refused"}
    BY <1>1, CommandAssumption DEF Start
  <2>. QED  BY <1>1, <2>1, <2>2, <2>3, CommandMoves DEF Start
<1>2. CASE Edit(c) \/ Unedit(c)
  BY <1>2, CommandMoves DEF Edit, Unedit, UnderWay
<1>3. CASE SyncStep(c)
  <2>1. /\ at[c] \in {"sync", "load", "populate", "replace", "flush"}
        /\ UNCHANGED <<file, latest, trash>>
    BY <1>3 DEF SyncStep, SyncRead, SyncLoad, SyncPopulate, SyncReplace, SyncFlush, SyncFails
  <2>2. PICK there : /\ Goto(c, there)
                     /\ there \in {"load", "populate", "replace", "flush", "unedit", "unrestored",
                                   "plan", "raised", "done"}
                     /\ there = "plan" => What[c] = "delete"
                     /\ there = "unedit" => What[c] = "edit"
    BY <1>3
       DEF SyncStep, SyncRead, SyncLoad, SyncPopulate, SyncReplace, SyncFlush, SyncFails, Return
  <2>3. UnderWay(c)
    BY <2>1 DEF UnderWay
  <2>. QED  BY <2>1, <2>2, <2>3, CommandMoves
<1>4. CASE CheckJobs(c)
  <2>1. PICK there \in {"sync", "refused"} :
          Goto(c, there) /\ (there = "sync" => \A b \in Build : ~UnderWay(b))
    BY <1>4 DEF CheckJobs, Building
  <2>2. \A b \in Build : at[b] # "planned"
    BY <1>4 DEF CheckJobs, FilesInv, Apart, UnderWay
  <2>. QED  BY <1>4, <2>1, <2>2, CommandMoves DEF CheckJobs
<1>5. CASE OpenDeletion(c) \/ Verify(c) \/ WriteManifest(c) \/ CommitDeletion(c)
           \/ DeletionFails(c) \/ Rollback(c)
  <2>1. /\ at[c] \in {"plan", "verify"} \cup Holding /\ UNCHANGED <<file, latest, trash>>
        /\ What[c] = "delete"
    BY <1>5 DEF OpenDeletion, Verify, WriteManifest, CommitDeletion, DeletionFails, Rollback,
       FilesInv, Roles
  <2>2. \E there \in {"verify", "done", "unrestored"} \cup Holding :
          Goto(c, there) /\ (at[c] \in Holding => there # "verify")
    BY <1>5 DEF OpenDeletion, Verify, WriteManifest, CommitDeletion, DeletionFails, Rollback
  <2>3. UnderWay(c)
    BY <2>1 DEF UnderWay
  <2>. QED  BY <2>1, <2>2, <2>3, CommandMoves
<1>6. CASE RestoreManifest(c)
  BY <1>6, CommandMoves DEF RestoreManifest, UnderWay
<1>. QED  BY <1>1, <1>2, <1>3, <1>4, <1>5, <1>6

LEMMA MoveKeeps ==
  ASSUME FilesInv, RegistryTypes', NEW c \in Command, Move(c)
  PROVE  FilesInv'
<1>. DEFINE p == Target[c]
<1>1. PICK k \in Kind :
        /\ file[p][k] # NoFile /\ trash[c][k] = NoFile
        /\ trash' = [trash EXCEPT ![c][k] = file[p][k]]
        /\ file' = [file EXCEPT ![p][k] = NoFile]
  BY DEF Move
<1>2. UNCHANGED <<latest, at>> /\ at[c] = "move" /\ p \in Part
  BY CommandAssumption DEF Move
<1>. HIDE DEF p
<1>3. /\ trash'[c][k] = file[p][k] /\ \A j \in Kind \ {k} : trash'[c][j] = trash[c][j]
      /\ \A d \in Command \ {c} : trash'[d] = trash[d]
  BY <1>1 DEF FilesInv, RegistryTypes, Files
<1>4. /\ file'[p][k] = NoFile /\ \A j \in Kind \ {k} : file'[p][j] = file[p][j]
      /\ \A q \in Part \ {p} : file'[q] = file[q]
  BY <1>1, <1>2 DEF FilesInv, RegistryTypes, Files
<1>5. file[p][k] = latest[p][k]
  BY <1>1, <1>2 DEF FilesInv, Kept
<1>6. Apart' /\ Roles'
  BY <1>2 DEF FilesInv, Apart, Roles, UnderWay
<1>7. Kept'
  BY <1>2, <1>4 DEF FilesInv, Kept
<1>8. Trashed'
  <2>1. Target[c] = p /\ What[c] = "delete"
    BY <1>2 DEF FilesInv, Roles, Holding, p
  <2>2. \A d \in Command \ {c} : Target[d] = p /\ at[d] \in Holding => trash[d][k] = NoFile
    BY <1>1 DEF FilesInv, Trashed
  <2>3. ASSUME NEW d \in Command, NEW j \in Kind, trash'[d][j] # NoFile
        PROVE  /\ What[d] = "delete" /\ at'[d] \in Holding \cup Left
               /\ at'[d] \in Holding =>
                    /\ trash'[d][j] = latest'[Target[d]][j] /\ file'[Target[d]][j] = NoFile
                    /\ \A e \in Command \ {d} :
                         Target[e] = Target[d] /\ at'[e] \in Holding => trash'[e][j] = NoFile
    <3>0. Target[d] \in Part
      BY CommandAssumption
    <3>1. CASE d = c /\ j = k
      BY <1>2, <1>3, <1>4, <1>5, <2>1, <2>2, <3>1 DEF Holding
    <3>2. CASE d = c /\ j # k
      BY <1>2, <1>3, <1>4, <2>1, <2>3, <3>2 DEF FilesInv, Trashed
    <3>3. CASE d # c
      <4>1. trash[d][j] # NoFile
        BY <1>3, <2>3, <3>3
      <4>2. Target[d] = p /\ at[d] \in Holding => j # k
        BY <2>2, <3>3, <4>1
      <4>. QED  BY <1>2, <1>3, <1>4, <2>1, <3>0, <3>3, <4>1, <4>2 DEF FilesInv, Trashed
    <3>. QED  BY <3>1, <3>2, <3>3
  <2>. QED  BY <2>3 DEF Trashed
<1>9. NothingIsLost'
  <2>1. ASSUME NEW q \in Part, NEW j \in Kind
        PROVE  \/ file'[q][j] = latest'[q][j]
               \/ \E d \in Command : Target[d] = q /\ trash'[d][j] = latest'[q][j]
    <3>1. CASE q = p /\ j = k
      BY <1>2, <1>3, <1>5, <3>1 DEF p
    <3>2. CASE ~(q = p /\ j = k)
      <4>1. CASE file[q][j] = latest[q][j]
        BY <1>2, <1>4, <3>2, <4>1
      <4>2. CASE \E d \in Command : Target[d] = q /\ trash[d][j] = latest[q][j]
        BY <1>2, <1>3, <3>2, <4>2 DEF p
      <4>. QED  BY <4>1, <4>2 DEF FilesInv, NothingIsLost
    <3>. QED  BY <3>1, <3>2
  <2>. QED  BY <2>1 DEF NothingIsLost
<1>. QED  BY <1>6, <1>7, <1>8, <1>9 DEF FilesInv

LEMMA MoveBackKeeps ==
  ASSUME FilesInv, RegistryTypes', NEW c \in Command, MoveBack(c)
  PROVE  FilesInv'
<1>. DEFINE p == Target[c]
<1>1. PICK k \in Kind :
        /\ trash[c][k] # NoFile
        /\ file' = [file EXCEPT ![p][k] = trash[c][k]]
        /\ trash' = [trash EXCEPT ![c][k] = NoFile]
  BY DEF MoveBack
<1>2. UNCHANGED <<latest, at>> /\ at[c] = "back" /\ p \in Part
  BY CommandAssumption DEF MoveBack
<1>. HIDE DEF p
<1>3. /\ trash'[c][k] = NoFile /\ \A j \in Kind \ {k} : trash'[c][j] = trash[c][j]
      /\ \A d \in Command \ {c} : trash'[d] = trash[d]
  BY <1>1 DEF FilesInv, RegistryTypes, Files
<1>4. /\ file'[p][k] = trash[c][k] /\ \A j \in Kind \ {k} : file'[p][j] = file[p][j]
      /\ \A q \in Part \ {p} : file'[q] = file[q]
  BY <1>1, <1>2 DEF FilesInv, RegistryTypes, Files
<1>5. /\ trash[c][k] = latest[p][k]
      /\ \A d \in Command \ {c} : Target[d] = p /\ at[d] \in Holding => trash[d][k] = NoFile
  BY <1>1, <1>2 DEF FilesInv, Trashed, Holding, p
<1>6. Apart' /\ Roles'
  BY <1>2 DEF FilesInv, Apart, Roles, UnderWay
<1>7. Kept'
  BY <1>2, <1>4, <1>5 DEF FilesInv, Kept
<1>8. Trashed'
  <2>1. ASSUME NEW d \in Command, NEW j \in Kind, trash'[d][j] # NoFile
        PROVE  /\ What[d] = "delete" /\ at'[d] \in Holding \cup Left
               /\ at'[d] \in Holding =>
                    /\ trash'[d][j] = latest'[Target[d]][j] /\ file'[Target[d]][j] = NoFile
                    /\ \A e \in Command \ {d} :
                         Target[e] = Target[d] /\ at'[e] \in Holding => trash'[e][j] = NoFile
    <3>0. Target[d] \in Part
      BY CommandAssumption
    <3>1. trash[d][j] # NoFile /\ trash'[d][j] = trash[d][j] /\ ~(d = c /\ j = k)
      BY <1>3, <2>1
    <3>2. Target[d] = p /\ at[d] \in Holding => j # k
      BY <1>5, <3>1
    <3>3. at[d] \in Holding => file'[Target[d]][j] = file[Target[d]][j]
      BY <1>4, <3>0, <3>2
    <3>4. \A e \in Command : trash[e][j] = NoFile => trash'[e][j] = NoFile
      BY <1>3
    <3>. QED  BY <1>2, <3>1, <3>3, <3>4 DEF FilesInv, Trashed
  <2>. QED  BY <2>1 DEF Trashed
<1>9. NothingIsLost'
  <2>1. ASSUME NEW q \in Part, NEW j \in Kind
        PROVE  \/ file'[q][j] = latest'[q][j]
               \/ \E d \in Command : Target[d] = q /\ trash'[d][j] = latest'[q][j]
    <3>1. CASE q = p /\ j = k
      BY <1>2, <1>4, <1>5, <3>1
    <3>2. CASE ~(q = p /\ j = k)
      <4>1. CASE file[q][j] = latest[q][j]
        BY <1>2, <1>4, <3>2, <4>1
      <4>2. CASE \E d \in Command : Target[d] = q /\ trash[d][j] = latest[q][j]
        BY <1>2, <1>3, <3>2, <4>2 DEF p
      <4>. QED  BY <4>1, <4>2 DEF FilesInv, NothingIsLost
    <3>. QED  BY <3>1, <3>2
  <2>. QED  BY <2>1 DEF NothingIsLost
<1>. QED  BY <1>6, <1>7, <1>8, <1>9 DEF FilesInv

LEMMA ReplaceFileKeeps ==
  ASSUME FilesInv, RegistryTypes', NEW b \in Build, ReplaceFile(b)
  PROVE  FilesInv'
<1>. DEFINE p == Of[b]
<1>1. PICK k \in Kind :
        /\ file' = [file EXCEPT ![p][k] = b]
        /\ latest' = [latest EXCEPT ![p][k] = b]
        /\ \E there \in {"open", "publish"} : Goto(b, there)
  BY DEF ReplaceFile
<1>2. trash' = trash /\ p \in Part /\ UnderWay(b) /\ b \in Actor /\ b \notin Command
  BY BuildAssumption, CommandAssumption DEF ReplaceFile, UnderWay, Ended, Actor
<1>. HIDE DEF p
<1>3. /\ file'[p][k] = b /\ \A j \in Kind \ {k} : file'[p][j] = file[p][j]
      /\ \A q \in Part \ {p} : file'[q] = file[q]
      /\ latest'[p][k] = b /\ \A j \in Kind \ {k} : latest'[p][j] = latest[p][j]
      /\ \A q \in Part \ {p} : latest'[q] = latest[q]
  BY <1>1, <1>2 DEF FilesInv, RegistryTypes, Files
<1>4. /\ at'[b] \in {"open", "publish"} /\ \A c \in Command : at'[c] = at[c]
      /\ \A d \in Build \ {b} : at'[d] = at[d]
  BY <1>1, <1>2, GoesTo DEF FilesInv, Actor
<1>5. \A c \in Command : at[c] \notin Holding
  BY <1>2 DEF FilesInv, Apart, UnderWay, Holding, Ended
<1>6. Apart'
  BY <1>2, <1>4 DEF FilesInv, Apart, UnderWay
<1>7. Roles' /\ Kept' /\ Trashed'
  BY <1>2, <1>3, <1>4, <1>5 DEF FilesInv, Roles, Kept, Trashed
<1>8. NothingIsLost'
  BY <1>2, <1>3 DEF FilesInv, NothingIsLost
<1>. QED  BY <1>6, <1>7, <1>8 DEF FilesInv

LEMMA QuietBuildStep ==
  ASSUME ~LateBuilds, FilesInv, RegistryTypes', NEW b \in Build,
         \/ Plan(b) \/ Submit(b) \/ Prepared(b) \/ NotPrepared(b)
         \/ OpenPublication(b) \/ Update(b) \/ PublicationFails(b)
  PROVE  FilesInv'
<1>. USE DEF Ended, disk
<1>1. UNCHANGED <<file, latest, trash>>
  BY DEF Plan, Submit, Prepared, NotPrepared, OpenPublication, Update, PublicationFails
<1>2. CASE Plan(b)
  BY <1>1, <1>2, BuildMoves DEF Plan, Commanding
<1>3. CASE Submit(b) \/ Prepared(b) \/ NotPrepared(b)
  BY <1>1, <1>3, BuildMoves DEF Submit, Prepared, NotPrepared, UnderWay
<1>4. CASE OpenPublication(b) \/ Update(b) \/ PublicationFails(b)
  BY <1>1, <1>4, BuildMoves DEF OpenPublication, Update, PublicationFails, UnderWay, Publishing
<1>. QED  BY <1>2, <1>3, <1>4

LEMMA FilesKept ==
  ASSUME ~LateBuilds, FilesInv, [Next]_vars
  PROVE  FilesInv'
<1>0. RegistryTypes'
  BY TypesKept DEF FilesInv
<1>1. ASSUME NEW c \in Command,
             Start(c) \/ Edit(c) \/ Unedit(c) \/ SyncStep(c) \/ DeletionStep(c)
      PROVE  FilesInv'
  BY <1>0, <1>1, QuietCommandStep, MoveKeeps, MoveBackKeeps DEF DeletionStep
<1>2. ASSUME NEW b \in Build, BuildStep(b)
      PROVE  FilesInv'
  BY <1>0, <1>2, QuietBuildStep, ReplaceFileKeeps DEF BuildStep
<1>3. CASE Crash
  <2>1. /\ \A c \in Command : at'[c] = IF UnderWay(c) \/ at[c] = "planned" THEN "lost" ELSE at[c]
        /\ \A b \in Build : at'[b] = IF UnderWay(b) \/ at[b] = "planned" THEN "lost" ELSE at[b]
        /\ UNCHANGED <<file, latest, trash>>
    BY <1>3 DEF Crash, Actor, disk
  <2>2. \A c \in Command : ~UnderWay(c)'
    BY <2>1 DEF UnderWay, Ended
  <2>3. \A c \in Command : at'[c] \notin Holding /\ (at[c] \in Holding \cup Left => at'[c] \in Left)
    BY <2>1 DEF UnderWay, Ended, Holding, Left
  <2>4. Apart' /\ Roles'
    BY <2>1, <2>2, <2>3 DEF Apart, Roles, FilesInv
  <2>. QED  BY <1>0, <2>1, <2>3, <2>4 DEF FilesInv, Kept, Trashed, NothingIsLost
<1>4. CASE UNCHANGED vars
  BY <1>0, <1>4 DEF vars, disk, FilesInv, Apart, Roles, Kept, Trashed, NothingIsLost, UnderWay
<1>. QED  BY <1>1, <1>2, <1>3, <1>4 DEF Next

(* As long as no build is submitted late, no export is ever lost, whatever *)
(* commands run at the same time, fail or are stopped by a crash.          *)
(* (registry/deletion.py: files are moved, and moved back.)                *)
THEOREM FilesAreNeverLost == ~LateBuilds => (Spec => []NothingIsLost)
<1>. SUFFICES ASSUME ~LateBuilds PROVE Spec => []NothingIsLost
  OBVIOUS
<1>1. Init => FilesInv
  BY InitFilesInv
<1>2. FilesInv /\ [Next]_vars => FilesInv'
  BY FilesKept
<1>3. FilesInv => NothingIsLost
  BY DEF FilesInv
<1>. QED  BY <1>1, <1>2, <1>3, PTL DEF Spec

-----------------------------------------------------------------------------
(* Manifest and index: commands one at a time.                             *)

OneAtATime == \A c, d \in Command : UnderWay(c) /\ UnderWay(d) => c = d

Syncing == {"sync", "load", "populate", "replace", "flush"}
Edited(c) == [seen[c] EXCEPT ![Target[c]] = "edited"]

\* What the manifest is while command c is under way.
ManifestIsOf(c) ==
  /\ What[c] = "edit" =>
       manifest = IF at[c] = "edit" \/ sync[c].restoring THEN seen[c] ELSE Edited(c)
  /\ at[c] = "commit" => manifest = Updated(c)
  /\ at[c] \in {"fail", "back"} => manifest \in {seen[c], Updated(c)}
  /\ What[c] # "edit" /\ at[c] \notin {"commit", "fail", "back"} => manifest = seen[c]

\* What its sync has read is still so.
SyncIsOf(c) ==
  /\ at[c] \in {"load", "populate", "replace"} => sync[c].digest = manifest
  /\ at[c] \in {"populate", "replace"} =>
       sync[c].rows = manifest /\ sync[c].revision = index.revision + 1
  /\ at[c] = "replace" => \A p \in Part : manifest[p] # "absent" => sync[c].hashes[p] = file[p]

\* Its transaction is one on the index that is there.
TransactionIsOf(c) ==
  /\ at[c] \in {"verify", "move", "commit"} => holds[c] = index.generation
  /\ at[c] = "commit" => file[Target[c]] = NoFiles

InHand(c) ==
  /\ sync[c].restoring => What[c] = "edit" /\ at[c] \in Syncing \cup Ended
  /\ UnderWay(c) =>
       /\ What[c] # "reload" => seen[c][Target[c]] # "absent"
       /\ ManifestIsOf(c) /\ SyncIsOf(c) /\ TransactionIsOf(c)

\* A part leaves the index after the manifest, and the manifest by a deletion.
Absences ==
  /\ \A p \in Part : index.rows[p] = "absent" => manifest[p] = "absent"
  /\ \A c \in Command : at[c] \in {"commit", "fail", "back"} => index.rows[Target[c]] # "absent"
  /\ \A p \in Part : manifest[p] = "absent" =>
       \E d \in Command : IsDeletionOf(d, p) /\ at[d] \in {"commit", "fail", "back"} \cup Left

\* Unless a command was lost or could not restore what it had changed, the
\* index is that of the manifest, or of the one the command started from.
Clean == \A c \in Command : at[c] \notin {"lost", "unrestored"}
Agrees(m) == index.rows = m /\ index.digest = m

Agreement ==
  Clean =>
    /\ (\A c \in Command : ~UnderWay(c)) => Agrees(manifest)
    /\ \A c \in Command : UnderWay(c) =>
         /\ What[c] # "edit" => Agrees(seen[c])
         /\ at[c] \in {"edit", "flush"} => Agrees(manifest)

\* Builds publish a part one at a time, and on the index that is there.
Publications ==
  \A b \in Build :
    /\ UnderWay(b) \/ at[b] = "planned" => manifest[Of[b]] # "absent"
    /\ at[b] \in {"idle", "planned", "active"} => \A p \in Part, k \in Kind : latest[p][k] # b
    /\ at[b] \in Publishing =>
         /\ \A d \in Siblings(b) : at[d] \notin Publishing
         /\ \A k \in Kind : latest[Of[b]][k] = b \/ at[b] # "publish" => file[Of[b]][k] = b
    /\ at[b] = "update" => holds[b] = index.generation

\* The hashes are those of the last publication, unless one is in progress or
\* broke off, or a deletion did.
Settled(p) ==
  /\ \A b \in Build : Of[b] = p => at[b] \notin Publishing \cup {"broken", "lost"}
  /\ \A c \in Command : IsDeletionOf(c, p) => at[c] \notin {"lost", "unrestored"}
Hashed == \A p \in Part : index.rows[p] # "absent" /\ Settled(p) => index.hashes[p] = latest[p]

CommandsInv ==
  /\ FilesInv /\ OneAtATime /\ (\A c \in Command : InHand(c))
  /\ Absences /\ Agreement /\ Publications /\ Hashed /\ DeletedStaysDeleted

LEMMA InitCommandsInv == Init => CommandsInv
<1>. SUFFICES ASSUME Init PROVE CommandsInv
  OBVIOUS
<1>1. /\ \A c \in Command : at[c] = "idle" /\ ~UnderWay(c) /\ sync[c].restoring = FALSE
      /\ \A b \in Build : at[b] = "idle" /\ ~UnderWay(b)
  BY DEF Init, UnderWay, Actor, NoSync
<1>2. OneAtATime /\ \A c \in Command : InHand(c)
  BY <1>1 DEF OneAtATime, InHand
<1>3. \A p \in Part : manifest[p] = "original"
  BY DEF Init, AllOriginal
<1>4. Absences
  BY <1>1, <1>3 DEF Init, Absences, FreshIndex, AllOriginal
<1>5. Agreement
  BY <1>1 DEF Init, Agreement, Agrees, FreshIndex
<1>6. Publications
  BY <1>1, BuildAssumption DEF Init, Publications, Publishing
<1>7. Hashed /\ DeletedStaysDeleted
  BY <1>1 DEF Init, Hashed, FreshIndex, DeletedStaysDeleted
<1>. QED  BY <1>2, <1>4, <1>5, <1>6, <1>7, InitFilesInv DEF CommandsInv

\* A command that is past its look at the jobs has the project to itself.
LEMMA Alone ==
  ASSUME CommandsInv, NEW c \in Command, UnderWay(c)
  PROVE  /\ \A d \in Command \ {c} : at[d] \in {"idle"} \cup Ended /\ ~UnderWay(d)
         /\ \A b \in Build : at[b] # "planned"
         /\ at[c] # "jobs" => \A b \in Build : at[b] \in {"idle"} \cup Ended /\ ~UnderWay(b)
<1>1. \A d \in Command \ {c} : ~UnderWay(d)
  BY DEF CommandsInv, OneAtATime
<1>2. \A d \in Command : ~UnderWay(d) => at[d] \in {"idle"} \cup Ended
  BY DEF UnderWay, CommandsInv, FilesInv, RegistryTypes, CommandPlace, Ended
<1>3. \A b \in Build : at[b] # "planned" /\ (at[c] # "jobs" => ~UnderWay(b))
  BY DEF CommandsInv, FilesInv, Apart
<1>4. \A b \in Build : ~UnderWay(b) => at[b] \in {"idle", "planned"} \cup Ended
  BY DEF UnderWay
<1>. QED  BY <1>1, <1>2, <1>3, <1>4

\* The files of a part that no deletion holds, lost or left absent.
LEMMA InPlace ==
  ASSUME FilesInv, NEW p \in Part,
         \A d \in Command : IsDeletionOf(d, p) => at[d] \notin Holding \cup Left
  PROVE  file[p] = latest[p]
<1>1. ASSUME NEW k \in Kind PROVE file[p][k] = latest[p][k]
  <2>1. latest[p][k] # NoFile
    BY BuildAssumption DEF FilesInv, RegistryTypes, Written
  <2>2. ASSUME NEW d \in Command, Target[d] = p, trash[d][k] = latest[p][k] PROVE FALSE
    BY <2>1, <2>2 DEF FilesInv, Trashed, IsDeletionOf
  <2>. QED  BY <2>2 DEF FilesInv, NothingIsLost
<1>. QED  BY <1>1 DEF FilesInv, RegistryTypes, Files

\* A command goes on, and leaves manifest, index and files alone.
LEMMA CommandGoesOn ==
  ASSUME CommandsInv, FilesInv', NEW c \in Command, NEW there, Goto(c, there),
         UNCHANGED <<manifest, file, latest, index>>,
         UnderWay(c) \/ (at[c] = "idle" /\ \A d \in Command : ~UnderWay(d)),
         \A d \in Command \ {c} : sync'[d] = sync[d],
         \A b \in Build : holds'[b] = holds[b],
         InHand(c)',
         at[c] \in {"commit", "fail", "back"} => there \in {"commit", "fail", "back", "unrestored"},
         there \in {"commit", "fail", "back"} => index.rows[Target[c]] # "absent",
         there = "done" => What[c] # "delete",
         Clean' => /\ UnderWay(c)' /\ What[c] # "edit" => Agrees(seen'[c])
                   /\ UnderWay(c)' /\ at'[c] \in {"edit", "flush"} => Agrees(manifest)
                   /\ ~UnderWay(c)' => Agrees(manifest)
  PROVE  CommandsInv'
<1>1. /\ at'[c] = there /\ c \notin Build
      /\ \A d \in Command \ {c} : at'[d] = at[d] /\ UnderWay(d)' = UnderWay(d)
      /\ \A b \in Build : at'[b] = at[b] /\ UnderWay(b)' = UnderWay(b)
  BY GoesTo, CommandAssumption DEF CommandsInv, FilesInv, Actor, UnderWay
<1>2. \A d \in Command \ {c} : ~UnderWay(d) /\ at[d] \in {"idle"} \cup Ended
  BY Alone DEF CommandsInv, FilesInv, RegistryTypes, CommandPlace, UnderWay, Ended
<1>3. OneAtATime'
  BY <1>1, <1>2 DEF OneAtATime
<1>4. \A d \in Command : InHand(d)'
  BY <1>1, <1>2 DEF CommandsInv, InHand
<1>5. Absences'
  <2>1. at[c] \notin Left
    BY DEF UnderWay, Left, Ended
  <2>. QED  BY <1>1, <2>1 DEF CommandsInv, Absences, Left
<1>6. Agreement'
  BY <1>1, <1>2 DEF Agreement, Agrees
<1>7. Publications'
  BY <1>1 DEF CommandsInv, Publications, Siblings
<1>8. Hashed'
  <2>1. at[c] \notin {"lost", "unrestored"}
    BY DEF UnderWay, Ended
  <2>. QED  BY <1>1, <2>1 DEF CommandsInv, Hashed, Settled
<1>9. DeletedStaysDeleted'
  BY <1>1 DEF CommandsInv, DeletedStaysDeleted
<1>. QED  BY <1>3, <1>4, <1>5, <1>6, <1>7, <1>8, <1>9 DEF CommandsInv

-----------------------------------------------------------------------------
(* The steps of a command.                                                 *)

LEMMA StartKeeps ==
  ASSUME ~ManyCommands, CommandsInv, FilesInv', NEW c \in Command, Start(c)
  PROVE  CommandsInv'
<1>. USE DEF disk, Ended
<1>1. /\ at[c] = "idle" /\ \A d \in Command : ~UnderWay(d)
      /\ UNCHANGED <<manifest, file, latest, index, sync, holds>>
      /\ seen' = [seen EXCEPT ![c] = manifest]
  BY DEF Start, Commanding
<1>2. PICK there \in {"sync", "refused", "edit", "jobs"} :
        /\ Goto(c, there)
        /\ there # "refused" /\ What[c] # "reload" => manifest[Target[c]] # "absent"
        /\ What[c] = "edit" => there \in {"refused", "edit"}
  BY CommandAssumption DEF Start
<1>3. seen'[c] = manifest /\ at'[c] = there /\ sync'[c].restoring = FALSE
  <2>1. sync[c].restoring \in BOOLEAN /\ ~sync[c].restoring
    BY <1>1 DEF CommandsInv, FilesInv, RegistryTypes, SyncRecord, InHand, Syncing
  <2>. QED  BY <1>1, <1>2, <2>1, GoesTo DEF CommandsInv, FilesInv, RegistryTypes, Actor
<1>4. InHand(c)'
  <2>1. What[c] = "edit" /\ UnderWay(c)' => there = "edit"
    BY <1>2, <1>3 DEF UnderWay
  <2>. QED  BY <1>1, <1>2, <1>3, <2>1
               DEF InHand, ManifestIsOf, SyncIsOf, TransactionIsOf, Edited, Updated, UnderWay
<1>5. Clean' => Agrees(manifest)
  <2>1. Clean' => Clean
    BY <1>1, <1>2, GoesTo DEF Clean, CommandsInv, FilesInv, Actor
  <2>. QED  BY <1>1, <2>1 DEF CommandsInv, Agreement
<1>. QED  BY <1>1, <1>2, <1>3, <1>4, <1>5, CommandGoesOn

\* The facts about the command at work that its steps use.
LEMMA AtWork ==
  ASSUME CommandsInv, NEW c \in Command, UnderWay(c), NEW there, Goto(c, there)
  PROVE  /\ at'[c] = there /\ UnderWay(c)' = (there \notin {"idle", "planned"} \cup Ended)
         /\ \A d \in Command \ {c} : at'[d] = at[d] /\ ~UnderWay(d) /\ ~UnderWay(d)'
         /\ \A b \in Build : at'[b] = at[b] /\ UnderWay(b)' = UnderWay(b)
         /\ InHand(c)
         /\ Clean' => Clean /\ there \notin {"lost", "unrestored"}
         /\ Target[c] \in Part /\ What[c] \in {"reload", "edit", "delete"}
         /\ sync[c].restoring \in BOOLEAN
<1>1. /\ at'[c] = there /\ c \notin Build
      /\ \A d \in Command \ {c} : at'[d] = at[d]
      /\ \A b \in Build : at'[b] = at[b]
  BY GoesTo, CommandAssumption DEF CommandsInv, FilesInv, Actor
<1>2. \A d \in Command \ {c} : ~UnderWay(d)
  BY Alone
<1>3. Clean' => Clean /\ there \notin {"lost", "unrestored"}
  BY <1>1 DEF Clean, UnderWay, Ended
<1>4. sync[c].restoring \in BOOLEAN
  BY DEF CommandsInv, FilesInv, RegistryTypes, SyncRecord
<1>. QED  BY <1>1, <1>2, <1>3, <1>4, CommandAssumption DEF UnderWay, CommandsInv

LEMMA SyncReads ==
  ASSUME CommandsInv, FilesInv', NEW c \in Command,
         SyncRead(c) \/ SyncLoad(c) \/ SyncPopulate(c) \/ SyncFlush(c) \/ SyncFails(c)
  PROVE  CommandsInv'
<1>. USE DEF disk, Ended, Syncing
<1>1. /\ UnderWay(c) /\ at[c] \in Syncing
      /\ UNCHANGED <<manifest, file, latest, index, holds, seen>>
  BY DEF SyncRead, SyncLoad, SyncPopulate, SyncFlush, SyncFails, UnderWay
<1>2. PICK there : Goto(c, there)
  BY DEF SyncRead, SyncLoad, SyncPopulate, SyncFlush, SyncFails
<1>3. InHand(c) /\ (Clean' => Clean) /\ What[c] \in {"reload", "edit", "delete"}
  BY <1>1, <1>2, AtWork
<1>4. /\ Clean => /\ What[c] # "edit" => Agrees(seen[c])
                  /\ at[c] = "flush" => Agrees(manifest)
      /\ What[c] # "edit" => manifest = seen[c]
  BY <1>1, <1>3 DEF CommandsInv, Agreement, InHand, ManifestIsOf
<1>5. \A d \in Command \ {c} : sync'[d] = sync[d]
  BY DEF SyncRead, SyncLoad, SyncPopulate, SyncFlush, SyncFails, CommandsInv, FilesInv,
     RegistryTypes
<1>6. sync'[c].restoring = sync[c].restoring
  BY DEF SyncRead, SyncLoad, SyncPopulate, SyncFlush, SyncFails, CommandsInv, FilesInv,
     RegistryTypes, SyncRecord
<1>7. CASE SyncRead(c)
  <2>1. Goto(c, "load")
    BY <1>7 DEF SyncRead
  <2>2. sync'[c].digest = manifest
    BY <1>7 DEF SyncRead, CommandsInv, FilesInv, RegistryTypes, SyncRecord
  <2>3. at'[c] = "load" /\ UnderWay(c)'
    BY <1>1, <2>1, AtWork
  <2>4. InHand(c)'
    BY <1>1, <1>3, <1>6, <1>7, <2>2, <2>3
       DEF SyncRead, InHand, ManifestIsOf, SyncIsOf, TransactionIsOf, Edited, Updated
  <2>. QED  BY <1>1, <1>3, <1>4, <1>5, <2>1, <2>3, <2>4, CommandGoesOn
<1>8. CASE SyncLoad(c)
  <2>. DEFINE next == IF What[c] # "edit" /\ sync[c].digest = index.digest
                      THEN Return(c) ELSE "populate"
  <2>1. Goto(c, next)
    BY <1>8 DEF SyncLoad
  <2>2. sync'[c].rows = manifest /\ sync'[c].revision = index.revision + 1
        /\ sync'[c].digest = sync[c].digest
    BY <1>8 DEF SyncLoad, CommandsInv, FilesInv, RegistryTypes, SyncRecord
  <2>3. /\ next \in {"populate", "plan", "done"}
        /\ next = "plan" => What[c] = "delete"
        /\ next = "done" => What[c] = "reload"
    BY <1>3 DEF Return, InHand
  <2>. HIDE DEF next
  <2>4. at'[c] = next /\ (UnderWay(c)' <=> next # "done")
    BY <1>1, <2>1, <2>3, AtWork
  <2>5. InHand(c)'
    BY <1>1, <1>3, <1>6, <1>8, <2>2, <2>3, <2>4
       DEF SyncLoad, InHand, ManifestIsOf, SyncIsOf, TransactionIsOf, Edited, Updated
  <2>. QED  BY <1>1, <1>3, <1>4, <1>5, <2>1, <2>3, <2>4, <2>5, CommandGoesOn
<1>9. CASE SyncPopulate(c)
  <2>1. Goto(c, "replace") /\ at[c] = "populate"
    BY <1>9 DEF SyncPopulate
  <2>2. /\ sync'[c].hashes =
             [p \in Part |-> IF sync[c].rows[p] = "absent" THEN NoFiles ELSE file[p]]
        /\ sync'[c].rows = sync[c].rows /\ sync'[c].revision = sync[c].revision
        /\ sync'[c].digest = sync[c].digest
    BY <1>9 DEF SyncPopulate, CommandsInv, FilesInv, RegistryTypes, SyncRecord
  <2>3. at'[c] = "replace" /\ UnderWay(c)'
    BY <1>1, <2>1, AtWork
  <2>4. InHand(c)'
    BY <1>1, <1>3, <1>6, <2>1, <2>2, <2>3
       DEF InHand, ManifestIsOf, SyncIsOf, TransactionIsOf, Edited, Updated
  <2>. QED  BY <1>1, <1>3, <1>4, <1>5, <2>1, <2>3, <2>4, CommandGoesOn
<1>10. CASE SyncFlush(c)
  <2>1. Goto(c, Return(c)) /\ at[c] = "flush" /\ sync' = sync
    BY <1>10 DEF SyncFlush
  <2>3. /\ Return(c) \in {"raised", "plan", "done"}
        /\ Return(c) = "plan" => What[c] = "delete"
        /\ Return(c) = "done" => What[c] # "delete"
    BY <1>3 DEF Return, InHand
  <2>4. at'[c] = Return(c) /\ (UnderWay(c)' <=> Return(c) = "plan")
    BY <1>1, <2>1, <2>3, AtWork
  <2>5. InHand(c)'
    BY <1>1, <1>3, <2>1, <2>3, <2>4
       DEF InHand, ManifestIsOf, SyncIsOf, TransactionIsOf, Edited, Updated
  <2>. QED  BY <1>1, <1>3, <1>4, <1>5, <2>1, <2>3, <2>4, <2>5, CommandGoesOn
<1>11. CASE SyncFails(c)
  <2>. DEFINE next == IF sync[c].restoring THEN "unrestored"
                      ELSE IF What[c] = "edit" THEN "unedit" ELSE "raised"
  <2>1. Goto(c, next) /\ sync' = sync
    BY <1>11 DEF SyncFails
  <2>2. at'[c] = next /\ (UnderWay(c)' <=> next = "unedit")
    BY <1>1, <2>1, AtWork
  <2>3. InHand(c)'
    BY <1>1, <1>3, <2>1, <2>2 DEF InHand, ManifestIsOf, SyncIsOf, TransactionIsOf, Edited, Updated
  <2>4. Clean' => next # "unrestored"
    BY <1>1, <2>1, AtWork
  <2>. QED  BY <1>1, <1>3, <1>4, <1>5, <2>1, <2>2, <2>3, <2>4, CommandGoesOn
<1>. QED  BY <1>7, <1>8, <1>9, <1>10, <1>11

LEMMA DeletionGoesOn ==
  ASSUME CommandsInv, FilesInv', NEW c \in Command,
         CheckJobs(c) \/ OpenDeletion(c) \/ Verify(c) \/ DeletionFails(c) \/ Rollback(c)
  PROVE  CommandsInv'
<1>. USE DEF disk, Ended, Syncing
<1>1. /\ UnderWay(c) /\ at[c] \in {"jobs", "plan", "verify", "move", "commit", "fail", "back"}
      /\ UNCHANGED <<manifest, file, latest, index, seen, sync>>
      /\ What[c] = "delete"
  BY DEF CheckJobs, OpenDeletion, Verify, DeletionFails, Rollback, UnderWay, CommandsInv, FilesInv,
     Roles, Holding
<1>2. PICK there : Goto(c, there)
  BY DEF CheckJobs, OpenDeletion, Verify, DeletionFails, Rollback
<1>3. InHand(c) /\ (Clean' => Clean) /\ Target[c] \in Part
  BY <1>1, <1>2, AtWork
<1>4. /\ Clean => Agrees(seen[c])
      /\ at[c] \in {"jobs", "plan", "verify", "move"} => manifest = seen[c]
      /\ seen[c][Target[c]] # "absent"
  BY <1>1, <1>3 DEF CommandsInv, Agreement, InHand, ManifestIsOf
<1>5. index.rows[Target[c]] # "absent"
  BY <1>1, <1>3, <1>4 DEF CommandsInv, Absences
<1>6. c \notin Build /\ (Goto(c, there) => at'[c] = there)
  BY CommandAssumption, GoesTo DEF CommandsInv, FilesInv, Actor
<1>7. CASE CheckJobs(c)
  <2>1. PICK next \in {"sync", "refused"} : Goto(c, next)
    BY <1>7 DEF CheckJobs
  <2>2. at'[c] = next /\ (UnderWay(c)' <=> next = "sync") /\ at[c] = "jobs" /\ holds' = holds
    BY <1>1, <1>7, <2>1, AtWork DEF CheckJobs
  <2>3. InHand(c)'
    BY <1>1, <1>3, <1>4, <2>1, <2>2
       DEF InHand, ManifestIsOf, SyncIsOf, TransactionIsOf, Edited, Updated
  <2>. QED  BY <1>1, <1>3, <1>4, <2>1, <2>2, <2>3, CommandGoesOn
<1>8. CASE OpenDeletion(c)
  <2>1. Goto(c, "verify") /\ at[c] = "plan" /\ holds' = [holds EXCEPT ![c] = index.generation]
    BY <1>8 DEF OpenDeletion, TakeWriteLock
  <2>2. at'[c] = "verify" /\ UnderWay(c)'
    BY <1>1, <2>1, AtWork
  <2>3. holds'[c] = index.generation /\ \A b \in Build : holds'[b] = holds[b]
    BY <1>6, <2>1 DEF CommandsInv, FilesInv, RegistryTypes, Actor
  <2>4. InHand(c)'
    BY <1>1, <1>3, <1>4, <2>1, <2>2, <2>3
       DEF InHand, ManifestIsOf, SyncIsOf, TransactionIsOf, Edited, Updated
  <2>. QED  BY <1>1, <1>3, <1>4, <2>1, <2>2, <2>3, <2>4, CommandGoesOn
<1>9. CASE Verify(c)
  <2>1. Goto(c, "move") /\ at[c] = "verify" /\ holds' = holds
    BY <1>4, <1>9 DEF Verify
  <2>2. at'[c] = "move" /\ UnderWay(c)'
    BY <1>1, <2>1, AtWork
  <2>3. InHand(c)'
    BY <1>1, <1>3, <1>4, <2>1, <2>2
       DEF InHand, ManifestIsOf, SyncIsOf, TransactionIsOf, Edited, Updated
  <2>. QED  BY <1>1, <1>3, <1>4, <2>1, <2>2, <2>3, CommandGoesOn
<1>10. CASE DeletionFails(c)
  <2>. DEFINE next == IF at[c] = "back" THEN "unrestored" ELSE "fail"
  <2>1. Goto(c, next) /\ at[c] \in {"verify", "move", "commit", "back"} /\ holds' = holds
    BY <1>10 DEF DeletionFails
  <2>2. at'[c] = next /\ (UnderWay(c)' <=> next = "fail")
    BY <1>1, <2>1, AtWork
  <2>3. InHand(c)'
    BY <1>1, <1>3, <1>4, <2>1, <2>2
       DEF InHand, ManifestIsOf, SyncIsOf, TransactionIsOf, Edited, Updated
  <2>4. Clean' => next # "unrestored"
    BY <1>1, <2>1, AtWork
  <2>. QED  BY <1>1, <1>3, <1>4, <1>5, <2>1, <2>2, <2>3, <2>4, CommandGoesOn
<1>11. CASE Rollback(c)
  <2>1. Goto(c, "back") /\ at[c] = "fail" /\ holds' = [holds EXCEPT ![c] = NoIndex]
    BY <1>11 DEF Rollback, ReleaseWriteLock
  <2>2. at'[c] = "back" /\ UnderWay(c)'
    BY <1>1, <2>1, AtWork
  <2>3. \A b \in Build : holds'[b] = holds[b]
    BY <1>6, <2>1 DEF CommandsInv, FilesInv, RegistryTypes, Actor
  <2>4. InHand(c)'
    BY <1>1, <1>3, <1>4, <2>1, <2>2, <2>3
       DEF InHand, ManifestIsOf, SyncIsOf, TransactionIsOf, Edited, Updated
  <2>. QED  BY <1>1, <1>3, <1>4, <1>5, <2>1, <2>2, <2>3, <2>4, CommandGoesOn
<1>. QED  BY <1>7, <1>8, <1>9, <1>10, <1>11

\* A command past its look at the jobs changes manifest, index or files.
LEMMA CommandActs ==
  ASSUME CommandsInv, FilesInv', NEW c \in Command, UnderWay(c), at[c] # "jobs",
         at' = at \/ \E there : Goto(c, there),
         latest' = latest, \A d \in Command \ {c} : sync'[d] = sync[d],
         InHand(c)', Absences', Agreement', Hashed', DeletedStaysDeleted'
  PROVE  CommandsInv'
<1>1. /\ \A d \in Command \ {c} : at'[d] = at[d] /\ ~UnderWay(d)'
      /\ \A b \in Build : at'[b] = at[b] /\ at[b] \in {"idle"} \cup Ended /\ ~UnderWay(b)'
  BY Alone, GoesTo, CommandAssumption DEF CommandsInv, FilesInv, Actor, UnderWay
<1>2. OneAtATime'
  BY <1>1 DEF OneAtATime
<1>3. \A d \in Command : InHand(d)'
  BY <1>1 DEF CommandsInv, InHand
<1>4. Publications'
  BY <1>1 DEF CommandsInv, Publications, Publishing, Ended
<1>. QED  BY <1>2, <1>3, <1>4 DEF CommandsInv

LEMMA EditKeeps ==
  ASSUME CommandsInv, FilesInv', NEW c \in Command, Edit(c) \/ Unedit(c)
  PROVE  CommandsInv'
<1>. USE DEF Ended, Syncing
<1>1. /\ UnderWay(c) /\ at[c] \in {"edit", "unedit"} /\ Goto(c, "sync")
      /\ UNCHANGED <<file, latest, index, holds, seen>>
  BY DEF Edit, Unedit, UnderWay
<1>2. What[c] = "edit"
  BY <1>1 DEF CommandsInv, FilesInv, Roles
<1>3. /\ InHand(c) /\ at'[c] = "sync" /\ UnderWay(c)' /\ Target[c] \in Part
      /\ \A d \in Command \ {c} : at'[d] = at[d]
  BY <1>1, AtWork
<1>4. /\ seen[c][Target[c]] # "absent" /\ ~sync[c].restoring /\ seen[c] \in Manifest
      /\ manifest = IF at[c] = "edit" THEN seen[c] ELSE Edited(c)
  BY <1>1, <1>2, <1>3 DEF InHand, ManifestIsOf, CommandsInv, FilesInv, RegistryTypes
<1>5. /\ manifest' = IF sync'[c].restoring THEN seen[c] ELSE Edited(c)
      /\ \A d \in Command \ {c} : sync'[d] = sync[d]
  BY <1>4 DEF Edit, Unedit, Edited, CommandsInv, FilesInv, RegistryTypes, SyncRecord
<1>6. \A p \in Part : manifest'[p] = "absent" <=> manifest[p] = "absent"
  BY <1>3, <1>4, <1>5 DEF Edited, Manifest
<1>7. InHand(c)'
  BY <1>1, <1>2, <1>3, <1>4, <1>5
     DEF InHand, ManifestIsOf, SyncIsOf, TransactionIsOf, Edited, Updated
<1>8. Absences'
  BY <1>1, <1>3, <1>6 DEF CommandsInv, Absences, IsDeletionOf, Left
<1>9. Agreement'
  BY <1>2, <1>3, Alone, <1>1 DEF Agreement, UnderWay
<1>10. Hashed'
  <2>1. \A d \in Command : at'[d] \in {"lost", "unrestored"} <=> at[d] \in {"lost", "unrestored"}
    BY <1>1, <1>3
  <2>2. \A b \in Build : at'[b] = at[b]
    BY <1>1, AtWork
  <2>. QED  BY <1>1, <2>1, <2>2 DEF CommandsInv, Hashed, Settled
<1>11. DeletedStaysDeleted'
  BY <1>1, <1>3, <1>6, CommandAssumption DEF CommandsInv, DeletedStaysDeleted
<1>. QED  BY <1>1, <1>5, <1>7, <1>8, <1>9, <1>10, <1>11, CommandActs

LEMMA SyncReplaceKeeps ==
  ASSUME CommandsInv, FilesInv', NEW c \in Command, SyncReplace(c)
  PROVE  CommandsInv' /\ index'.revision = index.revision + 1
<1>. USE DEF Ended, Syncing, disk
<1>1. /\ UnderWay(c) /\ at[c] = "replace" /\ Goto(c, "flush")
      /\ UNCHANGED <<manifest, file, latest, trash, holds, seen, sync>>
  BY DEF SyncReplace, UnderWay
<1>2. /\ InHand(c) /\ at'[c] = "flush" /\ UnderWay(c)' /\ (Clean' => Clean)
      /\ \A d \in Command \ {c} : at'[d] = at[d] /\ ~UnderWay(d)'
      /\ \A b \in Build : at'[b] = at[b]
  BY <1>1, AtWork
<1>3. /\ index'.rows = manifest /\ index'.digest = manifest
      /\ index'.revision = index.revision + 1 /\ index'.hashes = sync[c].hashes
      /\ \A p \in Part : manifest[p] # "absent" => sync[c].hashes[p] = file[p]
  BY <1>1, <1>2 DEF SyncReplace, InHand, SyncIsOf
<1>4. InHand(c)'
  BY <1>1, <1>2 DEF InHand, ManifestIsOf, SyncIsOf, TransactionIsOf, Edited, Updated
<1>5. \A d \in Command : at[d] \notin {"commit", "fail", "back"}
  BY <1>1, Alone
<1>6. Absences'
  BY <1>1, <1>2, <1>3, <1>5 DEF CommandsInv, Absences, Left
<1>7. Agreement'
  <2>1. What[c] # "edit" => manifest = seen[c]
    BY <1>1, <1>2 DEF InHand, ManifestIsOf
  <2>. QED  BY <1>1, <1>2, <1>3, <2>1 DEF Agreement, Agrees
<1>8. Hashed'
  <2>1. SUFFICES ASSUME NEW p \in Part, manifest[p] # "absent", Settled(p)'
                 PROVE  index'.hashes[p] = latest[p]
    BY <1>1, <1>3 DEF Hashed
  <2>2. ASSUME NEW d \in Command, IsDeletionOf(d, p) PROVE at[d] \notin Holding \cup Left
    <3>1. at[d] # "done"
      BY <2>1, <2>2 DEF CommandsInv, DeletedStaysDeleted, IsDeletionOf
    <3>2. at[d] \notin {"lost", "unrestored"}
      BY <1>1, <1>2, <2>1, <2>2 DEF Settled
    <3>3. at[d] \notin Holding
      BY <1>1, Alone DEF Holding
    <3>. QED  BY <3>1, <3>2, <3>3 DEF Left
  <2>3. file[p] = latest[p]
    BY <2>2, InPlace DEF CommandsInv
  <2>. QED  BY <1>3, <2>1, <2>3
<1>9. DeletedStaysDeleted'
  BY <1>1, <1>2, <1>3, CommandAssumption DEF CommandsInv, DeletedStaysDeleted
<1>. QED  BY <1>1, <1>3, <1>4, <1>6, <1>7, <1>8, <1>9, CommandActs

LEMMA MoveActs ==
  ASSUME CommandsInv, FilesInv', NEW c \in Command, Move(c) \/ MoveBack(c)
  PROVE  CommandsInv'
<1>. USE DEF Ended, Syncing
<1>. DEFINE p == Target[c]
<1>1. /\ UnderWay(c) /\ at[c] \in {"move", "back"}
      /\ UNCHANGED <<manifest, latest, index, holds, at, seen, sync>>
  BY DEF Move, MoveBack, UnderWay
<1>2. InHand(c) /\ What[c] = "delete" /\ p \in Part
  BY <1>1, CommandAssumption DEF CommandsInv, FilesInv, Roles, Holding
<1>3. \A q \in Part \ {p} : file'[q] = file[q]
  BY <1>2 DEF Move, MoveBack, CommandsInv, FilesInv, RegistryTypes
<1>4. index.rows[p] # "absent"
  BY <1>1, <1>2 DEF CommandsInv, Absences, InHand, ManifestIsOf
<1>5. InHand(c)'
  BY <1>1, <1>2 DEF InHand, ManifestIsOf, SyncIsOf, TransactionIsOf, Edited, Updated, UnderWay
<1>6. Absences' /\ Agreement' /\ Hashed'
  BY <1>1 DEF CommandsInv, Absences, Agreement, Clean, Agrees, UnderWay, Hashed, Settled
<1>7. DeletedStaysDeleted'
  BY <1>1, <1>3, <1>4, CommandAssumption DEF CommandsInv, DeletedStaysDeleted
<1>. QED  BY <1>1, <1>5, <1>6, <1>7, CommandActs

LEMMA WriteManifestKeeps ==
  ASSUME CommandsInv, FilesInv', NEW c \in Command, WriteManifest(c)
  PROVE  CommandsInv'
<1>. USE DEF Ended, Syncing
<1>. DEFINE p == Target[c]
<1>1. /\ UnderWay(c) /\ at[c] = "move"
      /\ UNCHANGED <<file, latest, index, holds, seen, sync>>
  BY DEF WriteManifest, UnderWay
<1>2. InHand(c) /\ What[c] = "delete" /\ p \in Part /\ seen[c] \in Manifest
  BY <1>1, CommandAssumption DEF CommandsInv, FilesInv, Roles, Holding, RegistryTypes
<1>3. holds[c] = index.generation /\ manifest = seen[c] /\ seen[c][p] # "absent"
  BY <1>1, <1>2 DEF InHand, TransactionIsOf, ManifestIsOf
<1>4. manifest' = Updated(c) /\ Goto(c, "commit")
  BY <1>3 DEF WriteManifest, OnCurrent
<1>5. /\ at'[c] = "commit" /\ UnderWay(c)' /\ (Clean' => Clean)
      /\ \A d \in Command \ {c} : at'[d] = at[d] /\ ~UnderWay(d)'
      /\ \A b \in Build : at'[b] = at[b]
  BY <1>1, <1>4, AtWork
<1>6. manifest'[p] = "absent" /\ \A q \in Part \ {p} : manifest'[q] = manifest[q]
  BY <1>2, <1>3, <1>4 DEF Updated, Manifest
<1>7. file[p] = NoFiles
  <2>1. ASSUME NEW k \in Kind PROVE file[p][k] = NoFile
    BY <1>1 DEF WriteManifest, CommandsInv, FilesInv, Trashed, Holding
  <2>. QED  BY <1>2, <2>1 DEF NoFiles, CommandsInv, FilesInv, RegistryTypes, Files
<1>8. InHand(c)'
  BY <1>1, <1>2, <1>3, <1>4, <1>5, <1>7 DEF InHand, ManifestIsOf, SyncIsOf, TransactionIsOf, Updated
<1>9. Absences'
  <2>1. index.rows[p] # "absent"
    BY <1>2, <1>3 DEF CommandsInv, Absences
  <2>2. ASSUME NEW q \in Part, manifest'[q] = "absent"
        PROVE  \E d \in Command :
                 IsDeletionOf(d, q) /\ at'[d] \in {"commit", "fail", "back"} \cup Left
    <3>1. CASE q = p
      BY <1>2, <1>5, <3>1 DEF IsDeletionOf
    <3>2. CASE q # p
      BY <1>1, <1>5, <1>6, <2>2, <3>2 DEF CommandsInv, Absences, Left
    <3>. QED  BY <3>1, <3>2
  <2>. QED  BY <1>1, <1>5, <1>6, <2>1, <2>2 DEF CommandsInv, Absences
<1>10. Agreement'
  BY <1>1, <1>2, <1>5 DEF CommandsInv, Agreement, Agrees
<1>11. Hashed'
  BY <1>1, <1>5 DEF CommandsInv, Hashed, Settled
<1>12. DeletedStaysDeleted'
  BY <1>1, <1>5, <1>6, CommandAssumption DEF CommandsInv, DeletedStaysDeleted
<1>. QED  BY <1>1, <1>4, <1>8, <1>9, <1>10, <1>11, <1>12, CommandActs

LEMMA CommitDeletionKeeps ==
  ASSUME CommandsInv, FilesInv', NEW c \in Command, CommitDeletion(c)
  PROVE  CommandsInv' /\ index'.revision = index.revision + 1
<1>. USE DEF Ended, Syncing, disk
<1>. DEFINE p == Target[c]
<1>1. /\ UnderWay(c) /\ at[c] = "commit" /\ Goto(c, "done")
      /\ UNCHANGED <<manifest, file, latest, seen, sync>>
  BY DEF CommitDeletion, UnderWay
<1>2. /\ InHand(c) /\ What[c] = "delete" /\ p \in Part
      /\ seen[c] \in Manifest /\ index.rows \in Manifest /\ index \in IndexRecord
  BY <1>1, CommandAssumption
     DEF CommandsInv, FilesInv, Roles, Holding, RegistryTypes, IndexRecord
<1>3. holds[c] = index.generation /\ manifest = Updated(c) /\ file[p] = NoFiles
  BY <1>1, <1>2 DEF InHand, TransactionIsOf, ManifestIsOf
<1>4. /\ index'.digest = Updated(c) /\ index'.rows = [index.rows EXCEPT ![p] = "absent"]
      /\ index'.revision = index.revision + 1
      /\ \A q \in Part \ {p} : index'.hashes[q] = index.hashes[q]
  BY <1>2, <1>3 DEF CommitDeletion, OnCurrent, IndexRecord
<1>5. /\ at'[c] = "done" /\ ~UnderWay(c)' /\ (Clean' => Clean)
      /\ \A d \in Command \ {c} : at'[d] = at[d] /\ ~UnderWay(d)'
      /\ \A b \in Build : at'[b] = at[b]
  BY <1>1, AtWork
<1>6. index'.rows[p] = "absent" /\ manifest[p] = "absent"
      /\ \A q \in Part \ {p} : index'.rows[q] = index.rows[q]
  BY <1>2, <1>3, <1>4 DEF Updated, Manifest
<1>7. InHand(c)'
  BY <1>1, <1>2, <1>5 DEF InHand
<1>8. Absences'
  <2>1. ASSUME NEW q \in Part, manifest'[q] = "absent"
        PROVE  \E d \in Command :
                 IsDeletionOf(d, q) /\ at'[d] \in {"commit", "fail", "back"} \cup Left
    BY <1>1, <1>5, <2>1 DEF CommandsInv, Absences, Left
  <2>2. \A d \in Command : at'[d] \notin {"commit", "fail", "back"}
    BY <1>5 DEF UnderWay
  <2>. QED  BY <1>1, <1>6, <2>1, <2>2 DEF CommandsInv, Absences
<1>9. Agreement'
  <2>1. Clean => index.rows = seen[c]
    BY <1>1, <1>2 DEF CommandsInv, Agreement, Agrees
  <2>2. Clean => index'.rows = manifest /\ index'.digest = manifest
    BY <1>3, <1>4, <2>1 DEF Updated
  <2>. QED  BY <1>1, <1>5, <2>2 DEF Agreement, Agrees
<1>10. Hashed'
  BY <1>1, <1>4, <1>5, <1>6 DEF CommandsInv, Hashed, Settled
<1>11. DeletedStaysDeleted'
  BY <1>1, <1>3, <1>5, <1>6, CommandAssumption DEF CommandsInv, DeletedStaysDeleted
<1>. QED  BY <1>1, <1>4, <1>7, <1>8, <1>9, <1>10, <1>11, CommandActs

LEMMA RestoreManifestKeeps ==
  ASSUME CommandsInv, FilesInv', NEW c \in Command, RestoreManifest(c)
  PROVE  CommandsInv'
<1>. USE DEF Ended, Syncing
<1>. DEFINE p == Target[c]
<1>1. /\ UnderWay(c) /\ at[c] = "back" /\ Goto(c, "raised")
      /\ UNCHANGED <<file, latest, index, holds, seen, sync>>
  BY DEF RestoreManifest, UnderWay
<1>2. /\ InHand(c) /\ What[c] = "delete" /\ p \in Part /\ seen[c] \in Manifest
      /\ index.rows[p] # "absent"
  BY <1>1, CommandAssumption
     DEF CommandsInv, FilesInv, Roles, Holding, RegistryTypes, Absences
<1>3. manifest \in {seen[c], Updated(c)} /\ seen[c][p] # "absent"
  BY <1>1, <1>2 DEF InHand, ManifestIsOf
<1>4. manifest' = seen[c]
  BY <1>3 DEF RestoreManifest
<1>5. /\ at'[c] = "raised" /\ ~UnderWay(c)' /\ (Clean' => Clean)
      /\ \A d \in Command \ {c} : at'[d] = at[d] /\ ~UnderWay(d)'
      /\ \A b \in Build : at'[b] = at[b]
  BY <1>1, AtWork
<1>6. manifest'[p] # "absent" /\ \A q \in Part \ {p} : manifest'[q] = manifest[q]
  BY <1>2, <1>3, <1>4 DEF Updated, Manifest
<1>7. InHand(c)'
  BY <1>1, <1>2, <1>5 DEF InHand
<1>8. Absences'
  <2>1. ASSUME NEW q \in Part, manifest'[q] = "absent"
        PROVE  \E d \in Command :
                 IsDeletionOf(d, q) /\ at'[d] \in {"commit", "fail", "back"} \cup Left
    <3>1. q # p /\ manifest[q] = "absent"
      BY <1>6, <2>1
    <3>2. PICK d \in Command : IsDeletionOf(d, q) /\ at[d] \in {"commit", "fail", "back"} \cup Left
      BY <3>1 DEF CommandsInv, Absences
    <3>3. d # c
      BY <3>1, <3>2 DEF IsDeletionOf
    <3>. QED  BY <1>5, <3>2, <3>3
  <2>2. \A d \in Command : at'[d] \notin {"commit", "fail", "back"}
    BY <1>5 DEF UnderWay
  <2>. QED  BY <1>1, <1>2, <1>6, <2>1, <2>2 DEF CommandsInv, Absences
<1>9. Agreement'
  <2>1. Clean => Agrees(seen[c])
    BY <1>1, <1>2 DEF CommandsInv, Agreement
  <2>. QED  BY <1>1, <1>4, <1>5, <2>1 DEF Agreement, Agrees
<1>10. Hashed'
  BY <1>1, <1>5 DEF CommandsInv, Hashed, Settled
<1>11. DeletedStaysDeleted'
  BY <1>1, <1>2, <1>5, <1>6, CommandAssumption DEF CommandsInv, DeletedStaysDeleted
<1>. QED  BY <1>1, <1>7, <1>8, <1>9, <1>10, <1>11, CommandActs

-----------------------------------------------------------------------------
(* The steps of a build.                                                   *)

\* A build goes on: commands are where they were, and at most one is under way,
\* a deletion that has yet to look at the jobs.
LEMMA BuildGoesOn ==
  ASSUME CommandsInv, FilesInv', NEW b \in Build, NEW there, Goto(b, there),
         UNCHANGED <<manifest, seen, sync>>, index'.rows = index.rows, index'.digest = index.digest,
         at[b] \in {"idle", "planned"} \/ UnderWay(b),
         \A c \in Command : UnderWay(c) => at[c] = "jobs",
         \A p \in Part : p # Of[b] => file'[p] = file[p],
         file' = file \/ UnderWay(b),
         Publications', Hashed'
  PROVE  CommandsInv'
<1>1. /\ at'[b] = there /\ b \notin Command
      /\ \A c \in Command : at'[c] = at[c] /\ UnderWay(c)' = UnderWay(c)
      /\ \A d \in Build \ {b} : at'[d] = at[d]
  BY GoesTo, CommandAssumption DEF CommandsInv, FilesInv, Actor, UnderWay
<1>2. OneAtATime'
  BY <1>1 DEF CommandsInv, OneAtATime
<1>3. ASSUME NEW c \in Command PROVE InHand(c)'
  BY <1>1 DEF CommandsInv, InHand, ManifestIsOf, SyncIsOf, TransactionIsOf, Edited, Updated
<1>4. Absences' /\ Agreement'
  BY <1>1 DEF CommandsInv, Absences, Agreement, Clean, Agrees
<1>5. DeletedStaysDeleted'
  <2>1. CASE file' = file
    BY <1>1, <2>1 DEF CommandsInv, DeletedStaysDeleted
  <2>2. CASE UnderWay(b)
    <3>1. manifest[Of[b]] # "absent"
      BY <2>2 DEF CommandsInv, Publications
    <3>. QED  BY <1>1, <3>1, CommandAssumption DEF CommandsInv, DeletedStaysDeleted
  <2>. QED  BY <2>1, <2>2
<1>. QED  BY <1>2, <1>3, <1>4, <1>5 DEF CommandsInv

LEMMA BuildStepKeeps ==
  ASSUME ~LateBuilds, CommandsInv, FilesInv', NEW b \in Build, BuildStep(b)
  PROVE  CommandsInv' /\ (index' # index => index'.revision = index.revision + 1)
<1>. USE DEF Ended, disk
<1>. DEFINE p == Of[b]
<1>1. PICK there : /\ Goto(b, there)
                   /\ there \in {"planned", "active", "publish", "refused", "open", "broken",
                                 "update", "done"}
  BY DEF BuildStep, Plan, Submit, Prepared, NotPrepared, ReplaceFile, OpenPublication, Update,
     PublicationFails
<1>2. /\ at'[b] = there /\ b \notin Command /\ p \in Part /\ b # NoFile
      /\ \A d \in Build \ {b} : at'[d] = at[d] /\ UnderWay(d)' = UnderWay(d)
      /\ \A c \in Command : at'[c] = at[c]
  BY <1>1, GoesTo, CommandAssumption, BuildAssumption DEF CommandsInv, FilesInv, Actor, UnderWay
<1>3. UNCHANGED <<manifest, seen, sync>>
  BY DEF BuildStep, Plan, Submit, Prepared, NotPrepared, ReplaceFile, OpenPublication, Update,
     PublicationFails
<1>4. \A c \in Command : UnderWay(c) => at[c] = "jobs"
  <2>1. CASE Plan(b)
    BY <2>1 DEF Plan, Commanding
  <2>2. CASE UnderWay(b) \/ at[b] = "planned"
    BY <2>2 DEF CommandsInv, FilesInv, Apart
  <2>. QED  BY <2>1, <2>2 DEF BuildStep, Submit, Prepared, NotPrepared, ReplaceFile,
            OpenPublication, Update, PublicationFails, UnderWay, Publishing
<1>5. /\ \A d \in Build \ {b} : holds'[d] = holds[d]
      /\ there # "update" \/ holds'[b] = index.generation
  <2>1. CASE OpenPublication(b) /\ Goto(b, "update")
    BY <1>2, <2>1, GoesTo DEF OpenPublication, TakeWriteLock, CommandsInv, FilesInv, RegistryTypes,
       Actor
  <2>2. CASE Update(b) \/ PublicationFails(b)
    <3>1. holds' = [holds EXCEPT ![b] = NoIndex]
      BY <2>2 DEF Update, PublicationFails, ReleaseWriteLock
    <3>2. \E end \in {"done", "broken"} : Goto(b, end)
      BY <2>2 DEF Update, PublicationFails
    <3>. QED  BY <1>2, <3>1, <3>2, GoesTo DEF CommandsInv, FilesInv, RegistryTypes, Actor
  <2>3. CASE /\ holds' = holds
             /\ \E next \in {"planned", "active", "publish", "refused", "open", "broken"} :
                  Goto(b, next)
    BY <1>2, <2>3, GoesTo DEF CommandsInv, FilesInv, Actor
  <2>. QED  BY <2>1, <2>2, <2>3 DEF BuildStep, Plan, Submit, Prepared, NotPrepared, ReplaceFile,
            OpenPublication
<1>6. CASE Plan(b) \/ Submit(b) \/ NotPrepared(b)
  <2>1. /\ at[b] \in {"idle", "planned", "active"} /\ there \in {"planned", "active", "refused"}
        /\ manifest[p] # "absent"
        /\ UNCHANGED <<file, latest, index>>
    BY <1>1, <1>2, <1>6, GoesTo DEF Plan, Submit, NotPrepared, CommandsInv, Publications, UnderWay,
       FilesInv, Actor
  <2>2. Publications'
    BY <1>2, <1>3, <1>5, <2>1 DEF CommandsInv, Publications, Publishing, Siblings, UnderWay
  <2>3. Hashed'
    BY <1>2, <2>1 DEF CommandsInv, Hashed, Settled, Publishing
  <2>. QED  BY <1>1, <1>2, <1>3, <1>4, <2>1, <2>2, <2>3, BuildGoesOn DEF UnderWay
<1>7. CASE Prepared(b)
  <2>1. /\ at[b] = "active" /\ at'[b] = "publish" /\ manifest[p] # "absent"
        /\ \A d \in Siblings(b) : at[d] \notin Publishing
        /\ \A k \in Kind : latest[p][k] # b
        /\ UNCHANGED <<file, latest, index>>
    BY <1>2, <1>7, GoesTo DEF Prepared, CommandsInv, Publications, UnderWay, FilesInv, Actor
  <2>2. Publications'
    BY <1>2, <1>3, <1>5, <2>1 DEF CommandsInv, Publications, Publishing, Siblings, UnderWay
  <2>3. Hashed'
    BY <1>2, <2>1 DEF CommandsInv, Hashed, Settled, Publishing
  <2>. QED  BY <1>1, <1>2, <1>3, <1>4, <2>1, <2>2, <2>3, BuildGoesOn DEF UnderWay
<1>8. CASE ReplaceFile(b)
  <2>1. PICK k \in Kind :
          /\ file' = [file EXCEPT ![p][k] = b] /\ latest' = [latest EXCEPT ![p][k] = b]
          /\ Goto(b, IF \A j \in Kind \ {k} : latest[p][j] = b THEN "open" ELSE "publish")
    BY <1>8 DEF ReplaceFile
  <2>2. /\ at[b] = "publish" /\ index' = index /\ UnderWay(b) /\ manifest[p] # "absent"
        /\ at'[b] = IF \A j \in Kind \ {k} : latest[p][j] = b THEN "open" ELSE "publish"
    BY <1>2, <1>8, <2>1, GoesTo
       DEF ReplaceFile, CommandsInv, Publications, UnderWay, FilesInv, Actor
  <2>3. /\ file'[p][k] = b /\ \A j \in Kind \ {k} : file'[p][j] = file[p][j]
        /\ \A q \in Part \ {p} : file'[q] = file[q]
        /\ latest'[p][k] = b /\ \A j \in Kind \ {k} : latest'[p][j] = latest[p][j]
        /\ \A q \in Part \ {p} : latest'[q] = latest[q]
    BY <1>2, <2>1 DEF CommandsInv, FilesInv, RegistryTypes, Files
  <2>4. \A j \in Kind : latest'[p][j] = b \/ at'[b] # "publish" => file'[p][j] = b
    BY <2>2, <2>3 DEF CommandsInv, Publications, Publishing
  <2>5. \A d \in Siblings(b) : at[d] \notin Publishing
    BY <2>2 DEF CommandsInv, Publications, Publishing
  <2>6. Publications'
    <3>1. ASSUME NEW d \in Build \ {b}, at[d] \in Publishing PROVE Of[d] # p
      BY <2>5, <3>1 DEF Siblings
    <3>2. \A d \in Build : at[d] \in Publishing => Of[d] \in Part
      BY BuildAssumption
    <3>. QED  BY <1>2, <1>3, <1>5, <2>2, <2>3, <2>4, <2>5, <3>1, <3>2
              DEF CommandsInv, Publications, Publishing, Siblings, UnderWay
  <2>7. Hashed'
    BY <1>2, <2>2, <2>3 DEF CommandsInv, Hashed, Settled, Publishing
  <2>. QED  BY <1>2, <1>3, <1>4, <2>1, <2>2, <2>3, <2>6, <2>7, BuildGoesOn
<1>9. CASE OpenPublication(b) \/ PublicationFails(b)
  <2>1. /\ at[b] \in Publishing /\ UnderWay(b) /\ manifest[p] # "absent"
        /\ there = "update" => at[b] = "open"
        /\ there \in {"update", "broken"}
        /\ UNCHANGED <<file, latest, index>>
    BY <1>2, <1>9, GoesTo
       DEF OpenPublication, PublicationFails, CommandsInv, Publications, UnderWay,
       FilesInv, Actor, Publishing
  <2>2. Publications'
    BY <1>2, <1>3, <1>5, <2>1 DEF CommandsInv, Publications, Publishing, Siblings, UnderWay
  <2>3. Hashed'
    BY <1>2, <2>1 DEF CommandsInv, Hashed, Settled, Publishing
  <2>. QED  BY <1>1, <1>2, <1>3, <1>4, <2>1, <2>2, <2>3, BuildGoesOn
<1>10. CASE Update(b)
  <2>1. /\ at[b] = "update" /\ UnderWay(b) /\ manifest[p] # "absent" /\ index \in IndexRecord
        /\ UNCHANGED <<file, latest>> /\ OnCurrent(b)
    BY <1>10 DEF Update, UnderWay, CommandsInv, Publications, FilesInv, RegistryTypes, OnCurrent
  <2>2. index.rows[p] # "absent"
    BY <1>2, <2>1 DEF CommandsInv, Absences
  <2>3. /\ index' = [index EXCEPT !.hashes[p] = [k \in Kind |-> b], !.revision = @ + 1]
        /\ Goto(b, "done")
    BY <1>10, <2>1, <2>2 DEF Update
  <2>4. /\ index'.rows = index.rows /\ index'.digest = index.digest
        /\ index'.generation = index.generation /\ index'.revision = index.revision + 1
        /\ index'.hashes[p] = [k \in Kind |-> b]
        /\ \A q \in Part \ {p} : index'.hashes[q] = index.hashes[q]
    BY <1>2, <2>1, <2>3 DEF IndexRecord
  <2>5. at'[b] = "done"
    BY <2>3, GoesTo DEF CommandsInv, FilesInv, Actor
  <2>6. Publications'
    BY <1>2, <1>3, <1>5, <2>1, <2>4, <2>5
       DEF CommandsInv, Publications, Publishing, Siblings, UnderWay
  <2>7. latest[p] = [k \in Kind |-> b]
    <3>1. \A k \in Kind : file[p][k] = b
      BY <2>1 DEF CommandsInv, Publications, Publishing
    <3>2. \A k \in Kind : latest[p][k] = b
      BY <1>2, <3>1 DEF CommandsInv, FilesInv, Kept
    <3>. QED  BY <1>2, <3>2 DEF CommandsInv, FilesInv, RegistryTypes
  <2>8. Hashed'
    BY <1>2, <2>1, <2>4, <2>5, <2>7 DEF CommandsInv, Hashed, Settled, Publishing
  <2>. QED  BY <1>2, <1>3, <1>4, <2>1, <2>3, <2>4, <2>6, <2>8, BuildGoesOn
<1>. QED  BY <1>6, <1>7, <1>8, <1>9, <1>10 DEF BuildStep

LEMMA CommandStepKeeps ==
  ASSUME ~ManyCommands, CommandsInv, FilesInv', NEW c \in Command,
         Start(c) \/ Edit(c) \/ Unedit(c) \/ SyncStep(c) \/ DeletionStep(c)
  PROVE  CommandsInv' /\ (index' # index => index'.revision = index.revision + 1)
<1>1. CASE Start(c) \/ Edit(c) \/ Unedit(c)
  BY <1>1, StartKeeps, EditKeeps DEF Start, Edit, Unedit
<1>2. CASE SyncStep(c)
  <2>1. CASE SyncReplace(c)
    BY <2>1, SyncReplaceKeeps
  <2>2. CASE SyncRead(c) \/ SyncLoad(c) \/ SyncPopulate(c) \/ SyncFlush(c) \/ SyncFails(c)
    BY <2>2, SyncReads DEF SyncRead, SyncLoad, SyncPopulate, SyncFlush, SyncFails
  <2>. QED  BY <1>2, <2>1, <2>2 DEF SyncStep
<1>3. CASE DeletionStep(c)
  <2>1. CASE CommitDeletion(c)
    BY <2>1, CommitDeletionKeeps
  <2>2. CASE CheckJobs(c) \/ OpenDeletion(c) \/ Verify(c) \/ DeletionFails(c) \/ Rollback(c)
    BY <2>2, DeletionGoesOn DEF CheckJobs, OpenDeletion, Verify, DeletionFails, Rollback
  <2>3. CASE Move(c) \/ MoveBack(c)
    BY <2>3, MoveActs DEF Move, MoveBack
  <2>4. CASE WriteManifest(c) \/ RestoreManifest(c)
    BY <2>4, WriteManifestKeeps, RestoreManifestKeeps DEF WriteManifest, RestoreManifest
  <2>. QED  BY <1>3, <2>1, <2>2, <2>3, <2>4 DEF DeletionStep
<1>. QED  BY <1>1, <1>2, <1>3

LEMMA CrashKeeps ==
  ASSUME CommandsInv, FilesInv', Crash
  PROVE  CommandsInv'
<1>. USE DEF Ended
<1>1. /\ \A a \in Actor : at'[a] = IF UnderWay(a) \/ at[a] = "planned" THEN "lost" ELSE at[a]
      /\ UNCHANGED <<manifest, file, latest, index, seen, sync>>
  BY DEF Crash, disk
<1>2. /\ \A c \in Command : c \in Actor /\ ~UnderWay(c)' /\ at'[c] \in {"idle", "lost", at[c]}
      /\ \A c \in Command : UnderWay(c) => at'[c] = "lost"
      /\ \A c \in Command : at'[c] # "lost" => at'[c] = at[c] /\ ~UnderWay(c)
      /\ \A b \in Build : b \in Actor /\ ~UnderWay(b)' /\ at'[b] # "planned"
  BY <1>1 DEF Actor, UnderWay
<1>3. OneAtATime' /\ \A c \in Command : InHand(c)'
  BY <1>1, <1>2 DEF CommandsInv, OneAtATime, InHand, UnderWay
<1>4. Absences'
  <2>1. \A c \in Command : at[c] \in {"commit", "fail", "back"} \cup Left => at'[c] \in Left
    BY <1>2 DEF UnderWay, Left
  <2>2. \A c \in Command : at'[c] \notin {"commit", "fail", "back"}
    BY <1>2 DEF UnderWay
  <2>. QED  BY <1>1, <2>1, <2>2 DEF CommandsInv, Absences
<1>5. Agreement'
  BY <1>1, <1>2 DEF CommandsInv, Agreement, Clean, Agrees
<1>6. Publications'
  BY <1>1, <1>2 DEF CommandsInv, Publications, Publishing, UnderWay
<1>7. Hashed'
  BY <1>1, <1>2 DEF CommandsInv, Hashed, Settled, UnderWay, Publishing
<1>8. DeletedStaysDeleted'
  BY <1>1, <1>2 DEF CommandsInv, DeletedStaysDeleted
<1>. QED  BY <1>3, <1>4, <1>5, <1>6, <1>7, <1>8 DEF CommandsInv

LEMMA CommandsKept ==
  ASSUME ~LateBuilds, ~ManyCommands, CommandsInv, [Next]_vars
  PROVE  CommandsInv' /\ (index' # index => index'.revision = index.revision + 1)
<1>0. FilesInv'
  BY FilesKept DEF CommandsInv
<1>1. CASE \E c \in Command : Start(c) \/ Edit(c) \/ Unedit(c) \/ SyncStep(c) \/ DeletionStep(c)
  BY <1>0, <1>1, CommandStepKeeps
<1>2. CASE \E b \in Build : BuildStep(b)
  BY <1>0, <1>2, BuildStepKeeps
<1>3. CASE Crash
  BY <1>0, <1>3, CrashKeeps DEF Crash
<1>4. CASE UNCHANGED vars
  <2>1. UNCHANGED <<manifest, file, latest, trash, index, holds, at, seen, sync>>
    BY <1>4 DEF vars, disk
  <2>. QED  BY <1>0, <2>1 DEF CommandsInv, OneAtATime, InHand, ManifestIsOf, SyncIsOf,
            TransactionIsOf, Edited, Updated, Absences, Agreement, Clean, Agrees, Publications,
            Hashed, Settled, DeletedStaysDeleted, UnderWay
<1>. QED  BY <1>1, <1>2, <1>3, <1>4 DEF Next

-----------------------------------------------------------------------------
(* What follows, as long as commands run one at a time and no build is     *)
(* submitted late.                                                         *)

LEMMA FreshWhenSettled == CommandsInv => IndexIsFresh
<1>. SUFFICES ASSUME CommandsInv, NEW p \in Part, index.rows[p] # "absent",
                     \A b \in Build : Of[b] = p => at[b] \notin Publishing \cup {"broken", "lost"},
                     \A c \in Command :
                       IsDeletionOf(c, p) => ~UnderWay(c) /\ at[c] \notin {"lost", "unrestored"}
              PROVE  index.hashes[p] = file[p]
  BY DEF IndexIsFresh
<1>1. index.hashes[p] = latest[p]
  BY DEF CommandsInv, Hashed, Settled
<1>2. ASSUME NEW d \in Command, IsDeletionOf(d, p) PROVE at[d] \notin Holding \cup Left
  BY <1>2 DEF CommandsInv, DeletedStaysDeleted, IsDeletionOf, Holding, Left, UnderWay, Ended
<1>. QED  BY <1>1, <1>2, InPlace DEF CommandsInv

LEMMA RestoredWhenRaised == CommandsInv => FailedDeletionRestores
<1>. SUFFICES ASSUME CommandsInv PROVE FailedDeletionRestores
  OBVIOUS
<1>1. ASSUME NEW c \in Command, What[c] = "delete", at[c] = "raised"
      PROVE  trash[c] = NoFiles
  <2>1. \A k \in Kind : trash[c][k] = NoFile
    BY <1>1 DEF CommandsInv, FilesInv, Trashed, Holding, Left
  <2>. QED  BY <2>1 DEF CommandsInv, FilesInv, RegistryTypes, Files, NoFiles
<1>2. ASSUME NEW c \in Command, What[c] = "delete", at[c] = "raised",
             \A d \in Command \ {c} : IsDeletionOf(d, Target[c]) => at[d] = "idle"
      PROVE  /\ manifest[Target[c]] # "absent" /\ index.rows[Target[c]] # "absent"
             /\ file[Target[c]] = latest[Target[c]]
  <2>1. Target[c] \in Part
    BY CommandAssumption
  <2>2. ASSUME NEW d \in Command, IsDeletionOf(d, Target[c])
        PROVE  at[d] \notin Holding \cup Left \cup {"commit", "fail", "back"}
    BY <1>2, <2>2 DEF Holding, Left
  <2>3. manifest[Target[c]] # "absent"
    BY <2>1, <2>2 DEF CommandsInv, Absences
  <2>4. index.rows[Target[c]] # "absent"
    BY <2>1, <2>3 DEF CommandsInv, Absences
  <2>. QED  BY <2>1, <2>2, <2>3, <2>4, InPlace DEF CommandsInv
<1>. QED  BY <1>1, <1>2, Zenon DEF FailedDeletionRestores

LEMMA AgreesWhenIdle == CommandsInv => IndexAgrees
BY DEF CommandsInv, Agreement, Clean, Agrees, IndexAgrees, Commanding

LEMMA Invariance == ~LateBuilds /\ ~ManyCommands => (Spec => []CommandsInv)
<1>. SUFFICES ASSUME ~LateBuilds, ~ManyCommands PROVE Spec => []CommandsInv
  OBVIOUS
<1>1. Init => CommandsInv
  BY InitCommandsInv
<1>2. CommandsInv /\ [Next]_vars => CommandsInv'
  BY CommandsKept
<1>. QED  BY <1>1, <1>2, PTL DEF Spec

(* A deletion that reported success is final, for any parts, kinds of      *)
(* files, commands and builds, any failures and crashes.  (delete_part.)   *)
THEOREM DeletionIsFinal == ~LateBuilds /\ ~ManyCommands => (Spec => []DeletedStaysDeleted)
<1>1. CommandsInv => DeletedStaysDeleted
  BY DEF CommandsInv
<1>. QED  BY <1>1, Invariance, PTL

(* A deletion that failed and undid its moves left part, manifest and      *)
(* index as they were, at whichever step it failed.  (The two nested       *)
(* rollbacks of delete_part.)                                              *)
THEOREM FailedDeletionIsUndone == ~LateBuilds /\ ~ManyCommands => (Spec => []FailedDeletionRestores)
BY RestoredWhenRaised, Invariance, PTL

(* Between commands the index is the one of the manifest, unless a command *)
(* was lost in a crash or could not restore.  (_transact, sync_project.)   *)
THEOREM IndexIsOfTheManifest == ~LateBuilds /\ ~ManyCommands => (Spec => []IndexAgrees)
BY AgreesWhenIdle, Invariance, PTL

(* The hashes of the index are those of the files, for every part that no  *)
(* publication and no deletion has left half done.  (publish_part_build,   *)
(* and the hashes that sync_project reads.)                                *)
THEOREM IndexIsOfTheFiles == ~LateBuilds /\ ~ManyCommands => (Spec => []IndexIsFresh)
BY FreshWhenSettled, Invariance, PTL

(* Every change of the index advances its revision.  (sync_project's       *)
(* previous revision, and the increments of the other writers.)            *)
THEOREM EveryChangeIsARevision == ~LateBuilds /\ ~ManyCommands => (Spec => RevisionAdvances)
<1>. SUFFICES ASSUME ~LateBuilds, ~ManyCommands PROVE Spec => RevisionAdvances
  OBVIOUS
<1>1. Spec => []CommandsInv
  BY Invariance
<1>2. CommandsInv /\ [Next]_vars => [index' # index => index'.revision > index.revision]_vars
  <2>1. CommandsInv => index.revision \in Nat
    BY DEF CommandsInv, FilesInv, RegistryTypes, IndexRecord
  <2>. QED  BY <2>1, CommandsKept
<1>. QED  BY <1>1, <1>2, PTL DEF Spec, RevisionAdvances
=============================================================================
