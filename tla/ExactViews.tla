----------------------------- MODULE ExactViews ------------------------------
(***************************************************************************)
(* What the workbench answers about one part from the STEP file at its     *)
(* path: exact features, the display scene, the model itself, and a        *)
(* portable workspace.  The index says which revision the file has; builds *)
(* replace the file first and the row later.  Features and scenes are kept *)
(* in caches named by revision; what a job reads at the path is checked    *)
(* before and after, and an answer compares the identity of the file with  *)
(* the one that was recorded, or hashes the file again.                    *)
(*                                                                         *)
(* Each request and each job is a script of steps.  A revision stands for  *)
(* the bytes that have it; every replacement gives the file an identity    *)
(* that no other has.                                                      *)
(***************************************************************************)
EXTENDS Integers, Sequences, FiniteSets

CONSTANTS
  Viewer, Worker, Builder,               \* requests, queries and builds that run at a time
  MaxRevision, MaxWrites, MaxTasks       \* bounds

VARIABLES
  artifact,            \* the STEP file: its bytes and identity
  artifactRow,         \* the revision in the index
  features,            \* exact-features/<part>/<revision>.json
  glb, sceneData,      \* display-scenes/<revision>.glb and .json
  verified,            \* _verified of the model service
  script, copy,        \* of each request or job: steps left, and what it holds
  answer,              \* the last answer
  tasks                \* how many requests and queries began

Revision == 1 .. MaxRevision
Actor == Viewer \cup Worker \cup Builder
files == <<artifact, artifactRow>>
caches == <<features, glb, sceneData, verified>>

\* What a cache holds: of which bytes it was made, how large it is, the identity
\* that was recorded, and whether the file was another one between two checks.
Nothing == [asked |-> 0, of |-> 0, size |-> 0, identity |-> 0, moved |-> FALSE]
NoAnswer == [kind |-> "none", asked |-> 0, of |-> 0, there |-> 0, moved |-> FALSE]

Init ==
  /\ artifact = [bytes |-> 1, identity |-> 1] /\ artifactRow = 1
  /\ features = [r \in Revision |-> Nothing]
  /\ glb = [r \in Revision |-> Nothing] /\ sceneData = [r \in Revision |-> Nothing]
  /\ verified = {}
  /\ script = [a \in Actor |-> <<>>] /\ copy = [a \in Actor |-> Nothing]
  /\ answer = NoAnswer /\ tasks = 0

-----------------------------------------------------------------------------
(* The scripts.                                                            *)

lookup_features == <<"read_cache", "features">>
lookup_scene == <<"read_scene", "scene">>
resolve_model == <<"verify_bytes", "model">>
extract_and_cache_Once == <<"verify", "extract", "write_cache">>
extract_and_cache == <<"verify", "extract", "verify", "write_cache">>
publish == <<"bind", "verify", "stat", "replace_glb", "replace_metadata">>
build_scene == <<"cached", "verify", "mesh">> \o publish
run_scoped_part_build == <<"replace_step", "index", "bind">> \o publish
export_workspace == <<"digest", "archive", "workspace">>

-----------------------------------------------------------------------------
Idle(a) == script[a] = <<>>
Takes(a, step) == ~Idle(a) /\ Head(script[a]) = step
Becomes(a, steps, held) ==
  /\ script' = [script EXCEPT ![a] = steps]
  /\ copy' = [copy EXCEPT ![a] = IF steps = <<>> THEN Nothing ELSE held]
  /\ UNCHANGED tasks
GoesWith(a, held) == Becomes(a, Tail(script[a]), held)
Goes(a) == GoesWith(a, copy[a])
\* An error, a miss, a cancellation or the end of the process.
Ends(a) == Becomes(a, <<>>, Nothing)
GoesIf(a, condition, held) ==
  IF condition THEN GoesWith(a, held) ELSE Ends(a)
asked(a) == copy[a].asked

Starts(a, scripts, revisions) ==
  /\ Idle(a) /\ answer' = NoAnswer
  /\ \E s \in scripts, r \in revisions :
       /\ script' = [script EXCEPT ![a] = s]
       /\ copy' = [copy EXCEPT ![a] = [Nothing EXCEPT !.asked = r, !.of = r, !.size = 1]]
  /\ UNCHANGED <<files, caches>>

\* Requests and their jobs are for the revision in the index: resolve_binding
\* and _candidates refuse another at once, and nothing changes.
Asks(a, scripts) ==
  tasks < MaxTasks /\ tasks' = tasks + 1 /\ Starts(a, scripts, {artifactRow})
View(v) == Asks(v, {lookup_features, lookup_scene, resolve_model})
\* Jobs of one revision wait for each other: there is one worker for them.
Query(w) == Asks(w, {extract_and_cache, build_scene, export_workspace})
\* Builds of a part take one lock: there is one builder.
Build(b) ==
  artifact.identity < MaxWrites /\ Starts(b, {run_scoped_part_build}, Revision) /\ UNCHANGED tasks

\* A cancellation or the end of the process.  Before a job wrote anything it
\* leaves nothing, so only those in between two writes are told apart.
Stop(a) ==
  /\ \E step \in {"index", "bind", "replace_metadata"} : Takes(a, step)
  /\ Ends(a) /\ UNCHANGED <<files, caches, answer>>

-----------------------------------------------------------------------------
(* What requests and jobs share.                                           *)

resolve_binding(a) ==
  /\ Takes(a, "bind") /\ GoesIf(a, artifactRow = asked(a), copy[a])
  /\ UNCHANGED <<files, caches, answer>>

\* The file has the bytes of the revision, under this identity.
_verified_artifact(a) ==
  /\ Takes(a, "verify")
  /\ GoesIf(a, artifact.bytes = asked(a),
            [copy[a] EXCEPT !.identity = artifact.identity,
                            !.moved = copy[a].identity \notin {0, artifact.identity}])
  /\ UNCHANGED <<files, caches, answer>>

Answers(a, kind, there) ==
  LET given == IF kind = "scene" THEN glb[asked(a)] ELSE copy[a]
  IN answer' = [kind |-> kind, asked |-> asked(a), of |-> given.of, there |-> there,
                moved |-> given.moved]

\* An identity that differs is only a hint: the bytes decide.
compare(a) ==
  /\ \E kind \in {"features", "scene"} :
       /\ Takes(a, kind)
       /\ IF copy[a].identity = artifact.identity \/ artifact.bytes = asked(a)
          THEN Answers(a, kind, artifact.bytes)
          ELSE UNCHANGED answer
  /\ Ends(a) /\ UNCHANGED <<files, caches>>

-----------------------------------------------------------------------------
(* Exact features.                                                         *)

_read_cache(a) ==
  /\ Takes(a, "read_cache")
  /\ LET entry == features[asked(a)] IN GoesIf(a, entry # Nothing, entry)
  /\ UNCHANGED <<files, caches, answer>>

extract_step_features(a) ==
  /\ Takes(a, "extract") /\ GoesWith(a, [copy[a] EXCEPT !.of = artifact.bytes])
  /\ UNCHANGED <<files, caches, answer>>

_write_cache(a) ==
  /\ Takes(a, "write_cache") /\ Goes(a)
  /\ features' = [features EXCEPT ![asked(a)] =
                    [copy[a] EXCEPT !.size = 0]]
  /\ UNCHANGED <<files, glb, sceneData, verified, answer>>

-----------------------------------------------------------------------------
(* Scenes.  A mesh made of the STEP file and one that a build made of its  *)
(* shape have sizes of their own.                                          *)

read_scene(a) ==
  /\ Takes(a, "read_scene")
  /\ LET r == asked(a)
         entry == [glb[r] EXCEPT !.identity = sceneData[r].identity]
     IN GoesIf(a, sceneData[r] # Nothing /\ glb[r].size = sceneData[r].size, entry)
  /\ UNCHANGED <<files, caches, answer>>

cached(a) ==
  /\ Takes(a, "cached")
  /\ LET r == asked(a)
         hit == /\ sceneData[r] # Nothing /\ glb[r].size = sceneData[r].size
                /\ sceneData[r].identity = artifact.identity \/ artifact.bytes = r
     IN GoesIf(a, ~hit, copy[a])
  /\ UNCHANGED <<files, caches, answer>>

mesh(a) ==
  /\ Takes(a, "mesh") /\ GoesWith(a, [copy[a] EXCEPT !.of = artifact.bytes, !.size = 2])
  /\ UNCHANGED <<files, caches, answer>>

\* The identity that is recorded is read after the verification.
stat(a) ==
  /\ Takes(a, "stat") /\ GoesWith(a, [copy[a] EXCEPT !.identity = artifact.identity])
  /\ UNCHANGED <<files, caches, answer>>

replace_glb(a) ==
  /\ Takes(a, "replace_glb") /\ Goes(a)
  /\ glb' = [glb EXCEPT ![asked(a)] = [copy[a] EXCEPT !.identity = 0]]
  /\ UNCHANGED <<files, features, sceneData, verified, answer>>

replace_metadata(a) ==
  /\ Takes(a, "replace_metadata") /\ Goes(a)
  /\ sceneData' = [sceneData EXCEPT ![asked(a)] =
                     [Nothing EXCEPT !.size = copy[a].size, !.identity = copy[a].identity]]
  /\ UNCHANGED <<files, features, glb, verified, answer>>

-----------------------------------------------------------------------------
(* Models, builds and workspaces.                                          *)

\* An identity that was verified for a revision is not hashed again.
_verify_bytes(a) ==
  /\ Takes(a, "verify_bytes")
  /\ LET known == <<asked(a), artifact.identity>>
         good == known \in verified \/ artifact.bytes = asked(a)
     IN /\ verified' = IF good THEN verified \cup {known} ELSE verified
        /\ GoesIf(a, good, [copy[a] EXCEPT !.identity = artifact.identity])
  /\ UNCHANGED <<files, features, glb, sceneData, answer>>

\* The route opens the path after the verification.
model(a) ==
  /\ Takes(a, "model") /\ Ends(a)
  /\ answer' = [kind |-> "model", asked |-> asked(a), of |-> artifact.bytes,
                there |-> artifact.bytes, moved |-> copy[a].identity # artifact.identity]
  /\ UNCHANGED <<files, caches>>

_publish_all(a) ==
  /\ Takes(a, "replace_step") /\ Goes(a)
  /\ artifact' = [bytes |-> asked(a), identity |-> artifact.identity + 1]
  /\ UNCHANGED <<artifactRow, caches, answer>>

publish_part_build(a) ==
  /\ Takes(a, "index") /\ Goes(a) /\ artifactRow' = asked(a)
  /\ UNCHANGED <<artifact, caches, answer>>

digest(a) ==
  /\ Takes(a, "digest")
  /\ GoesWith(a, [copy[a] EXCEPT !.asked = artifact.bytes, !.identity = artifact.identity])
  /\ UNCHANGED <<files, caches, answer>>

archive(a) ==
  /\ Takes(a, "archive") /\ GoesWith(a, [copy[a] EXCEPT !.of = artifact.bytes])
  /\ UNCHANGED <<files, caches, answer>>

workspace(a) ==
  /\ Takes(a, "workspace")
  /\ IF copy[a].identity = artifact.identity
     THEN Answers(a, "workspace", artifact.bytes) ELSE UNCHANGED answer
  /\ Ends(a) /\ UNCHANGED <<files, caches>>

Next ==
  \/ \E v \in Viewer : View(v) \/ _read_cache(v) \/ read_scene(v) \/ compare(v) \/ _verify_bytes(v)
                         \/ model(v)
  \/ \E w \in Worker : Query(w) \/ extract_step_features(w) \/ _write_cache(w)
                         \/ cached(w) \/ mesh(w) \/ digest(w) \/ archive(w) \/ workspace(w)
  \/ \E b \in Builder : Build(b) \/ _publish_all(b) \/ publish_part_build(b)
  \/ \E a \in Actor : resolve_binding(a) \/ _verified_artifact(a) \/ stat(a) \/ replace_glb(a)
                        \/ replace_metadata(a) \/ Stop(a)

vars == <<files, caches, script, copy, answer, tasks>>
Spec == Init /\ [][Next]_vars

-----------------------------------------------------------------------------
\* Every answer is made of the revision it names, however builds replace the
\* file while jobs read it and requests look, and features and workspaces are
\* given while the file has that revision.  What the code cannot see: the file
\* may go and come back, as another file with the same bytes, between the two
\* checks of a job, whose result is kept under the revision, and a model is
\* opened after the check.
AnswerIsOfItsRevision ==
  /\ answer.of # answer.asked => answer.moved /\ answer.kind # "workspace"
  /\ answer.kind \in {"features", "workspace"} => answer.there = answer.asked
=============================================================================
