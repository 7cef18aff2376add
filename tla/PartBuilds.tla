----------------------------- MODULE PartBuilds ------------------------------
(***************************************************************************)
(* "flow cad build" on a project without a strict manifest, and what is    *)
(* then taken for current: the exports and the cache rows that --changed   *)
(* keeps, the cached facts a validator is told, and the display mesh and   *)
(* the snap features of the viewer.  Nothing is locked; every decision     *)
(* compares modification times and one snapshot of the parameters.         *)
(*                                                                         *)
(* One part stands for every other: no decision about a part looks at      *)
(* another one.  A build and a request of the viewer are scripts of steps. *)
(* Times are kept as what was written since: a file is older than another  *)
(* one when that one is in its "since".                                    *)
(***************************************************************************)
EXTENDS Integers, Sequences

CONSTANT MaxSpent      \* bounds how many builds, edits and looks there are

VARIABLES
  params,              \* the project's parameters
  stepExport, stlExport,   \* the exports
  metadata, cacheRow,  \* of the cached build: parameters and time, and the part's facts
  meshFile, meshData,  \* the cached display mesh, and the STEP file it names
  snapFile,            \* the cached snap features, in one file with that name
  program, carried,    \* of each actor: steps left, and what it holds
  told,                \* the last thing that was taken for current
  spent                \* builds, edits and looks so far

Actor == {"build", "viewer"}
Zone == {"west", "utc", "east"}
exports == <<stepExport, stlExport>>
cache == <<metadata, cacheRow>>
display == <<meshFile, meshData, snapFile>>

\* A file: whether it is of the present source (of), or made of or naming the
\* present STEP file (step); of which parameters; and what was written since.
\* exact is FALSE where the code cannot see that an edit, a replacement or a
\* kill came in between.
NoFile == [of |-> FALSE, step |-> FALSE, with |-> 0, exact |-> TRUE, since |-> {"no file"}]
NotTold == [kind |-> "nothing", file |-> NoFile, beside |-> NoFile, with |-> 0, zone |-> "utc"]
Older(file, other) == other \in file.since

Init ==
  /\ params = 1
  /\ stepExport = NoFile /\ stlExport = NoFile
  /\ metadata = NoFile /\ cacheRow = NoFile
  /\ meshFile = NoFile /\ meshData = NoFile /\ snapFile = NoFile
  /\ program = [a \in Actor |-> <<>>] /\ carried = [a \in Actor |-> NoFile]
  /\ told = NotTold /\ spent = 0

-----------------------------------------------------------------------------
(* The scripts.                                                            *)

model_path == <<"mesh", "read", "convert", "describe">>
snap_features == <<"snap", "read", "extract">>
_run_project_validators == <<"facts">>
_refresh_viewer_cache == model_path \o snap_features

\* A mode and the options that matter to it.  With --snapshots-only and no cache
\* a build does what a look at the part does.
Modes ==
  {[mode |-> m, stl |-> s, cache |-> FALSE, only |-> FALSE] :
     m \in {"part", "changed"}, s \in BOOLEAN}
  \cup {[mode |-> "default", stl |-> s, cache |-> c, only |-> FALSE] : s, c \in BOOLEAN}
  \cup {[mode |-> "default", stl |-> FALSE, cache |-> TRUE, only |-> TRUE],
        [mode |-> "handoff", stl |-> TRUE, cache |-> TRUE, only |-> FALSE],
        [mode |-> "assembly-preview", stl |-> TRUE, cache |-> FALSE, only |-> FALSE],
        [mode |-> "another profile", stl |-> TRUE, cache |-> TRUE, only |-> FALSE]}

Full == {"default", "handoff", "another profile"}
If(condition, steps) == IF condition THEN steps ELSE <<>>

\* The part belongs to the profile that is built.
definition_matches_profile(o) == o.mode # "another profile"
exporter(o) == If(~o.only, <<"step">> \o If(o.stl, <<"stl">>))
active_cache(o) == IF definition_matches_profile(o) THEN <<"cache">> ELSE <<"forget">>
build(o) ==
  If(o.mode \in Full /\ ~o.only, <<"clear">>)
    \o If(o.mode = "changed", IF o.stl THEN <<"decide both">> ELSE <<"decide step">>)
    \o If(definition_matches_profile(o), exporter(o))
    \o If(o.cache, active_cache(o))
    \o If(o.mode = "handoff", _run_project_validators)
    \o If(o.mode \in {"default", "handoff", "assembly-preview"}, _refresh_viewer_cache)

-----------------------------------------------------------------------------
Idle(a) == program[a] = <<>>
Takes(a, step) == ~Idle(a) /\ Head(program[a]) = step
Becomes(a, steps, held) ==
  /\ program' = [program EXCEPT ![a] = steps]
  /\ carried' = [carried EXCEPT ![a] = IF steps = <<>> THEN NoFile ELSE held]
Goes(a) == Becomes(a, Tail(program[a]), carried[a])
GoesWith(a, held) == Becomes(a, Tail(program[a]), held)
Spends == spent < MaxSpent /\ spent' = spent + 1
Ends(a) == Becomes(a, <<>>, NoFile)
Skips(a, n) == Becomes(a, SubSeq(program[a], n + 1, Len(program[a])), carried[a])
Tells(kind, file, beside, with, zone) ==
  told' = [kind |-> kind, file |-> file, beside |-> beside, with |-> with, zone |-> zone]

\* The files after the source was edited, or the STEP file written.
Edited(file) ==
  IF file = NoFile THEN file ELSE [file EXCEPT !.of = FALSE, !.since = @ \cup {"factory"}]
Replaced(file) ==
  IF file = NoFile THEN file ELSE [file EXCEPT !.step = FALSE, !.since = @ \cup {"step"}]

\* The process of a build loads the sources and parameters when it starts.
\* Builds are run one after the other.
Build ==
  /\ Idle("build") /\ Spends
  /\ \E o \in Modes :
       Becomes("build", build(o), [NoFile EXCEPT !.of = TRUE, !.with = params, !.since = {}])
  /\ told' = NotTold
  /\ UNCHANGED <<params, exports, cache, display>>

Look ==
  /\ Idle("viewer") /\ Spends
  /\ \E steps \in {<<"facts">>, model_path, snap_features} :
       Becomes("viewer", steps, [NoFile EXCEPT !.with = params, !.since = {}])
  /\ told' = NotTold
  /\ UNCHANGED <<params, exports, cache, display>>

\* The user edits the source, or gives the parameters the other values.
Change ==
  /\ Spends
  /\ \/ /\ stepExport' = Edited(stepExport) /\ stlExport' = Edited(stlExport)
        /\ metadata' = Edited(metadata) /\ cacheRow' = Edited(cacheRow)
        /\ carried' = [carried EXCEPT !["build"].of = FALSE]
        /\ UNCHANGED params
     \/ params' = 3 - params /\ UNCHANGED <<exports, cache, carried>>
  /\ told' = NotTold
  /\ UNCHANGED <<display, program>>

-----------------------------------------------------------------------------
(* Exports and the active cache.                                           *)

clear ==
  /\ Takes("build", "clear") /\ Goes("build")
  /\ stepExport' = NoFile /\ stlExport' = NoFile
  /\ told' = NotTold /\ UNCHANGED <<params, cache, display, spent>>

\* What this build made of its shape, were it written now.
Torn == [NoFile EXCEPT !.exact = FALSE, !.since = {}]
Made ==
  IF carried["build"].of THEN [NoFile EXCEPT !.of = TRUE, !.with = carried["build"].with, !.since = {}]
  ELSE Torn

WriteStep(file) ==
  /\ stepExport' = file /\ stlExport' = Replaced(stlExport)
  /\ meshFile' = Replaced(meshFile) /\ meshData' = Replaced(meshData)
  /\ snapFile' = Replaced(snapFile)

export_step ==
  /\ Takes("build", "step") /\ WriteStep(Made)
  /\ program' = [program EXCEPT !["build"] = Tail(@)]
  /\ carried' = [carried EXCEPT !["viewer"].step = FALSE]
  /\ told' = NotTold /\ UNCHANGED <<params, cache, spent>>

export_stl ==
  /\ Takes("build", "stl") /\ Goes("build")
  /\ stlExport' = Made
  /\ told' = NotTold /\ UNCHANGED <<params, stepExport, cache, display, spent>>

\* One transaction: the build's parameters and time, and rows for its parts
\* in place of all rows there were.
write_active_cache ==
  /\ \/ Takes("build", "cache") /\ cacheRow' = Made
     \/ Takes("build", "forget") /\ cacheRow' = NoFile
  /\ Goes("build") /\ metadata' = [Made EXCEPT !.with = carried["build"].with]
  /\ told' = NotTold /\ UNCHANGED <<params, exports, display, spent>>

\* A failing factory or check, or a kill: in the middle of an export it leaves
\* a part of the file, with the time of the failure.  Before its first write a
\* build leaves nothing.
Stop ==
  /\ ~Idle("build") /\ Head(program["build"]) \notin {"clear", "decide both", "decide step"}
  /\ program' = [program EXCEPT !["build"] = <<>>]
  /\ \/ /\ carried' = [carried EXCEPT !["build"] = NoFile]
        /\ UNCHANGED <<exports, display>>
     \/ /\ Takes("build", "step") /\ WriteStep(Torn)
        /\ carried' = [carried EXCEPT !["build"] = NoFile, !["viewer"].step = FALSE]
     \/ /\ Takes("build", "stl") /\ stlExport' = Torn
        /\ carried' = [carried EXCEPT !["build"] = NoFile]
        /\ UNCHANGED <<stepExport, display>>
  /\ told' = NotTold /\ UNCHANGED <<params, cache, spent>>

-----------------------------------------------------------------------------
(* What --changed keeps.                                                   *)

\* The time of the cached build is kept in UTC without its zone and read back
\* as local time of the process, hours away from the times of the files.
_definition_changed_since(zone) ==
  CASE zone = "west" -> FALSE
    [] zone = "utc" -> Older(metadata, "factory")
    [] zone = "east" -> TRUE

_params_changed_since == metadata.with # carried["build"].with

_artifact_cache_reason_TimesOfTheCache(artifact, zone) ==
  /\ cacheRow # NoFile /\ metadata # NoFile
  /\ artifact # NoFile /\ ~Older(artifact, "step")
  /\ ~_params_changed_since /\ ~_definition_changed_since(zone)

\* TRUE for a cache_hit.
_artifact_cache_reason(artifact, zone) ==
  /\ cacheRow # NoFile /\ metadata # NoFile
  /\ artifact # NoFile /\ ~Older(artifact, "step")
  /\ ~_params_changed_since /\ ~_definition_changed_since(zone)
  /\ ~Older(artifact, "factory")

\* With both: the STL file is stale when the STEP file is newer.
_changed_definition_needs_rebuild(effective_stl, zone) ==
  ~ /\ _artifact_cache_reason(stepExport, zone)
    /\ effective_stl => _artifact_cache_reason(stlExport, zone)

decide ==
  /\ Takes("build", "decide both") \/ Takes("build", "decide step")
  /\ \E zone \in Zone :
       LET effective_stl == Takes("build", "decide both")
       IN IF _changed_definition_needs_rebuild(effective_stl, zone)
          THEN Goes("build") /\ told' = NotTold
          ELSE /\ Ends("build")
               /\ Tells("kept", stepExport, IF effective_stl THEN stlExport ELSE stepExport,
                        carried["build"].with, zone)
  /\ UNCHANGED <<params, exports, cache, display, spent>>

-----------------------------------------------------------------------------
(* What validators and the viewer are told.                                *)

_cache_freshness_issues(a, zone) ==
  \/ stepExport = NoFile
  \/ _definition_changed_since(zone)
  \/ metadata # NoFile /\ metadata.with # carried[a].with

active_cache_row(a) ==
  /\ Takes(a, "facts") /\ Goes(a)
  /\ \E zone \in Zone :
       IF cacheRow # NoFile /\ ~_cache_freshness_issues(a, zone)
       THEN Tells("facts", cacheRow, cacheRow, carried[a].with, zone)
       ELSE told' = NotTold
  /\ UNCHANGED <<params, exports, cache, display, spent>>

\* A part without a STEP file has its STL file shown, and no features.
NoStep(a) ==
  /\ \/ Takes(a, "mesh") /\ Skips(a, 4)
     \/ Takes(a, "snap") /\ Skips(a, 3)
  /\ stepExport = NoFile /\ told' = NotTold
  /\ UNCHANGED <<params, exports, cache, display, spent>>

_display_cache_is_fresh(a) ==
  /\ Takes(a, "mesh") /\ stepExport # NoFile
  /\ IF meshFile # NoFile /\ ~Older(meshFile, "step") /\ meshData.step
     THEN Skips(a, 4) /\ Tells("shown", [meshFile EXCEPT !.exact = @ /\ meshData.exact],
                               NoFile, 0, "utc")
     ELSE Goes(a) /\ told' = NotTold
  /\ UNCHANGED <<params, exports, cache, display, spent>>

cache_metadata_matches(a) ==
  /\ Takes(a, "snap") /\ stepExport # NoFile
  /\ IF snapFile.step
     THEN Skips(a, 3) /\ Tells("shown", snapFile, NoFile, 0, "utc")
     ELSE Goes(a) /\ told' = NotTold
  /\ UNCHANGED <<params, exports, cache, display, spent>>

\* A file that a build cleared is an error.
import_step(a) ==
  /\ Takes(a, "read")
  /\ IF stepExport = NoFile THEN Ends(a) ELSE GoesWith(a, [carried[a] EXCEPT !.step = TRUE])
  /\ told' = NotTold /\ UNCHANGED <<params, exports, cache, display, spent>>

\* Of the STEP file that was read.
Converted(a, step) ==
  [NoFile EXCEPT !.step = step, !.exact = carried[a].step, !.since = {}]

convert_step_to_stl(a) ==
  /\ Takes(a, "convert") /\ Goes(a)
  /\ meshFile' = Converted(a, carried[a].step)
  /\ told' = NotTold /\ UNCHANGED <<params, exports, cache, meshData, snapFile, spent>>

\* Names the STEP file that is at the path by now.
display_mesh_cache_metadata(a) ==
  /\ Takes(a, "describe")
  /\ IF stepExport = NoFile THEN Ends(a) /\ UNCHANGED meshData
     ELSE Goes(a) /\ meshData' = Converted(a, TRUE)
  /\ told' = NotTold /\ UNCHANGED <<params, exports, cache, meshFile, snapFile, spent>>

extract_step_snap_features(a) ==
  /\ Takes(a, "extract")
  /\ IF stepExport = NoFile THEN Ends(a) /\ UNCHANGED snapFile
     ELSE Goes(a) /\ snapFile' = Converted(a, TRUE)
  /\ told' = NotTold /\ UNCHANGED <<params, exports, cache, meshFile, meshData, spent>>

-----------------------------------------------------------------------------
Next ==
  \/ Build \/ Look \/ Change \/ Stop
  \/ clear \/ export_step \/ export_stl \/ write_active_cache \/ decide
  \/ \E a \in Actor :
       \/ active_cache_row(a) \/ NoStep(a)
       \/ _display_cache_is_fresh(a) \/ cache_metadata_matches(a) \/ import_step(a)
       \/ convert_step_to_stl(a) \/ display_mesh_cache_metadata(a)
       \/ extract_step_snap_features(a)

vars == <<params, exports, cache, display, program, carried, told, spent>>
Spec == Init /\ [][Next]_vars

-----------------------------------------------------------------------------
\* What is taken for current is: exports that --changed keeps are of the
\* part's present source, the STL file of the same build as the STEP file;
\* facts told without an issue are of the present source and parameters; a
\* cached mesh or feature file is of the STEP file at the path.  Files whose
\* making was raced by an edit or cut short, which no time tells, are apart,
\* and so are facts where local time runs behind UTC.
CurrentIsCurrent ==
  /\ told.kind = "kept" /\ told.file.exact /\ told.beside.exact =>
       /\ told.file.of /\ told.beside.of
       /\ told.beside.with = told.file.with
  /\ told.kind = "facts" /\ told.file.exact /\ told.zone # "west" =>
       told.file.of /\ told.file.with = told.with
  /\ told.kind = "shown" /\ told.file.exact => told.file.step

\* docs/PERFORMANCE.md: --changed uses the current parameter snapshot as a
\* rebuild input.  What it keeps was made with the parameters it was run with.
KeptHasItsParameters ==
  told.kind = "kept" /\ told.file.exact => told.file.with = told.with
=============================================================================
