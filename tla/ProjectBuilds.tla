---------------------------- MODULE ProjectBuilds ----------------------------
(***************************************************************************)
(* The build of a project with a strict manifest: planned from the         *)
(* manifest, submitted as one job, and carried out part by part, several   *)
(* at a time; its report and its bundle; and a build of one part beside    *)
(* it.  The files and the index rows of one part, which are replaced in    *)
(* several steps, are the matter of PartRegistry.                          *)
(***************************************************************************)
EXTENDS Integers, Sequences, FiniteSets

CONSTANTS CadWorkers   \* how many parts of a build are under way at once

VARIABLES
  manifest,            \* which of the manifests it is
  exported,            \* exported[path]: missing, older than a source, or who wrote it
  partLock,            \* partLock[p]: who builds the part
  order,               \* the plan of the project build
  jobState,            \* where its job is
  left,                \* the parts that are not submitted to the executor yet
  task,                \* task[b]: the step of a part's build, and of the build beside
  beside,              \* the part and the exports of the build beside
  results,             \* results[i]: the part that the ith task built
  stopped, buildCancelled,  \* a part failed; the job was cancelled
  buildReport, bundle, \* project-build-latest.json and exports.tar.gz
  shown                \* what the command, or a client of the job, was told

Key == {"a", "b", "c"}
Building == Key \cup {"beside"}
running == <<order, jobState, left, results, stopped>>
tasks == <<task, partLock, beside>>
outputs == <<buildReport, bundle>>

-----------------------------------------------------------------------------
(* Plans.                                                                  *)

ArtifactSpec(kind, path) == [kind |-> kind, path |-> path, folder |-> "exports", suffix |-> kind]
ManifestPart(key) ==
  [key |-> key, aliases |-> {<<key, "old">>}, status |-> "active", package |-> "project",
   artifacts |-> <<ArtifactSpec("step", <<key, "step">>), ArtifactSpec("stl", <<key, "stl">>)>>]

\* Manifests: good ones, and ones with one mistake in their second part.
Good == <<ManifestPart("a"), ManifestPart("b"), ManifestPart("c")>>
Manifests == {"good", "mixed", "retired", "foreign", "shared", "onePath", "twoSteps", "noStep",
              "outside", "suffix"}
parts ==
  CASE manifest = "good" -> Good
    [] manifest = "mixed" -> [Good EXCEPT ![2].status = "reference", ![3].status = "retired"]
    [] manifest = "retired" ->
         [Good EXCEPT ![1].status = "retired", ![2].status = "retired", ![3].status = "retired"]
    [] manifest = "foreign" -> [Good EXCEPT ![2].package = "elsewhere"]
    [] manifest = "shared" -> [Good EXCEPT ![2].artifacts[1].path = <<"c", "step">>]
    [] manifest = "onePath" -> [Good EXCEPT ![2].artifacts[2].path = <<"b", "step">>]
    [] manifest = "twoSteps" -> [Good EXCEPT ![2].artifacts[2].kind = "step"]
    [] manifest = "noStep" -> [Good EXCEPT ![2].artifacts = <<ArtifactSpec("stl", <<"b", "stl">>)>>]
    [] manifest = "outside" -> [Good EXCEPT ![2].artifacts[1].folder = "src"]
    [] manifest = "suffix" -> [Good EXCEPT ![2].artifacts[1].suffix = "stl"]

Parts == {parts[i] : i \in DOMAIN parts}
PartOf(key) == CHOOSE p \in Parts : p.key = key
Made(p) == {p.artifacts[i] : i \in DOMAIN p.artifacts}
Paths == UNION {{s.path : s \in Made(p)} : p \in Parts}

\* The part with this key or alias, if there is one.
_resolve_part(name) == {p \in Parts : name \in {<<p.key>>} \cup p.aliases}

\* One STEP export, and the STL export if it is wanted and there is one.
_selected_artifacts(p, stl) ==
  {s \in Made(p) : s.kind = "step" \/ (stl /\ s.kind = "stl")}
_kinds_are_unique(p) == \A s, t \in Made(p) : s.kind = t.kind => s = t
_validate_output_ownership(p, selected) ==
  /\ \A q, r \in Parts : \A s \in Made(q), t \in Made(r) : s.path = t.path => q = r
  /\ \A s \in selected, t \in Made(p) : s.path = t.path => s.kind = t.kind
_artifact_target(s) == s.folder = "exports" /\ s.suffix = s.kind
_validate_project_symbol(p) == p.package = "project"

plan_scoped_part_build(p, stl) ==
  LET selected == _selected_artifacts(p, stl)
  IN /\ p.status \in {"active", "reference", "inspection"}
     /\ _validate_project_symbol(p)
     /\ _kinds_are_unique(p) /\ \E s \in selected : s.kind = "step"
     /\ _validate_output_ownership(p, selected)
     /\ \A s \in selected : _artifact_target(s)
Targets(p, stl) == {s.path : s \in _selected_artifacts(p, stl)}

\* A missing export, or a source that is newer than one.
_part_requires_rebuild(p) ==
  \E s \in Made(p) : exported[s.path] \in {"none", "stale"}

\* What a client asks for, all of it or nothing beside the parts.
Requests ==
  {[mode |-> m, all |-> all] : m \in {"default", "changed", "assembly-preview", "handoff"},
                               all \in BOOLEAN}
\* In the order of the manifest, the parts of it that are in a set.
Only(wanted) ==
  LET place(i) == IF parts[i] \in wanted THEN <<parts[i]>> ELSE <<>>
  IN place(1) \o place(2) \o place(3)
ActiveParts == {p \in Parts : p.status = "active"}
active == Only(ActiveParts)
Selected(mode) ==
  IF mode = "assembly-preview" THEN <<>>
  ELSE IF mode = "changed" THEN Only({p \in ActiveParts : _part_requires_rebuild(p)}) ELSE active

Refused(p, all) == active = <<>> \/ \E i \in DOMAIN p : ~plan_scoped_part_build(p[i], all)

-----------------------------------------------------------------------------
NoOrder == [parts |-> <<>>, stl |-> FALSE, report |-> FALSE, bundle |-> FALSE]
NoReport == <<"none">>
NoBundle == {"none"}
NoBeside == [key |-> "none", stl |-> FALSE]

Init ==
  /\ manifest \in Manifests
  /\ \E before \in {"none", "old"} :
       exported = [p \in Paths |-> IF before = "old" /\ p \in Targets(parts[1], FALSE)
                                   THEN "stale" ELSE before]
  /\ partLock = [k \in Key |-> "free"]
  /\ order = NoOrder /\ jobState = "none" /\ left = <<>> /\ results = <<>>
  /\ task = [b \in Building |-> "idle"] /\ beside = NoBeside
  /\ stopped = FALSE /\ buildCancelled = FALSE
  /\ buildReport = NoReport /\ bundle = NoBundle
  /\ shown = "nothing"

Active == jobState \in {"parts", "leaving", "report", "bundle", "publish"}
Idle(b) == task[b] = "idle"
At(b, step) == task[b] = step
Goes(b, step) == task' = [task EXCEPT ![b] = step] /\ UNCHANGED <<partLock, beside>>
Built(b) == IF b = "beside" THEN beside.key ELSE b
Under == {k \in Key : task[k] \notin {"idle", "built", "failed", "cancelled"}}
Window == {k \in Key : ~Idle(k)}
GoesTo(state) == jobState' = state /\ UNCHANGED <<order, left, results, stopped>>

\* A plan that is refused leaves nothing.  The first parts go to the executor.
count(n) == IF n < CadWorkers THEN n ELSE CadWorkers
submit_project(r) ==
  LET p == Selected(r.mode)
      n == count(Len(p))
      key == [i \in DOMAIN p |-> p[i].key]
      all == r.all \/ r.mode = "handoff"
  IN IF Refused(p, all)
     THEN /\ jobState' = "refused" /\ shown' = "refused"
          /\ UNCHANGED <<order, left, results, stopped, tasks>>
     ELSE /\ order' = [parts |-> key, stl |-> all, report |-> all, bundle |-> all]
          /\ jobState' = IF p = <<>> THEN "report" ELSE "parts"
          /\ left' = SubSeq(key, n + 1, Len(p))
          /\ task' = [b \in Building |-> IF b \in {key[i] : i \in 1 .. n} THEN "lock" ELSE task[b]]
          /\ results' = [i \in DOMAIN p |-> "none"]
          /\ UNCHANGED <<stopped, partLock, beside, shown>>
ProjectBuild ==
  /\ jobState = "none"
  /\ \E r \in Requests : submit_project(r)
  /\ UNCHANGED <<manifest, exported, buildCancelled, outputs>>

\* A build of one part, by its key or an alias it had.
submit_part(name) ==
  \E p \in _resolve_part(name) :
    /\ plan_scoped_part_build(p, FALSE)
    /\ beside' = [key |-> p.key, stl |-> FALSE]
    /\ task' = [task EXCEPT !["beside"] = "lock"] /\ UNCHANGED partLock
PartBuild ==
  /\ Idle("beside") /\ beside = NoBeside
  /\ \E name \in {<<"b">>, <<"b", "old">>} : submit_part(name)
  /\ UNCHANGED <<manifest, exported, running, buildCancelled, outputs, shown>>

Cancel ==
  /\ Active /\ ~buildCancelled /\ buildCancelled' = TRUE
  /\ UNCHANGED <<manifest, exported, running, tasks, outputs, shown>>

-----------------------------------------------------------------------------
(* One part.  The build beside has a job, and a cancellation, of its own.  *)

Stopped(b) == b # "beside" /\ (stopped \/ buildCancelled)
Others == <<manifest, running, buildCancelled, outputs, shown>>

\* A checkpoint raises once the build is stopped, and so does a report.
Ends(b, end) ==
  /\ task' = [task EXCEPT ![b] = IF b = "beside" THEN "idle" ELSE end]
  /\ partLock' = [k \in Key |-> IF partLock[k] = b THEN "free" ELSE partLock[k]]
  /\ UNCHANGED beside
checkpoint(b) ==
  /\ task[b] \in {"lock", "prepare"} /\ Stopped(b)
  /\ Ends(b, "cancelled") /\ UNCHANGED <<Others, exported>>

_part_build_lock(b) ==
  /\ At(b, "lock") /\ ~Stopped(b) /\ partLock[Built(b)] = "free"
  /\ task' = [task EXCEPT ![b] = "prepare"] /\ partLock' = [partLock EXCEPT ![Built(b)] = b]
  /\ UNCHANGED <<Others, exported, beside>>

\* The last checkpoint comes before the files are replaced.
prepare(b) ==
  /\ At(b, "prepare") /\ ~Stopped(b)
  /\ Goes(b, "publish") \/ Ends(b, "failed")
  /\ UNCHANGED <<Others, exported>>

\* The report after the replacement raises too, and changes nothing of it.
publish(b) ==
  LET stl == IF b = "beside" THEN beside.stl ELSE order.stl
      written == Targets(PartOf(Built(b)), stl)
  IN /\ At(b, "publish")
     /\ exported' = [path \in Paths |-> IF path \in written THEN Built(b) ELSE exported[path]]
     /\ Ends(b, "failed") \/ Ends(b, IF Stopped(b) THEN "cancelled" ELSE "built")
     /\ UNCHANGED Others

-----------------------------------------------------------------------------
(* The job.                                                                *)

\* Of the tasks that are done one is looked at: its part takes its place in
\* the results, and the next one is submitted.
Collect ==
  /\ jobState = "parts"
  /\ \E k \in Window \ Under :
       IF At(k, "built")
       THEN /\ results' = [i \in DOMAIN results |-> IF order.parts[i] = k THEN k ELSE results[i]]
            /\ left' = IF left = <<>> THEN left ELSE Tail(left)
            /\ task' = [b \in Building |-> IF b = k THEN "idle"
                                          ELSE IF left # <<>> /\ b = Head(left) THEN "lock" ELSE task[b]]
            /\ jobState' = IF Window = {k} /\ left = <<>> THEN "report" ELSE "parts"
            /\ UNCHANGED stopped
       ELSE /\ jobState' = "leaving" /\ stopped' = TRUE
            /\ UNCHANGED <<results, left, task>>
  /\ UNCHANGED <<manifest, exported, order, partLock, beside, buildCancelled, outputs, shown>>

\* The loop looks for a cancellation itself.
Interrupt ==
  /\ jobState = "parts" /\ buildCancelled
  /\ jobState' = "leaving" /\ stopped' = TRUE
  /\ UNCHANGED <<manifest, exported, order, left, results, tasks, buildCancelled, outputs, shown>>

Leave_Unwaited ==
  /\ jobState = "leaving"
  /\ GoesTo(IF buildCancelled THEN "cancelled" ELSE "failed")
  /\ UNCHANGED <<manifest, exported, tasks, buildCancelled, outputs, shown>>

\* The executor is left when its threads are done.
Leave ==
  /\ jobState = "leaving" /\ Under = {}
  /\ GoesTo(IF buildCancelled THEN "cancelled" ELSE "failed")
  /\ UNCHANGED <<manifest, exported, tasks, buildCancelled, outputs, shown>>

\* The report and the bundle each begin with a look for a cancellation.
Unless(next) == GoesTo(IF buildCancelled THEN "cancelled" ELSE next)

_write_json_atomic(payload) == buildReport' = payload
Report ==
  /\ jobState = "report"
  /\ Unless("bundle")
  /\ _write_json_atomic(IF order.report /\ ~buildCancelled THEN results ELSE buildReport)
  /\ UNCHANGED <<manifest, exported, tasks, buildCancelled, bundle, shown>>

active_paths == UNION {Targets(PartOf(results[i]), order.stl) : i \in DOMAIN results}

should_include(path) == path \in active_paths

\* Without an exports directory there is no bundle.
create_bundle ==
  /\ jobState = "bundle"
  /\ LET missing == \A path \in Paths : exported[path] = "none"
     IN IF order.bundle /\ ~buildCancelled /\ missing
        THEN GoesTo("failed") /\ UNCHANGED bundle
        ELSE /\ Unless("publish")
             /\ bundle' = IF order.bundle /\ ~buildCancelled
                          THEN {path \in Paths : exported[path] # "none" /\ should_include(path)}
                          ELSE bundle
  /\ UNCHANGED <<manifest, exported, tasks, buildCancelled, buildReport, shown>>

Publish ==
  /\ jobState = "publish" /\ Unless("succeeded")
  /\ UNCHANGED <<manifest, exported, tasks, buildCancelled, outputs, shown>>

Terminal == {"succeeded", "failed", "cancelled"}
Shows ==
  /\ jobState \in Terminal /\ shown = "nothing" /\ shown' = jobState
  /\ UNCHANGED <<manifest, exported, running, tasks, buildCancelled, outputs>>

\* The runtime stops: its locks are given up, and nothing else is left of it.
Crash ==
  /\ Active /\ jobState' = "interrupted"
  /\ task' = [b \in Building |-> IF b = "beside" THEN task[b] ELSE "idle"]
  /\ partLock' = [k \in Key |-> IF partLock[k] = "beside" THEN "beside" ELSE "free"]
  /\ order' = NoOrder /\ left' = <<>> /\ results' = <<>>
  /\ stopped' = FALSE /\ buildCancelled' = FALSE
  /\ UNCHANGED <<manifest, exported, beside, outputs, shown>>

Next ==
  \/ ProjectBuild \/ PartBuild \/ Cancel \/ Collect \/ Interrupt \/ Leave
  \/ Report \/ create_bundle \/ Publish \/ Shows \/ Crash
  \/ \E b \in Building : checkpoint(b) \/ _part_build_lock(b) \/ prepare(b) \/ publish(b)

vars == <<manifest, exported, running, tasks, buildCancelled, outputs, shown>>
Spec == Init /\ [][Next]_vars

-----------------------------------------------------------------------------
\* Once the job of a project build has ended none of its parts is under way,
\* whichever part failed and whenever it was cancelled.  One that succeeded has
\* built every part of its plan; its report names them in order, and its bundle
\* has all their exports.  A build writes only to exports of its own part, and
\* two builds of one part never publish at once.
BuildEndsWithItsParts ==
  /\ jobState \in Terminal => Under = {}
  /\ Cardinality(Under) <= CadWorkers
  /\ jobState = "succeeded" =>
       /\ results = order.parts
       /\ order.report => buildReport = order.parts
       /\ order.bundle => bundle = active_paths
  /\ \A p \in Parts : \A s \in Made(p) : exported[s.path] \in {"none", "old", "stale", p.key}
  /\ \A b, c \in Building : At(b, "publish") /\ At(c, "publish") /\ Built(b) = Built(c) => b = c
=============================================================================
