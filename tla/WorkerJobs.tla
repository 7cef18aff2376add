------------------------------ MODULE WorkerJobs ------------------------------
(***************************************************************************)
(* The jobs that a design thread gives to a Codex process in the project's *)
(* working tree.  A job has a record and a log of events.  A thread of the *)
(* viewer runs it; the routes that start, read, stream, cancel and commit  *)
(* it run beside, and every one of them reads the record, changes its copy *)
(* and writes it back.  A record that is not terminal and has no running   *)
(* thread in this process is an orphan: whoever reads it fails it.         *)
(*                                                                         *)
(* Each actor, a caller or a job's thread, has a list of steps left, the   *)
(* copy of the record it holds and the job it is about.  Prompts, texts    *)
(* and paths are left out; the working tree is a number, and so is HEAD.   *)
(***************************************************************************)
EXTENDS Integers, Sequences

CONSTANTS
  Caller, WorkerJob,
  MaxCommands, MaxEdits, MaxCrashes   \* bounds

VARIABLES
  jobs,        \* job.json
  events,      \* events.jsonl, by type
  registered,  \* _cancel_events: the jobs with a thread,
  signalled,   \* and the ones whose event is set
  steps, held, aim,
  closed,      \* the last stream that ended: the job, its record and what was sent
  tree, head,  \* the changed files, and the ones committed
  commands, edits, reboots

stored == <<jobs, events>>
control == <<registered, signalled>>
git == <<tree, head>>
bounds == <<commands, edits, reboots>>

Actor == Caller \cup WorkerJob
Terminal == {"succeeded", "failed", "cancelled", "committed"}
NoJob == [status |-> "none", told |-> FALSE, diff |-> 0]
NotClosed == [job |-> "none", status |-> "none", sent |-> 0]
NoAim == CHOOSE j \in WorkerJob : TRUE

Init ==
  /\ jobs = [j \in WorkerJob |-> NoJob] /\ events = [j \in WorkerJob |-> <<>>]
  /\ registered = {} /\ signalled = {}
  /\ steps = [a \in Actor |-> <<>>] /\ held = [a \in Actor |-> NoJob]
  /\ aim = [a \in Actor |-> IF a \in WorkerJob THEN a ELSE NoAim]
  /\ closed = NotClosed
  /\ tree = 0 /\ head = 0
  /\ commands = 0 /\ edits = 0 /\ reboots = 0

-----------------------------------------------------------------------------
(* The steps of the operations.  "get" is get_job, "write" _write_job of   *)
(* the copy held; the rest are named after what they do.                   *)

start_job == <<"queue", "queued", "register", "get">>
cancel_job_Untold == <<"get", "signal", "write", "tell", "cancelled">>
cancel_job == <<"get", "signal", "write", "tell", "write", "cancelled">>
commit_job == <<"get", "compare", "commit", "write", "committed">>
stream_events == <<"get", "get", "look">>

_run_job == <<"get", "begin", "write", "running", "codex">>
\* The final message and event, then the record.
Finish_WrittenFirst == <<"get", "decide", "write", "event", "unregister">>
Finish == <<"get", "decide", "event", "write", "unregister">>
on_codex_event == <<"get", "write", "codex_event", "codex">>
_mark_orphaned_job_failed(r) ==
  <<"write">> \o (IF r.told THEN <<>> ELSE <<"tell", "write">>) \o <<"failed">>

-----------------------------------------------------------------------------
Idle(a) == steps[a] = <<>>
Takes(a, step) == ~Idle(a) /\ Head(steps[a]) = step
\* The first step becomes others, and the copy becomes r.
Becomes(a, script, r) ==
  LET left == script \o Tail(steps[a]) IN
  /\ steps' = [steps EXCEPT ![a] = left]
  /\ held' = [held EXCEPT ![a] = IF left = <<>> THEN NoJob ELSE r]
  /\ UNCHANGED <<aim, bounds>>
GoesWith(a, r) == Becomes(a, <<>>, r)
GoesOn(a, script) == Becomes(a, script, held[a])
Goes(a) == GoesWith(a, held[a])
Ends(a) ==
  /\ steps' = [steps EXCEPT ![a] = <<>>] /\ held' = [held EXCEPT ![a] = NoJob]
  /\ UNCHANGED <<aim, bounds>>
copy(a) == held[a]
job(a) == jobs[aim[a]]

\* Requests.  A job starts once; its identifier is new.  A stream reads as get_job does.
Request(c, j, script) ==
  /\ Idle(c) /\ commands < MaxCommands /\ commands' = commands + 1
  /\ steps' = [steps EXCEPT ![c] = script] /\ aim' = [aim EXCEPT ![c] = j]
  /\ UNCHANGED <<stored, control, held, closed, git, edits, reboots>>

Command(c, j) ==
  \/ jobs[j] = NoJob /\ (\A d \in Caller : Idle(d) \/ aim[d] # j) /\ Request(c, j, start_job)
  \/ /\ jobs[j] # NoJob
     /\ \E script \in {cancel_job, commit_job, stream_events} : Request(c, j, script)

-----------------------------------------------------------------------------
(* Steps that every actor may take.                                        *)

get_job(a) ==
  /\ Takes(a, "get")
  /\ LET r == job(a)
         orphaned == r.status \in {"queued", "running"} /\ aim[a] \notin registered
     IN IF orphaned
        THEN Becomes(a, _mark_orphaned_job_failed(r), [r EXCEPT !.status = "failed"])
        ELSE GoesWith(a, r)
  /\ UNCHANGED <<stored, control, closed, git>>

_write_job(a) ==
  /\ Takes(a, "write") /\ Goes(a)
  /\ jobs' = [jobs EXCEPT ![aim[a]] = copy(a)]
  /\ UNCHANGED <<events, control, closed, git>>

_append_terminal_message(a) ==
  /\ Takes(a, "tell") /\ GoesWith(a, [copy(a) EXCEPT !.told = TRUE])
  /\ UNCHANGED <<stored, control, closed, git>>

_append_event(a) ==
  /\ \E type \in {"queued", "running", "codex_event", "cancelled", "failed", "committed", copy(a).status} :
       /\ Takes(a, type) \/ (type = copy(a).status /\ Takes(a, "event"))
       /\ Goes(a)
       /\ events' = [events EXCEPT ![aim[a]] = Append(@, type)]
  /\ UNCHANGED <<jobs, control, closed, git>>

Queue(c) ==
  /\ Takes(c, "queue") /\ Goes(c)
  /\ jobs' = [jobs EXCEPT ![aim[c]].status = "queued"]
  /\ UNCHANGED <<events, control, closed, git>>

\* Only now does the job have a thread.
Register(c) ==
  /\ Takes(c, "register")
  /\ registered' = registered \cup {aim[c]}
  /\ steps' = [steps EXCEPT ![c] = Tail(@), ![aim[c]] = _run_job]
  /\ UNCHANGED <<stored, signalled, held, aim, bounds, closed, git>>
-----------------------------------------------------------------------------
(* The thread of a job.                                                    *)

\* Only a cancelled job is left alone; it keeps its place in _cancel_events.
Begin(j) ==
  /\ Takes(j, "begin")
  /\ IF copy(j).status = "cancelled" THEN Ends(j) ELSE GoesWith(j, [copy(j) EXCEPT !.status = "running"])
  /\ UNCHANGED <<stored, control, closed, git>>

\* Codex edits files, reports an event, or exits.
Codex(j) ==
  /\ Takes(j, "codex")
  /\ \/ /\ edits < MaxEdits /\ edits' = edits + 1 /\ tree' = tree + 1
        /\ steps' = [steps EXCEPT ![j] = on_codex_event]
        /\ UNCHANGED <<held, aim, commands, reboots, head>>
     \/ GoesOn(j, Finish) /\ UNCHANGED git
  /\ UNCHANGED <<stored, control, closed>>

_git_change_snapshot == IF tree = head THEN 0 ELSE tree

Decide(j) ==
  /\ Takes(j, "decide")
  /\ \E status \in IF j \in signalled \/ copy(j).status = "cancelled" THEN {"cancelled"}
                   ELSE {"succeeded", "failed"} :
       Becomes(j, IF status = "cancelled" /\ copy(j).told THEN <<>> ELSE <<"tell">>,
               [copy(j) EXCEPT !.status = status, !.diff = _git_change_snapshot])
  /\ UNCHANGED <<stored, control, closed, git>>

Unregister(j) ==
  /\ Takes(j, "unregister") /\ Goes(j)
  /\ registered' = registered \ {j}
  /\ UNCHANGED <<stored, signalled, closed, git>>

-----------------------------------------------------------------------------
(* Cancellation, commit and stream.                                        *)

Signal(c) ==
  /\ Takes(c, "signal")
  /\ IF copy(c).status \in Terminal THEN Ends(c) /\ UNCHANGED control
     ELSE /\ GoesWith(c, [copy(c) EXCEPT !.status = "cancelled"])
          /\ signalled' = signalled \cup ({aim[c]} \cap registered)
          /\ UNCHANGED registered
  /\ UNCHANGED <<stored, closed, git>>

Compare(c) ==
  /\ Takes(c, "compare")
  /\ IF /\ copy(c).status = "succeeded" /\ copy(c).diff # 0
        /\ copy(c).diff = _git_change_snapshot
     THEN Goes(c) ELSE Ends(c)
  /\ UNCHANGED <<stored, control, closed, git>>

\* Git refuses to commit nothing.
Commit(c) ==
  /\ Takes(c, "commit")
  /\ IF tree = head THEN Ends(c) /\ UNCHANGED head
     ELSE GoesWith(c, [copy(c) EXCEPT !.status = "committed"]) /\ head' = tree
  /\ UNCHANGED <<stored, control, closed, tree>>

\* A terminal record ends the stream, after another look at the events.
Look(c) ==
  /\ Takes(c, "look")
  /\ IF copy(c).status \in Terminal
     THEN /\ Ends(c)
          /\ closed' = [job |-> aim[c], status |-> copy(c).status, sent |-> Len(events[aim[c]])]
     ELSE GoesOn(c, <<"get", "look">>) /\ UNCHANGED closed
  /\ UNCHANGED <<stored, control, git>>

-----------------------------------------------------------------------------
\* Both take the place of a command.
Edit ==
  /\ edits < MaxEdits /\ edits' = edits + 1 /\ tree' = tree + 1
  /\ commands < MaxCommands /\ commands' = commands + 1
  /\ UNCHANGED <<stored, control, steps, held, aim, closed, head, reboots>>

Reboot ==
  /\ reboots < MaxCrashes /\ reboots' = reboots + 1
  /\ commands < MaxCommands /\ commands' = commands + 1
  /\ registered' = {} /\ signalled' = {} /\ steps' = [a \in Actor |-> <<>>]
  /\ held' = [a \in Actor |-> NoJob]
  /\ UNCHANGED <<stored, aim, closed, git, edits>>

Next ==
  \/ \E c \in Caller, j \in WorkerJob : Command(c, j)
  \/ \E a \in Actor :
       get_job(a) \/ _write_job(a) \/ _append_terminal_message(a) \/ _append_event(a)
  \/ \E c \in Caller :
       Queue(c) \/ Register(c) \/ Signal(c) \/ Compare(c) \/ Commit(c) \/ Look(c)
  \/ \E j \in WorkerJob : Begin(j) \/ Codex(j) \/ Decide(j) \/ Unregister(j)
  \/ Edit \/ Reboot

vars == <<stored, control, steps, held, aim, closed, git, bounds>>
Spec == Init /\ [][Next]_vars

-----------------------------------------------------------------------------
\* "Publish its final message and event first so a concurrent reader cannot
\* miss them": a stream that ends with the job succeeded has sent that event,
\* whatever cancellations, commits and orphan marks ran beside it.
StreamTellsSuccess ==
  closed.status = "succeeded" =>
    \E k \in 1 .. closed.sent : events[closed.job][k] = "succeeded"

\* Once nobody works on a job of this process, its record is terminal, the
\* thread has a message that says so, and the log has the event: the routes
\* and the job's thread overwrite each other's copies, and the last to write
\* leaves a whole record.
SettledIsWhole ==
  \A j \in WorkerJob :
    reboots = 0 /\ jobs[j] # NoJob /\ (\A a \in Actor : aim[a] = j => Idle(a)) =>
      /\ jobs[j].status \in Terminal /\ jobs[j].told
      /\ \E k \in DOMAIN events[j] : events[j][k] = jobs[j].status
=============================================================================
