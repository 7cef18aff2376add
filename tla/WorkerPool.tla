----------------------------- MODULE WorkerPool -----------------------------
(***************************************************************************)
(* The persistent CAD processes of a project: every runtime process has a  *)
(* CadWorkerPool of numbered workers, each with at most one spawned child  *)
(* process behind a pipe, and takes a project-local file lock on a slot    *)
(* before it lets the worker of that number work.                          *)
(*                                                                         *)
(* A call is one CadWorkerPool.run, made by some thread of its home        *)
(* process.  A step is one block under the pool's condition, one turn of   *)
(* run()'s polling loop, or one step of a child.  Plans, shapes and        *)
(* results are left out: an answer is the call it answers.                 *)
(***************************************************************************)
EXTENDS Naturals, Sequences, FiniteSets

CONSTANTS
  Proc,          \* the runtime processes, each with a pool of its own
  Slot,          \* the worker indices, a set of numbers
  Call,          \* the calls of run()
  Home,          \* Home[c]: the process that makes call c
  Priority,      \* Priority[c]: its priority, 0 the most urgent
  Prepares,      \* the calls with a source revision (operation prepare_part)
  Revision,      \* the revisions of the project's source, a set of numbers
  RecycleAfter,  \* cad.recycle_after_tasks
  CanUndo,       \* whether an edit may bring an earlier revision back
  MaxFaults,     \* bound on cancellations, edits, closes and crashes together
  NoProc, NoCall, NoRevision

ASSUME CallAssumption ==
  /\ Home \in [Call -> Proc] /\ Priority \in [Call -> Nat]
  /\ Prepares \subseteq Call /\ IsFiniteSet(Call)
ASSUME NumberAssumption ==
  /\ Slot \subseteq Nat /\ Revision \subseteq Nat /\ Revision # {}
  /\ RecycleAfter \in Nat \ {0} /\ CanUndo \in BOOLEAN /\ MaxFaults \in Nat
ASSUME NoneAssumption ==
  NoProc \notin Proc /\ NoCall \notin Call /\ NoRevision \notin Revision

VARIABLES
  at, outcome,   \* at[c], outcome[c]: where call c is and how it ended
  asked,         \* asked[c]: the revision that run() was called with
  since,         \* since[c]: the revisions current since then (history)
  answer,        \* answer[c]: the call whose result c returned
  ticket,        \* ticket[c]: its sequence number in its pool
  waiting,       \* waiting[p]: the calls whose tickets are in _waiting
  worker,        \* worker[p][s]: the _Worker's fields that are not the child
  child,         \* child[p][s]: its process, and what that is doing
  pipe,          \* pipe[p][s]: messages from the child, oldest first
  slotLock,      \* slotLock[s]: the process that holds the file lock of s
  cancelled,     \* the calls whose context asks them to stop
  closed, dead,  \* the processes whose pool is closed, that have crashed
  source,        \* the revision of the project's source
  faults         \* how often the environment interfered, up to MaxFaults

calls == <<at, outcome, asked, since, answer, ticket, cancelled>>
workers == <<worker, child, pipe>>
runtime == <<closed, dead, source, faults>>
vars == <<calls, waiting, workers, slotLock, runtime>>

\* worker.process is None exactly in state "none"; it is not alive in "exited".
ChildState == {"none", "idle", "asked", "working", "exited"}
NoChild == [state |-> "none", call |-> NoCall, loaded |-> NoRevision, told |-> FALSE]
NewWorker == [holder |-> NoCall, label |-> NoRevision, tasks |-> 0]

Init ==
  /\ at = [c \in Call |-> "new"]
  /\ outcome = [c \in Call |-> "none"]
  /\ asked = [c \in Call |-> NoRevision]
  /\ since = [c \in Call |-> {}]
  /\ answer = [c \in Call |-> NoCall]
  /\ ticket = [c \in Call |-> 0]
  /\ waiting = [p \in Proc |-> {}]
  /\ worker = [p \in Proc |-> [s \in Slot |-> NewWorker]]
  /\ child = [p \in Proc |-> [s \in Slot |-> NoChild]]
  /\ pipe = [p \in Proc |-> [s \in Slot |-> <<>>]]
  /\ slotLock = [s \in Slot |-> NoProc]
  /\ cancelled = {} /\ closed = {} /\ dead = {} /\ faults = 0
  /\ source \in {r \in Revision : \A q \in Revision : r <= q}

-----------------------------------------------------------------------------
(* CadWorkerPool.run, up to the request that is sent.                      *)

Goto(c, there) == at' = [at EXCEPT ![c] = there]

\* The caller computes the revision of the source, then takes a ticket.
Enter(c) ==
  /\ at[c] = "new" /\ Home[c] \notin dead
  /\ Goto(c, "waiting")
  /\ ticket' = [ticket EXCEPT ![c] = Cardinality({d \in Call : at[d] # "new"}) + 1]
  /\ waiting' = [waiting EXCEPT ![Home[c]] = @ \cup {c}]
  /\ asked' = [asked EXCEPT ![c] = IF c \in Prepares THEN source ELSE NoRevision]
  /\ since' = [since EXCEPT ![c] = {source}]
  /\ UNCHANGED <<outcome, answer, cancelled, workers, slotLock, runtime>>

IsFirst(c) ==
  \A d \in waiting[Home[c]] \ {c} :
    \/ Priority[c] < Priority[d]
    \/ Priority[c] = Priority[d] /\ ticket[c] < ticket[d]

\* Mutant: a worker that is not busy is taken without its slot's file lock.
Free_Unlocked(p, s) == worker[p][s].holder = NoCall

Free(p, s) == worker[p][s].holder = NoCall /\ slotLock[s] = NoProc

\* The scan over the workers takes the first one that is free.
Claim(c) ==
  /\ at[c] = "waiting" /\ Home[c] \notin closed
  /\ IsFirst(c)
  /\ \E s \in Slot :
       /\ Free(Home[c], s)
       /\ \A k \in Slot : k < s => ~Free(Home[c], k)
       /\ worker' = [worker EXCEPT ![Home[c]][s].holder = c]
       /\ slotLock' = [slotLock EXCEPT ![s] = Home[c]]
  /\ waiting' = [waiting EXCEPT ![Home[c]] = @ \ {c}]
  /\ Goto(c, "claimed")
  /\ UNCHANGED <<outcome, asked, since, answer, ticket, cancelled, child, pipe,
                 runtime>>

\* Mutant: a waiting call that gives up leaves its ticket behind.
GiveUp_KeepsTicket(c) ==
  /\ at[c] = "waiting"
  /\ \/ c \in cancelled /\ outcome' = [outcome EXCEPT ![c] = "cancelled"]
     \/ Home[c] \in closed /\ outcome' = [outcome EXCEPT ![c] = "failed"]
  /\ Goto(c, "done")
  /\ UNCHANGED <<asked, since, answer, ticket, cancelled, waiting, workers, slotLock,
                 runtime>>

\* A checkpoint that raises, or a pool that was closed.
GiveUp(c) ==
  /\ at[c] = "waiting"
  /\ \/ c \in cancelled /\ outcome' = [outcome EXCEPT ![c] = "cancelled"]
     \/ Home[c] \in closed /\ outcome' = [outcome EXCEPT ![c] = "failed"]
  /\ waiting' = [waiting EXCEPT ![Home[c]] = @ \ {c}]
  /\ Goto(c, "done")
  /\ UNCHANGED <<asked, since, answer, ticket, cancelled, workers, slotLock,
                 runtime>>

\* _Worker.stop: the child is gone, with its pipe, label and task count.
Stop(p, s) ==
  /\ child' = [child EXCEPT ![p][s] = NoChild]
  /\ pipe' = [pipe EXCEPT ![p][s] = <<>>]
  /\ worker' = [worker EXCEPT ![p][s].label = NoRevision, ![p][s].tasks = 0]

\* Mutant: a warm worker is used again whatever revision it was labelled with.
MustReplace_NeverStale(c, s) ==
  LET p == Home[c] IN
    \/ child[p][s].state \in {"none", "exited"}
    \/ worker[p][s].tasks >= RecycleAfter

\* A child that is gone, has done its tasks, or is labelled otherwise.
MustReplace(c, s) ==
  LET p == Home[c] IN
    \/ child[p][s].state \in {"none", "exited"}
    \/ worker[p][s].tasks >= RecycleAfter
    \/ asked[c] # NoRevision /\ worker[p][s].label \notin {NoRevision, asked[c]}

\* Stop and spawn where that must be, label the worker, send the request.
Send(c) ==
  /\ at[c] = "claimed"
  /\ \E s \in Slot :
       LET p == Home[c]
           old == IF MustReplace(c, s) THEN NoChild ELSE child[p][s]
           was == IF MustReplace(c, s) THEN NewWorker ELSE worker[p][s] IN
         /\ worker[p][s].holder = c
         /\ child' = [child EXCEPT ![p][s] =
                        [old EXCEPT !.state = "asked", !.call = c, !.told = FALSE]]
         /\ pipe' = IF MustReplace(c, s) THEN [pipe EXCEPT ![p][s] = <<>>] ELSE pipe
         /\ worker' = [worker EXCEPT ![p][s] =
                         [holder |-> c, tasks |-> was.tasks,
                          label |-> IF asked[c] # NoRevision THEN asked[c] ELSE was.label]]
  /\ Goto(c, "running")
  /\ UNCHANGED <<outcome, asked, since, answer, ticket, cancelled, waiting, slotLock,
                 runtime>>

-----------------------------------------------------------------------------
(* The polling loop and the way out.                                       *)

\* One message from the child: a report, the result, or an error.
Receive(c) ==
  /\ at[c] = "running"
  /\ \E s \in Slot :
       LET p == Home[c] IN
         /\ worker[p][s].holder = c /\ pipe[p][s] # <<>>
         /\ LET message == Head(pipe[p][s]) IN
              \/ /\ message.kind = "report"
                 /\ pipe' = [pipe EXCEPT ![p][s] = Tail(@)]
                 /\ UNCHANGED <<at, outcome, answer, worker, child>>
              \/ /\ message.kind = "result"
                 /\ pipe' = [pipe EXCEPT ![p][s] = Tail(@)]
                 /\ worker' = [worker EXCEPT ![p][s].tasks = @ + 1]
                 /\ answer' = [answer EXCEPT ![c] = message.call]
                 /\ outcome' = [outcome EXCEPT ![c] = "result"]
                 /\ Goto(c, "releasing")
                 /\ UNCHANGED child
              \/ /\ message.kind = "error"
                 /\ Stop(p, s)
                 /\ outcome' = [outcome EXCEPT ![c] = "failed"]
                 /\ Goto(c, "releasing")
                 /\ UNCHANGED answer
  /\ UNCHANGED <<asked, since, ticket, cancelled, waiting, slotLock, runtime>>

\* Mutant: a call that is cancelled or fails leaves its child running.
Abandon_KeepsChild(c) ==
  /\ \/ /\ at[c] = "running" /\ c \in cancelled
        /\ outcome' = [outcome EXCEPT ![c] = "cancelled"]
     \/ /\ at[c] \in {"claimed", "running"}
        /\ outcome' = [outcome EXCEPT ![c] = "failed"]
  /\ Goto(c, "releasing")
  /\ UNCHANGED <<asked, since, answer, ticket, cancelled, waiting, workers, slotLock,
                 runtime>>

\* A checkpoint or report that raises; or a child that cannot be spawned, was
\* found dead, or is over its time or memory budget.  The child is discarded.
Abandon(c) ==
  /\ \/ /\ at[c] = "running" /\ c \in cancelled
        /\ outcome' = [outcome EXCEPT ![c] = "cancelled"]
     \/ /\ at[c] \in {"claimed", "running"}
        /\ outcome' = [outcome EXCEPT ![c] = "failed"]
  /\ \E s \in Slot : worker[Home[c]][s].holder = c /\ Stop(Home[c], s)
  /\ Goto(c, "releasing")
  /\ UNCHANGED <<asked, since, answer, ticket, cancelled, waiting, slotLock,
                 runtime>>

\* Mutant: the worker of a pool that was closed meanwhile is kept.
Release_KeepsWhenClosed(c) ==
  /\ at[c] = "releasing"
  /\ \E s \in Slot :
       /\ worker[Home[c]][s].holder = c
       /\ slotLock' = [slotLock EXCEPT ![s] = NoProc]
       /\ worker' = [worker EXCEPT ![Home[c]][s].holder = NoCall]
  /\ Goto(c, "done")
  /\ UNCHANGED <<outcome, asked, since, answer, ticket, cancelled, waiting, child, pipe,
                 runtime>>

\* The finally block of a call that had a worker.
Release(c) ==
  /\ at[c] = "releasing"
  /\ \E s \in Slot :
       LET p == Home[c] IN
         /\ worker[p][s].holder = c
         /\ slotLock' = [slotLock EXCEPT ![s] = NoProc]
         /\ worker' = [worker EXCEPT ![p][s] =
                         IF p \in closed THEN NewWorker ELSE [@ EXCEPT !.holder = NoCall]]
         /\ IF p \in closed
            THEN /\ child' = [child EXCEPT ![p][s] = NoChild]
                 /\ pipe' = [pipe EXCEPT ![p][s] = <<>>]
            ELSE UNCHANGED <<child, pipe>>
  /\ Goto(c, "done")
  /\ UNCHANGED <<outcome, asked, since, answer, ticket, cancelled, waiting, runtime>>

\* What the environment does counts towards the bound.
Interfere == faults < MaxFaults /\ faults' = faults + 1

\* close(): the workers that are not busy are stopped at once.
Close(p) ==
  /\ p \notin closed \cup dead
  /\ closed' = closed \cup {p}
  /\ LET idle == {s \in Slot : worker[p][s].holder = NoCall} IN
       /\ worker' = [worker EXCEPT ![p] = [s \in Slot |-> IF s \in idle THEN NewWorker ELSE @[s]]]
       /\ child' = [child EXCEPT ![p] = [s \in Slot |-> IF s \in idle THEN NoChild ELSE @[s]]]
       /\ pipe' = [pipe EXCEPT ![p] = [s \in Slot |-> IF s \in idle THEN <<>> ELSE @[s]]]
  /\ Interfere
  /\ UNCHANGED <<calls, waiting, slotLock, dead, source>>

-----------------------------------------------------------------------------
(* The child process: _serve.                                              *)

ChildOnly == UNCHANGED <<calls, waiting, worker, slotLock, closed, dead, source>>
InOrder == UNCHANGED faults

Say(p, s, kind) ==
  pipe' = [pipe EXCEPT ![p][s] = Append(@, [kind |-> kind, call |-> child[p][s].call])]

\* The request is received; the first build of a child imports the source.
ChildBegin(p, s) ==
  /\ child[p][s].state = "asked"
  /\ child' = [child EXCEPT ![p][s].state = "working",
                 ![p][s].loaded = IF @ = NoRevision /\ child[p][s].call \in Prepares
                                  THEN source ELSE @]
  /\ UNCHANGED pipe
  /\ InOrder /\ ChildOnly

\* A build reports its phases; one report stands for them.
ChildReport(p, s) ==
  /\ child[p][s].state = "working" /\ ~child[p][s].told
  /\ child[p][s].call \in Prepares
  /\ child' = [child EXCEPT ![p][s].told = TRUE]
  /\ Say(p, s, "report")
  /\ InOrder /\ ChildOnly

\* A child that raised exits; so does one whose parent is no longer there.
ChildAnswer(p, s) ==
  /\ child[p][s].state = "working"
  /\ \E kind \in {"result", "error"} :
       /\ Say(p, s, kind)
       /\ child' = [child EXCEPT ![p][s].state =
                      IF kind = "error" \/ p \in dead THEN "exited" ELSE "idle"]
  /\ InOrder /\ ChildOnly

\* A native crash or the kernel, at any point; or the end of the parent.
ChildExit(p, s) ==
  /\ child[p][s].state \in {"idle", "asked", "working"}
  /\ child' = [child EXCEPT ![p][s].state = "exited"]
  /\ UNCHANGED pipe
  /\ Interfere /\ ChildOnly

-----------------------------------------------------------------------------
(* The environment: cancellations, edits of the source, a crash.           *)

Cancel(c) ==
  /\ at[c] \in {"waiting", "claimed", "running"} /\ c \notin cancelled
  /\ cancelled' = cancelled \cup {c}
  /\ Interfere
  /\ UNCHANGED <<at, outcome, asked, since, answer, ticket, waiting, workers, slotLock,
                 closed, dead, source>>

Edit ==
  /\ source' \in Revision \ {source}
  /\ source' > source \/ CanUndo
  /\ since' = [c \in Call |-> IF at[c] = "new" THEN {} ELSE since[c] \cup {source'}]
  /\ Interfere
  /\ UNCHANGED <<at, outcome, asked, answer, ticket, cancelled, waiting, workers,
                 slotLock, closed, dead>>

\* A runtime crashes: its calls and file locks are gone, a busy child works on.
Die(p) ==
  /\ p \notin dead
  /\ dead' = dead \cup {p}
  /\ at' = [c \in Call |-> IF Home[c] = p /\ at[c] # "done" THEN "lost" ELSE at[c]]
  /\ waiting' = [waiting EXCEPT ![p] = {}]
  /\ slotLock' = [s \in Slot |-> IF slotLock[s] = p THEN NoProc ELSE slotLock[s]]
  /\ UNCHANGED <<outcome, asked, since, answer, ticket, cancelled, workers, closed, source>>
  /\ Interfere

-----------------------------------------------------------------------------
CallStep(c) ==
  Claim(c) \/ GiveUp(c) \/ Send(c) \/ Receive(c) \/ Abandon(c) \/ Release(c)

ChildStep(p, s) ==
  ChildBegin(p, s) \/ ChildReport(p, s) \/ ChildAnswer(p, s) \/ ChildExit(p, s)

Next ==
  \/ \E c \in Call : Enter(c) \/ CallStep(c) \/ Cancel(c)
  \/ \E p \in Proc : Close(p) \/ Die(p)
  \/ \E p \in Proc, s \in Slot : ChildStep(p, s)
  \/ Edit

Spec == Init /\ [][Next]_vars

\* run() polls: while it waits every 50 ms, while it runs until the result is
\* there or the time budget is spent.  Nothing obliges a child to answer.
Fairness == \A c \in Call : WF_vars(CallStep(c))

FairSpec == Spec /\ Fairness

-----------------------------------------------------------------------------
(* Properties.                                                             *)

Live == Proc \ dead
Working(p, s) == child[p][s].state \in {"asked", "working"}

(* A call that returns a result returns its own, never one that an earlier *)
(* call of the same worker left in the pipe.  (run() against _serve.)      *)
AnswerIsOwn == \A c \in Call : outcome[c] = "result" => answer[c] = c

(* The slots are shared by the runtimes of a project: no two living ones   *)
(* have children at work under the same slot number at once.  (The flock   *)
(* on .flow/worker-slots.)                                                 *)
SlotIsExclusive ==
  \A p, q \in Live, s \in Slot : Working(p, s) /\ Working(q, s) => p = q

(* A closed pool leaves no process behind: once its last call is over, no  *)
(* worker of it has a child, however close() and the calls overlapped.     *)
ClosedPoolIsEmpty ==
  \A p \in Live \cap closed, s \in Slot :
    worker[p][s].holder = NoCall => child[p][s].state = "none"

(* A build never runs on source older than it was asked for: the child at  *)
(* work on it imported a revision that was current at some time since the  *)
(* caller computed the revision.  (The labels that invalidate warm         *)
(* workers, against edits at any moment.)                                  *)
NoStaleSource ==
  \A p \in Proc, s \in Slot :
    child[p][s].state = "working" /\ child[p][s].call \in Prepares =>
      child[p][s].loaded \in since[child[p][s].call]

(* Every call that takes a ticket ends, unless its runtime crashes: neither *)
(* the priority order, nor a cancelled call ahead of it, nor a worker that *)
(* fails under another runtime blocks it for ever.                         *)
CallsEnd == \A c \in Call : at[c] = "waiting" ~> at[c] \in {"done", "lost"}
=============================================================================
