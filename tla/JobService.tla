----------------------------- MODULE JobService -----------------------------
(***************************************************************************)
(* The runtime processes that run jobs over one project's journal: each    *)
(* constructs a JobService (with a PriorityExecutor of worker threads),    *)
(* takes the project's runtime lock, submits, cancels and runs jobs, and   *)
(* ends by an orderly shutdown or by a crash.                              *)
(*                                                                         *)
(* A step is one database transaction, one block under the service's lock  *)
(* or one operation of the executor's queue, which are each atomic in the  *)
(* code; everything between two such steps is interleaved.  A process of   *)
(* this model is one incarnation: a restart is the next element of Proc.   *)
(***************************************************************************)
EXTENDS JobStore, SequencesExt

CONSTANTS
  Proc,         \* incarnations of the runtime process
  Thread,       \* the worker threads of each process's executor
  Priority,     \* Priority[j]: the priority j is submitted with, 0 first
  NoJob, NoProc

ASSUME PriorityAssumption == Priority \in [Job -> Nat]
ASSUME NullAssumption == NoJob \notin Job /\ NoProc \notin Proc
\* The constructor refuses a max_concurrency below 1.
ASSUME ThreadAssumption == IsFiniteSet(Thread) /\ Thread # {}

VARIABLES
  stage,        \* stage[p]: construction, service and shutdown of p
  lock,         \* lock[p]: how p holds jobs.runtime.lock
  owner,        \* owner[j]: the process whose submit created j (history)
  submitting,   \* submitting[p]: the job of a submit between its two steps
  active,       \* active[p]: the keys of JobService._active
  signalled,    \* jobs whose in-memory cancel_event is set
  queue,        \* queue[p]: tasks in the executor's queue, oldest first
  pending,      \* jobs whose Future is still PENDING
  sentinels,    \* sentinels[p]: stop markers in the executor's queue
  pc, task,     \* pc[p][t], task[p][t]: where worker thread t is, on which job
  cancelling,   \* <<p, caller, j>>: cancel() of j past its transaction
  mode,         \* mode[p]: the arguments of __init__() and shutdown()
  todo,         \* todo[p]: active_ids that shutdown() has still to cancel
  runs          \* runs[j]: how often the work of j was entered (history)

process == <<stage, lock, owner, submitting, mode, todo, cancelling>>
executor == <<active, signalled, queue, pending, sentinels, pc, task, runs>>
vars == <<journal, process, executor>>

Caller == {"client", "shutdown"}
Constructing == {"trylock", "recover", "share"}
ShuttingDown == {"cancel", "drain", "get", "seal", "join", "release"}
Stage == {"unborn", "up", "closed", "raised", "dead"} \cup Constructing
         \cup ShuttingDown
\* The threads exist from the end of construction until the process dies.
HasThreads == {"up", "closed", "raised"} \cup ShuttingDown
ThreadPC == {"idle", "start", "check", "work", "report", "finish", "succeed",
             "cancel", "fail", "pop", "exited"}

NoMode == [recover |-> FALSE, wait |-> FALSE, cancel |-> FALSE]

Init ==
  /\ JournalInit
  /\ stage = [p \in Proc |-> "unborn"]
  /\ lock = [p \in Proc |-> "none"]
  /\ owner = [j \in Job |-> NoProc]
  /\ submitting = [p \in Proc |-> NoJob]
  /\ active = [p \in Proc |-> {}]
  /\ signalled = {}
  /\ queue = [p \in Proc |-> <<>>]
  /\ pending = {}
  /\ sentinels = [p \in Proc |-> 0]
  /\ pc = [p \in Proc |-> [t \in Thread |-> "idle"]]
  /\ task = [p \in Proc |-> [t \in Thread |-> NoJob]]
  /\ cancelling = {}
  /\ mode = [p \in Proc |-> NoMode]
  /\ todo = [p \in Proc |-> {}]
  /\ runs = [j \in Job |-> 0]

-----------------------------------------------------------------------------
(* Construction: JobService.__init__ and _acquire_runtime_lock.            *)

Goto(p, s) == stage' = [stage EXCEPT ![p] = s]
SetLock(p, l) == lock' = [lock EXCEPT ![p] = l]
NobodyElse(p, modes) == \A q \in Proc \ {p} : lock[q] \notin modes

Open(p, recover) ==
  /\ stage[p] = "unborn"
  /\ Goto(p, IF recover THEN "trylock" ELSE "share")
  /\ mode' = [mode EXCEPT ![p].recover = recover]
  /\ UNCHANGED <<journal, lock, owner, submitting, todo, cancelling, executor>>

\* Mutant: recovery under a shared lock, which other runtimes may hold too.
TryExclusive_Shared(p) ==
  /\ stage[p] = "trylock"
  /\ NobodyElse(p, {"ex"})
  /\ SetLock(p, "ex")
  /\ Goto(p, "recover")
  /\ UNCHANGED <<journal, owner, submitting, mode, todo, cancelling, executor>>

\* LOCK_EX | LOCK_NB: a runtime that holds the lock in any mode refuses it.
TryExclusive(p) ==
  /\ stage[p] = "trylock"
  /\ \/ /\ NobodyElse(p, {"sh", "ex"})
        /\ SetLock(p, "ex")
        /\ Goto(p, "recover")
     \/ /\ ~NobodyElse(p, {"sh", "ex"})
        /\ Goto(p, "share")
        /\ UNCHANGED lock
  /\ UNCHANGED <<journal, owner, submitting, mode, todo, cancelling, executor>>

\* fail_interrupted, then the conversion of the lock to LOCK_SH, which gives
\* the exclusive lock up before it waits for the shared one.
Recover(p) ==
  /\ stage[p] = "recover"
  /\ FailInterrupted
  /\ SetLock(p, "none")
  /\ Goto(p, "share")
  /\ UNCHANGED <<owner, submitting, mode, todo, cancelling, executor>>

Share(p) ==
  /\ stage[p] = "share"
  /\ NobodyElse(p, {"ex"})
  /\ SetLock(p, "sh")
  /\ Goto(p, "up")
  /\ mode' = [mode EXCEPT ![p] = NoMode]
  /\ UNCHANGED <<journal, owner, submitting, todo, cancelling, executor>>

-----------------------------------------------------------------------------
(* submit() and cancel().  submit holds the service's lock over its two    *)
(* transactions; whoever else needs that lock waits for LockFree.          *)

LockFree(p) == submitting[p] = NoJob

\* A repeated request_id returns the existing record and changes nothing.
SubmitCreate(p, j) ==
  /\ stage[p] = "up" /\ LockFree(p)
  /\ Create(j)
  /\ submitting' = [submitting EXCEPT ![p] = j]
  /\ owner' = [owner EXCEPT ![j] = p]
  /\ UNCHANGED <<stage, lock, mode, todo, cancelling, executor>>

SubmitDispatch(p) ==
  /\ stage[p] = "up" /\ ~LockFree(p)
  /\ LET j == submitting[p] IN
       /\ active' = [active EXCEPT ![p] = @ \cup {j}]
       /\ queue' = [queue EXCEPT ![p] = Append(@, j)]
       /\ pending' = pending \cup {j}
  /\ submitting' = [submitting EXCEPT ![p] = NoJob]
  /\ UNCHANGED <<journal, stage, lock, owner, mode, todo, cancelling,
                 signalled, sentinels, pc, task, runs>>

\* The first half of cancel(): any live process may cancel any durable job.
CancelRequest(p, caller, j) ==
  /\ RequestCancel(j)
  /\ cancelling' = cancelling \cup {<<p, caller, j>>}
  /\ UNCHANGED <<stage, lock, owner, submitting, mode, executor>>

Cancel(p, j) ==
  /\ stage[p] \in HasThreads
  /\ CancelRequest(p, "client", j)
  /\ UNCHANGED todo

\* Mutant: cancel() leaves the cancelled Future's entry in _active.
CancelSignal_KeepsEntry(p, caller, j) ==
  /\ <<p, caller, j>> \in cancelling /\ LockFree(p)
  /\ cancelling' = cancelling \ {<<p, caller, j>>}
  /\ signalled' = IF j \in active[p] THEN signalled \cup {j} ELSE signalled
  /\ pending' = pending \ {j}
  /\ UNCHANGED <<journal, stage, lock, owner, submitting, mode, todo, active,
                 queue, sentinels, pc, task, runs>>

\* The second half, under the lock: set the event, cancel the Future, and
\* forget the job if the Future had not started.
CancelSignal(p, caller, j) ==
  /\ <<p, caller, j>> \in cancelling /\ LockFree(p)
  /\ cancelling' = cancelling \ {<<p, caller, j>>}
  /\ \/ /\ j \in active[p]
        /\ signalled' = signalled \cup {j}
        /\ pending' = pending \ {j}
        /\ active' = [active EXCEPT ![p] = IF j \in pending THEN @ \ {j} ELSE @]
     \/ /\ j \notin active[p]
        /\ UNCHANGED <<signalled, pending, active>>
  /\ UNCHANGED <<journal, stage, lock, owner, submitting, mode, todo,
                 queue, sentinels, pc, task, runs>>

-----------------------------------------------------------------------------
(* A worker thread: PriorityExecutor._run around JobService._run.          *)

At(p, t, here) == stage[p] \in HasThreads /\ pc[p][t] = here
ThreadGoto(p, t, there) == pc' = [pc EXCEPT ![p][t] = there]
ThreadOnly == UNCHANGED <<process, active, signalled, queue, pending, sentinels, task>>

\* The task the priority queue hands out: lowest priority number, then oldest.
IsNext(p, i) ==
  \A k \in DOMAIN queue[p] \ {i} :
    \/ Priority[queue[p][i]] < Priority[queue[p][k]]
    \/ Priority[queue[p][i]] = Priority[queue[p][k]] /\ i < k

\* get() and set_running_or_notify_cancel(): a cancelled Future is dropped.
Take(p, t) ==
  /\ At(p, t, "idle")
  /\ \E i \in DOMAIN queue[p] :
       /\ IsNext(p, i)
       /\ queue' = [queue EXCEPT ![p] = RemoveAt(@, i)]
       /\ pending' = pending \ {queue[p][i]}
       /\ IF queue[p][i] \in pending
          THEN /\ ThreadGoto(p, t, "start")
               /\ task' = [task EXCEPT ![p][t] = queue[p][i]]
          ELSE UNCHANGED <<pc, task>>
  /\ UNCHANGED <<journal, process, active, signalled, sentinels, runs>>

\* Mutant: stop markers sort before the tasks that are still queued.
TakeSentinel_First(p, t) ==
  /\ At(p, t, "idle")
  /\ sentinels[p] > 0
  /\ sentinels' = [sentinels EXCEPT ![p] = @ - 1]
  /\ ThreadGoto(p, t, "exited")
  /\ UNCHANGED <<journal, process, active, signalled, queue, pending, task, runs>>

\* The stop markers sort after every task.
TakeSentinel(p, t) ==
  /\ At(p, t, "idle")
  /\ queue[p] = <<>> /\ sentinels[p] > 0
  /\ sentinels' = [sentinels EXCEPT ![p] = @ - 1]
  /\ ThreadGoto(p, t, "exited")
  /\ UNCHANGED <<journal, process, active, signalled, queue, pending, task, runs>>

StartTask(p, t) ==
  /\ At(p, t, "start")
  /\ Start(task[p][t])
  /\ ThreadGoto(p, t, IF row'[task[p][t]].state \in Terminal THEN "pop" ELSE "check")
  /\ UNCHANGED runs
  /\ ThreadOnly

\* JobContext.checkpoint: the in-memory event or the durable flag.
StopAsked(j) == j \in signalled \/ row[j].cancel

Checkpoint(p, t) ==
  /\ \/ At(p, t, "check") /\ StopAsked(task[p][t])
        /\ ThreadGoto(p, t, "cancel") /\ UNCHANGED runs
     \/ At(p, t, "check") /\ ~StopAsked(task[p][t])
        /\ ThreadGoto(p, t, "work")
        /\ runs' = [runs EXCEPT ![task[p][t]] = @ + 1]
     \/ At(p, t, "finish")
        /\ ThreadGoto(p, t, IF StopAsked(task[p][t]) THEN "cancel" ELSE "succeed")
        /\ UNCHANGED runs
  /\ UNCHANGED journal
  /\ ThreadOnly

\* What the work does next: reach a checkpoint and then report, return, raise.
Work(p, t) ==
  /\ At(p, t, "work")
  /\ \/ /\ StopAsked(task[p][t]) \/ Len(log[task[p][t]]) < MaxEvents
        /\ ThreadGoto(p, t, IF StopAsked(task[p][t]) THEN "cancel" ELSE "report")
     \/ ThreadGoto(p, t, "finish")
     \/ ThreadGoto(p, t, "fail")
  /\ UNCHANGED <<journal, runs>>
  /\ ThreadOnly

\* store.report: a refused transition is a cancellation if one was asked for
\* by now, and an error of the job otherwise; so is progress that goes back.
ReportTask(p, t) ==
  /\ At(p, t, "report")
  /\ LET j == task[p][t] IN
       \/ /\ \E progress \in 0 .. MaxProgress : Report(j, progress)
          /\ ThreadGoto(p, t, "work")
       \/ /\ ~CanReport(j)
          /\ ThreadGoto(p, t, IF StopAsked(j) THEN "cancel" ELSE "fail")
          /\ UNCHANGED journal
       \/ /\ CanReport(j)
          /\ row[j].progress > 0
          /\ ThreadGoto(p, t, "fail")
          /\ UNCHANGED journal
  /\ UNCHANGED runs
  /\ ThreadOnly

\* The last transaction of _run, by the way the work ended.
EndTask(p, t) ==
  /\ \/ At(p, t, "succeed") /\ Succeed(task[p][t])
     \/ At(p, t, "cancel") /\ CompleteCancelled(task[p][t])
     \/ At(p, t, "fail") /\ Fail(task[p][t])
  /\ ThreadGoto(p, t, "pop")
  /\ UNCHANGED runs
  /\ ThreadOnly

PopTask(p, t) ==
  /\ At(p, t, "pop") /\ LockFree(p)
  /\ active' = [active EXCEPT ![p] = @ \ {task[p][t]}]
  /\ task' = [task EXCEPT ![p][t] = NoJob]
  /\ ThreadGoto(p, t, "idle")
  /\ UNCHANGED <<journal, process, signalled, queue, pending, sentinels, runs>>

ThreadStep(p, t) ==
  \/ Take(p, t) \/ TakeSentinel(p, t) \/ StartTask(p, t) \/ Checkpoint(p, t)
  \/ Work(p, t) \/ ReportTask(p, t) \/ EndTask(p, t) \/ PopTask(p, t)

-----------------------------------------------------------------------------
(* shutdown(wait, cancel_pending) and PriorityExecutor.shutdown.           *)

Shutdown(p, wait, cancel) ==
  /\ stage[p] = "up" /\ LockFree(p)
  /\ mode' = [mode EXCEPT ![p].wait = wait, ![p].cancel = cancel]
  /\ todo' = [todo EXCEPT ![p] = IF cancel THEN active[p] ELSE {}]
  /\ Goto(p, "cancel")
  /\ UNCHANGED <<journal, lock, owner, submitting, cancelling, executor>>

\* One at a time: the next cancel() starts when the previous one returned.
InShutdownCancel(p) == \E j \in Job : <<p, "shutdown", j>> \in cancelling

ShutdownCancel(p, j) ==
  /\ stage[p] = "cancel" /\ j \in todo[p] /\ ~InShutdownCancel(p)
  /\ todo' = [todo EXCEPT ![p] = @ \ {j}]
  /\ CancelRequest(p, "shutdown", j)

\* Mutant: the queue is drained although pending work was to be run.
ShutdownCancelled_AlwaysDrains(p) ==
  /\ stage[p] = "cancel" /\ todo[p] = {} /\ ~InShutdownCancel(p)
  /\ Goto(p, "drain")
  /\ UNCHANGED <<journal, lock, owner, submitting, mode, todo, cancelling, executor>>

ShutdownCancelled(p) ==
  /\ stage[p] = "cancel" /\ todo[p] = {} /\ ~InShutdownCancel(p)
  /\ Goto(p, IF mode[p].cancel THEN "drain" ELSE "seal")
  /\ UNCHANGED <<journal, lock, owner, submitting, mode, todo, cancelling, executor>>

\* The drain loop asks empty() and then calls get_nowait(); a worker thread
\* that takes the last task in between makes get_nowait raise queue.Empty,
\* which escapes from shutdown().
DrainTest(p) ==
  /\ stage[p] = "drain"
  /\ Goto(p, IF queue[p] = <<>> THEN "seal" ELSE "get")
  /\ UNCHANGED <<journal, lock, owner, submitting, mode, todo, cancelling, executor>>

DrainGet(p) ==
  /\ stage[p] = "get"
  /\ \/ /\ queue[p] = <<>>
        /\ Goto(p, "raised")
        /\ UNCHANGED <<queue, pending>>
     \/ \E i \in DOMAIN queue[p] :
          /\ IsNext(p, i)
          /\ queue' = [queue EXCEPT ![p] = RemoveAt(@, i)]
          /\ pending' = pending \ {queue[p][i]}
          /\ Goto(p, "drain")
  /\ UNCHANGED <<journal, lock, owner, submitting, mode, todo, cancelling,
                 active, signalled, sentinels, pc, task, runs>>

\* Mutant: one stop marker for all the threads.
Seal_OneMarker(p) ==
  /\ stage[p] = "seal"
  /\ sentinels' = [sentinels EXCEPT ![p] = 1]
  /\ Goto(p, IF mode[p].wait THEN "join" ELSE "release")
  /\ UNCHANGED <<journal, lock, owner, submitting, mode, todo, cancelling,
                 active, signalled, queue, pending, pc, task, runs>>

Seal(p) ==
  /\ stage[p] = "seal"
  /\ sentinels' = [sentinels EXCEPT ![p] = Cardinality(Thread)]
  /\ Goto(p, IF mode[p].wait THEN "join" ELSE "release")
  /\ UNCHANGED <<journal, lock, owner, submitting, mode, todo, cancelling,
                 active, signalled, queue, pending, pc, task, runs>>

Join(p) ==
  /\ stage[p] = "join"
  /\ \A t \in Thread : pc[p][t] = "exited"
  /\ Goto(p, "release")
  /\ UNCHANGED <<journal, lock, owner, submitting, mode, todo, cancelling, executor>>

\* Without wait the lock is given up while worker threads may still run.
Release(p) ==
  /\ stage[p] = "release"
  /\ SetLock(p, "none")
  /\ Goto(p, "closed")
  /\ UNCHANGED <<journal, owner, submitting, mode, todo, cancelling, executor>>

ShutdownStep(p) ==
  \/ \E j \in Job : ShutdownCancel(p, j) \/ CancelSignal(p, "shutdown", j)
  \/ ShutdownCancelled(p) \/ DrainTest(p) \/ DrainGet(p) \/ Seal(p)
  \/ Join(p) \/ Release(p)

\* The process ends, by a crash at any point or by exiting after shutdown():
\* its threads, queue and locks are gone, the journal stays.
Die(p) ==
  /\ stage[p] \notin {"unborn", "dead"}
  /\ Goto(p, "dead")
  /\ SetLock(p, "none")
  /\ submitting' = [submitting EXCEPT ![p] = NoJob]
  /\ active' = [active EXCEPT ![p] = {}]
  /\ signalled' = {j \in signalled : owner[j] # p}
  /\ queue' = [queue EXCEPT ![p] = <<>>]
  /\ pending' = {j \in pending : owner[j] # p}
  /\ sentinels' = [sentinels EXCEPT ![p] = 0]
  /\ pc' = [pc EXCEPT ![p] = [t \in Thread |-> "exited"]]
  /\ task' = [task EXCEPT ![p] = [t \in Thread |-> NoJob]]
  /\ cancelling' = {c \in cancelling : c[1] # p}
  /\ mode' = [mode EXCEPT ![p] = NoMode]
  /\ todo' = [todo EXCEPT ![p] = {}]
  /\ UNCHANGED <<journal, owner, runs>>

-----------------------------------------------------------------------------
Next ==
  \E p \in Proc :
    \/ \E recover \in BOOLEAN : Open(p, recover)
    \/ TryExclusive(p) \/ Recover(p) \/ Share(p)
    \/ \E j \in Job : SubmitCreate(p, j) \/ Cancel(p, j) \/ CancelSignal(p, "client", j)
    \/ SubmitDispatch(p)
    \/ \E t \in Thread : ThreadStep(p, t)
    \/ \E wait, cancel \in BOOLEAN : Shutdown(p, wait, cancel)
    \/ ShutdownStep(p)
    \/ Die(p)

Spec == Init /\ [][Next]_vars

\* Worker threads are scheduled, transactions end, the work of a job ends and
\* a shutdown that was begun is carried on.  Nothing obliges a client to act,
\* a process to be started, or a process to die or not to die.
Fairness ==
  \A p \in Proc :
    /\ \A t \in Thread : WF_vars(ThreadStep(p, t))
    /\ WF_vars(SubmitDispatch(p))
    /\ WF_vars(ShutdownStep(p))
    /\ \A j \in Job : WF_vars(CancelSignal(p, "client", j))

FairSpec == Spec /\ Fairness

-----------------------------------------------------------------------------
(* Properties.                                                             *)

ProcessTypeOK ==
  /\ stage \in [Proc -> Stage]
  /\ lock \in [Proc -> {"none", "sh", "ex"}]
  /\ owner \in [Job -> Proc \cup {NoProc}]
  /\ submitting \in [Proc -> Job \cup {NoJob}]
  /\ cancelling \subseteq Proc \X Caller \X Job
  /\ mode \in [Proc -> [recover : BOOLEAN, wait : BOOLEAN, cancel : BOOLEAN]]
  /\ todo \in [Proc -> SUBSET Job]

ExecutorTypeOK ==
  /\ active \in [Proc -> SUBSET Job]
  /\ signalled \subseteq Job
  /\ queue \in [Proc -> Seq(Job)]
  /\ pending \subseteq Job
  /\ sentinels \in [Proc -> 0 .. Cardinality(Thread)]
  /\ pc \in [Proc -> [Thread -> ThreadPC]]
  /\ task \in [Proc -> [Thread -> Job \cup {NoJob}]]
  /\ runs \in [Job -> Nat]

(* The type invariant: among the rest, a shutdown never leaves more stop   *)
(* markers in the queue than there are threads to take them.               *)
TypeOK == JournalTypeOK /\ ProcessTypeOK /\ ExecutorTypeOK

Executing == {"work", "report", "finish", "succeed"}

(* A runtime that holds the project lock is never mistaken for a dead one: *)
(* while one of its threads is inside a job's work, the journal shows that *)
(* job as running, whatever the other processes start, recover, cancel or  *)
(* shut down meanwhile.  (_acquire_runtime_lock: "joining it must not mark *)
(* that process's queued/running records as interrupted".)                 *)
LiveWorkIsRunning ==
  \A p \in Proc, t \in Thread :
    lock[p] = "sh" /\ pc[p][t] \in Executing => row[task[p][t]].state = "running"

(* A job's work is entered at most once, over all processes and threads,   *)
(* and never for a job that was cancelled before it started: a cancelled   *)
(* queued job does not run later, and a duplicate submit runs nothing.     *)
(* (JobService._run, cancel and the Future it cancels.)                    *)
WorkRunsOnce ==
  \A j \in Job :
    /\ runs[j] <= 1
    /\ runs[j] = 1 => Exists(j) /\ row[j].started

(* Nothing leaks from the table of active jobs: an entry is a task that    *)
(* still waits in the executor's queue or that a thread is on, so an idle  *)
(* service has none left to cancel.  (_active in submit, cancel and _run.) *)
ActiveIsTracked ==
  \A p \in Proc : \A j \in active[p] :
    \/ j \in pending /\ \E i \in DOMAIN queue[p] : queue[p][i] = j
    \/ \E t \in Thread : task[p][t] = j

(* shutdown(wait=True) returns only when every job this service accepted   *)
(* has its terminal record, whether pending work was to be run or to be    *)
(* cancelled.  (JobService.shutdown, with its joins and stop markers.)     *)
ShutdownQuiesces ==
  \A p \in Proc : stage[p] = "closed" /\ mode[p].wait =>
    \A j \in Job : owner[j] = p => IsTerminal(j)

(* No accepted job is forgotten: it reaches a terminal record unless its   *)
(* process dies first, through cancellation, shutdown and everything the   *)
(* other processes do.  (submit to the end of _run.)                       *)
AcceptedJobsEnd ==
  \A p \in Proc, j \in Job :
    IsLive(j) /\ owner[j] = p ~> (IsTerminal(j) \/ stage[p] = "dead")

(* A shutdown that begins also ends: it returns, or fails in the drain     *)
(* loop, or the process dies.  (shutdown, the joins and the sentinels.)    *)
ShutdownEnds ==
  \A p \in Proc : stage[p] \in ShuttingDown ~> stage[p] \in {"closed", "raised", "dead"}

(* Seen by its clients, the journal is the contract of JobContract: one    *)
(* outcome per job, for ever, and none the work chose once a stop was      *)
(* asked for.                                                              *)
ContractPhase ==
  [j \in Job |-> IF ~Exists(j) THEN "absent"
                 ELSE IF row[j].error = "interrupted" THEN "interrupted"
                 ELSE row[j].state]
ContractAsked == {j \in Job : Exists(j) /\ row[j].started /\ row[j].cancel}
Contract == INSTANCE JobContract WITH phase <- ContractPhase, asked <- ContractAsked
ContractSpec == Contract!Spec
=============================================================================
