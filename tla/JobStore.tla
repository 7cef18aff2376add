------------------------------ MODULE JobStore ------------------------------
(***************************************************************************)
(* The durable job journal of one project: the tables jobs and job_events  *)
(* of .flow/jobs.sqlite3 and the transactions JobStore runs on them.       *)
(*                                                                         *)
(* Every public operation of JobStore is one BEGIN IMMEDIATE transaction,  *)
(* so each is one atomic action here, whichever process or thread calls    *)
(* it.  A job is identified with the request_id that created it, which the *)
(* table declares UNIQUE.  Timestamps, messages, payloads and results are  *)
(* left out; what remains of a row is what a later transaction reads or a  *)
(* client decides on.                                                      *)
(***************************************************************************)
EXTENDS Naturals, Sequences, FiniteSets

CONSTANTS
  Job,          \* the request ids, each naming one durable job
  NoRow,        \* the value of row[j] before j is created
  MaxProgress,  \* progress 1.0, in the smallest step a job reports
  MaxEvents     \* bound on the events of a job before its terminal event

ASSUME MaxProgressAssumption == MaxProgress \in Nat \ {0}
ASSUME MaxEventsAssumption == MaxEvents \in Nat

VARIABLES
  row,          \* row[j]: the columns of job j that decide anything
  log           \* log[j]: the event types of j in job_events, oldest first

journal == <<row, log>>

Terminal == {"succeeded", "failed", "cancelled"}
JobState == {"queued", "running"} \cup Terminal

\* error is NULL, what fail() recorded, or what fail_interrupted() recorded.
Row == [state : JobState, cancel : BOOLEAN, progress : 0 .. MaxProgress,
        started : BOOLEAN, error : {"none", "failed", "interrupted"}]

ASSUME NoRowAssumption == NoRow \notin Row

\* An event's type; every terminal transition has a type of its own.
TerminalEvent == Terminal \cup {"interrupted"}
EventType ==
  {"created", "started", "progress", "cancellation_requested"} \cup TerminalEvent

Exists(j) == row[j] # NoRow
IsTerminal(j) == Exists(j) /\ row[j].state \in Terminal
IsLive(j) == Exists(j) /\ row[j].state \notin Terminal

-----------------------------------------------------------------------------
JournalInit ==
  /\ row = [j \in Job |-> NoRow]
  /\ log = [j \in Job |-> <<>>]

\* The UPDATE of a row and the INSERT of its event, in one transaction.
Transition(j, r, event) ==
  /\ row' = [row EXCEPT ![j] = r]
  /\ log' = [log EXCEPT ![j] = Append(@, event)]

\* A transaction that finds the job already terminal changes nothing.
AlreadyTerminal(j) == IsTerminal(j) /\ UNCHANGED journal

\* Every terminal transition of a job whose cancellation was requested.
Cancelled(j) == Transition(j, [row[j] EXCEPT !.state = "cancelled"], "cancelled")

\* Mutant: a repeated request_id creates its job afresh.
Create_Overwrites(j) ==
  Transition(j, [state |-> "queued", cancel |-> FALSE, progress |-> 0,
                 started |-> FALSE, error |-> "none"], "created")

Create(j) ==
  /\ ~Exists(j)
  /\ Transition(j, [state |-> "queued", cancel |-> FALSE, progress |-> 0,
                    started |-> FALSE, error |-> "none"], "created")

\* Mutant: start() does not look at the state it starts from.
Start_AnyState(j) ==
  /\ Exists(j)
  /\ Transition(j, [row[j] EXCEPT !.state = "running", !.started = TRUE], "started")

Start(j) ==
  \/ AlreadyTerminal(j)
  \/ /\ Exists(j) /\ row[j].state = "queued"
     /\ IF row[j].cancel
        THEN Cancelled(j)
        ELSE Transition(j, [row[j] EXCEPT !.state = "running", !.started = TRUE],
                        "started")

\* report() commits only for a running job nobody asked to cancel.
CanReport(j) == Exists(j) /\ row[j].state = "running" /\ ~row[j].cancel

Report(j, progress) ==
  /\ CanReport(j)
  /\ progress >= row[j].progress
  /\ Len(log[j]) < MaxEvents
  /\ Transition(j, [row[j] EXCEPT !.progress = progress], "progress")

\* A repeated request appends a further event; MaxEvents caps the repetition.
RequestCancel(j) ==
  \/ AlreadyTerminal(j)
  \/ /\ Exists(j) /\ row[j].state = "queued"
     /\ Transition(j, [row[j] EXCEPT !.state = "cancelled", !.cancel = TRUE],
                   "cancelled")
  \/ /\ Exists(j) /\ row[j].state = "running"
     /\ row[j].cancel => Len(log[j]) < MaxEvents
     /\ Transition(j, [row[j] EXCEPT !.cancel = TRUE], "cancellation_requested")

\* Mutant: succeed() does not look at cancellation_requested.
Succeed_IgnoresCancel(j) ==
  \/ AlreadyTerminal(j)
  \/ /\ Exists(j) /\ row[j].state = "running"
     /\ Transition(j, [row[j] EXCEPT !.state = "succeeded",
                                     !.progress = MaxProgress], "succeeded")

\* A work that returned after a cancellation was recorded ends cancelled.
Succeed(j) ==
  \/ AlreadyTerminal(j)
  \/ /\ Exists(j) /\ row[j].state = "running"
     /\ IF row[j].cancel
        THEN Cancelled(j)
        ELSE Transition(j, [row[j] EXCEPT !.state = "succeeded",
                                          !.progress = MaxProgress], "succeeded")

Fail(j) ==
  \/ AlreadyTerminal(j)
  \/ /\ IsLive(j)
     /\ IF row[j].cancel
        THEN Cancelled(j)
        ELSE Transition(j, [row[j] EXCEPT !.state = "failed", !.error = "failed"],
                        "failed")

\* Mutant: complete_cancelled() does not return early on a terminal job.
CompleteCancelled_Again(j) == Exists(j) /\ Cancelled(j)

CompleteCancelled(j) ==
  \/ AlreadyTerminal(j)
  \/ IsLive(j) /\ Cancelled(j)

\* One transaction over every row that is still queued or running.
FailInterrupted ==
  /\ row' = [j \in Job |-> IF IsLive(j)
                           THEN [row[j] EXCEPT !.state = "failed",
                                               !.error = "interrupted"]
                           ELSE row[j]]
  /\ log' = [j \in Job |-> IF IsLive(j) THEN Append(log[j], "interrupted")
                           ELSE log[j]]

-----------------------------------------------------------------------------
JournalTypeOK ==
  /\ row \in [Job -> Row \cup {NoRow}]
  /\ log \in [Job -> Seq(EventType)]

(* The event log tells the row's story: it is empty before the row exists, *)
(* it holds exactly one terminal event once the row is terminal and that   *)
(* event is the last one, so a client that stops reading there missed      *)
(* nothing; before that it holds none.  (The append-only job_events table, *)
(* whose readers stop at the terminal record.)                             *)
LogMatchesRow ==
  \A j \in Job :
    /\ (log[j] = <<>>) <=> ~Exists(j)
    /\ Exists(j) => log[j][1] = "created"
    /\ \A i \in 1 .. Len(log[j]) :
         log[j][i] \in TerminalEvent <=> (IsTerminal(j) /\ i = Len(log[j]))
    /\ IsTerminal(j) =>
         log[j][Len(log[j])] = IF row[j].error = "interrupted" THEN "interrupted"
                               ELSE row[j].state

(* An accepted cancellation is honoured: once a request was recorded the   *)
(* job is either still winding down or ends cancelled; it never ends       *)
(* succeeded or failed on its own, only a runtime that died can still turn *)
(* it into an interrupted record.  (request_cancel against succeed, fail.) *)
CancelHonoured ==
  \A j \in Job : Exists(j) /\ row[j].cancel =>
    \/ row[j].state \in {"running", "cancelled"}
    \/ row[j].state = "failed" /\ row[j].error = "interrupted"
=============================================================================
