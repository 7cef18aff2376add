----------------------------- MODULE JobContract -----------------------------
(***************************************************************************)
(* What a client of the job API may rely on, without any process, thread   *)
(* or lock: a job is accepted once, runs at most once, and then has one    *)
(* outcome for ever.  A request to stop forbids every outcome the work     *)
(* itself could still choose.                                              *)
(***************************************************************************)
CONSTANT Job

VARIABLES
  phase,    \* phase[j]: how far j is
  asked     \* the jobs a client asked to stop while they were running

Outcome == {"succeeded", "failed", "cancelled", "interrupted"}
Phase == {"absent", "queued", "running"} \cup Outcome

Init ==
  /\ phase = [j \in Job |-> "absent"]
  /\ asked = {}

Move(j, from, to) == phase[j] = from /\ phase' = [phase EXCEPT ![j] = to]

Accept(j) == Move(j, "absent", "queued") /\ UNCHANGED asked
Begin(j) == Move(j, "queued", "running") /\ UNCHANGED asked
Withdraw(j) == Move(j, "queued", "cancelled") /\ UNCHANGED asked
AskStop(j) ==
  /\ phase[j] = "running"
  /\ asked' = asked \cup {j}
  /\ UNCHANGED phase

\* The work's own outcome, unless a stop was asked for first.
Finish(j, outcome) ==
  /\ outcome \in IF j \in asked THEN {"cancelled"}
                 ELSE {"succeeded", "failed", "cancelled"}
  /\ Move(j, "running", outcome)
  /\ UNCHANGED asked

\* A new runtime finalizes all the work no runtime will come back to.
Interrupt ==
  /\ phase' = [j \in Job |-> IF phase[j] \in {"queued", "running"}
                             THEN "interrupted" ELSE phase[j]]
  /\ UNCHANGED asked

Next ==
  \/ \E j \in Job :
       \/ Accept(j) \/ Begin(j) \/ Withdraw(j) \/ AskStop(j)
       \/ \E outcome \in Outcome : Finish(j, outcome)
  \/ Interrupt

vars == <<phase, asked>>

Spec == Init /\ [][Next]_vars
=============================================================================
