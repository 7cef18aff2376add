-------------------------- MODULE WorkerPoolProofs --------------------------
(***************************************************************************)
(* Proofs about WorkerPool, for any number of runtimes, slots, calls and   *)
(* revisions.                                                              *)
(*                                                                         *)
(* A worker of a living runtime is with at most one call and has the lock  *)
(* of its slot while it is with one (Held); its child is at work only for  *)
(* that call, while the call listens, and what is in the pipe is for that  *)
(* call, an answer last (Served); the worker of a closed pool that is with *)
(* no call has no child (Emptied).  Three properties follow.               *)
(*                                                                         *)
(* The last part shows that no build runs on source older than it was      *)
(* asked for, as long as no edit brings an earlier revision back.  A child *)
(* imported a revision that is not older than the label of its worker, and *)
(* the label of a worker whose child has a build to do is the revision     *)
(* that the build asked for.  What a child has imported was current since  *)
(* a call was made, or is older than what the call asked.                  *)
(***************************************************************************)
EXTENDS WorkerPool, SequenceTheorems, TLAPS

Place == {"new", "waiting", "claimed", "running", "releasing", "done", "lost"}
USE DEF Place

Message == [kind : {"report", "result", "error"}, call : Call \cup {NoCall}]

WorkerFields == [holder : Call \cup {NoCall}, tasks : Nat, label : Revision \cup {NoRevision}]
ChildFields == [state : ChildState, call : Call \cup {NoCall},
                loaded : Revision \cup {NoRevision}, told : BOOLEAN]

TypeInv ==
  /\ at \in [Call -> Place]
  /\ outcome \in [Call -> {"none", "result", "cancelled", "failed"}]
  /\ answer \in [Call -> Call \cup {NoCall}]
  /\ asked \in [Call -> Revision \cup {NoRevision}]
  /\ worker \in [Proc -> [Slot -> WorkerFields]]
  /\ child \in [Proc -> [Slot -> ChildFields]]
  /\ pipe \in [Proc -> [Slot -> Seq(Message)]]
  /\ slotLock \in [Slot -> Proc \cup {NoProc}]
  /\ source \in Revision

Holder(p, s) == worker[p][s].holder

\* A worker is with a call of its own process, which has come to have it.
Placed(p, s) ==
  Holder(p, s) # NoCall =>
    /\ Home[Holder(p, s)] = p
    /\ at[Holder(p, s)] \in {"claimed", "running", "releasing", "lost"}

Held(p, s) == Holder(p, s) # NoCall => slotLock[s] = p

Served(p, s) ==
  /\ Working(p, s) =>
       /\ Holder(p, s) # NoCall /\ at[Holder(p, s)] = "running"
       /\ child[p][s].call = Holder(p, s)
       /\ \A k \in DOMAIN pipe[p][s] : pipe[p][s][k].kind = "report"
  /\ \A k \in DOMAIN pipe[p][s] :
       /\ pipe[p][s][k].call = Holder(p, s)
       /\ pipe[p][s][k].kind = "report" \/ k = Len(pipe[p][s])
  /\ Holder(p, s) = NoCall \/ at[Holder(p, s)] # "running" => pipe[p][s] = <<>>

Emptied(p, s) == p \in closed /\ Holder(p, s) = NoCall => child[p][s].state = "none"

SlotInv(p, s) ==
  Placed(p, s) /\ (p \notin dead => Held(p, s) /\ Served(p, s) /\ Emptied(p, s))

\* The calls of a crashed runtime are over.
LostWithProcess == \A c \in Call : Home[c] \in dead => at[c] \in {"done", "lost"}

OneWorkerEach ==
  \A p \in Proc : \A s, t \in Slot :
    Holder(p, s) = Holder(p, t) /\ Holder(p, s) # NoCall => s = t

\* All but the types, which have a proof of their own.
PoolInv ==
  /\ \A p \in Proc, s \in Slot : SlotInv(p, s)
  /\ OneWorkerEach
  /\ LostWithProcess
  /\ AnswerIsOwn

IInv == TypeInv /\ PoolInv

-----------------------------------------------------------------------------
(* Types.                                                                  *)

\* What the steps of a call do to the fields of its worker and child.
LEMMA Fields ==
  /\ NewWorker \in WorkerFields /\ NoChild \in ChildFields
  /\ \A w \in WorkerFields :
       /\ \A h \in Call \cup {NoCall} : [w EXCEPT !.holder = h] \in WorkerFields
       /\ [w EXCEPT !.tasks = @ + 1] \in WorkerFields
       /\ [w EXCEPT !.label = NoRevision, !.tasks = 0] \in WorkerFields
       /\ w.tasks \in Nat /\ w.label \in Revision \cup {NoRevision}
  /\ \A k \in ChildFields, c \in Call :
       [k EXCEPT !.state = "asked", !.call = c, !.told = FALSE] \in ChildFields
<1>1. NewWorker \in WorkerFields
  BY DEF WorkerFields, NewWorker
<1>2. NoChild \in ChildFields
  BY DEF ChildFields, NoChild, ChildState
<1>3. ASSUME NEW w \in WorkerFields, NEW h \in Call \cup {NoCall}
      PROVE  [w EXCEPT !.holder = h] \in WorkerFields
  BY DEF WorkerFields
<1>4. ASSUME NEW w \in WorkerFields
      PROVE  /\ [w EXCEPT !.tasks = @ + 1] \in WorkerFields
             /\ [w EXCEPT !.label = NoRevision, !.tasks = 0] \in WorkerFields
             /\ w.tasks \in Nat /\ w.label \in Revision \cup {NoRevision}
  <2>1. /\ w.holder \in Call \cup {NoCall} /\ w.tasks \in Nat
        /\ w.label \in Revision \cup {NoRevision}
    BY DEF WorkerFields
  <2>2. [w EXCEPT !.tasks = @ + 1] \in WorkerFields
    BY <2>1 DEF WorkerFields
  <2>3. [w EXCEPT !.label = NoRevision, !.tasks = 0] \in WorkerFields
    BY <2>1 DEF WorkerFields
  <2>. QED  BY <2>1, <2>2, <2>3
<1>5. ASSUME NEW k \in ChildFields, NEW c \in Call
      PROVE  [k EXCEPT !.state = "asked", !.call = c, !.told = FALSE] \in ChildFields
  BY DEF ChildFields, ChildState
<1>. QED  BY <1>1, <1>2, <1>3, <1>4, <1>5

\* Putting one field of one worker, child or pipe.
LEMMA Put ==
  ASSUME NEW V, NEW f \in [Proc -> [Slot -> V]], NEW p \in Proc, NEW s \in Slot, NEW v \in V
  PROVE  [f EXCEPT ![p][s] = v] \in [Proc -> [Slot -> V]]
OBVIOUS

\* A task more of one worker.
LEMMA Counted ==
  ASSUME NEW f \in [Proc -> [Slot -> WorkerFields]], NEW p \in Proc, NEW s \in Slot
  PROVE  [f EXCEPT ![p][s].tasks = @ + 1] \in [Proc -> [Slot -> WorkerFields]]
<1>1. [f[p][s] EXCEPT !.tasks = @ + 1] \in WorkerFields
  <2>. DEFINE w == f[p][s]
  <2>1. w \in WorkerFields
    OBVIOUS
  <2>. HIDE DEF w
  <2>2. [w EXCEPT !.tasks = w.tasks + 1] \in WorkerFields
    BY <2>1, Fields
  <2>. QED  BY <2>2 DEF w
<1>. QED  BY <1>1, Put

\* The steps of run() are typed, one lemma each.
LEMMA ClaimTypes == ASSUME TypeInv, NEW c \in Call, Claim(c) PROVE TypeInv'
<1>. USE CallAssumption
<1>. PICK s \in Slot :
       /\ worker' = [worker EXCEPT ![Home[c]][s].holder = c]
       /\ slotLock' = [slotLock EXCEPT ![s] = Home[c]]
  BY DEF Claim
<1>1. worker' = [worker EXCEPT ![Home[c]][s] = [@ EXCEPT !.holder = c]]
  OBVIOUS
<1>2. worker[Home[c]][s] \in WorkerFields
  BY DEF TypeInv
<1>3. [worker[Home[c]][s] EXCEPT !.holder = c] \in WorkerFields
  BY <1>2, Fields
<1>4. worker' \in [Proc -> [Slot -> WorkerFields]]
  BY <1>1, <1>3 DEF TypeInv
<1>5. slotLock' \in [Slot -> Proc \cup {NoProc}]
  BY DEF TypeInv
<1>6. UNCHANGED <<outcome, answer, asked, child, pipe, source>>
  BY DEF Claim, runtime
<1>7. at' \in [Call -> Place]
  BY DEF Claim, Goto, TypeInv
<1>. QED  BY <1>4, <1>5, <1>6, <1>7 DEF TypeInv

\* The request that is sent labels a worker with the call's revision or none.
LEMMA SendTypes == ASSUME TypeInv, NEW c \in Call, Send(c) PROVE TypeInv'
<1>. USE CallAssumption
<1>. DEFINE p == Home[c]
<1>. PICK s \in Slot : Send(c)!2!(s)
  BY DEF Send
<1>. DEFINE old == IF MustReplace(c, s) THEN NoChild ELSE child[p][s]
            was == IF MustReplace(c, s) THEN NewWorker ELSE worker[p][s]
            asking == [old EXCEPT !.state = "asked", !.call = c, !.told = FALSE]
            labelled == [holder |-> c, tasks |-> was.tasks,
                         label |-> IF asked[c] # NoRevision THEN asked[c] ELSE was.label]
<1>1. /\ child' = [child EXCEPT ![p][s] = asking]
      /\ worker' = [worker EXCEPT ![p][s] = labelled]
      /\ pipe' = IF MustReplace(c, s) THEN [pipe EXCEPT ![p][s] = <<>>] ELSE pipe
  OBVIOUS
<1>2. /\ child[p][s] \in ChildFields /\ worker[p][s] \in WorkerFields
      /\ asked[c] \in Revision \cup {NoRevision} /\ p \in Proc
  BY DEF TypeInv
<1>3. old \in ChildFields /\ was \in WorkerFields
  BY <1>2, Fields
<1>4. asking \in ChildFields
  BY <1>3, Fields
<1>5. was.tasks \in Nat /\ was.label \in Revision \cup {NoRevision}
  BY <1>3, Fields
<1>6. labelled \in WorkerFields
  BY <1>2, <1>5 DEF WorkerFields
<1>7. child' \in [Proc -> [Slot -> ChildFields]] /\ worker' \in [Proc -> [Slot -> WorkerFields]]
  <2>1. child \in [Proc -> [Slot -> ChildFields]] /\ worker \in [Proc -> [Slot -> WorkerFields]]
    BY DEF TypeInv
  <2>. HIDE DEF asking, labelled, p
  <2>2. child' \in [Proc -> [Slot -> ChildFields]]
    BY <1>1, <1>2, <1>4, <2>1
  <2>3. worker' \in [Proc -> [Slot -> WorkerFields]]
    BY <1>1, <1>2, <1>6, <2>1
  <2>. QED  BY <2>2, <2>3
<1>8. pipe' \in [Proc -> [Slot -> Seq(Message)]]
  BY <1>1, <1>2 DEF TypeInv
<1>9. at' \in [Call -> Place]
  BY DEF Send, Goto, TypeInv
<1>10. UNCHANGED <<outcome, answer, asked, slotLock, source>>
  BY DEF Send, runtime
<1>. QED  BY <1>7, <1>8, <1>9, <1>10 DEF TypeInv

\* _Worker.stop leaves everything typed.
LEMMA StopTypes ==
  ASSUME TypeInv, NEW p \in Proc, NEW s \in Slot, Stop(p, s)
  PROVE  /\ worker' \in [Proc -> [Slot -> WorkerFields]]
         /\ child' \in [Proc -> [Slot -> ChildFields]]
         /\ pipe' \in [Proc -> [Slot -> Seq(Message)]]
<1>1. worker' = [worker EXCEPT ![p][s] = [@ EXCEPT !.label = NoRevision, !.tasks = 0]]
  BY DEF Stop, TypeInv, WorkerFields
<1>2. [worker[p][s] EXCEPT !.label = NoRevision, !.tasks = 0] \in WorkerFields
  <2>. DEFINE w == worker[p][s]
  <2>1. w \in WorkerFields
    BY DEF TypeInv
  <2>. HIDE DEF w
  <2>2. [w EXCEPT !.label = NoRevision, !.tasks = 0] \in WorkerFields
    BY <2>1, Fields
  <2>. QED  BY <2>2 DEF w
<1>3. worker' \in [Proc -> [Slot -> WorkerFields]]
  BY <1>1, <1>2, Put DEF TypeInv
<1>4. child' \in [Proc -> [Slot -> ChildFields]]
  BY Fields, Put DEF Stop, TypeInv
<1>5. pipe' \in [Proc -> [Slot -> Seq(Message)]]
  BY DEF Stop, TypeInv
<1>. QED  BY <1>3, <1>4, <1>5

\* A message of any kind.
LEMMA ReceiveTypes == ASSUME TypeInv, NEW c \in Call, Receive(c) PROVE TypeInv'
<1>. USE CallAssumption
<1>. DEFINE p == Home[c]
<1>1. PICK s \in Slot : Receive(c)!2!(s)
  BY DEF Receive
<1>. DEFINE message == Head(pipe[p][s])
<1>2. /\ p \in Proc /\ pipe[p][s] \in Seq(Message) /\ pipe[p][s] # <<>>
  BY <1>1 DEF TypeInv
<1>3. message \in Message /\ Tail(pipe[p][s]) \in Seq(Message)
  BY <1>2
<1>4. message.call \in Call \cup {NoCall}
  BY <1>3 DEF Message
<1>5. /\ UNCHANGED <<asked, slotLock, source>>
      /\ at' = [at EXCEPT ![c] = "releasing"] \/ UNCHANGED at
  BY <1>1 DEF Receive, runtime, Goto
<1>6. at' \in [Call -> Place]
  BY <1>5 DEF TypeInv
<1>7. outcome' \in [Call -> {"none", "result", "cancelled", "failed"}]
  BY <1>1 DEF TypeInv
<1>8. answer' \in [Call -> Call \cup {NoCall}]
  BY <1>1, <1>4 DEF TypeInv
<1>9. CASE Stop(p, s)
  BY <1>2, <1>5, <1>6, <1>7, <1>8, <1>9, StopTypes DEF TypeInv
<1>10. CASE /\ pipe' = [pipe EXCEPT ![p][s] = Tail(@)] /\ UNCHANGED child
            /\ worker' = [worker EXCEPT ![p][s].tasks = @ + 1] \/ UNCHANGED worker
  <2>1. pipe \in [Proc -> [Slot -> Seq(Message)]] /\ worker \in [Proc -> [Slot -> WorkerFields]]
    BY DEF TypeInv
  <2>2. pipe' \in [Proc -> [Slot -> Seq(Message)]]
    BY <1>2, <1>3, <1>10, <2>1
  <2>3. [worker EXCEPT ![p][s].tasks = @ + 1] \in [Proc -> [Slot -> WorkerFields]]
    BY <1>2, <2>1, Counted
  <2>4. worker' \in [Proc -> [Slot -> WorkerFields]]
    BY <1>10, <2>1, <2>3
  <2>. QED  BY <1>5, <1>6, <1>7, <1>8, <1>10, <2>2, <2>4 DEF TypeInv
<1>. QED  BY <1>1, <1>9, <1>10

\* A call that gives its worker's child up.
LEMMA AbandonTypes == ASSUME TypeInv, NEW c \in Call, Abandon(c) PROVE TypeInv'
<1>. USE CallAssumption
<1>. PICK s \in Slot : Stop(Home[c], s)
  BY DEF Abandon
<1>1. at' \in [Call -> Place]
  BY DEF Abandon, Goto, TypeInv
<1>2. outcome' \in [Call -> {"none", "result", "cancelled", "failed"}]
  BY DEF Abandon, TypeInv
<1>3. UNCHANGED <<asked, answer, slotLock, source>>
  BY DEF Abandon, runtime
<1>. QED  BY <1>1, <1>2, <1>3, StopTypes DEF TypeInv

\* The finally block, in an open pool and in a closed one.
LEMMA ReleaseTypes == ASSUME TypeInv, NEW c \in Call, Release(c) PROVE TypeInv'
<1>. USE CallAssumption
<1>. DEFINE p == Home[c]
<1>1. PICK s \in Slot : Release(c)!2!(s)
  BY DEF Release
<1>2. /\ p \in Proc
      /\ child \in [Proc -> [Slot -> ChildFields]] /\ worker \in [Proc -> [Slot -> WorkerFields]]
      /\ pipe \in [Proc -> [Slot -> Seq(Message)]]
  BY DEF TypeInv
<1>3. [worker[p][s] EXCEPT !.holder = NoCall] \in WorkerFields
  <2>. DEFINE w == worker[p][s]
  <2>1. w \in WorkerFields
    BY <1>2
  <2>. HIDE DEF w
  <2>2. [w EXCEPT !.holder = NoCall] \in WorkerFields
    BY <2>1, Fields
  <2>. QED  BY <2>2 DEF w
<1>4. worker' \in [Proc -> [Slot -> WorkerFields]]
  <2>1. CASE p \in closed
    <3>1. worker' = [worker EXCEPT ![p][s] = NewWorker]
      BY <1>1, <2>1
    <3>. QED  BY <1>2, <3>1, Fields
  <2>2. CASE p \notin closed
    <3>1. worker' = [worker EXCEPT ![p][s] = [worker[p][s] EXCEPT !.holder = NoCall]]
      BY <1>1, <1>2, <2>2
    <3>. QED  BY <1>2, <1>3, <3>1
  <2>. QED  BY <2>1, <2>2
<1>5. child' \in [Proc -> [Slot -> ChildFields]] /\ pipe' \in [Proc -> [Slot -> Seq(Message)]]
  <2>1. CASE p \in closed
    <3>1. child' = [child EXCEPT ![p][s] = NoChild] /\ pipe' = [pipe EXCEPT ![p][s] = <<>>]
      BY <1>1, <2>1
    <3>2. child' \in [Proc -> [Slot -> ChildFields]]
      BY <1>2, <3>1, Fields
    <3>3. pipe' \in [Proc -> [Slot -> Seq(Message)]]
      BY <1>2, <3>1
    <3>. QED  BY <3>2, <3>3
  <2>2. CASE p \notin closed
    BY <1>1, <1>2, <2>2
  <2>. QED  BY <2>1, <2>2
<1>6. slotLock' \in [Slot -> Proc \cup {NoProc}]
  BY <1>1 DEF TypeInv
<1>7. at' \in [Call -> Place]
  BY DEF Release, Goto, TypeInv
<1>8. UNCHANGED <<outcome, asked, answer, source>>
  BY DEF Release, runtime
<1>. QED  BY <1>4, <1>5, <1>6, <1>7, <1>8 DEF TypeInv

\* A child puts a message of its call into its pipe.
LEMMA SayTypes ==
  ASSUME TypeInv, NEW p \in Proc, NEW s \in Slot, NEW kind \in {"report", "result", "error"},
         Say(p, s, kind)
  PROVE  pipe' \in [Proc -> [Slot -> Seq(Message)]]
<1>1. child[p][s].call \in Call \cup {NoCall}
  BY DEF TypeInv, ChildFields
<1>2. [kind |-> kind, call |-> child[p][s].call] \in Message
  BY <1>1 DEF Message
<1>3. Append(pipe[p][s], [kind |-> kind, call |-> child[p][s].call]) \in Seq(Message)
  BY <1>2 DEF TypeInv
<1>. QED  BY <1>3 DEF Say, TypeInv

\* The steps of the child process.
LEMMA ChildTypes == ASSUME TypeInv, NEW p \in Proc, NEW s \in Slot, ChildStep(p, s) PROVE TypeInv'
<1>1. child[p][s] \in ChildFields /\ source \in Revision
  BY DEF TypeInv
<1>2. pipe' \in [Proc -> [Slot -> Seq(Message)]]
  BY SayTypes DEF ChildStep, ChildBegin, ChildReport, ChildAnswer, ChildExit, TypeInv
<1>3. ASSUME NEW state \in ChildState
      PROVE  [child[p][s] EXCEPT !.state = state] \in ChildFields
  BY <1>1 DEF ChildFields
<1>4. ASSUME NEW there \in ChildFields, child' = [child EXCEPT ![p][s] = there]
      PROVE  TypeInv'
  BY <1>2, <1>4, Put DEF ChildStep, ChildBegin, ChildReport, ChildAnswer, ChildExit, ChildOnly,
                         calls, TypeInv
<1>5. CASE ChildBegin(p, s)
  <2>. DEFINE there == [child[p][s] EXCEPT !.state = "working",
                          !.loaded = IF @ = NoRevision /\ child[p][s].call \in Prepares
                                     THEN source ELSE @]
  <2>1. there \in ChildFields
    BY <1>1 DEF ChildFields, ChildState
  <2>2. child' = [child EXCEPT ![p][s] = there]
    BY <1>5 DEF ChildBegin, TypeInv, ChildFields
  <2>. QED  BY <1>4, <2>1, <2>2
<1>6. CASE ChildReport(p, s)
  <2>1. [child[p][s] EXCEPT !.told = TRUE] \in ChildFields
    BY <1>1 DEF ChildFields
  <2>. QED  BY <1>4, <1>6, <2>1 DEF ChildReport
<1>7. CASE ChildAnswer(p, s)
  <2>. PICK state \in {"idle", "exited"} : child' = [child EXCEPT ![p][s].state = state]
    BY <1>7 DEF ChildAnswer
  <2>. QED  BY <1>3, <1>4 DEF ChildState
<1>8. CASE ChildExit(p, s)
  BY <1>3, <1>4, <1>8 DEF ChildExit, ChildState
<1>. QED  BY <1>5, <1>6, <1>7, <1>8 DEF ChildStep

\* close() resets the workers that are not busy.
LEMMA CloseTypes == ASSUME TypeInv, NEW p \in Proc, Close(p) PROVE TypeInv'
<1>1. worker' \in [Proc -> [Slot -> WorkerFields]]
  BY Fields DEF Close, TypeInv
<1>2. child' \in [Proc -> [Slot -> ChildFields]]
  BY Fields DEF Close, TypeInv
<1>3. pipe' \in [Proc -> [Slot -> Seq(Message)]]
  BY DEF Close, TypeInv
<1>4. UNCHANGED <<at, outcome, answer, asked, slotLock, source>>
  BY DEF Close, calls
<1>. QED  BY <1>1, <1>2, <1>3, <1>4 DEF TypeInv

\* The type invariant is inductive by itself.
LEMMA TypesAreKept == TypeInv /\ [Next]_vars => TypeInv'
<1>. SUFFICES ASSUME TypeInv, [Next]_vars PROVE TypeInv'
  OBVIOUS
<1>. USE CallAssumption
<1>1. CASE UNCHANGED vars
  BY <1>1 DEF vars, calls, workers, runtime, TypeInv
<1>2. ASSUME NEW c \in Call, Enter(c) PROVE TypeInv'
  <2>1. asked' \in [Call -> Revision \cup {NoRevision}]
    BY <1>2 DEF Enter, TypeInv
  <2>2. at' \in [Call -> Place]
    BY <1>2 DEF Enter, Goto, TypeInv
  <2>. QED  BY <1>2, <2>1, <2>2 DEF Enter, workers, runtime, TypeInv
<1>3. ASSUME NEW c \in Call, GiveUp(c) PROVE TypeInv'
  <2>1. outcome' \in [Call -> {"none", "result", "cancelled", "failed"}]
    BY <1>3 DEF GiveUp, TypeInv
  <2>2. at' \in [Call -> Place]
    BY <1>3 DEF GiveUp, Goto, TypeInv
  <2>. QED  BY <1>3, <2>1, <2>2 DEF GiveUp, workers, runtime, TypeInv
<1>4. ASSUME NEW c \in Call, Cancel(c) PROVE TypeInv'
  BY <1>4 DEF Cancel, workers, TypeInv
<1>5. ASSUME NEW p \in Proc, Die(p) PROVE TypeInv'
  <2>1. at' \in [Call -> Place]
    BY <1>5 DEF Die, TypeInv
  <2>2. slotLock' \in [Slot -> Proc \cup {NoProc}]
    BY <1>5 DEF Die, TypeInv
  <2>. QED  BY <1>5, <2>1, <2>2 DEF Die, workers, TypeInv
<1>6. CASE Edit
  BY <1>6 DEF Edit, workers, TypeInv
<1>. QED
  BY <1>1, <1>2, <1>3, <1>4, <1>5, <1>6, ClaimTypes, SendTypes, ReceiveTypes, AbandonTypes,
     ReleaseTypes, ChildTypes, CloseTypes
     DEF Next, CallStep

-----------------------------------------------------------------------------
(* Slots.                                                                  *)

\* A call of a living runtime that has a worker, or that is about to have one,
\* moves, and its worker with it: what there is to show is that worker's part.
LEMMA CallMoves ==
  ASSUME IInv, NEW c \in Call, NEW s \in Slot, NEW there, at' = [at EXCEPT ![c] = there],
         at[c] \notin {"done", "lost"},
         Holder(Home[c], s) = c \/ at[c] = "waiting",
         UNCHANGED <<closed, dead>>,
         \A t \in Slot \ {s} : slotLock'[t] = slotLock[t],
         slotLock' = slotLock \/ slotLock[s] \in {Home[c], NoProc},
         \A q \in Proc, t \in Slot :
           q # Home[c] \/ t # s => /\ worker'[q][t] = worker[q][t]
                                  /\ child'[q][t] = child[q][t]
                                  /\ pipe'[q][t] = pipe[q][t],
         Holder(Home[c], s)' \in {c, NoCall},
         SlotInv(Home[c], s)', AnswerIsOwn'
  PROVE  PoolInv'
<1>. USE CallAssumption, NoneAssumption
<1>1. Home[c] \in Proc /\ Home[c] \notin dead /\ at \in [Call -> Place]
  BY DEF IInv, PoolInv, LostWithProcess, TypeInv
<1>2. ASSUME NEW q \in Proc, NEW t \in Slot, Holder(q, t) = c
      PROVE  q = Home[c] /\ t = s
  <2>1. q = Home[c] /\ at[c] # "waiting"
    BY <1>2 DEF IInv, PoolInv, SlotInv, Placed
  <2>. QED  BY <1>1, <1>2, <2>1 DEF IInv, PoolInv, OneWorkerEach
<1>3. ASSUME NEW q \in Proc, NEW t \in Slot, q # Home[c] \/ t # s
      PROVE  SlotInv(q, t)'
  <2>1. /\ SlotInv(q, t) /\ Holder(q, t) # c /\ Holder(q, t)' = Holder(q, t)
        /\ Working(q, t)' = Working(q, t)
        /\ child'[q][t] = child[q][t] /\ pipe'[q][t] = pipe[q][t]
    BY <1>2, <1>3 DEF IInv, PoolInv, Holder, Working
  <2>2. Holder(q, t) \in Call \cup {NoCall}
    BY DEF IInv, TypeInv, WorkerFields, Holder
  <2>3. Holder(q, t) # NoCall => at'[Holder(q, t)] = at[Holder(q, t)]
    BY <2>1, <2>2, <1>1
  <2>4. Placed(q, t)'
    BY <2>1, <2>2, <2>3 DEF SlotInv, Placed
  <2>5. q \notin dead => Held(q, t)'
    <3>1. q \notin dead /\ Holder(q, t) # NoCall => slotLock'[t] = slotLock[t]
      BY <1>1, <1>3, <2>1 DEF SlotInv, Held
    <3>. QED  BY <2>1, <3>1 DEF SlotInv, Held
  <2>6. q \notin dead => Served(q, t)'
    BY <2>1, <2>2, <2>3 DEF SlotInv, Served
  <2>7. q \notin dead => Emptied(q, t)'
    BY <2>1 DEF SlotInv, Emptied
  <2>. QED  BY <2>4, <2>5, <2>6, <2>7 DEF SlotInv
<1>4. OneWorkerEach'
  <2>. SUFFICES ASSUME NEW q \in Proc, NEW t \in Slot, NEW u \in Slot,
                       Holder(q, t)' = Holder(q, u)', Holder(q, t)' # NoCall, t # u
                PROVE  FALSE
    BY DEF OneWorkerEach
  <2>1. \A r \in Slot : q # Home[c] \/ r # s => Holder(q, r)' = Holder(q, r)
    BY DEF Holder
  <2>2. CASE q # Home[c] \/ (t # s /\ u # s)
    BY <2>1, <2>2 DEF IInv, PoolInv, OneWorkerEach
  <2>3. CASE q = Home[c] /\ t = s
    BY <1>2, <2>1, <2>3
  <2>4. CASE q = Home[c] /\ u = s
    BY <1>2, <2>1, <2>4
  <2>. QED  BY <2>2, <2>3, <2>4
<1>5. LostWithProcess'
  BY <1>1 DEF IInv, PoolInv, LostWithProcess
<1>. QED  BY <1>3, <1>4, <1>5 DEF PoolInv

\* What a call that has a worker finds.
LEMMA OfTheHolder ==
  ASSUME IInv, NEW c \in Call, NEW s \in Slot, Holder(Home[c], s) = c,
         at[c] \notin {"done", "lost"}
  PROVE  /\ Home[c] \in Proc /\ Home[c] \notin dead
         /\ slotLock[s] = Home[c] /\ Served(Home[c], s)
         /\ at[c] # "running" => ~Working(Home[c], s) /\ pipe[Home[c]][s] = <<>>
BY CallAssumption, NoneAssumption
   DEF IInv, PoolInv, LostWithProcess, SlotInv, Held, Served

\* A free worker is idle with an empty pipe, and its slot is nobody's.
LEMMA ClaimKeeps == ASSUME IInv, NEW c \in Call, Claim(c) PROVE PoolInv'
<1>. USE CallAssumption, NoneAssumption
<1>. DEFINE p == Home[c]
<1>1. PICK s \in Slot : /\ Free(p, s)
                       /\ worker' = [worker EXCEPT ![p][s].holder = c]
                       /\ slotLock' = [slotLock EXCEPT ![s] = p]
  BY DEF Claim
<1>2. /\ at[c] = "waiting" /\ at' = [at EXCEPT ![c] = "claimed"] /\ p \notin closed
      /\ UNCHANGED <<outcome, answer, child, pipe, closed, dead>>
  BY DEF Claim, Goto, runtime
<1>3. /\ p \in Proc /\ p \notin dead /\ at[c] \notin {"done", "lost"}
      /\ Holder(p, s) = NoCall /\ slotLock[s] = NoProc
  BY <1>1, <1>2 DEF IInv, PoolInv, LostWithProcess, Free, Holder
<1>4. ~Working(p, s) /\ pipe[p][s] = <<>>
  BY <1>3 DEF IInv, PoolInv, SlotInv, Served
<1>5. /\ Holder(p, s)' = c /\ slotLock'[s] = p /\ at'[c] = "claimed"
  BY <1>1, <1>2, <1>3 DEF IInv, TypeInv, Holder, WorkerFields
<1>6. SlotInv(p, s)'
  BY <1>2, <1>3, <1>4, <1>5 DEF SlotInv, Placed, Held, Served, Emptied, Working
<1>7. AnswerIsOwn'
  BY <1>2 DEF IInv, PoolInv, AnswerIsOwn
<1>8. \A q \in Proc, t \in Slot :
        q # p \/ t # s => /\ worker'[q][t] = worker[q][t] /\ child'[q][t] = child[q][t]
                         /\ pipe'[q][t] = pipe[q][t]
  BY <1>1, <1>2 DEF IInv, TypeInv
<1>9. \A t \in Slot \ {s} : slotLock'[t] = slotLock[t]
  BY <1>1 DEF IInv, TypeInv
<1>. QED  BY <1>2, <1>3, <1>5, <1>6, <1>7, <1>8, <1>9, CallMoves

\* What a claimed worker is asked is asked for its holder, into an empty pipe.
LEMMA SendKeeps == ASSUME IInv, NEW c \in Call, Send(c) PROVE PoolInv'
<1>. USE CallAssumption, NoneAssumption
<1>. DEFINE p == Home[c]
<1>1. PICK s \in Slot : Send(c)!2!(s)
  BY DEF Send
<1>2. /\ at[c] = "claimed" /\ at' = [at EXCEPT ![c] = "running"] /\ at'[c] = "running"
      /\ UNCHANGED <<outcome, answer, slotLock, closed, dead>>
  BY DEF Send, Goto, runtime, IInv, TypeInv
<1>3. Holder(p, s) = c
  BY <1>1 DEF Holder
<1>4. /\ p \in Proc /\ p \notin dead /\ slotLock[s] = p /\ pipe[p][s] = <<>>
  BY <1>2, <1>3, OfTheHolder
<1>5. Holder(p, s)' = c
  BY <1>1, <1>4 DEF IInv, TypeInv, Holder
<1>6. child'[p][s].call = c
  <2>. DEFINE old == IF MustReplace(c, s) THEN NoChild ELSE child[p][s]
  <2>1. old \in ChildFields
    <3>1. child[p][s] \in ChildFields
      BY <1>4 DEF IInv, TypeInv
    <3>. QED  BY <3>1, Fields
  <2>2. child' = [child EXCEPT ![p][s] =
                   [old EXCEPT !.state = "asked", !.call = c, !.told = FALSE]]
    BY <1>1
  <2>. HIDE DEF old
  <2>3. [old EXCEPT !.state = "asked", !.call = c, !.told = FALSE].call = c
    BY <2>1 DEF ChildFields
  <2>. QED  BY <1>4, <2>2, <2>3 DEF IInv, TypeInv
<1>7. pipe'[p][s] = <<>>
  BY <1>1, <1>4 DEF IInv, TypeInv
<1>8. SlotInv(p, s)'
  BY <1>2, <1>4, <1>5, <1>6, <1>7 DEF SlotInv, Placed, Held, Served, Emptied, Working
<1>9. AnswerIsOwn'
  BY <1>2 DEF IInv, PoolInv, AnswerIsOwn
<1>10. \A q \in Proc, t \in Slot :
         q # p \/ t # s => /\ worker'[q][t] = worker[q][t] /\ child'[q][t] = child[q][t]
                          /\ pipe'[q][t] = pipe[q][t]
  <2>1. \A q \in Proc, t \in Slot : q # p \/ t # s => worker'[q][t] = worker[q][t]
    BY <1>1 DEF IInv, TypeInv
  <2>2. \A q \in Proc, t \in Slot : q # p \/ t # s => child'[q][t] = child[q][t]
    BY <1>1 DEF IInv, TypeInv
  <2>3. \A q \in Proc, t \in Slot : q # p \/ t # s => pipe'[q][t] = pipe[q][t]
    BY <1>1 DEF IInv, TypeInv
  <2>. QED  BY <2>1, <2>2, <2>3
<1>. QED  BY <1>2, <1>3, <1>5, <1>8, <1>9, <1>10, CallMoves

\* _Worker.stop, by the call that has the worker, on its way out.
LEMMA StopKeeps ==
  ASSUME IInv, NEW c \in Call, NEW s \in Slot, Stop(Home[c], s), Holder(Home[c], s) = c,
         at[c] \in {"claimed", "running"}, Goto(c, "releasing"),
         UNCHANGED <<closed, dead>>, UNCHANGED slotLock, AnswerIsOwn'
  PROVE  PoolInv'
<1>. USE CallAssumption, NoneAssumption
<1>. DEFINE p == Home[c]
<1>1. /\ at' = [at EXCEPT ![c] = "releasing"] /\ at'[c] = "releasing"
  BY DEF Goto, IInv, TypeInv
<1>2. /\ p \in Proc /\ p \notin dead /\ slotLock[s] = p
  BY OfTheHolder
<1>3. /\ child' = [child EXCEPT ![p][s] = NoChild] /\ pipe' = [pipe EXCEPT ![p][s] = <<>>]
      /\ worker' = [worker EXCEPT ![p][s].label = NoRevision, ![p][s].tasks = 0]
  BY DEF Stop
<1>4. /\ child'[p][s] = NoChild /\ pipe'[p][s] = <<>>
  BY <1>2, <1>3 DEF IInv, TypeInv
<1>5. Holder(p, s)' = c
  BY <1>2, <1>3 DEF IInv, TypeInv, WorkerFields, Holder
<1>6. SlotInv(p, s)'
  BY <1>1, <1>2, <1>4, <1>5 DEF SlotInv, Placed, Held, Served, Emptied, Working, NoChild
<1>7. \A q \in Proc, t \in Slot :
        q # p \/ t # s => /\ worker'[q][t] = worker[q][t] /\ child'[q][t] = child[q][t]
                         /\ pipe'[q][t] = pipe[q][t]
  <2>1. \A q \in Proc, t \in Slot : q # p \/ t # s => worker'[q][t] = worker[q][t]
    BY <1>3 DEF IInv, TypeInv
  <2>2. \A q \in Proc, t \in Slot : q # p \/ t # s => /\ child'[q][t] = child[q][t]
                                                       /\ pipe'[q][t] = pipe[q][t]
    BY <1>3 DEF IInv, TypeInv
  <2>. QED  BY <2>1, <2>2
<1>. QED  BY <1>1, <1>5, <1>6, <1>7, CallMoves

\* The first message of a pipe and the others.
LEMMA Pipes ==
  ASSUME NEW S, NEW q \in Seq(S), q # <<>>
  PROVE  /\ 1 \in DOMAIN q /\ Head(q) = q[1]
         /\ \A k \in DOMAIN Tail(q) :
              /\ Tail(q)[k] = q[k + 1] /\ k + 1 \in DOMAIN q
              /\ k + 1 = Len(q) => k = Len(Tail(q))
         /\ Len(q) = 1 => Tail(q) = <<>>
<1>1. Len(q) \in Nat /\ Len(q) # 0 /\ DOMAIN q = 1 .. Len(q) /\ Head(q) = q[1]
  BY EmptySeq
<1>2. /\ Tail(q) \in Seq(S) /\ Len(Tail(q)) = Len(q) - 1 /\ DOMAIN Tail(q) = 1 .. Len(q) - 1
      /\ \A k \in 1 .. Len(q) - 1 : Tail(q)[k] = q[k + 1]
  BY <1>1, HeadTailProperties
<1>3. Len(q) = 1 => Tail(q) = <<>>
  BY <1>2, EmptySeq
<1>. QED  BY <1>1, <1>2, <1>3

\* A report leaves the rest of the pipe; a result was the last of it, and its
\* child is idle then; after an error the child is stopped.
LEMMA ReceiveKeeps == ASSUME IInv, NEW c \in Call, Receive(c) PROVE PoolInv'
<1>. USE CallAssumption, NoneAssumption
<1>. DEFINE p == Home[c]
<1>1. PICK s \in Slot : Receive(c)!2!(s)
  BY DEF Receive
<1>. DEFINE message == Head(pipe[p][s])
<1>2. /\ at[c] = "running" /\ UNCHANGED <<slotLock, closed, dead>>
      /\ Holder(p, s) = c
  BY <1>1 DEF Receive, runtime, Holder
<1>3. /\ p \in Proc /\ p \notin dead /\ slotLock[s] = p /\ Served(p, s)
  BY <1>2, OfTheHolder
<1>4. pipe[p][s] \in Seq(Message) /\ pipe[p][s] # <<>>
  BY <1>1, <1>3 DEF IInv, TypeInv
<1>5. /\ message.call = c /\ (message.kind = "report" \/ Len(pipe[p][s]) = 1)
      /\ 1 \in DOMAIN pipe[p][s] /\ pipe[p][s][1] = message
  <2>1. 1 \in DOMAIN pipe[p][s] /\ pipe[p][s][1] = message
    BY <1>4, Pipes
  <2>2. /\ pipe[p][s][1].call = Holder(p, s)
        /\ pipe[p][s][1].kind = "report" \/ 1 = Len(pipe[p][s])
    BY <1>3, <2>1 DEF Served
  <2>. QED  BY <1>2, <2>1, <2>2
<1>6. ASSUME Stop(p, s), UNCHANGED answer, Goto(c, "releasing"),
             outcome' = [outcome EXCEPT ![c] = "failed"]
      PROVE  PoolInv'
  <2>1. AnswerIsOwn'
    BY <1>6 DEF AnswerIsOwn, IInv, PoolInv, TypeInv
  <2>. QED  BY <1>2, <1>6, <2>1, StopKeeps
<1>7. ASSUME message.kind = "report", UNCHANGED <<at, outcome, answer, worker, child>>,
             pipe' = [pipe EXCEPT ![p][s] = Tail(@)]
      PROVE  PoolInv'
  <2>1. pipe'[p][s] = Tail(pipe[p][s])
    BY <1>3, <1>7 DEF IInv, TypeInv
  <2>2. \A k \in DOMAIN Tail(pipe[p][s]) :
          /\ Tail(pipe[p][s])[k] = pipe[p][s][k + 1] /\ k + 1 \in DOMAIN pipe[p][s]
          /\ k + 1 = Len(pipe[p][s]) => k = Len(Tail(pipe[p][s]))
    BY <1>4, Pipes
  <2>3. /\ Holder(p, s)' = c /\ Working(p, s)' = Working(p, s) /\ child'[p][s] = child[p][s]
        /\ at'[c] = "running"
    BY <1>2, <1>7 DEF Holder, Working
  <2>4. Served(p, s)'
    BY <1>2, <1>3, <2>1, <2>2, <2>3 DEF Served
  <2>5. SlotInv(p, s)'
    BY <1>2, <1>3, <2>3, <2>4 DEF SlotInv, Placed, Held, Emptied
  <2>6. AnswerIsOwn'
    BY <1>7 DEF AnswerIsOwn, IInv, PoolInv
  <2>7. at' = [at EXCEPT ![c] = at[c]]
    BY <1>7 DEF IInv, TypeInv
  <2>8. \A q \in Proc, t \in Slot :
          q # p \/ t # s => /\ worker'[q][t] = worker[q][t] /\ child'[q][t] = child[q][t]
                           /\ pipe'[q][t] = pipe[q][t]
    BY <1>7 DEF IInv, TypeInv
  <2>. QED  BY <1>2, <2>3, <2>5, <2>6, <2>7, <2>8, CallMoves
<1>8. ASSUME message.kind = "result", pipe' = [pipe EXCEPT ![p][s] = Tail(@)],
             worker' = [worker EXCEPT ![p][s].tasks = @ + 1],
             answer' = [answer EXCEPT ![c] = message.call],
             outcome' = [outcome EXCEPT ![c] = "result"],
             Goto(c, "releasing"), UNCHANGED child
      PROVE  PoolInv'
  <2>1. /\ at' = [at EXCEPT ![c] = "releasing"] /\ at'[c] = "releasing"
    BY <1>8 DEF Goto, IInv, TypeInv
  <2>2. Len(pipe[p][s]) = 1
    BY <1>5, <1>8
  <2>3. Tail(pipe[p][s]) = <<>>
    BY <1>4, <2>2, Pipes
  <2>4. pipe'[p][s] = <<>>
    BY <1>3, <1>8, <2>3 DEF IInv, TypeInv
  <2>5. ~Working(p, s)
    BY <1>3, <1>5, <1>8 DEF Served
  <2>6. ~Working(p, s)'
    BY <1>8, <2>5 DEF Working
  <2>7. Holder(p, s)' = c
    BY <1>2, <1>3, <1>8 DEF IInv, TypeInv, WorkerFields, Holder
  <2>8. SlotInv(p, s)'
    BY <1>2, <1>3, <2>1, <2>4, <2>6, <2>7 DEF SlotInv, Placed, Held, Served, Emptied
  <2>9. AnswerIsOwn'
    BY <1>5, <1>8 DEF AnswerIsOwn, IInv, PoolInv, TypeInv
  <2>10. \A q \in Proc, t \in Slot :
          q # p \/ t # s => /\ worker'[q][t] = worker[q][t] /\ child'[q][t] = child[q][t]
                           /\ pipe'[q][t] = pipe[q][t]
    <3>1. \A q \in Proc, t \in Slot : q # p \/ t # s => worker'[q][t] = worker[q][t]
      BY <1>8 DEF IInv, TypeInv
    <3>2. \A q \in Proc, t \in Slot : q # p \/ t # s => pipe'[q][t] = pipe[q][t]
      BY <1>8 DEF IInv, TypeInv
    <3>. QED  BY <1>8, <3>1, <3>2
  <2>. QED  BY <1>2, <2>1, <2>7, <2>8, <2>9, <2>10, CallMoves
<1>. QED  BY <1>1, <1>6, <1>7, <1>8

\* A call that is cancelled or fails stops its child.
LEMMA AbandonKeeps == ASSUME IInv, NEW c \in Call, Abandon(c) PROVE PoolInv'
<1>1. PICK s \in Slot : worker[Home[c]][s].holder = c /\ Stop(Home[c], s)
  BY DEF Abandon
<1>2. /\ at[c] \in {"claimed", "running"} /\ Goto(c, "releasing")
      /\ UNCHANGED <<answer, slotLock, closed, dead>>
      /\ outcome' \in {[outcome EXCEPT ![c] = "cancelled"], [outcome EXCEPT ![c] = "failed"]}
  BY DEF Abandon, runtime
<1>3. AnswerIsOwn'
  BY <1>2 DEF AnswerIsOwn, IInv, PoolInv, TypeInv
<1>. QED  BY <1>1, <1>2, <1>3, StopKeeps DEF Holder

\* The worker that is given back is idle, and gone if its pool is closed.
LEMMA ReleaseKeeps == ASSUME IInv, NEW c \in Call, Release(c) PROVE PoolInv'
<1>. USE CallAssumption, NoneAssumption
<1>. DEFINE p == Home[c]
<1>1. PICK s \in Slot : Release(c)!2!(s)
  BY DEF Release
<1>2. /\ at[c] = "releasing" /\ at' = [at EXCEPT ![c] = "done"] /\ Holder(p, s) = c
      /\ UNCHANGED <<outcome, answer, closed, dead>>
  BY <1>1 DEF Release, Goto, runtime, Holder
<1>3. /\ p \in Proc /\ p \notin dead /\ slotLock[s] = p
      /\ ~Working(p, s) /\ pipe[p][s] = <<>>
  BY <1>2, OfTheHolder
<1>4. Holder(p, s)' = NoCall
  BY <1>1, <1>3 DEF IInv, TypeInv, WorkerFields, Holder, NewWorker
<1>5. /\ p \in closed => child'[p][s] = NoChild
      /\ p \notin closed => child'[p][s] = child[p][s]
      /\ pipe'[p][s] = <<>>
  <2>1. CASE p \in closed
    BY <1>1, <1>3, <2>1 DEF IInv, TypeInv
  <2>2. CASE p \notin closed
    BY <1>1, <1>3, <2>2
  <2>. QED  BY <2>1, <2>2
<1>6. SlotInv(p, s)'
  BY <1>2, <1>3, <1>4, <1>5 DEF SlotInv, Placed, Held, Served, Emptied, Working, NoChild
<1>7. AnswerIsOwn'
  BY <1>2 DEF AnswerIsOwn, IInv, PoolInv
<1>8. \A q \in Proc, t \in Slot :
        q # p \/ t # s => /\ worker'[q][t] = worker[q][t] /\ child'[q][t] = child[q][t]
                         /\ pipe'[q][t] = pipe[q][t]
  <2>1. \A q \in Proc, t \in Slot : q # p \/ t # s => worker'[q][t] = worker[q][t]
    BY <1>1 DEF IInv, TypeInv
  <2>2. \A q \in Proc, t \in Slot : q # p \/ t # s => child'[q][t] = child[q][t]
    BY <1>1 DEF IInv, TypeInv
  <2>3. \A q \in Proc, t \in Slot : q # p \/ t # s => pipe'[q][t] = pipe[q][t]
    BY <1>1 DEF IInv, TypeInv
  <2>. QED  BY <2>1, <2>2, <2>3
<1>9. \A t \in Slot \ {s} : slotLock'[t] = slotLock[t]
  BY <1>1 DEF IInv, TypeInv
<1>. QED  BY <1>2, <1>3, <1>4, <1>6, <1>7, <1>8, <1>9, CallMoves

\* The steps of a child: what it says is for its call, an answer comes last.
LEMMA ChildKeeps == ASSUME IInv, NEW p \in Proc, NEW s \in Slot, ChildStep(p, s) PROVE PoolInv'
<1>. USE NoneAssumption
<1>1. /\ UNCHANGED <<at, outcome, answer, worker, slotLock, closed, dead>>
      /\ child[p][s].state \in {"idle", "asked", "working"}
  BY DEF ChildStep, ChildBegin, ChildReport, ChildAnswer, ChildExit, ChildOnly, calls
<1>2. \A q \in Proc, t \in Slot : q # p \/ t # s => child'[q][t] = child[q][t]
  BY DEF ChildStep, ChildBegin, ChildReport, ChildAnswer, ChildExit, IInv, TypeInv
<1>3. \A q \in Proc, t \in Slot : q # p \/ t # s => pipe'[q][t] = pipe[q][t]
  BY DEF ChildStep, ChildBegin, ChildReport, ChildAnswer, ChildExit, Say, IInv, TypeInv
<1>4. \A q \in Proc, t \in Slot : Holder(q, t)' = Holder(q, t)
  BY <1>1 DEF Holder
<1>5. \A q \in Proc, t \in Slot : Placed(q, t)' /\ (q \notin dead => Held(q, t)')
  BY <1>1, <1>4 DEF IInv, PoolInv, SlotInv, Placed, Held
<1>6. \A q \in Proc, t \in Slot :
        (q # p \/ t # s) /\ q \notin dead => Served(q, t)' /\ Emptied(q, t)'
  <2>. SUFFICES ASSUME NEW q \in Proc, NEW t \in Slot, q # p \/ t # s, q \notin dead
                PROVE  Served(q, t)' /\ Emptied(q, t)'
    OBVIOUS
  <2>1. child'[q][t] = child[q][t] /\ pipe'[q][t] = pipe[q][t]
    BY <1>2, <1>3
  <2>2. Served(q, t) /\ Emptied(q, t)
    BY DEF IInv, PoolInv, SlotInv
  <2>3. Served(q, t)'
    BY <1>1, <1>4, <2>1, <2>2 DEF Served, Working
  <2>4. Emptied(q, t)'
    BY <1>1, <1>4, <2>1, <2>2 DEF Emptied
  <2>. QED  BY <2>3, <2>4
<1>7. p \notin dead => Emptied(p, s)'
  BY <1>1, <1>4 DEF IInv, PoolInv, SlotInv, Emptied
<1>8. child[p][s] \in ChildFields /\ pipe[p][s] \in Seq(Message)
  BY DEF IInv, TypeInv
<1>9. ASSUME p \notin dead PROVE Served(p, s)'
  <2>1. Served(p, s)
    BY <1>9 DEF IInv, PoolInv, SlotInv
  <2>2. CASE ChildBegin(p, s)
    <3>1. /\ child'[p][s].call = child[p][s].call /\ pipe'[p][s] = pipe[p][s]
      BY <1>8, <2>2 DEF ChildBegin, IInv, TypeInv, ChildFields
    <3>2. Working(p, s)
      BY <2>2 DEF ChildBegin, Working
    <3>. QED  BY <1>1, <1>4, <2>1, <3>1, <3>2 DEF Served
  <2>3. CASE ChildReport(p, s)
    <3>. DEFINE report == [kind |-> "report", call |-> child[p][s].call]
    <3>1. /\ child'[p][s].call = child[p][s].call /\ Working(p, s)
      BY <1>8, <2>3 DEF ChildReport, IInv, TypeInv, ChildFields, Working
    <3>2. pipe'[p][s] = Append(pipe[p][s], report)
      BY <2>3 DEF ChildReport, Say, IInv, TypeInv
    <3>3. \A k \in DOMAIN pipe'[p][s] :
            pipe'[p][s][k] = report \/ (k \in DOMAIN pipe[p][s] /\ pipe'[p][s][k] = pipe[p][s][k])
      BY <1>8, <3>2, AppendProperties
    <3>. QED  BY <1>1, <1>4, <2>1, <3>1, <3>3 DEF Served
  <2>4. CASE ChildAnswer(p, s)
    <3>1. PICK kind \in {"result", "error"} :
            /\ Say(p, s, kind)
            /\ child' = [child EXCEPT ![p][s].state =
                           IF kind = "error" \/ p \in dead THEN "exited" ELSE "idle"]
      BY <2>4 DEF ChildAnswer
    <3>. DEFINE message == [kind |-> kind, call |-> child[p][s].call]
    <3>2. Working(p, s) /\ ~Working(p, s)'
      BY <1>8, <2>4, <3>1 DEF ChildAnswer, IInv, TypeInv, ChildFields, Working
    <3>3. pipe'[p][s] = Append(pipe[p][s], message)
      BY <3>1 DEF Say, IInv, TypeInv
    <3>4. \A k \in DOMAIN pipe'[p][s] :
            \/ pipe'[p][s][k] = message /\ k = Len(pipe'[p][s])
            \/ k \in DOMAIN pipe[p][s] /\ pipe'[p][s][k] = pipe[p][s][k]
      BY <1>8, <3>3, AppendProperties
    <3>. QED  BY <1>1, <1>4, <2>1, <3>2, <3>4 DEF Served
  <2>5. CASE ChildExit(p, s)
    <3>1. pipe'[p][s] = pipe[p][s] /\ ~Working(p, s)'
      BY <1>8, <2>5 DEF ChildExit, IInv, TypeInv, ChildFields, Working
    <3>. QED  BY <1>1, <1>4, <2>1, <3>1 DEF Served
  <2>. QED  BY <2>2, <2>3, <2>4, <2>5 DEF ChildStep
<1>10. \A q \in Proc, t \in Slot : SlotInv(q, t)'
  BY <1>1, <1>5, <1>6, <1>7, <1>9 DEF SlotInv
<1>11. OneWorkerEach' /\ LostWithProcess' /\ AnswerIsOwn'
  BY <1>1 DEF IInv, PoolInv, OneWorkerEach, LostWithProcess, AnswerIsOwn, Holder
<1>. QED  BY <1>10, <1>11 DEF PoolInv

\* A call that has no worker, and gets none, moves.
LEMMA OutsideKeeps ==
  ASSUME IInv, NEW c \in Call, Enter(c) \/ GiveUp(c) \/ Cancel(c)
  PROVE  PoolInv'
<1>. USE CallAssumption, NoneAssumption
<1>1. UNCHANGED <<answer, worker, child, pipe, slotLock, closed, dead>>
  BY DEF Enter, GiveUp, Cancel, workers, runtime
<1>2. \A d \in Call : at[d] \notin {"new", "waiting"} => at'[d] = at[d]
  BY DEF Enter, GiveUp, Cancel, Goto, IInv, TypeInv
<1>3. \A q \in Proc, t \in Slot :
        /\ Holder(q, t)' = Holder(q, t) /\ Working(q, t)' = Working(q, t)
        /\ Holder(q, t) \in Call \cup {NoCall}
  BY <1>1 DEF Holder, Working, IInv, TypeInv, WorkerFields
<1>4. ASSUME NEW q \in Proc, NEW t \in Slot PROVE SlotInv(q, t)'
  <2>1. SlotInv(q, t)
    BY DEF IInv, PoolInv
  <2>2. Holder(q, t) # NoCall => at'[Holder(q, t)] = at[Holder(q, t)]
    BY <1>2, <1>3, <2>1 DEF SlotInv, Placed
  <2>. QED  BY <1>1, <1>3, <2>1, <2>2 DEF SlotInv, Placed, Held, Served, Emptied
<1>5. OneWorkerEach'
  BY <1>1 DEF IInv, PoolInv, OneWorkerEach, Holder
<1>6. LostWithProcess'
  BY <1>1, <1>2 DEF Enter, IInv, PoolInv, LostWithProcess
<1>7. AnswerIsOwn'
  BY DEF Enter, GiveUp, Cancel, IInv, PoolInv, AnswerIsOwn, TypeInv
<1>. QED  BY <1>4, <1>5, <1>6, <1>7 DEF PoolInv

\* close() stops the workers that are not busy, and leaves the others to their calls.
LEMMA CloseKeeps == ASSUME IInv, NEW p \in Proc, Close(p) PROVE PoolInv'
<1>. USE NoneAssumption
<1>. DEFINE idle == {s \in Slot : worker[p][s].holder = NoCall}
<1>1. /\ UNCHANGED <<at, outcome, answer, slotLock, dead>>
      /\ closed' = closed \cup {p} /\ p \notin dead
  BY DEF Close, calls
<1>2. \A q \in Proc, t \in Slot :
        /\ worker'[q][t] = IF q = p /\ t \in idle THEN NewWorker ELSE worker[q][t]
        /\ child'[q][t] = IF q = p /\ t \in idle THEN NoChild ELSE child[q][t]
        /\ pipe'[q][t] = IF q = p /\ t \in idle THEN <<>> ELSE pipe[q][t]
  <2>1. \A q \in Proc, t \in Slot :
          worker'[q][t] = IF q = p /\ t \in idle THEN NewWorker ELSE worker[q][t]
    BY DEF Close, IInv, TypeInv
  <2>2. \A q \in Proc, t \in Slot :
          child'[q][t] = IF q = p /\ t \in idle THEN NoChild ELSE child[q][t]
    BY DEF Close, IInv, TypeInv
  <2>3. \A q \in Proc, t \in Slot :
          pipe'[q][t] = IF q = p /\ t \in idle THEN <<>> ELSE pipe[q][t]
    BY DEF Close, IInv, TypeInv
  <2>. QED  BY <2>1, <2>2, <2>3
<1>3. \A q \in Proc, t \in Slot : Holder(q, t)' = Holder(q, t)
  BY <1>2 DEF Holder, NewWorker
<1>4. ASSUME NEW q \in Proc, NEW t \in Slot PROVE SlotInv(q, t)'
  <2>1. SlotInv(q, t)
    BY DEF IInv, PoolInv
  <2>2. CASE q = p /\ t \in idle
    <3>1. child'[q][t] = NoChild /\ pipe'[q][t] = <<>> /\ Holder(q, t)' = NoCall
      BY <1>2, <1>3, <2>2 DEF Holder
    <3>. QED  BY <3>1 DEF SlotInv, Placed, Held, Served, Emptied, Working, NoChild
  <2>3. CASE q = p /\ t \notin idle
    <3>1. child'[q][t] = child[q][t] /\ pipe'[q][t] = pipe[q][t] /\ Holder(q, t) # NoCall
      BY <1>2, <2>3 DEF Holder
    <3>. QED  BY <1>1, <1>3, <2>1, <3>1 DEF SlotInv, Placed, Held, Served, Emptied, Working
  <2>4. CASE q # p
    <3>1. /\ child'[q][t] = child[q][t] /\ pipe'[q][t] = pipe[q][t]
          /\ q \in closed' <=> q \in closed
      BY <1>1, <1>2, <2>4
    <3>. QED  BY <1>1, <1>3, <2>1, <3>1 DEF SlotInv, Placed, Held, Served, Emptied, Working
  <2>. QED  BY <2>2, <2>3, <2>4
<1>5. OneWorkerEach' /\ LostWithProcess' /\ AnswerIsOwn'
  BY <1>1, <1>3 DEF IInv, PoolInv, OneWorkerEach, LostWithProcess, AnswerIsOwn
<1>. QED  BY <1>4, <1>5 DEF PoolInv

\* A crash takes the process's locks; nothing is claimed of its workers after it.
LEMMA DieKeeps == ASSUME IInv, NEW p \in Proc, Die(p) PROVE PoolInv'
<1>. USE CallAssumption, NoneAssumption
<1>1. /\ UNCHANGED <<outcome, answer, worker, child, pipe, closed>> /\ dead' = dead \cup {p}
      /\ at' = [c \in Call |-> IF Home[c] = p /\ at[c] # "done" THEN "lost" ELSE at[c]]
      /\ slotLock' = [s \in Slot |-> IF slotLock[s] = p THEN NoProc ELSE slotLock[s]]
  BY DEF Die, workers
<1>2. \A q \in Proc, t \in Slot :
        /\ Holder(q, t)' = Holder(q, t) /\ Working(q, t)' = Working(q, t)
        /\ Holder(q, t) \in Call \cup {NoCall}
  BY <1>1 DEF Holder, Working, IInv, TypeInv, WorkerFields
<1>3. ASSUME NEW q \in Proc, NEW t \in Slot PROVE SlotInv(q, t)'
  <2>1. SlotInv(q, t)
    BY DEF IInv, PoolInv
  <2>2. Placed(q, t)'
    BY <1>1, <1>2, <2>1 DEF SlotInv, Placed
  <2>3. CASE q = p
    BY <1>1, <2>2, <2>3 DEF SlotInv
  <2>4. CASE q # p
    <3>1. Holder(q, t) # NoCall => at'[Holder(q, t)] = at[Holder(q, t)]
      BY <1>1, <1>2, <2>1, <2>4 DEF SlotInv, Placed
    <3>2. q \notin dead' => Held(q, t)'
      BY <1>1, <1>2, <2>1, <2>4 DEF SlotInv, Held
    <3>. QED  BY <1>1, <1>2, <2>1, <2>2, <3>1, <3>2 DEF SlotInv, Served, Emptied
  <2>. QED  BY <2>3, <2>4
<1>4. OneWorkerEach' /\ AnswerIsOwn'
  BY <1>1 DEF IInv, PoolInv, OneWorkerEach, AnswerIsOwn, Holder
<1>5. LostWithProcess'
  BY <1>1 DEF IInv, PoolInv, LostWithProcess
<1>. QED  BY <1>3, <1>4, <1>5 DEF PoolInv

\* What no step but those of calls, children and crashes touches.
LEMMA RestKeeps ==
  ASSUME IInv, UNCHANGED <<at, outcome, answer, worker, child, pipe, slotLock, closed, dead>>
  PROVE  PoolInv'
BY DEF IInv, PoolInv, SlotInv, Placed, Held, Served, Emptied, OneWorkerEach, LostWithProcess,
       AnswerIsOwn, Holder, Working

\* The invariant is inductive.
LEMMA StepKeeps == IInv /\ [Next]_vars => IInv'
<1>. SUFFICES ASSUME IInv, [Next]_vars PROVE IInv'
  OBVIOUS
<1>1. TypeInv'
  BY TypesAreKept DEF IInv
<1>2. CASE Edit \/ UNCHANGED vars
  <2>1. UNCHANGED <<at, outcome, answer, worker, child, pipe, slotLock, closed, dead>>
    BY <1>2 DEF Edit, vars, calls, workers, runtime
  <2>. QED  BY <1>1, <2>1, RestKeeps DEF IInv
<1>. QED
  BY <1>1, <1>2, ClaimKeeps, SendKeeps, ReceiveKeeps, AbandonKeeps, ReleaseKeeps, ChildKeeps,
     OutsideKeeps, CloseKeeps, DieKeeps
     DEF IInv, Next, CallStep

\* It holds before any call.
LEMMA InitHolds == Init => IInv
<1>. SUFFICES ASSUME Init PROVE IInv
  OBVIOUS
<1>1. TypeInv
  <2>1. NewWorker \in WorkerFields /\ NoChild \in ChildFields
    BY Fields
  <2>2. /\ worker \in [Proc -> [Slot -> WorkerFields]] /\ child \in [Proc -> [Slot -> ChildFields]]
        /\ pipe \in [Proc -> [Slot -> Seq(Message)]]
    BY <2>1 DEF Init
  <2>3. /\ at \in [Call -> Place]
        /\ outcome \in [Call -> {"none", "result", "cancelled", "failed"}]
        /\ answer \in [Call -> Call \cup {NoCall}]
        /\ asked \in [Call -> Revision \cup {NoRevision}]
        /\ slotLock \in [Slot -> Proc \cup {NoProc}] /\ source \in Revision
    BY DEF Init
  <2>. QED  BY <2>2, <2>3 DEF TypeInv
<1>2. \A p \in Proc, s \in Slot : Holder(p, s) = NoCall
  BY DEF Init, Holder, NewWorker
<1>3. \A p \in Proc, s \in Slot : SlotInv(p, s)
  BY <1>2 DEF Init, SlotInv, Placed, Held, Served, Emptied, Working, NoChild
<1>4. OneWorkerEach /\ LostWithProcess /\ AnswerIsOwn
  BY <1>2 DEF Init, OneWorkerEach, LostWithProcess, AnswerIsOwn
<1>. QED  BY <1>1, <1>3, <1>4 DEF IInv, PoolInv

-----------------------------------------------------------------------------
(* The results.                                                            *)

\* So it holds always.
LEMMA PoolIsSound == Spec => []IInv
BY InitHolds, StepKeeps, PTL DEF Spec

(* No two living runtimes have children at work under one slot number: each *)
(* of them has the slot's lock for as long, because only a call that has    *)
(* the lock makes a child work, and it stops the child or hears it out      *)
(* before it gives the lock up.  (The flock on .flow/worker-slots.)         *)
THEOREM SlotsAreExclusive == Spec => []SlotIsExclusive
<1>1. IInv => SlotIsExclusive
  <2>. SUFFICES ASSUME IInv, NEW p \in Live, NEW q \in Live, NEW s \in Slot,
                       Working(p, s), Working(q, s)
                PROVE  p = q
    BY DEF SlotIsExclusive
  <2>1. slotLock[s] = p
    BY DEF Live, IInv, PoolInv, SlotInv, Held, Served
  <2>2. slotLock[s] = q
    BY DEF Live, IInv, PoolInv, SlotInv, Held, Served
  <2>. QED  BY <2>1, <2>2
<1>. QED  BY <1>1, PoolIsSound, PTL

(* A closed pool leaves no process behind, whichever calls were under way   *)
(* when it was closed.  (close() and the finally block of run().)           *)
THEOREM ClosedPoolsAreEmpty == Spec => []ClosedPoolIsEmpty
<1>1. IInv => ClosedPoolIsEmpty
  BY DEF IInv, PoolInv, SlotInv, Emptied, Holder, ClosedPoolIsEmpty, Live
<1>. QED  BY <1>1, PoolIsSound, PTL

(* A result is that of the call it is returned to: what is in a worker's    *)
(* pipe is for the call that has the worker, and an answer is last in it.   *)
(* (run() and _serve, with warm workers.)                                   *)
THEOREM AnswersAreOwn == Spec => []AnswerIsOwn
<1>1. IInv => AnswerIsOwn
  BY DEF IInv, PoolInv
<1>. QED  BY <1>1, PoolIsSound, PTL

-----------------------------------------------------------------------------
(* The source of a build.                                                  *)


Loaded(p, s) == child[p][s].loaded
Label(p, s) == worker[p][s].label

\* Every build under way asked for a revision, one that was current then.
Asked(c) ==
  /\ c \in Prepares /\ at[c] \notin {"new", "lost"} => asked[c] # NoRevision
  /\ asked[c] # NoRevision => /\ at[c] # "new"
                             /\ asked[c] <= source /\ source \in since[c]

\* What a child imported is as new as its worker's label says.
Labelled(p, s) ==
  Loaded(p, s) # NoRevision =>
    /\ Loaded(p, s) <= source
    /\ Label(p, s) # NoRevision /\ Label(p, s) <= Loaded(p, s)

\* A child that has a build to do is labelled for it, and imports before it builds.
Building(p, s) ==
  Working(p, s) /\ child[p][s].call \in Prepares =>
    /\ Label(p, s) = asked[child[p][s].call] /\ Label(p, s) # NoRevision
    /\ child[p][s].state = "working" => Loaded(p, s) # NoRevision

\* What a child imported was current since the call, or is too old for it.
Known(p, s, c) ==
  Loaded(p, s) # NoRevision /\ asked[c] # NoRevision =>
    Loaded(p, s) \in since[c] \/ Loaded(p, s) < asked[c]

SourceInv ==
  /\ \A c \in Call : Asked(c)
  /\ \A p \in Proc, s \in Slot :
       Labelled(p, s) /\ Building(p, s) /\ \A c \in Call : Known(p, s, c)
  /\ since \in [Call -> SUBSET Revision]

-----------------------------------------------------------------------------
\* Revisions are numbers.
LEMMA Numbers ==
  ASSUME TypeInv
  PROVE  /\ source \in Nat
         /\ \A c \in Call : asked[c] # NoRevision => asked[c] \in Nat
         /\ \A p \in Proc, s \in Slot : Loaded(p, s) # NoRevision => Loaded(p, s) \in Nat
<1>1. source \in Nat /\ \A c \in Call : asked[c] # NoRevision => asked[c] \in Nat
  BY NumberAssumption DEF TypeInv
<1>2. ASSUME NEW p \in Proc, NEW s \in Slot, Loaded(p, s) # NoRevision
      PROVE  Loaded(p, s) \in Nat
  <2>1. child[p][s] \in ChildFields
    BY DEF TypeInv
  <2>2. child[p][s].loaded \in Revision \cup {NoRevision}
    BY <2>1 DEF ChildFields
  <2>. QED  BY <1>2, <2>2, NumberAssumption DEF Loaded
<1>. QED  BY <1>1, <1>2

\* A slot whose child is gone, or that keeps its child, its label and its call.
LEMMA SlotStays ==
  ASSUME SourceInv, UNCHANGED <<asked, since, source>>, NEW p \in Proc, NEW s \in Slot,
         \/ child'[p][s] = NoChild
         \/ /\ Loaded(p, s)' = Loaded(p, s) /\ Label(p, s)' = Label(p, s)
            /\ child'[p][s].call = child[p][s].call
            /\ child'[p][s].state \in {child[p][s].state, "idle", "exited"}
  PROVE  Labelled(p, s)' /\ Building(p, s)' /\ \A c \in Call : Known(p, s, c)'
<1>1. CASE child'[p][s] = NoChild
  BY <1>1 DEF Labelled, Building, Known, Loaded, Working, NoChild
<1>2. CASE /\ Loaded(p, s)' = Loaded(p, s) /\ Label(p, s)' = Label(p, s)
           /\ child'[p][s].call = child[p][s].call
           /\ child'[p][s].state \in {child[p][s].state, "idle", "exited"}
  <2>1. Labelled(p, s) /\ Building(p, s) /\ \A c \in Call : Known(p, s, c)
    BY DEF SourceInv
  <2>2. Labelled(p, s)' /\ \A c \in Call : Known(p, s, c)'
    BY <1>2, <2>1 DEF Labelled, Known
  <2>3. Building(p, s)'
    BY <1>2, <2>1 DEF Building, Working
  <2>. QED  BY <2>2, <2>3
<1>. QED  BY <1>1, <1>2

\* Only the request and the import change what a slot is about.
LEMMA SlotsStay ==
  ASSUME TypeInv, SourceInv, NEW c \in Call,
         Claim(c) \/ Receive(c) \/ Abandon(c) \/ Release(c),
         NEW q \in Proc, NEW t \in Slot
  PROVE  Labelled(q, t)' /\ Building(q, t)' /\ \A d \in Call : Known(q, t, d)'
<1>. USE CallAssumption
<1>. DEFINE p == Home[c]
<1>1. p \in Proc /\ UNCHANGED <<asked, since, source>>
  BY DEF Claim, Receive, Abandon, Release, runtime
<1>2. ASSUME NEW s \in Slot, Stop(p, s)
      PROVE  \/ child'[q][t] = NoChild
             \/ child'[q][t] = child[q][t] /\ Label(q, t)' = Label(q, t)
  <2>1. child' = [child EXCEPT ![p][s] = NoChild]
    BY <1>2 DEF Stop
  <2>2. CASE q = p /\ t = s
    BY <1>1, <2>1, <2>2 DEF TypeInv
  <2>3. CASE q # p \/ t # s
    BY <1>2, <2>1, <2>3 DEF Stop, TypeInv, Label
  <2>. QED  BY <2>2, <2>3
<1>3. \/ child'[q][t] = NoChild
      \/ child'[q][t] = child[q][t] /\ Label(q, t)' = Label(q, t)
  <2>1. CASE Claim(c)
    BY <1>1, <2>1 DEF Claim, TypeInv, WorkerFields, Label
  <2>2. CASE Receive(c)
    <3>1. PICK s \in Slot : Receive(c)!2!(s)
      BY <2>2 DEF Receive
    <3>2. CASE /\ UNCHANGED child
               /\ UNCHANGED worker \/ worker' = [worker EXCEPT ![p][s].tasks = @ + 1]
      <4>1. CASE UNCHANGED worker
        BY <3>2, <4>1 DEF Label
      <4>2. CASE worker' = [worker EXCEPT ![p][s].tasks = @ + 1]
        <5>1. Label(q, t)' = Label(q, t)
          BY <1>1, <4>2 DEF TypeInv, WorkerFields, Label
        <5>. QED  BY <3>2, <5>1
      <4>. QED  BY <3>2, <4>1, <4>2
    <3>3. CASE Stop(p, s)
      BY <1>2, <3>3
    <3>. QED  BY <3>1, <3>2, <3>3
  <2>3. CASE Abandon(c)
    BY <1>2, <2>3 DEF Abandon
  <2>4. CASE Release(c)
    <3>1. PICK s \in Slot : Release(c)!2!(s)
      BY <2>4 DEF Release
    <3>2. CASE p \in closed
      <4>1. /\ child' = [child EXCEPT ![p][s] = NoChild]
            /\ worker' = [worker EXCEPT ![p][s] = NewWorker]
        BY <3>1, <3>2
      <4>. QED  BY <1>1, <4>1 DEF TypeInv, Label
    <3>3. CASE p \notin closed
      <4>1. /\ child' = child
            /\ worker' = [worker EXCEPT ![p][s] = [worker[p][s] EXCEPT !.holder = NoCall]]
        BY <3>1, <3>3 DEF TypeInv
      <4>. QED  BY <1>1, <4>1 DEF TypeInv, WorkerFields, Label
    <3>. QED  BY <3>2, <3>3
  <2>. QED  BY <2>1, <2>2, <2>3, <2>4
<1>. QED  BY <1>1, <1>3, SlotStays DEF Loaded

\* A request is labelled with the revision of its call, and replaces a child
\* that is labelled otherwise.
LEMMA SendIsLabelled ==
  ASSUME TypeInv, SourceInv, NEW c \in Call, Send(c), NEW q \in Proc, NEW t \in Slot
  PROVE  Labelled(q, t)' /\ Building(q, t)' /\ \A d \in Call : Known(q, t, d)'
<1>. USE CallAssumption
<1>. DEFINE p == Home[c]
<1>1. PICK s \in Slot : Send(c)!2!(s)
  BY DEF Send
<1>. DEFINE old == IF MustReplace(c, s) THEN NoChild ELSE child[p][s]
            was == IF MustReplace(c, s) THEN NewWorker ELSE worker[p][s]
<1>2. p \in Proc /\ UNCHANGED <<asked, since, source>> /\ at[c] = "claimed"
  BY DEF Send, runtime
<1>3. /\ child' = [child EXCEPT ![p][s] =
                    [old EXCEPT !.state = "asked", !.call = c, !.told = FALSE]]
      /\ worker' = [worker EXCEPT ![p][s] =
                     [holder |-> c, tasks |-> was.tasks,
                      label |-> IF asked[c] # NoRevision THEN asked[c] ELSE was.label]]
  BY <1>1
<1>4. CASE q # p \/ t # s
  <2>1. child'[q][t] = child[q][t] /\ worker'[q][t] = worker[q][t]
    BY <1>3, <1>4 DEF TypeInv
  <2>. QED  BY <1>2, <2>1, SlotStays DEF Loaded, Label
<1>5. CASE q = p /\ t = s
  <2>1. old \in ChildFields
    <3>1. child[p][s] \in ChildFields
      BY <1>2 DEF TypeInv
    <3>. QED  BY <3>1, Fields
  <2>2. /\ child'[q][t] = [old EXCEPT !.state = "asked", !.call = c, !.told = FALSE]
        /\ Label(q, t)' = IF asked[c] # NoRevision THEN asked[c] ELSE was.label
    BY <1>2, <1>3, <1>5 DEF TypeInv, Label
  <2>3. Loaded(q, t)' = old.loaded /\ child'[q][t].call = c /\ child'[q][t].state = "asked"
    <3>. HIDE DEF old
    <3>. QED  BY <2>1, <2>2 DEF ChildFields, Loaded
  <2>4. c \in Prepares => asked[c] # NoRevision
    BY <1>2 DEF SourceInv, Asked
  <2>5. Building(q, t)'
    BY <1>2, <2>2, <2>3, <2>4 DEF Building
  <2>6. CASE MustReplace(c, s)
    <3>1. Loaded(q, t)' = NoRevision
      BY <2>3, <2>6 DEF NoChild
    <3>. QED  BY <2>5, <3>1 DEF Labelled, Known
  <2>7. CASE ~MustReplace(c, s)
    <3>1. Loaded(q, t)' = Loaded(q, t)
      BY <1>5, <2>3, <2>7 DEF Loaded
    <3>2. Label(q, t)' = Label(q, t) \/ Label(q, t) = NoRevision
      BY <1>5, <2>2, <2>7 DEF MustReplace, Label
    <3>3. Labelled(q, t) /\ \A d \in Call : Known(q, t, d)
      BY DEF SourceInv
    <3>. QED  BY <1>2, <2>5, <3>1, <3>2, <3>3 DEF Labelled, Known
  <2>. QED  BY <2>6, <2>7
<1>. QED  BY <1>4, <1>5

\* An import brings the source of now, which is not older than the label.
LEMMA ChildIsKnown ==
  ASSUME TypeInv, SourceInv, NEW p \in Proc, NEW s \in Slot, ChildStep(p, s),
         NEW q \in Proc, NEW t \in Slot
  PROVE  Labelled(q, t)' /\ Building(q, t)' /\ \A d \in Call : Known(q, t, d)'
<1>1. UNCHANGED <<asked, since, source, worker>>
  BY DEF ChildStep, ChildBegin, ChildReport, ChildAnswer, ChildExit, ChildOnly, calls
<1>2. Label(q, t)' = Label(q, t)
  BY <1>1 DEF Label
<1>3. child[q][t] \in ChildFields
  BY DEF TypeInv
<1>4. CASE q # p \/ t # s
  <2>1. child'[q][t] = child[q][t]
    BY <1>4 DEF ChildStep, ChildBegin, ChildReport, ChildAnswer, ChildExit, TypeInv
  <2>. QED  BY <1>1, <1>2, <2>1, SlotStays DEF Loaded
<1>5. CASE q = p /\ t = s /\ ChildBegin(p, s)
  <2>. DEFINE imports == Loaded(q, t) = NoRevision /\ child[q][t].call \in Prepares
  <2>1. /\ Loaded(q, t)' = IF imports THEN source ELSE Loaded(q, t)
        /\ child'[q][t].call = child[q][t].call /\ child'[q][t].state = "working"
        /\ Working(q, t)
    BY <1>3, <1>5 DEF ChildBegin, TypeInv, ChildFields, Loaded, Working
  <2>2. /\ Labelled(q, t) /\ Building(q, t) /\ \A d \in Call : Known(q, t, d) /\ Asked(d)
        /\ source \in Nat /\ child[q][t].call \in Call \cup {NoCall}
    BY <1>3, NumberAssumption DEF SourceInv, TypeInv, ChildFields
  <2>3. CASE imports
    <3>. DEFINE c == child[q][t].call
    <3>1. /\ Loaded(q, t)' = source /\ source # NoRevision /\ c \in Call
          /\ Label(q, t) = asked[c] /\ Label(q, t) # NoRevision /\ asked[c] <= source
      BY <2>1, <2>2, <2>3, CallAssumption, NoneAssumption DEF Building, Asked, TypeInv
    <3>2. Labelled(q, t)'
      BY <1>1, <1>2, <2>2, <3>1 DEF Labelled
    <3>3. Building(q, t)'
      BY <1>1, <1>2, <2>1, <3>1 DEF Building
    <3>4. \A d \in Call : Known(q, t, d)'
      BY <1>1, <2>2, <3>1 DEF Known, Asked
    <3>. QED  BY <3>2, <3>3, <3>4
  <2>4. CASE ~imports
    <3>1. Loaded(q, t)' = Loaded(q, t)
      BY <2>1, <2>4
    <3>2. Labelled(q, t)' /\ \A d \in Call : Known(q, t, d)'
      BY <1>1, <1>2, <2>2, <3>1 DEF Labelled, Known
    <3>3. Building(q, t)'
      BY <1>1, <1>2, <2>1, <2>2, <2>4, <3>1 DEF Building
    <3>. QED  BY <3>2, <3>3
  <2>. QED  BY <2>3, <2>4
<1>6. CASE q = p /\ t = s /\ ~ChildBegin(p, s)
  <2>1. /\ Loaded(q, t)' = Loaded(q, t) /\ child'[q][t].call = child[q][t].call
        /\ child'[q][t].state \in {child[q][t].state, "idle", "exited"}
    <3>1. CASE ChildReport(p, s)
      BY <1>3, <1>6, <3>1 DEF ChildReport, TypeInv, ChildFields, Loaded
    <3>2. CASE ChildAnswer(p, s)
      <4>1. PICK state \in {"idle", "exited"} : child' = [child EXCEPT ![p][s].state = state]
        BY <3>2 DEF ChildAnswer
      <4>. QED  BY <1>3, <1>6, <4>1 DEF TypeInv, ChildFields, Loaded
    <3>3. CASE ChildExit(p, s)
      BY <1>3, <1>6, <3>3 DEF ChildExit, TypeInv, ChildFields, Loaded
    <3>. QED  BY <1>6, <3>1, <3>2, <3>3 DEF ChildStep
  <2>. QED  BY <1>1, <1>2, <2>1, SlotStays
<1>. QED  BY <1>4, <1>5, <1>6

\* close() takes the child with the label.
LEMMA CloseIsKnown ==
  ASSUME TypeInv, SourceInv, NEW p \in Proc, Close(p), NEW q \in Proc, NEW t \in Slot
  PROVE  Labelled(q, t)' /\ Building(q, t)' /\ \A d \in Call : Known(q, t, d)'
<1>1. UNCHANGED <<asked, since, source>>
  BY DEF Close, calls
<1>2. \/ child'[q][t] = NoChild
      \/ child'[q][t] = child[q][t] /\ worker'[q][t] = worker[q][t]
  BY DEF Close, TypeInv
<1>. QED  BY <1>1, <1>2, SlotStays DEF Loaded, Label

\* A call asks for the source of now.
LEMMA EnterAsks ==
  ASSUME TypeInv, SourceInv, NEW c \in Call, Enter(c)
  PROVE  SourceInv'
<1>1. /\ UNCHANGED <<worker, child, source>> /\ at[c] = "new"
      /\ at' = [at EXCEPT ![c] = "waiting"] /\ since' = [since EXCEPT ![c] = {source}]
      /\ asked' = [asked EXCEPT ![c] = IF c \in Prepares THEN source ELSE NoRevision]
      /\ source \in Revision /\ source \in Nat
  BY NumberAssumption DEF Enter, Goto, workers, runtime, TypeInv
<1>2. \A d \in Call \ {c} : asked'[d] = asked[d] /\ since'[d] = since[d] /\ at'[d] = at[d]
  BY <1>1 DEF TypeInv, SourceInv
<1>3. /\ asked'[c] = IF c \in Prepares THEN source ELSE NoRevision
      /\ since'[c] = {source} /\ at'[c] = "waiting"
  BY <1>1 DEF TypeInv, SourceInv
<1>4. asked[c] = NoRevision
  BY <1>1 DEF SourceInv, Asked
<1>5. ASSUME NEW d \in Call PROVE Asked(d)'
  BY <1>1, <1>2, <1>3, NoneAssumption DEF SourceInv, Asked
<1>6. ASSUME NEW p \in Proc, NEW s \in Slot
      PROVE  Labelled(p, s)' /\ Building(p, s)' /\ \A d \in Call : Known(p, s, d)'
  <2>1. Labelled(p, s) /\ Building(p, s) /\ \A d \in Call : Known(p, s, d)
    BY DEF SourceInv
  <2>2. /\ Loaded(p, s)' = Loaded(p, s) /\ Label(p, s)' = Label(p, s) /\ child' = child
        /\ child[p][s].call \in Call \cup {NoCall}
        /\ Loaded(p, s) \in Revision \cup {NoRevision}
    BY <1>1 DEF Loaded, Label, TypeInv, ChildFields
  <2>3. Labelled(p, s)'
    BY <1>1, <2>1, <2>2 DEF Labelled
  <2>4. Building(p, s)'
    <3>1. Working(p, s) /\ child[p][s].call \in Prepares =>
            child[p][s].call # c /\ child[p][s].call \in Call
      BY <1>4, <2>1, CallAssumption DEF Building
    <3>. QED  BY <1>2, <2>1, <2>2, <3>1 DEF Building, Working
  <2>5. \A d \in Call \ {c} : Known(p, s, d)'
    BY <1>2, <2>1, <2>2 DEF Known
  <2>6. Known(p, s, c)'
    BY <1>1, <1>3, <2>1, <2>2, Numbers DEF Known, Labelled
  <2>. QED  BY <2>3, <2>4, <2>5, <2>6
<1>7. since' \in [Call -> SUBSET Revision]
  BY <1>1 DEF SourceInv
<1>. QED  BY <1>5, <1>6, <1>7 DEF SourceInv

\* An edit brings a later revision, which every call under way has known.
LEMMA EditIsLater ==
  ASSUME TypeInv, SourceInv, Edit, ~CanUndo
  PROVE  SourceInv'
<1>1. /\ UNCHANGED <<at, asked, worker, child>> /\ source' \in Revision /\ source < source'
      /\ since' = [c \in Call |-> IF at[c] = "new" THEN {} ELSE since[c] \cup {source'}]
      /\ source \in Nat /\ source' \in Nat
  BY NumberAssumption DEF Edit, workers, TypeInv
<1>2. ASSUME NEW c \in Call PROVE Asked(c)'
  <2>1. Asked(c) /\ asked[c] \in Nat \cup {NoRevision}
    BY NumberAssumption DEF SourceInv, TypeInv
  <2>. QED  BY <1>1, <2>1 DEF Asked
<1>3. ASSUME NEW p \in Proc, NEW s \in Slot
      PROVE  Labelled(p, s)' /\ Building(p, s)' /\ \A d \in Call : Known(p, s, d)'
  <2>1. /\ Labelled(p, s) /\ Building(p, s)
        /\ \A d \in Call : Known(p, s, d) /\ Asked(d)
    BY DEF SourceInv
  <2>2. /\ Loaded(p, s)' = Loaded(p, s) /\ Label(p, s)' = Label(p, s)
        /\ Loaded(p, s) # NoRevision => Loaded(p, s) \in Nat
    BY <1>1, Numbers DEF Loaded, Label
  <2>3. Labelled(p, s)'
    BY <1>1, <2>1, <2>2 DEF Labelled
  <2>4. Building(p, s)'
    BY <1>1, <2>1, <2>2 DEF Building, Working
  <2>5. \A d \in Call : Known(p, s, d)'
    BY <1>1, <2>1, <2>2 DEF Known, Asked
  <2>. QED  BY <2>3, <2>4, <2>5
<1>4. since' \in [Call -> SUBSET Revision]
  BY <1>1 DEF SourceInv
<1>. QED  BY <1>2, <1>3, <1>4 DEF SourceInv

\* A step that leaves source and requests as they are keeps what was asked.
LEMMA StillAsked ==
  ASSUME SourceInv, UNCHANGED <<asked, since, source>>,
         \A d \in Call : (at[d] = "new" => at'[d] \in {"new", "lost"})
                         /\ (at'[d] = "new" => at[d] = "new")
                         /\ (at[d] = "lost" => at'[d] = "lost"),
         NEW c \in Call
  PROVE  Asked(c)'
BY DEF SourceInv, Asked

LEMMA SourceStep == TypeInv /\ SourceInv /\ ~CanUndo /\ [Next]_vars => SourceInv'
<1>. SUFFICES ASSUME TypeInv, SourceInv, ~CanUndo, [Next]_vars PROVE SourceInv'
  OBVIOUS
<1>1. ASSUME UNCHANGED <<asked, since, source>>,
             \A d \in Call : (at[d] = "new" => at'[d] \in {"new", "lost"})
                             /\ (at'[d] = "new" => at[d] = "new")
                             /\ (at[d] = "lost" => at'[d] = "lost"),
             \A p \in Proc, s \in Slot :
               Labelled(p, s)' /\ Building(p, s)' /\ \A c \in Call : Known(p, s, c)'
      PROVE  SourceInv'
  BY <1>1, StillAsked DEF SourceInv
<1>2. ASSUME NEW c \in Call, CallStep(c) PROVE SourceInv'
  <2>1. UNCHANGED <<asked, since, source>>
    BY <1>2 DEF CallStep, Claim, GiveUp, Send, Receive, Abandon, Release, runtime
  <2>2. /\ at' = at \/ \E there \in {"claimed", "done", "running", "releasing"} : Goto(c, there)
        /\ at[c] \notin {"new", "lost"}
    BY <1>2 DEF CallStep, Claim, GiveUp, Send, Receive, Abandon, Release
  <2>3. ASSUME GiveUp(c), NEW p \in Proc, NEW s \in Slot
        PROVE  Labelled(p, s)' /\ Building(p, s)' /\ \A d \in Call : Known(p, s, d)'
    BY <2>1, <2>3, SlotStays DEF GiveUp, workers, Loaded, Label
  <2>4. ASSUME NEW p \in Proc, NEW s \in Slot
        PROVE  Labelled(p, s)' /\ Building(p, s)' /\ \A d \in Call : Known(p, s, d)'
    BY <1>2, <2>3, SlotsStay, SendIsLabelled DEF CallStep
  <2>. QED  BY <1>1, <2>1, <2>2, <2>4 DEF Goto, TypeInv
<1>3. ASSUME NEW p \in Proc, NEW s \in Slot, ChildStep(p, s) PROVE SourceInv'
  <2>1. UNCHANGED <<asked, since, source, at>>
    BY <1>3 DEF ChildStep, ChildBegin, ChildReport, ChildAnswer, ChildExit, ChildOnly, calls
  <2>. QED  BY <1>1, <1>3, <2>1, ChildIsKnown
<1>4. ASSUME NEW p \in Proc, Close(p) PROVE SourceInv'
  <2>1. UNCHANGED <<asked, since, source, at>>
    BY <1>4 DEF Close, calls
  <2>. QED  BY <1>1, <1>4, <2>1, CloseIsKnown
<1>5. CASE \/ \E c \in Call : Cancel(c)
           \/ \E p \in Proc : Die(p)
           \/ UNCHANGED vars
  <2>1. /\ UNCHANGED <<asked, since, source, worker, child>>
        /\ UNCHANGED at \/ \E p \in Proc : Die(p)
    BY <1>5 DEF Cancel, Die, vars, calls, workers, runtime
  <2>2. \A d \in Call : (at[d] = "new" => at'[d] \in {"new", "lost"})
                        /\ (at'[d] = "new" => at[d] = "new")
                        /\ (at[d] = "lost" => at'[d] = "lost")
    BY <2>1 DEF Die
  <2>3. ASSUME NEW p \in Proc, NEW s \in Slot
        PROVE  Labelled(p, s)' /\ Building(p, s)' /\ \A d \in Call : Known(p, s, d)'
    BY <2>1, SlotStays DEF Loaded, Label
  <2>. QED  BY <1>1, <2>1, <2>2, <2>3
<1>. QED  BY <1>2, <1>3, <1>4, <1>5, EnterAsks, EditIsLater DEF Next

(* A build never runs on source older than it was asked for, whatever is    *)
(* edited while it waits, while its child starts and between the builds of  *)
(* a warm child: the child imported a revision current at some time since   *)
(* the caller computed the one it asked for.  Only an edit that is undone   *)
(* breaks it.  (The labels of pool.py and the revision of build/worker.py.) *)
THEOREM SourceIsNotStale ==
  ASSUME ~CanUndo
  PROVE  Spec => []NoStaleSource
<1>1. Init => TypeInv /\ SourceInv
  <2>1. Init => SourceInv
    <3>. SUFFICES ASSUME Init PROVE SourceInv
      OBVIOUS
    <3>1. \A p \in Proc, s \in Slot : Loaded(p, s) = NoRevision /\ ~Working(p, s)
      BY DEF Init, Loaded, Working, NoChild
    <3>2. \A c \in Call : Asked(c)
      BY DEF Init, Asked
    <3>. QED  BY <3>1, <3>2 DEF Init, SourceInv, Labelled, Building, Known
  <2>. QED  BY <2>1, InitHolds DEF IInv
<1>2. TypeInv /\ SourceInv /\ [Next]_vars => (TypeInv /\ SourceInv)'
  BY TypesAreKept, SourceStep
<1>3. TypeInv /\ SourceInv => NoStaleSource
  <2>. SUFFICES ASSUME TypeInv, SourceInv, NEW p \in Proc, NEW s \in Slot,
                       child[p][s].state = "working", child[p][s].call \in Prepares
                PROVE  child[p][s].loaded \in since[child[p][s].call]
    BY DEF NoStaleSource
  <2>. DEFINE c == child[p][s].call
  <2>1. c \in Call
    BY CallAssumption
  <2>2. /\ Label(p, s) = asked[c] /\ asked[c] # NoRevision
        /\ Loaded(p, s) # NoRevision /\ Label(p, s) <= Loaded(p, s)
    BY DEF SourceInv, Building, Working, Labelled
  <2>3. Loaded(p, s) \in Nat /\ asked[c] \in Nat
    BY <2>1, <2>2, Numbers
  <2>4. Loaded(p, s) \in since[c] \/ Loaded(p, s) < asked[c]
    BY <2>1, <2>2 DEF SourceInv, Known
  <2>5. asked[c] <= Loaded(p, s)
    BY <2>2
  <2>6. ~(Loaded(p, s) < asked[c])
    BY <2>3, <2>5
  <2>7. Loaded(p, s) \in since[c]
    BY <2>4, <2>6
  <2>. QED  BY <2>7 DEF Loaded
<1>. QED  BY <1>1, <1>2, <1>3, PTL DEF Spec
=============================================================================
