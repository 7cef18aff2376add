-------------------------- MODULE JobServiceProofs --------------------------
(***************************************************************************)
(* Proofs about JobService, for any number of jobs, runtime processes and  *)
(* worker threads.                                                         *)
(*                                                                         *)
(* Three inductive invariants build on each other.  TypeInv holds the      *)
(* types and the journal's invariants of JobStoreProofs, which follow once *)
(* every step of a process is seen to be one of the journal's operations.  *)
(* IInv adds what the runtime lock excludes (LockDiscipline), which        *)
(* process and thread a job is with (ThreadPlace, WaitingPlace) and        *)
(* what the journal shows of it there (JobProgress).  TrackInv adds that   *)
(* no job is lost on its way from submit() to its terminal record.  The    *)
(* last part is the refinement of JobContract.                             *)
(***************************************************************************)
EXTENDS JobService, JobStoreProofs, FiniteSetTheorems, SequenceTheorems

Busy == ThreadPC \ {"idle", "exited"}

BusyHasJob ==
  \A p \in Proc, t \in Thread : pc[p][t] \in Busy => task[p][t] \in Job

TypeInv == TypeOK /\ JournalInv /\ BusyHasJob

-----------------------------------------------------------------------------
(* Lemmas on the data.                                                     *)

LEMMA RemoveAtFacts ==
  ASSUME NEW S, NEW s \in Seq(S), NEW i \in DOMAIN s
  PROVE  /\ RemoveAt(s, i) \in Seq(S)
         /\ \A k \in DOMAIN RemoveAt(s, i) : \E m \in DOMAIN s : RemoveAt(s, i)[k] = s[m]
         /\ s[i] \in S
<1>. DEFINE a == SubSeq(s, 1, i - 1)
            b == SubSeq(s, i + 1, Len(s))
<1>1. i \in 1 .. Len(s) /\ Len(s) \in Nat /\ DOMAIN s = 1 .. Len(s)
  OBVIOUS
<1>2. \A k \in DOMAIN s : s[k] \in S
  BY <1>1, ElementOfSeq
<1>3. /\ a \in Seq(S) /\ Len(a) = i - 1
      /\ \A k \in 1 .. i - 1 : a[k] = s[k]
  <2>1. \A k \in 1 .. i - 1 : s[k] \in S
    BY <1>1, <1>2
  <2>2. 1 \in Int /\ i - 1 \in Int
    BY <1>1
  <2>3. /\ a \in Seq(S) /\ Len(a) = IF 1 <= i - 1 THEN (i - 1) - 1 + 1 ELSE 0
        /\ \A k \in 1 .. (i - 1) - 1 + 1 : a[k] = s[1 + k - 1]
    BY <2>1, <2>2, SubSeqProperties
  <2>. QED  BY <2>3, <1>1
<1>4. /\ b \in Seq(S) /\ Len(b) = Len(s) - i
      /\ \A k \in 1 .. Len(s) - i : b[k] = s[i + k]
  <2>1. \A k \in i + 1 .. Len(s) : s[k] \in S
    BY <1>1, <1>2
  <2>2. i + 1 \in Int /\ Len(s) \in Int
    BY <1>1
  <2>3. /\ b \in Seq(S)
        /\ Len(b) = IF i + 1 <= Len(s) THEN Len(s) - (i + 1) + 1 ELSE 0
        /\ \A k \in 1 .. Len(s) - (i + 1) + 1 : b[k] = s[i + 1 + k - 1]
    BY <2>1, <2>2, SubSeqProperties
  <2>4. i + 1 <= Len(s) => Len(s) - (i + 1) + 1 = Len(s) - i
    BY <1>1
  <2>5. ~(i + 1 <= Len(s)) => Len(s) - i = 0
    BY <1>1
  <2>6. Len(s) - (i + 1) + 1 = Len(s) - i
    BY <1>1
  <2>7. \A k \in 1 .. Len(s) - i : i + 1 + k - 1 = i + k
    BY <1>1
  <2>. HIDE DEF b
  <2>. QED  BY <2>3, <2>4, <2>5, <2>6, <2>7
<1>5. RemoveAt(s, i) = a \o b
  BY DEF RemoveAt
<1>. HIDE DEF a, b
<1>6. /\ a \o b \in Seq(S) /\ Len(a \o b) = Len(a) + Len(b)
      /\ \A k \in 1 .. Len(a) + Len(b) :
           (a \o b)[k] = IF k <= Len(a) THEN a[k] ELSE b[k - Len(a)]
  BY <1>3, <1>4, ConcatProperties
<1>7. ASSUME NEW k \in DOMAIN (a \o b)
      PROVE  \E m \in DOMAIN s : (a \o b)[k] = s[m]
  <2>1. k \in 1 .. Len(a) + Len(b) /\ Len(a) \in Nat /\ Len(b) \in Nat
    BY <1>3, <1>4, <1>6
  <2>2. CASE k <= Len(a)
    <3>1. (a \o b)[k] = s[k] /\ k \in DOMAIN s
      BY <1>1, <1>3, <1>6, <2>1, <2>2
    <3>. QED  BY <3>1
  <2>3. CASE k > Len(a)
    <3>. DEFINE m == i + (k - Len(a))
    <3>1. k - Len(a) \in 1 .. Len(b)
      BY <2>1, <2>3
    <3>2. (a \o b)[k] = b[k - Len(a)]
      BY <1>6, <2>1, <2>3
    <3>3. b[k - Len(a)] = s[m]
      BY <1>4, <3>1
    <3>4. m \in DOMAIN s
      BY <1>1, <1>4, <3>1
    <3>. QED  BY <3>2, <3>3, <3>4
  <2>. QED  BY <2>1, <2>2, <2>3
<1>. QED  BY <1>2, <1>6, <1>7, <1>5

LEMMA ThreadCount == Cardinality(Thread) \in Nat
BY ThreadAssumption, FS_CardinalityType

-----------------------------------------------------------------------------
(* The journal under the processes: no step of a process changes it in any *)
(* way but by one of its operations.                                       *)

LEMMA ServiceStepOperations ==
  ASSUME BusyHasJob, [Next]_vars
  PROVE  \/ UNCHANGED journal \/ FailInterrupted
         \/ \E p \in Proc, t \in Thread :
              (StartTask(p, t) \/ EndTask(p, t)) /\ task[p][t] \in Job
         \/ \E j \in Job : \/ Create(j) \/ RequestCancel(j)
                          \/ \E progress \in 0 .. MaxProgress : Report(j, progress)
<1>1. CASE UNCHANGED vars
  BY <1>1 DEF vars
<1>2. ASSUME NEW p \in Proc,
             \/ \E recover \in BOOLEAN : Open(p, recover)
             \/ TryExclusive(p) \/ Share(p) \/ SubmitDispatch(p)
             \/ \E wait, cancel \in BOOLEAN : Shutdown(p, wait, cancel)
             \/ ShutdownCancelled(p) \/ DrainTest(p) \/ DrainGet(p) \/ Seal(p)
             \/ Join(p) \/ Release(p) \/ Die(p)
      PROVE  UNCHANGED journal
  BY <1>2 DEF Open, TryExclusive, Share, SubmitDispatch, Shutdown, ShutdownCancelled,
              DrainTest, DrainGet, Seal, Join, Release, Die
<1>3. ASSUME NEW p \in Proc, Recover(p)
      PROVE  FailInterrupted
  BY <1>3 DEF Recover
<1>4. ASSUME NEW p \in Proc, NEW j \in Job,
             SubmitCreate(p, j) \/ Cancel(p, j) \/ ShutdownCancel(p, j)
      PROVE  Create(j) \/ RequestCancel(j)
  BY <1>4 DEF SubmitCreate, Cancel, ShutdownCancel, CancelRequest
<1>5. ASSUME NEW p \in Proc, NEW j \in Job, NEW caller, CancelSignal(p, caller, j)
      PROVE  UNCHANGED journal
  BY <1>5 DEF CancelSignal
<1>6. ASSUME NEW p \in Proc, NEW t \in Thread, ThreadStep(p, t)
      PROVE  \/ UNCHANGED journal
             \/ (StartTask(p, t) \/ EndTask(p, t)) /\ task[p][t] \in Job
             \/ \E j \in Job, progress \in 0 .. MaxProgress : Report(j, progress)
  <2>1. CASE Take(p, t) \/ TakeSentinel(p, t) \/ Checkpoint(p, t) \/ Work(p, t)
             \/ PopTask(p, t)
    BY <2>1 DEF Take, TakeSentinel, Checkpoint, Work, PopTask
  <2>2. CASE StartTask(p, t) \/ ReportTask(p, t) \/ EndTask(p, t)
    <3>1. task[p][t] \in Job
      BY <2>2 DEF StartTask, ReportTask, EndTask, At, BusyHasJob, Busy, ThreadPC
    <3>. QED  BY <3>1, <2>2 DEF ReportTask
  <2>. QED  BY <1>6, <2>1, <2>2 DEF ThreadStep
<1>. QED  BY <1>1, <1>2, <1>3, <1>4, <1>5, <1>6 DEF Next, ShutdownStep

LEMMA ServiceStepIsJournalStep == BusyHasJob /\ [Next]_vars => [JournalStep]_journal
BY ServiceStepOperations DEF StartTask, EndTask, JournalStep, JobOperation

-----------------------------------------------------------------------------
(* The types.                                                              *)

LEMMA InitTypeInv == Init => TypeInv
<1>. SUFFICES ASSUME Init PROVE TypeInv
  OBVIOUS
<1>1. JournalInv
  BY JournalInitInv DEF Init
<1>2. ProcessTypeOK
  BY DEF Init, ProcessTypeOK, Stage, NoMode
<1>3. ExecutorTypeOK
  BY ThreadCount DEF Init, ExecutorTypeOK, ThreadPC
<1>4. BusyHasJob
  BY DEF Init, BusyHasJob, Busy
<1>. QED  BY <1>1, <1>2, <1>3, <1>4 DEF TypeInv, TypeOK, JournalInv

\* The steps that leave the executor alone.
LEMMA ProcessTypeStep ==
  ASSUME ProcessTypeOK, ExecutorTypeOK, NEW p \in Proc,
         \/ \E recover \in BOOLEAN : Open(p, recover)
         \/ TryExclusive(p) \/ Recover(p) \/ Share(p)
         \/ \E j \in Job : SubmitCreate(p, j) \/ Cancel(p, j) \/ ShutdownCancel(p, j)
         \/ \E wait, cancel \in BOOLEAN : Shutdown(p, wait, cancel)
         \/ ShutdownCancelled(p) \/ DrainTest(p) \/ Join(p) \/ Release(p)
  PROVE  ProcessTypeOK' /\ UNCHANGED executor
<1>. USE DEF ProcessTypeOK, Goto, SetLock, Stage, Constructing, ShuttingDown
<1>1. CASE \E recover \in BOOLEAN : Open(p, recover)
  BY <1>1 DEF Open
<1>2. CASE TryExclusive(p)
  BY <1>2 DEF TryExclusive
<1>3. CASE Recover(p)
  BY <1>3 DEF Recover
<1>4. CASE Share(p)
  BY <1>4 DEF Share, NoMode
<1>5. ASSUME NEW j \in Job, SubmitCreate(p, j)
      PROVE  ProcessTypeOK' /\ UNCHANGED executor
  BY <1>5 DEF SubmitCreate
<1>6. CASE \E j \in Job : Cancel(p, j)
  BY <1>6 DEF Cancel, CancelRequest, Caller
<1>7. ASSUME NEW wait \in BOOLEAN, NEW cancel \in BOOLEAN, Shutdown(p, wait, cancel)
      PROVE  ProcessTypeOK' /\ UNCHANGED executor
  <2>1. /\ mode' \in [Proc -> [recover : BOOLEAN, wait : BOOLEAN, cancel : BOOLEAN]]
        /\ todo' \in [Proc -> SUBSET Job]
    BY <1>7 DEF Shutdown, ExecutorTypeOK
  <2>. QED  BY <1>7, <2>1 DEF Shutdown
<1>8. CASE \E j \in Job : ShutdownCancel(p, j)
  BY <1>8 DEF ShutdownCancel, CancelRequest, Caller
<1>9. CASE ShutdownCancelled(p)
  BY <1>9 DEF ShutdownCancelled
<1>10. CASE DrainTest(p)
  BY <1>10 DEF DrainTest
<1>11. CASE Join(p)
  BY <1>11 DEF Join
<1>12. CASE Release(p)
  BY <1>12 DEF Release
<1>. QED  BY <1>1, <1>2, <1>3, <1>4, <1>5, <1>6, <1>7, <1>8, <1>9, <1>10, <1>11, <1>12

\* What the other threads see of a thread's step: nothing.
LEMMA PcUpdate ==
  ASSUME ExecutorTypeOK, NEW p \in Proc, NEW t \in Thread, NEW there \in ThreadPC,
         ThreadGoto(p, t, there)
  PROVE  /\ pc' \in [Proc -> [Thread -> ThreadPC]] /\ pc'[p][t] = there
         /\ \A q \in Proc, u \in Thread : q # p \/ u # t => pc'[q][u] = pc[q][u]
BY DEF ExecutorTypeOK, ThreadGoto

LEMMA TaskUpdate ==
  ASSUME ExecutorTypeOK, NEW p \in Proc, NEW t \in Thread, NEW j \in Job \cup {NoJob},
         task' = [task EXCEPT ![p][t] = j]
  PROVE  /\ task' \in [Proc -> [Thread -> Job \cup {NoJob}]] /\ task'[p][t] = j
         /\ \A q \in Proc, u \in Thread : q # p \/ u # t => task'[q][u] = task[q][u]
BY DEF ExecutorTypeOK

\* The steps of a worker thread.
LEMMA ThreadTypeStep ==
  ASSUME ExecutorTypeOK, BusyHasJob, NEW p \in Proc, NEW t \in Thread, ThreadStep(p, t)
  PROVE  ExecutorTypeOK' /\ BusyHasJob' /\ UNCHANGED process
<1>1. CASE Take(p, t)
  <2>1. UNCHANGED <<process, active, signalled, sentinels, runs>>
    BY <1>1 DEF Take
  <2>2. PICK i \in DOMAIN queue[p] :
          /\ queue' = [queue EXCEPT ![p] = RemoveAt(@, i)]
          /\ pending' = pending \ {queue[p][i]}
          /\ IF queue[p][i] \in pending
             THEN /\ ThreadGoto(p, t, "start")
                  /\ task' = [task EXCEPT ![p][t] = queue[p][i]]
             ELSE UNCHANGED <<pc, task>>
    BY <1>1 DEF Take
  <2>3. RemoveAt(queue[p], i) \in Seq(Job) /\ queue[p][i] \in Job
    BY RemoveAtFacts DEF ExecutorTypeOK
  <2>4. queue' \in [Proc -> Seq(Job)] /\ pending' \subseteq Job
    BY <2>2, <2>3 DEF ExecutorTypeOK
  <2>5. CASE UNCHANGED <<pc, task>>
    BY <2>1, <2>4, <2>5 DEF ExecutorTypeOK, BusyHasJob
  <2>6. CASE /\ ThreadGoto(p, t, "start")
             /\ task' = [task EXCEPT ![p][t] = queue[p][i]]
    <3>1. "start" \in ThreadPC
      BY DEF ThreadPC
    <3>. QED  BY <2>1, <2>3, <2>4, <2>6, <3>1, PcUpdate, TaskUpdate
              DEF ExecutorTypeOK, BusyHasJob
  <2>. QED  BY <2>2, <2>5, <2>6
<1>2. CASE TakeSentinel(p, t)
  <2>1. sentinels' \in [Proc -> 0 .. Cardinality(Thread)]
    BY <1>2, ThreadCount DEF TakeSentinel, ExecutorTypeOK
  <2>2. "exited" \in ThreadPC \ Busy
    BY DEF ThreadPC, Busy
  <2>3. pc' \in [Proc -> [Thread -> ThreadPC]] /\ BusyHasJob'
    BY <1>2, <2>2, PcUpdate DEF TakeSentinel, BusyHasJob
  <2>. QED  BY <1>2, <2>1, <2>3 DEF TakeSentinel, ExecutorTypeOK
<1>3. CASE /\ ThreadOnly /\ pc[p][t] \in Busy
           /\ \E there \in Busy : ThreadGoto(p, t, there)
           /\ UNCHANGED runs \/ runs' = [runs EXCEPT ![task[p][t]] = @ + 1]
  <2>1. task[p][t] \in Job
    BY <1>3 DEF BusyHasJob
  <2>2. runs' \in [Job -> Nat]
    BY <1>3, <2>1 DEF ExecutorTypeOK
  <2>3. pc' \in [Proc -> [Thread -> ThreadPC]] /\ BusyHasJob'
    BY <1>3, PcUpdate DEF BusyHasJob, Busy, ThreadOnly
  <2>. QED  BY <1>3, <2>2, <2>3 DEF ThreadOnly, ExecutorTypeOK
<1>4. CASE StartTask(p, t) \/ Checkpoint(p, t) \/ Work(p, t) \/ ReportTask(p, t)
           \/ EndTask(p, t)
  <2>1. ThreadOnly /\ pc[p][t] \in Busy
    BY <1>4 DEF StartTask, Checkpoint, Work, ReportTask, EndTask, At, Busy, ThreadPC
  <2>2. \E there \in Busy : ThreadGoto(p, t, there)
    BY <1>4 DEF StartTask, Checkpoint, Work, ReportTask, EndTask, Busy, ThreadPC
  <2>3. UNCHANGED runs \/ runs' = [runs EXCEPT ![task[p][t]] = @ + 1]
    BY <1>4 DEF StartTask, Checkpoint, Work, ReportTask, EndTask
  <2>. QED  BY <1>3, <2>1, <2>2, <2>3
<1>5. CASE PopTask(p, t)
  <2>1. "idle" \in ThreadPC \ Busy
    BY DEF ThreadPC, Busy
  <2>2. ThreadGoto(p, t, "idle") /\ task' = [task EXCEPT ![p][t] = NoJob]
    BY <1>5 DEF PopTask
  <2>3. /\ pc' \in [Proc -> [Thread -> ThreadPC]] /\ pc'[p][t] = "idle"
        /\ \A q \in Proc, u \in Thread : q # p \/ u # t => pc'[q][u] = pc[q][u]
    BY <2>1, <2>2, PcUpdate
  <2>4. /\ task' \in [Proc -> [Thread -> Job \cup {NoJob}]]
        /\ \A q \in Proc, u \in Thread : q # p \/ u # t => task'[q][u] = task[q][u]
    <3>1. NoJob \in Job \cup {NoJob} /\ task' = [task EXCEPT ![p][t] = NoJob]
      BY <2>2
    <3>2. task \in [Proc -> [Thread -> Job \cup {NoJob}]]
      BY DEF ExecutorTypeOK
    <3>. QED  BY <3>1, <3>2
  <2>5. BusyHasJob'
    BY <2>1, <2>3, <2>4 DEF BusyHasJob
  <2>6. active' \in [Proc -> SUBSET Job]
    BY <1>5 DEF PopTask, ExecutorTypeOK
  <2>. QED  BY <1>5, <2>3, <2>4, <2>5, <2>6 DEF PopTask, ExecutorTypeOK
<1>. QED  BY <1>1, <1>2, <1>3, <1>4, <1>5 DEF ThreadStep, ThreadOnly

\* The steps that change both.
LEMMA MixedTypeStep ==
  ASSUME ProcessTypeOK, ExecutorTypeOK, BusyHasJob,
         NEW p \in Proc,
         \/ \E j \in Job, caller \in Caller : CancelSignal(p, caller, j)
         \/ SubmitDispatch(p)
         \/ DrainGet(p) \/ Seal(p) \/ Die(p)
  PROVE  ProcessTypeOK' /\ ExecutorTypeOK' /\ BusyHasJob'
<1>. USE DEF ProcessTypeOK, ExecutorTypeOK, BusyHasJob, Goto, SetLock, Stage,
             Constructing, ShuttingDown
<1>1. CASE SubmitDispatch(p)
  <2>1. submitting[p] \in Job
    BY <1>1 DEF SubmitDispatch, LockFree
  <2>2. queue' \in [Proc -> Seq(Job)]
    BY <1>1, <2>1 DEF SubmitDispatch
  <2>. QED  BY <1>1, <2>1, <2>2 DEF SubmitDispatch
<1>2. ASSUME NEW j \in Job, NEW caller \in Caller, CancelSignal(p, caller, j)
      PROVE  ProcessTypeOK' /\ ExecutorTypeOK' /\ BusyHasJob'
  <2>1. active[p] \in SUBSET Job /\ active[p] \ {j} \in SUBSET Job
    OBVIOUS
  <2>2. \/ active' = active
        \/ active' = [active EXCEPT ![p] = active[p] \ {j}]
        \/ active' = [active EXCEPT ![p] = active[p]]
    BY <1>2 DEF CancelSignal
  <2>3. active' \in [Proc -> SUBSET Job]
    BY <2>1, <2>2
  <2>4. signalled' \subseteq Job /\ pending' \subseteq Job
    BY <1>2 DEF CancelSignal
  <2>5. ProcessTypeOK'
    BY <1>2 DEF CancelSignal
  <2>. QED  BY <1>2, <2>3, <2>4, <2>5 DEF CancelSignal
<1>3. CASE DrainGet(p)
  <2>1. ProcessTypeOK'
    BY <1>3 DEF DrainGet
  <2>2. queue' \in [Proc -> Seq(Job)] /\ pending' \subseteq Job
    <3>1. ASSUME NEW i \in DOMAIN queue[p]
          PROVE  [queue EXCEPT ![p] = RemoveAt(queue[p], i)] \in [Proc -> Seq(Job)]
      <4>1. RemoveAt(queue[p], i) \in Seq(Job)
        BY RemoveAtFacts
      <4>. QED  BY <4>1
    <3>2. CASE UNCHANGED <<queue, pending>>
      BY <3>2
    <3>3. ASSUME NEW i \in DOMAIN queue[p],
                 queue' = [queue EXCEPT ![p] = RemoveAt(@, i)],
                 pending' = pending \ {queue[p][i]}
          PROVE  queue' \in [Proc -> Seq(Job)] /\ pending' \subseteq Job
      BY <3>1, <3>3
    <3>. QED  BY <1>3, <3>2, <3>3 DEF DrainGet
  <2>. QED  BY <1>3, <2>1, <2>2 DEF DrainGet
<1>4. CASE Seal(p)
  BY <1>4, ThreadCount DEF Seal
<1>5. CASE Die(p)
  <2>1. ProcessTypeOK'
    BY <1>5 DEF Die, NoMode
  <2>2. ExecutorTypeOK'
    <3>1. /\ active' \in [Proc -> SUBSET Job] /\ signalled' \subseteq Job
          /\ pending' \subseteq Job /\ runs' \in [Job -> Nat]
      BY <1>5 DEF Die
    <3>2. /\ queue' \in [Proc -> Seq(Job)]
          /\ sentinels' \in [Proc -> 0 .. Cardinality(Thread)]
      BY <1>5, ThreadCount DEF Die
    <3>3. pc' \in [Proc -> [Thread -> ThreadPC]]
      BY <1>5 DEF Die, ThreadPC
    <3>4. task' \in [Proc -> [Thread -> Job \cup {NoJob}]]
      BY <1>5 DEF Die
    <3>. QED  BY <3>1, <3>2, <3>3, <3>4
  <2>3. BusyHasJob'
    BY <1>5 DEF Die, Busy
  <2>. QED  BY <2>1, <2>2, <2>3
<1>. QED  BY <1>1, <1>2, <1>3, <1>4, <1>5

LEMMA TypeStep == TypeInv /\ [Next]_vars => TypeInv'
<1>. SUFFICES ASSUME TypeInv, [Next]_vars PROVE TypeInv'
  OBVIOUS
<1>1. JournalInv'
  BY ServiceStepIsJournalStep, JournalStepKeeps DEF TypeInv
<1>2. ProcessTypeOK' /\ ExecutorTypeOK' /\ BusyHasJob'
  <2>1. CASE UNCHANGED vars
    BY <2>1 DEF vars, process, executor, TypeInv, TypeOK, ProcessTypeOK,
                ExecutorTypeOK, BusyHasJob
  <2>2. CASE UNCHANGED executor /\ ProcessTypeOK'
    BY <2>2 DEF executor, TypeInv, TypeOK, ExecutorTypeOK, BusyHasJob
  <2>3. CASE UNCHANGED process /\ ExecutorTypeOK' /\ BusyHasJob'
    BY <2>3 DEF process, TypeInv, TypeOK, ProcessTypeOK
  <2>4. CASE Next
    BY <2>2, <2>3, <2>4, ProcessTypeStep, ThreadTypeStep, MixedTypeStep
       DEF Next, ShutdownStep, TypeInv, TypeOK, Caller
  <2>. QED  BY <2>1, <2>4
<1>. QED  BY <1>1, <1>2 DEF TypeInv, TypeOK, JournalInv

\* Every reachable state is well typed: among the rest, a shutdown leaves one
\* stop marker per worker thread at most (TypeOK).
THEOREM TypeCorrect == Spec => []TypeOK
<1>1. TypeInv => TypeOK
  BY DEF TypeInv
<1>. QED  BY <1>1, InitTypeInv, TypeStep, PTL DEF Spec

\* Under any number of processes and threads the event log of every job tells
\* the story of its row: one terminal event, the last one (LogMatchesRow).
THEOREM LogTellsTheStory == Spec => []LogMatchesRow
<1>1. TypeInv => LogMatchesRow
  BY DEF TypeInv, JournalInv
<1>. QED  BY <1>1, InitTypeInv, TypeStep, PTL DEF Spec

\* A job whose cancellation was recorded never ends succeeded or failed by its
\* own work, whoever requested it and whenever (CancelHonoured).
THEOREM CancellationIsHonoured == Spec => []CancelHonoured
<1>1. TypeInv => CancelHonoured
  BY JournalInvImplies DEF TypeInv
<1>. QED  BY <1>1, InitTypeInv, TypeStep, PTL DEF Spec

-----------------------------------------------------------------------------
(* Where a job is.                                                         *)

LockDiscipline ==
  /\ \A p, q \in Proc : p # q /\ lock[p] = "ex" => lock[q] = "none"
  /\ \A p \in Proc : lock[p] = "ex" <=> stage[p] = "recover"
  /\ \A p \in Proc : stage[p] \notin HasThreads =>
       /\ submitting[p] = NoJob
       /\ \A t \in Thread : pc[p][t] \notin Busy

\* A thread's job is its process's, waits nowhere else and is on no other thread.
ThreadPlace ==
  /\ \A p \in Proc, t \in Thread : pc[p][t] \in Busy =>
       /\ Exists(task[p][t]) /\ owner[task[p][t]] = p /\ task[p][t] \notin pending
       /\ task[p][t] # submitting[p]
  /\ \A p \in Proc, t, u \in Thread :
       t # u /\ pc[p][t] \in Busy /\ pc[p][u] \in Busy => task[p][t] # task[p][u]

\* What a submit or the queue holds has a row and was never run.
WaitingPlace ==
  /\ \A p \in Proc : submitting[p] # NoJob =>
       /\ Exists(submitting[p]) /\ owner[submitting[p]] = p
       /\ submitting[p] \notin pending /\ runs[submitting[p]] = 0
  /\ \A j \in pending : Exists(j) /\ runs[j] = 0
  /\ \A p \in Proc : \A i \in DOMAIN queue[p] :
       Exists(queue[p][i]) /\ owner[queue[p][i]] = p

JobProgress ==
  /\ \A j \in Job : ~Exists(j) => runs[j] = 0
  /\ \A p \in Proc, t \in Thread :
       /\ pc[p][t] \in {"start", "check"} => runs[task[p][t]] = 0
       /\ pc[p][t] \in Busy \ {"start", "pop"} => row[task[p][t]].started
       /\ pc[p][t] \in Executing \cup {"check"} /\ lock[p] = "sh" =>
            row[task[p][t]].state = "running"

IInv ==
  /\ TypeInv /\ LockDiscipline /\ ThreadPlace /\ WaitingPlace /\ JobProgress
  /\ WorkRunsOnce

LEMMA InitIInv == Init => IInv
<1>. SUFFICES ASSUME Init PROVE IInv
  OBVIOUS
<1>1. \A j \in Job : ~Exists(j) /\ runs[j] = 0
  BY DEF Init, JournalInit, Exists
<1>2. \A p \in Proc, t \in Thread : pc[p][t] = "idle"
  BY DEF Init
<1>3. LockDiscipline
  BY <1>2 DEF Init, LockDiscipline, Busy
<1>4. ThreadPlace
  BY <1>2 DEF ThreadPlace, Busy
<1>5. WaitingPlace
  BY DEF Init, WaitingPlace
<1>6. JobProgress /\ WorkRunsOnce
  BY <1>1, <1>2 DEF JobProgress, WorkRunsOnce, Busy, Executing
<1>. QED  BY <1>3, <1>4, <1>5, <1>6, InitTypeInv DEF IInv

-----------------------------------------------------------------------------
(* Frames: what a step preserves when it moves no job.                     *)

\* A thread inside a job's work, in a runtime that holds the lock, keeps a
\* running row under it.
RunningStays ==
  \A p \in Proc, t \in Thread :
    pc'[p][t] \in Executing \cup {"check"} /\ lock'[p] = "sh" =>
      row'[task'[p][t]].state = "running"

LEMMA BusyTypes ==
  ASSUME IInv, NEW p \in Proc, NEW t \in Thread, pc[p][t] \in Busy
  PROVE  /\ task[p][t] \in Job /\ Exists(task[p][t]) /\ owner[task[p][t]] = p
         /\ task[p][t] \notin pending /\ task[p][t] # submitting[p]
BY DEF IInv, TypeInv, BusyHasJob, ThreadPlace

LEMMA ExecutingIsBusy == Executing \cup {"check", "start", "fail", "cancel", "pop"} = Busy
BY DEF Executing, Busy, ThreadPC

LEMMA WaitingTypes ==
  ASSUME IInv, NEW p \in Proc
  PROVE  /\ submitting[p] # NoJob => submitting[p] \in Job
         /\ \A i \in DOMAIN queue[p] : queue[p][i] \in Job
         /\ pending \subseteq Job
BY RemoveAtFacts DEF IInv, TypeInv, TypeOK, ProcessTypeOK, ExecutorTypeOK

LEMMA WorkRunsOnceFrame ==
  ASSUME IInv, Evolves, UNCHANGED runs
  PROVE  WorkRunsOnce' /\ (\A j \in Job : ~Exists(j) => runs[j] = 0)'
BY DEF IInv, WorkRunsOnce, JobProgress, Evolves

\* The queue and the pending Futures at most lose jobs.
Shrinks ==
  /\ pending' \subseteq pending
  /\ \A p \in Proc : \A i \in DOMAIN queue'[p] :
       \E m \in DOMAIN queue[p] : queue'[p][i] = queue[p][m]

LEMMA UnchangedShrinks == UNCHANGED <<queue, pending>> => Shrinks
BY DEF Shrinks

\* Only rows, stages and locks change, and waiting jobs are dropped.
LEMMA PlaceFrame ==
  ASSUME IInv, Evolves, RunningStays, Shrinks,
         UNCHANGED <<owner, submitting, pc, task, runs>>
  PROVE  ThreadPlace' /\ WaitingPlace' /\ JobProgress' /\ WorkRunsOnce'
<1>1. ThreadPlace'
  <2>1. ASSUME NEW p \in Proc, NEW t \in Thread, pc[p][t] \in Busy
        PROVE  Exists(task[p][t])' /\ task[p][t] \notin pending'
    BY <2>1, BusyTypes DEF Evolves, Shrinks
  <2>. QED  BY <2>1 DEF ThreadPlace, IInv
<1>2. WaitingPlace'
  <2>1. \A p \in Proc : submitting[p] # NoJob =>
          Exists(submitting[p])' /\ submitting[p] \notin pending'
    BY WaitingTypes DEF Evolves, Shrinks, IInv, WaitingPlace
  <2>2. \A j \in pending' : Exists(j)' /\ runs[j] = 0
    BY WaitingTypes DEF Evolves, Shrinks, IInv, WaitingPlace, TypeInv, TypeOK,
                        ExecutorTypeOK
  <2>3. \A p \in Proc : \A i \in DOMAIN queue'[p] :
          Exists(queue[p][i])' /\ owner[queue'[p][i]] = p
    <3>1. SUFFICES ASSUME NEW p \in Proc, NEW i \in DOMAIN queue'[p]
          PROVE  Exists(queue[p][i])' /\ owner[queue'[p][i]] = p
      OBVIOUS
    <3>2. PICK m \in DOMAIN queue[p] : queue'[p][i] = queue[p][m]
      BY DEF Shrinks
    <3>3. queue[p][m] \in Job /\ Exists(queue[p][m]) /\ owner[queue[p][m]] = p
      BY WaitingTypes DEF IInv, WaitingPlace
    <3>. QED  BY <3>2, <3>3 DEF Evolves, Exists
  <2>. QED  BY <2>1, <2>2, <2>3 DEF WaitingPlace, IInv
<1>3. JobProgress' /\ WorkRunsOnce'
  <2>1. ASSUME NEW p \in Proc, NEW t \in Thread, pc[p][t] \in Busy,
               row[task[p][t]].started
        PROVE  row'[task[p][t]].started
    BY <2>1, BusyTypes DEF Evolves
  <2>2. ASSUME NEW p \in Proc, NEW t \in Thread
        PROVE  /\ pc'[p][t] \in {"start", "check"} => runs'[task'[p][t]] = 0
               /\ pc'[p][t] \in Busy \ {"start", "pop"} => row'[task'[p][t]].started
    BY <2>1 DEF IInv, JobProgress
  <2>. QED  BY <2>2, WorkRunsOnceFrame DEF JobProgress, RunningStays
<1>. QED  BY <1>1, <1>2, <1>3

-----------------------------------------------------------------------------
(* The steps that move no job.                                             *)

\* A stage that the lock does not depend on.
LEMMA LockFrame ==
  ASSUME LockDiscipline, UNCHANGED <<lock, submitting, pc>>, NEW p \in Proc,
         ProcessTypeOK, NEW s, Goto(p, s), s # "recover", stage[p] # "recover",
         s \notin HasThreads => stage[p] \notin HasThreads
  PROVE  LockDiscipline'
<1>1. stage'[p] = s /\ \A q \in Proc \ {p} : stage'[q] = stage[q]
  BY DEF ProcessTypeOK, Goto
<1>. QED  BY <1>1 DEF LockDiscipline

LEMMA ConstructionStep ==
  ASSUME IInv, [Next]_vars, NEW p \in Proc,
         \/ \E recover \in BOOLEAN : Open(p, recover)
         \/ TryExclusive(p) \/ Recover(p) \/ Share(p)
  PROVE  IInv'
<1>1. TypeInv' /\ Evolves
  BY TypeStep, ServiceStepIsJournalStep, JournalStepKeeps DEF IInv, TypeInv
<1>2. UNCHANGED <<owner, submitting, queue, pending, pc, task, runs>>
  BY DEF Open, TryExclusive, Recover, Share, executor
<1>3. stage[p] \in {"unborn"} \cup Constructing
  BY DEF Open, TryExclusive, Recover, Share, Constructing
<1>4. \A t \in Thread : pc[p][t] \notin Busy
  BY <1>3 DEF IInv, LockDiscipline, HasThreads, Constructing, ShuttingDown
<1>5. RunningStays
  <2>1. SUFFICES ASSUME NEW q \in Proc, NEW t \in Thread,
                        pc[q][t] \in Executing \cup {"check"}, lock'[q] = "sh"
        PROVE  row'[task[q][t]].state = "running"
    BY <1>2 DEF RunningStays
  <2>2. q # p
    BY <1>4, <2>1, ExecutingIsBusy
  <2>3. lock[q] = "sh"
    BY <2>1, <2>2 DEF Open, TryExclusive, Recover, Share, SetLock, IInv, TypeInv,
                      TypeOK, ProcessTypeOK
  <2>4. ~Recover(p)
    BY <2>2, <2>3 DEF Recover, IInv, LockDiscipline
  <2>5. row' = row
    BY <2>4 DEF Open, TryExclusive, Share, journal
  <2>. QED  BY <2>1, <2>3, <2>5 DEF IInv, JobProgress
<1>6. LockDiscipline'
  <2>. USE DEF Goto, SetLock, HasThreads, ShuttingDown, NobodyElse
  <2>1. LockDiscipline /\ ProcessTypeOK
    BY DEF IInv, TypeInv, TypeOK
  <2>2. CASE \E recover \in BOOLEAN : Open(p, recover)
    <3>1. /\ Goto(p, "trylock") \/ Goto(p, "share")
          /\ stage[p] = "unborn" /\ UNCHANGED <<lock, submitting, pc>>
      BY <2>2, <1>2 DEF Open
    <3>. QED  BY <2>1, <3>1, LockFrame
  <2>3. CASE TryExclusive(p)
    <3>1. stage[p] = "trylock" /\ UNCHANGED <<submitting, pc>>
      BY <2>3, <1>2 DEF TryExclusive
    <3>2. CASE NobodyElse(p, {"sh", "ex"}) /\ SetLock(p, "ex") /\ Goto(p, "recover")
      <4>1. \A q \in Proc \ {p} : lock[q] = "none"
        BY <2>1, <3>2 DEF ProcessTypeOK
      <4>2. /\ lock'[p] = "ex" /\ stage'[p] = "recover"
            /\ \A q \in Proc \ {p} : lock'[q] = "none" /\ stage'[q] = stage[q]
        BY <2>1, <3>2, <4>1 DEF ProcessTypeOK
      <4>. QED  BY <2>1, <3>1, <4>1, <4>2 DEF LockDiscipline
    <3>3. CASE Goto(p, "share") /\ UNCHANGED lock
      BY <2>1, <3>1, <3>3, LockFrame
    <3>. QED  BY <2>3, <3>2, <3>3 DEF TryExclusive
  <2>4. CASE Recover(p)
    BY <1>2, <2>1, <2>4 DEF Recover, LockDiscipline, ProcessTypeOK
  <2>5. CASE Share(p)
    BY <1>2, <2>1, <2>5 DEF Share, LockDiscipline, ProcessTypeOK
  <2>. QED  BY <2>2, <2>3, <2>4, <2>5
<1>. QED  BY <1>1, <1>2, <1>5, <1>6, UnchangedShrinks, PlaceFrame DEF IInv

LEMMA ShutdownControlStep ==
  ASSUME IInv, [Next]_vars, NEW p \in Proc,
         \/ \E wait, cancel \in BOOLEAN : Shutdown(p, wait, cancel)
         \/ ShutdownCancelled(p) \/ DrainTest(p) \/ Join(p) \/ Release(p)
  PROVE  IInv'
<1>1. TypeInv' /\ Evolves
  BY TypeStep, ServiceStepIsJournalStep, JournalStepKeeps DEF IInv, TypeInv
<1>2. UNCHANGED <<row, owner, submitting, queue, pending, pc, task, runs>>
  BY DEF Shutdown, ShutdownCancelled, DrainTest, Join, Release, executor, journal
<1>3. \A q \in Proc : lock'[q] = "sh" => lock[q] = "sh"
  BY DEF Shutdown, ShutdownCancelled, DrainTest, Join, Release, SetLock, IInv, TypeInv,
         TypeOK, ProcessTypeOK
<1>4. RunningStays
  BY <1>2, <1>3 DEF RunningStays, IInv, JobProgress
<1>5. LockDiscipline'
  <2>. USE DEF Goto, SetLock, HasThreads, ShuttingDown
  <2>1. LockDiscipline /\ ProcessTypeOK
    BY DEF IInv, TypeInv, TypeOK
  <2>2. CASE Release(p)
    BY <1>2, <2>1, <2>2 DEF Release, LockDiscipline, ProcessTypeOK
  <2>3. CASE ~Release(p)
    <3>1. /\ \E s \in {"cancel", "drain", "seal", "get", "release"} : Goto(p, s)
          /\ stage[p] # "recover" /\ UNCHANGED <<lock, submitting, pc>>
      BY <2>3, <1>2 DEF Shutdown, ShutdownCancelled, DrainTest, Join
    <3>. QED  BY <2>1, <3>1, LockFrame
  <2>. QED  BY <2>2, <2>3
<1>. QED  BY <1>1, <1>2, <1>4, <1>5, UnchangedShrinks, PlaceFrame DEF IInv

LEMMA CancelRequestStep ==
  ASSUME IInv, [Next]_vars, NEW p \in Proc, NEW j \in Job,
         Cancel(p, j) \/ ShutdownCancel(p, j)
  PROVE  IInv'
<1>1. TypeInv' /\ Evolves
  BY TypeStep, ServiceStepIsJournalStep, JournalStepKeeps DEF IInv, TypeInv
<1>2. UNCHANGED <<stage, lock, owner, submitting, queue, pending, pc, task, runs>>
  BY DEF Cancel, ShutdownCancel, CancelRequest, executor
<1>3. RequestCancel(j)
  BY DEF Cancel, ShutdownCancel, CancelRequest
<1>4. ASSUME NEW k \in Job, Exists(k), row[k].state = "running"
      PROVE  row'[k].state = "running"
  <2>1. CASE k = j
    <3>1. row'[j] = [row[j] EXCEPT !.cancel = TRUE]
      BY <1>3, <1>4, <2>1, RequestCancelKeeps DEF IsTerminal, Terminal, IInv, TypeInv
    <3>2. row[j] \in Row
      BY <1>4, <2>1 DEF IInv, TypeInv, TypeOK, JournalTypeOK, Exists
    <3>. QED  BY <1>4, <2>1, <3>1, <3>2 DEF Row
  <2>2. CASE k # j
    BY <1>3, <1>4, <2>2, RequestCancelKeeps DEF OnlyRow, IInv, TypeInv
  <2>. QED  BY <2>1, <2>2
<1>5. RunningStays
  <2>1. SUFFICES ASSUME NEW q \in Proc, NEW t \in Thread,
                        pc[q][t] \in Executing \cup {"check"}, lock[q] = "sh"
        PROVE  row'[task[q][t]].state = "running"
    BY <1>2 DEF RunningStays
  <2>2. task[q][t] \in Job /\ Exists(task[q][t]) /\ row[task[q][t]].state = "running"
    BY <2>1, BusyTypes, ExecutingIsBusy DEF IInv, JobProgress
  <2>. QED  BY <1>4, <2>2
<1>6. LockDiscipline'
  BY <1>2 DEF IInv, LockDiscipline
<1>. QED  BY <1>1, <1>2, <1>5, <1>6, UnchangedShrinks, PlaceFrame DEF IInv

-----------------------------------------------------------------------------
(* The steps that move a waiting job.                                      *)

LEMMA SubmitCreateStep ==
  ASSUME IInv, [Next]_vars, NEW p \in Proc, NEW j \in Job, SubmitCreate(p, j)
  PROVE  IInv'
<1>1. TypeInv' /\ Evolves
  BY TypeStep, ServiceStepIsJournalStep, JournalStepKeeps DEF IInv, TypeInv
<1>2. UNCHANGED <<stage, lock, queue, pending, pc, task, runs>>
  BY DEF SubmitCreate, executor
<1>3. ~Exists(j) /\ Exists(j)' /\ OnlyRow(j)
  BY CreateKeeps DEF SubmitCreate, IInv, TypeInv
<1>4. /\ owner'[j] = p /\ \A k \in Job \ {j} : owner'[k] = owner[k]
      /\ submitting'[p] = j /\ \A q \in Proc \ {p} : submitting'[q] = submitting[q]
  BY DEF SubmitCreate, IInv, TypeInv, TypeOK, ProcessTypeOK
<1>5. ASSUME NEW k \in Job, Exists(k)
      PROVE  k # j /\ row'[k] = row[k] /\ owner'[k] = owner[k] /\ Exists(k)'
  BY <1>1, <1>3, <1>4, <1>5 DEF OnlyRow, Evolves
<1>6. ThreadPlace'
  <2>1. ASSUME NEW q \in Proc, NEW t \in Thread, pc[q][t] \in Busy
        PROVE  /\ Exists(task[q][t])' /\ owner'[task[q][t]] = q
               /\ task[q][t] \notin pending /\ task[q][t] # submitting'[q]
    <3>1. /\ task[q][t] \in Job /\ Exists(task[q][t]) /\ owner[task[q][t]] = q
          /\ task[q][t] \notin pending /\ task[q][t] # submitting[q]
      BY <2>1, BusyTypes
    <3>2. task[q][t] # j /\ Exists(task[q][t])' /\ owner'[task[q][t]] = q
      BY <1>2, <1>5, <3>1 DEF Exists
    <3>. QED  BY <1>4, <3>1, <3>2
  <2>. QED  BY <1>2, <2>1 DEF ThreadPlace, IInv
<1>7. WaitingPlace'
  <2>1. ASSUME NEW q \in Proc, submitting'[q] # NoJob
        PROVE  /\ Exists(submitting[q])' /\ owner'[submitting'[q]] = q
               /\ submitting'[q] \notin pending /\ runs[submitting'[q]] = 0
    <3>1. CASE q = p
      BY <1>3, <1>4, <3>1 DEF IInv, WaitingPlace, JobProgress
    <3>2. CASE q # p
      BY <1>4, <1>5, <2>1, <3>2, WaitingTypes DEF IInv, WaitingPlace, Exists
    <3>. QED  BY <3>1, <3>2
  <2>2. \A k \in pending : Exists(k)'
    BY <1>5, WaitingTypes DEF IInv, WaitingPlace
  <2>3. ASSUME NEW q \in Proc, NEW i \in DOMAIN queue[q]
        PROVE  Exists(queue[q][i])' /\ owner'[queue[q][i]] = q
    BY <1>2, <1>5, WaitingTypes DEF IInv, WaitingPlace
  <2>. QED  BY <1>2, <2>1, <2>2, <2>3 DEF WaitingPlace, IInv
<1>8. JobProgress' /\ WorkRunsOnce'
  <2>1. ASSUME NEW q \in Proc, NEW t \in Thread, pc[q][t] \in Busy
        PROVE  row'[task[q][t]] = row[task[q][t]]
    BY <1>5, <2>1, BusyTypes
  <2>. QED  BY <1>1, <1>2, <2>1, WorkRunsOnceFrame, ExecutingIsBusy
            DEF JobProgress, IInv, Busy
<1>9. LockDiscipline'
  <2>1. stage[p] \in HasThreads
    BY DEF SubmitCreate, HasThreads
  <2>. QED  BY <1>2, <1>4, <2>1 DEF IInv, LockDiscipline
<1>. QED  BY <1>1, <1>6, <1>7, <1>8, <1>9 DEF IInv

LEMMA SubmitDispatchStep ==
  ASSUME IInv, [Next]_vars, NEW p \in Proc, SubmitDispatch(p)
  PROVE  IInv'
<1>. DEFINE j == submitting[p]
<1>1. TypeInv' /\ Evolves
  BY TypeStep, ServiceStepIsJournalStep, JournalStepKeeps DEF IInv, TypeInv
<1>2. UNCHANGED <<row, stage, lock, owner, pc, task, runs>>
  BY DEF SubmitDispatch, journal
<1>3. /\ j \in Job /\ Exists(j) /\ owner[j] = p /\ j \notin pending /\ runs[j] = 0
      /\ \A t \in Thread : pc[p][t] \in Busy => task[p][t] # j
  BY WaitingTypes, BusyTypes DEF SubmitDispatch, LockFree, IInv, WaitingPlace
<1>4. /\ submitting'[p] = NoJob /\ \A q \in Proc \ {p} : submitting'[q] = submitting[q]
      /\ pending' = pending \cup {j}
      /\ queue'[p] = Append(queue[p], j)
      /\ \A q \in Proc \ {p} : queue'[q] = queue[q]
  BY DEF SubmitDispatch, IInv, TypeInv, TypeOK, ProcessTypeOK, ExecutorTypeOK
<1>5. ThreadPlace'
  <2>1. ASSUME NEW q \in Proc, NEW t \in Thread, pc[q][t] \in Busy
        PROVE  task[q][t] \notin pending' /\ task[q][t] # submitting'[q]
    <3>1. task[q][t] \in Job /\ owner[task[q][t]] = q /\ task[q][t] \notin pending
          /\ task[q][t] # submitting[q]
      BY <2>1, BusyTypes
    <3>. QED  BY <1>3, <1>4, <2>1, <3>1, NullAssumption
  <2>. QED  BY <1>2, <2>1 DEF ThreadPlace, IInv, Exists
<1>6. WaitingPlace'
  <2>1. ASSUME NEW q \in Proc, submitting'[q] # NoJob
        PROVE  /\ Exists(submitting'[q]) /\ owner[submitting'[q]] = q
               /\ submitting'[q] \notin pending' /\ runs[submitting'[q]] = 0
    <3>1. q # p /\ submitting'[q] = submitting[q]
      BY <1>4, <2>1
    <3>. QED  BY <1>3, <1>4, <2>1, <3>1 DEF IInv, WaitingPlace
  <2>2. \A k \in pending' : Exists(k) /\ runs[k] = 0
    BY <1>3, <1>4 DEF IInv, WaitingPlace
  <2>3. ASSUME NEW q \in Proc, NEW i \in DOMAIN queue'[q]
        PROVE  Exists(queue'[q][i]) /\ owner[queue'[q][i]] = q
    <3>1. CASE q # p
      BY <1>4, <2>3, <3>1 DEF IInv, WaitingPlace
    <3>2. CASE q = p /\ i = Len(queue[p]) + 1
      <4>1. queue'[p][i] = j
        BY <1>3, <1>4, <3>2 DEF IInv, TypeInv, TypeOK, ExecutorTypeOK
      <4>. QED  BY <1>3, <3>2, <4>1
    <3>3. CASE q = p /\ i # Len(queue[p]) + 1
      <4>1. i \in DOMAIN queue[p] /\ queue'[p][i] = queue[p][i]
        BY <1>3, <1>4, <2>3, <3>3 DEF IInv, TypeInv, TypeOK, ExecutorTypeOK
      <4>. QED  BY <3>3, <4>1 DEF IInv, WaitingPlace
    <3>. QED  BY <3>1, <3>2, <3>3
  <2>. QED  BY <1>2, <2>1, <2>2, <2>3 DEF WaitingPlace, Exists
<1>7. JobProgress' /\ WorkRunsOnce'
  BY <1>1, <1>2, WorkRunsOnceFrame DEF JobProgress, IInv, Exists
<1>8. LockDiscipline'
  BY <1>2, <1>4 DEF IInv, LockDiscipline
<1>. QED  BY <1>1, <1>5, <1>6, <1>7, <1>8 DEF IInv

LEMMA DropStep ==
  ASSUME IInv, [Next]_vars, NEW p \in Proc,
         \/ \E j \in Job, caller \in Caller : CancelSignal(p, caller, j)
         \/ DrainGet(p) \/ Seal(p)
  PROVE  IInv'
<1>1. TypeInv' /\ Evolves
  BY TypeStep, ServiceStepIsJournalStep, JournalStepKeeps DEF IInv, TypeInv
<1>2. UNCHANGED <<row, lock, owner, submitting, pc, task, runs>>
  BY DEF CancelSignal, DrainGet, Seal, journal
<1>3. Shrinks
  <2>1. CASE UNCHANGED queue /\ pending' \subseteq pending
    BY <2>1 DEF Shrinks
  <2>2. ASSUME NEW i \in DOMAIN queue[p],
               queue' = [queue EXCEPT ![p] = RemoveAt(@, i)],
               pending' = pending \ {queue[p][i]}
        PROVE  Shrinks
    <3>1. /\ queue'[p] = RemoveAt(queue[p], i)
          /\ \A q \in Proc \ {p} : queue'[q] = queue[q]
      BY <2>2 DEF IInv, TypeInv, TypeOK, ExecutorTypeOK
    <3>2. \A k \in DOMAIN RemoveAt(queue[p], i) :
            \E m \in DOMAIN queue[p] : RemoveAt(queue[p], i)[k] = queue[p][m]
      BY RemoveAtFacts DEF IInv, TypeInv, TypeOK, ExecutorTypeOK
    <3>. QED  BY <2>2, <3>1, <3>2 DEF Shrinks
  <2>3. CASE \E j \in Job, caller \in Caller : CancelSignal(p, caller, j)
    BY <2>1, <2>3 DEF CancelSignal
  <2>4. CASE Seal(p)
    BY <2>1, <2>4 DEF Seal
  <2>5. CASE DrainGet(p)
    BY <2>1, <2>2, <2>5 DEF DrainGet
  <2>. QED  BY <2>3, <2>4, <2>5
<1>4. RunningStays
  BY <1>2 DEF RunningStays, IInv, JobProgress
<1>5. LockDiscipline'
  <2>1. CASE UNCHANGED stage
    BY <1>2, <2>1 DEF IInv, LockDiscipline
  <2>2. CASE DrainGet(p) \/ Seal(p)
    <3>1. /\ \E s \in {"raised", "drain", "join", "release"} : Goto(p, s)
          /\ stage[p] \in {"get", "seal"}
      BY <2>2 DEF DrainGet, Seal
    <3>. QED  BY <1>2, <3>1, LockFrame
              DEF IInv, TypeInv, TypeOK, HasThreads, ShuttingDown
  <2>. QED  BY <2>1, <2>2 DEF CancelSignal
<1>. QED  BY <1>1, <1>2, <1>3, <1>4, <1>5, PlaceFrame DEF IInv

LEMMA DieStep ==
  ASSUME IInv, [Next]_vars, NEW p \in Proc, Die(p)
  PROVE  IInv'
<1>1. TypeInv' /\ Evolves
  BY TypeStep, ServiceStepIsJournalStep, JournalStepKeeps DEF IInv, TypeInv
<1>2. UNCHANGED <<row, owner, runs>>
  BY DEF Die, journal
<1>3. /\ stage'[p] = "dead" /\ lock'[p] = "none" /\ submitting'[p] = NoJob
      /\ queue'[p] = <<>> /\ pending' \subseteq pending
      /\ \A t \in Thread : pc'[p][t] = "exited"
  BY DEF Die, Goto, SetLock, IInv, TypeInv, TypeOK, ProcessTypeOK, ExecutorTypeOK
<1>4. ASSUME NEW q \in Proc \ {p}
      PROVE  /\ stage'[q] = stage[q] /\ lock'[q] = lock[q]
             /\ submitting'[q] = submitting[q] /\ queue'[q] = queue[q]
             /\ pc'[q] = pc[q] /\ task'[q] = task[q]
  BY DEF Die, Goto, SetLock, IInv, TypeInv, TypeOK, ProcessTypeOK, ExecutorTypeOK
<1>5. \A t \in Thread : pc'[p][t] \notin Busy
  BY <1>3 DEF Busy
<1>6. LockDiscipline'
  BY <1>3, <1>4, <1>5 DEF IInv, LockDiscipline, HasThreads, ShuttingDown
<1>7. ThreadPlace'
  BY <1>2, <1>3, <1>4, <1>5 DEF IInv, ThreadPlace, Exists
<1>8. WaitingPlace'
  <2>1. ASSUME NEW q \in Proc, submitting'[q] # NoJob
        PROVE  q # p /\ submitting'[q] = submitting[q]
    BY <1>3, <1>4, <2>1
  <2>2. ASSUME NEW q \in Proc, NEW i \in DOMAIN queue'[q]
        PROVE  q # p /\ queue'[q] = queue[q]
    BY <1>3, <1>4, <2>2
  <2>. QED  BY <1>2, <1>3, <2>1, <2>2 DEF IInv, WaitingPlace, Exists
<1>9. JobProgress' /\ WorkRunsOnce'
  <2>1. ASSUME NEW q \in Proc, NEW t \in Thread, pc'[q][t] \in Busy
        PROVE  pc'[q] = pc[q] /\ task'[q] = task[q] /\ lock'[q] = lock[q]
    BY <1>4, <1>5, <2>1
  <2>. QED  BY <1>1, <1>2, <2>1, WorkRunsOnceFrame, ExecutingIsBusy
            DEF IInv, JobProgress
<1>. QED  BY <1>1, <1>6, <1>7, <1>8, <1>9 DEF IInv

-----------------------------------------------------------------------------
(* The steps of a worker thread.                                           *)

LEMMA TakeStep ==
  ASSUME IInv, [Next]_vars, NEW p \in Proc, NEW t \in Thread, Take(p, t)
  PROVE  IInv'
<1>1. TypeInv' /\ Evolves
  BY TypeStep, ServiceStepIsJournalStep, JournalStepKeeps DEF IInv, TypeInv
<1>2. UNCHANGED <<row, stage, lock, owner, submitting, runs>>
  BY DEF Take, journal, process
<1>3. PICK i \in DOMAIN queue[p] :
        /\ queue' = [queue EXCEPT ![p] = RemoveAt(@, i)]
        /\ pending' = pending \ {queue[p][i]}
        /\ IF queue[p][i] \in pending
           THEN /\ ThreadGoto(p, t, "start")
                /\ task' = [task EXCEPT ![p][t] = queue[p][i]]
           ELSE UNCHANGED <<pc, task>>
  BY DEF Take
<1>. DEFINE j == queue[p][i]
<1>4. j \in Job /\ Exists(j) /\ owner[j] = p
  BY WaitingTypes DEF IInv, WaitingPlace
<1>5. Shrinks
  <2>1. /\ queue'[p] = RemoveAt(queue[p], i)
        /\ \A q \in Proc \ {p} : queue'[q] = queue[q]
    BY <1>3 DEF IInv, TypeInv, TypeOK, ExecutorTypeOK
  <2>2. \A k \in DOMAIN RemoveAt(queue[p], i) :
          \E m \in DOMAIN queue[p] : RemoveAt(queue[p], i)[k] = queue[p][m]
    BY RemoveAtFacts DEF IInv, TypeInv, TypeOK, ExecutorTypeOK
  <2>. QED  BY <1>3, <2>1, <2>2 DEF Shrinks
<1>6. CASE UNCHANGED <<pc, task>>
  <2>1. RunningStays
    BY <1>2, <1>6 DEF RunningStays, IInv, JobProgress
  <2>2. LockDiscipline'
    BY <1>2, <1>6 DEF IInv, LockDiscipline
  <2>. QED  BY <1>1, <1>2, <1>5, <1>6, <2>1, <2>2, PlaceFrame DEF IInv
<1>7. CASE j \in pending
  <2>1. ThreadGoto(p, t, "start") /\ task' = [task EXCEPT ![p][t] = j]
    BY <1>3, <1>7
  <2>2. "start" \in ThreadPC
    BY DEF ThreadPC
  <2>3. /\ pc'[p][t] = "start" /\ task'[p][t] = j
        /\ \A q \in Proc, u \in Thread : q # p \/ u # t =>
             pc'[q][u] = pc[q][u] /\ task'[q][u] = task[q][u]
    <3>1. ExecutorTypeOK /\ j \in Job \cup {NoJob}
      BY <1>4 DEF IInv, TypeInv, TypeOK
    <3>2. /\ pc'[p][t] = "start"
          /\ \A q \in Proc, u \in Thread : q # p \/ u # t => pc'[q][u] = pc[q][u]
      BY <2>1, <2>2, <3>1, PcUpdate
    <3>. HIDE DEF j
    <3>3. /\ task'[p][t] = j
          /\ \A q \in Proc, u \in Thread : q # p \/ u # t => task'[q][u] = task[q][u]
      BY <2>1, <3>1 DEF ExecutorTypeOK
    <3>. QED  BY <3>2, <3>3
  <2>4. runs[j] = 0 /\ j # submitting[p]
    BY <1>7, WaitingTypes, <1>4, NullAssumption DEF IInv, WaitingPlace
  <2>5. \A q \in Proc, u \in Thread : pc[q][u] \in Busy => task[q][u] # j
    BY <1>7, BusyTypes
  <2>6. ThreadPlace'
    <3>1. ASSUME NEW q \in Proc, NEW u \in Thread, pc'[q][u] \in Busy
          PROVE  /\ row'[task'[q][u]] # NoRow /\ owner'[task'[q][u]] = q
                 /\ task'[q][u] \notin pending' /\ task'[q][u] # submitting'[q]
      <4>1. CASE q = p /\ u = t
        BY <1>2, <1>3, <1>4, <2>3, <2>4, <4>1 DEF Exists
      <4>2. CASE q # p \/ u # t
        <5>1. pc[q][u] \in Busy /\ task'[q][u] = task[q][u]
          BY <2>3, <3>1, <4>2
        <5>. QED  BY <1>2, <1>3, <5>1, BusyTypes DEF Exists
      <4>. QED  BY <4>1, <4>2
    <3>2. ASSUME NEW q \in Proc, NEW u \in Thread, NEW v \in Thread, u # v,
                 pc'[q][u] \in Busy, pc'[q][v] \in Busy
          PROVE  task'[q][u] # task'[q][v]
      BY <2>3, <2>5, <3>2 DEF IInv, ThreadPlace
    <3>. QED  BY <3>1, <3>2 DEF ThreadPlace, Exists
  <2>7. WaitingPlace'
    <3>1. \A k \in pending' : k \in pending
      BY <1>5 DEF Shrinks
    <3>2. ASSUME NEW q \in Proc, NEW k \in DOMAIN queue'[q]
          PROVE  row'[queue'[q][k]] # NoRow /\ owner'[queue'[q][k]] = q
      <4>1. PICK m \in DOMAIN queue[q] : queue'[q][k] = queue[q][m]
        BY <1>5 DEF Shrinks
      <4>. QED  BY <1>2, <4>1 DEF IInv, WaitingPlace, Exists
    <3>. QED  BY <1>2, <3>1, <3>2 DEF IInv, WaitingPlace, Exists
  <2>8. JobProgress' /\ WorkRunsOnce'
    <3>1. ASSUME NEW q \in Proc, NEW u \in Thread
          PROVE  /\ pc'[q][u] \in {"start", "check"} => runs'[task'[q][u]] = 0
                 /\ pc'[q][u] \in Busy \ {"start", "pop"} => row'[task'[q][u]].started
                 /\ pc'[q][u] \in Executing \cup {"check"} /\ lock'[q] = "sh" =>
                      row'[task'[q][u]].state = "running"
      <4>1. CASE q = p /\ u = t
        BY <1>2, <2>3, <2>4, <4>1 DEF Executing
      <4>2. CASE q # p \/ u # t
        BY <1>2, <2>3, <4>2 DEF IInv, JobProgress
      <4>. QED  BY <4>1, <4>2
    <3>. QED  BY <1>1, <1>2, <3>1, WorkRunsOnceFrame DEF JobProgress
  <2>9. LockDiscipline'
    <3>1. stage[p] \in HasThreads
      BY DEF Take, At
    <3>. QED  BY <1>2, <2>3, <3>1 DEF IInv, LockDiscipline
  <2>. QED  BY <1>1, <2>6, <2>7, <2>8, <2>9 DEF IInv
<1>. QED  BY <1>3, <1>6, <1>7

LEMMA LeaveStep ==
  ASSUME IInv, [Next]_vars, NEW p \in Proc, NEW t \in Thread,
         TakeSentinel(p, t) \/ PopTask(p, t)
  PROVE  IInv'
<1>1. TypeInv' /\ Evolves
  BY TypeStep, ServiceStepIsJournalStep, JournalStepKeeps DEF IInv, TypeInv
<1>2. UNCHANGED <<row, stage, lock, owner, submitting, queue, pending, runs>>
  BY DEF TakeSentinel, PopTask, journal, process
<1>3. pc'[p][t] \notin Busy
  <2>1. pc'[p][t] \in {"idle", "exited"}
    BY DEF TakeSentinel, PopTask, ThreadGoto, IInv, TypeInv, TypeOK, ExecutorTypeOK
  <2>. QED  BY <2>1 DEF Busy
<1>4. \A q \in Proc, u \in Thread : q # p \/ u # t =>
        pc'[q][u] = pc[q][u] /\ task'[q][u] = task[q][u]
  BY DEF TakeSentinel, PopTask, ThreadGoto, IInv, TypeInv, TypeOK, ExecutorTypeOK
<1>5. ASSUME NEW q \in Proc, NEW u \in Thread, pc'[q][u] \in Busy
      PROVE  pc'[q][u] = pc[q][u] /\ task'[q][u] = task[q][u]
  BY <1>3, <1>4, <1>5
<1>6. ThreadPlace'
  BY <1>2, <1>5 DEF IInv, ThreadPlace, Exists
<1>7. WaitingPlace'
  BY <1>2 DEF IInv, WaitingPlace, Exists
<1>8. JobProgress' /\ WorkRunsOnce'
  <2>1. ASSUME NEW q \in Proc, NEW u \in Thread
        PROVE  /\ pc'[q][u] \in {"start", "check"} => runs'[task'[q][u]] = 0
               /\ pc'[q][u] \in Busy \ {"start", "pop"} => row'[task'[q][u]].started
               /\ pc'[q][u] \in Executing \cup {"check"} /\ lock'[q] = "sh" =>
                    row'[task'[q][u]].state = "running"
    BY <1>2, <1>5, ExecutingIsBusy DEF IInv, JobProgress
  <2>. QED  BY <1>1, <1>2, <2>1, WorkRunsOnceFrame DEF JobProgress
<1>9. LockDiscipline'
  BY <1>2, <1>5 DEF IInv, LockDiscipline
<1>. QED  BY <1>1, <1>6, <1>7, <1>8, <1>9 DEF IInv

\* A thread that stays with its job, which runs at most once more.
LEMMA BusyMove ==
  ASSUME IInv, [Next]_vars, NEW p \in Proc, NEW t \in Thread, NEW there \in Busy,
         ThreadOnly, ThreadGoto(p, t, there), stage[p] \in HasThreads,
         pc[p][t] \in Busy, OnlyRow(task[p][t]),
         \/ UNCHANGED runs
         \/ /\ runs' = [runs EXCEPT ![task[p][t]] = @ + 1]
            /\ runs[task[p][t]] = 0 /\ row'[task[p][t]].started,
         there \in {"start", "check"} => runs'[task[p][t]] = 0,
         there \in Busy \ {"start", "pop"} => row'[task[p][t]].started,
         there \in Executing \cup {"check"} /\ lock[p] = "sh" =>
           row'[task[p][t]].state = "running"
  PROVE  IInv'
<1>. DEFINE j == task[p][t]
<1>1. TypeInv' /\ Evolves
  BY TypeStep, ServiceStepIsJournalStep, JournalStepKeeps DEF IInv, TypeInv
<1>2. UNCHANGED <<stage, lock, owner, submitting, queue, pending, task>>
  BY DEF ThreadOnly, process
<1>3. /\ j \in Job /\ Exists(j) /\ owner[j] = p /\ j \notin pending
      /\ j # submitting[p]
  BY BusyTypes
<1>4. /\ pc'[p][t] = there
      /\ \A q \in Proc, u \in Thread : q # p \/ u # t => pc'[q][u] = pc[q][u]
  <2>1. there \in ThreadPC
    BY DEF Busy
  <2>. QED  BY <2>1, PcUpdate DEF IInv, TypeInv, TypeOK
<1>5. \A q \in Proc, u \in Thread : pc'[q][u] \in Busy <=> pc[q][u] \in Busy
  BY <1>4
<1>6. ASSUME NEW k \in Job, Exists(k)
      PROVE  row'[k] # NoRow
  BY <1>1, <1>6 DEF Evolves, Exists
<1>7. ASSUME NEW q \in Proc, NEW u \in Thread, pc[q][u] \in Busy, q # p \/ u # t
      PROVE  task[q][u] \in Job \ {j}
  BY <1>3, <1>7, BusyTypes DEF IInv, ThreadPlace
<1>8. ASSUME NEW k \in Job \ {j}
      PROVE  row'[k] = row[k] /\ runs'[k] = runs[k]
  BY DEF OnlyRow, IInv, TypeInv, TypeOK, ExecutorTypeOK
<1>9. ThreadPlace'
  <2>1. ASSUME NEW q \in Proc, NEW u \in Thread, pc[q][u] \in Busy
        PROVE  row'[task[q][u]] # NoRow
    BY <1>6, <2>1, BusyTypes
  <2>. QED  BY <1>2, <1>5, <2>1 DEF IInv, ThreadPlace, Exists
<1>10. WaitingPlace'
  <2>1. ASSUME NEW q \in Proc, submitting[q] # NoJob
        PROVE  row'[submitting[q]] # NoRow /\ runs'[submitting[q]] = 0
    <3>1. submitting[q] # j /\ submitting[q] \in Job /\ Exists(submitting[q])
      BY <1>3, <2>1, WaitingTypes DEF IInv, WaitingPlace
    <3>. QED  BY <1>6, <1>8, <2>1, <3>1 DEF IInv, WaitingPlace
  <2>2. ASSUME NEW k \in pending
        PROVE  row'[k] # NoRow /\ runs'[k] = 0
    BY <1>3, <1>6, <1>8, WaitingTypes DEF IInv, WaitingPlace
  <2>3. ASSUME NEW q \in Proc, NEW i \in DOMAIN queue[q]
        PROVE  row'[queue[q][i]] # NoRow
    BY <1>6, WaitingTypes DEF IInv, WaitingPlace
  <2>. QED  BY <1>2, <2>1, <2>2, <2>3 DEF IInv, WaitingPlace, Exists
<1>11. JobProgress'
  <2>1. \A k \in Job : row'[k] = NoRow => runs'[k] = 0
    BY <1>3, <1>6, <1>8 DEF IInv, JobProgress, Exists
  <2>2. ASSUME NEW q \in Proc, NEW u \in Thread
        PROVE  /\ pc'[q][u] \in {"start", "check"} => runs'[task[q][u]] = 0
               /\ pc'[q][u] \in Busy \ {"start", "pop"} => row'[task[q][u]].started
               /\ pc'[q][u] \in Executing \cup {"check"} /\ lock[q] = "sh" =>
                    row'[task[q][u]].state = "running"
    <3>1. CASE q = p /\ u = t
      BY <1>4, <3>1
    <3>2. CASE (q # p \/ u # t) /\ pc[q][u] \in Busy
      BY <1>4, <1>7, <1>8, <3>2 DEF IInv, JobProgress
    <3>3. CASE (q # p \/ u # t) /\ pc[q][u] \notin Busy
      BY <1>4, <3>3, ExecutingIsBusy
    <3>. QED  BY <3>1, <3>2, <3>3
  <2>. QED  BY <1>2, <2>1, <2>2 DEF JobProgress, Exists
<1>12. WorkRunsOnce'
  <2>1. ASSUME NEW k \in Job
        PROVE  runs'[k] <= 1 /\ (runs'[k] = 1 => row'[k] # NoRow /\ row'[k].started)
    <3>1. CASE k # j
      BY <1>8, <3>1 DEF IInv, WorkRunsOnce, Exists
    <3>2. CASE k = j /\ UNCHANGED runs
      BY <1>1, <1>3, <1>6, <3>2 DEF IInv, WorkRunsOnce, Evolves
    <3>3. CASE k = j /\ ~UNCHANGED runs
      <4>1. runs'[k] = 1 /\ row'[j].started
        BY <1>3, <3>3 DEF IInv, TypeInv, TypeOK, ExecutorTypeOK
      <4>. QED  BY <1>3, <1>6, <3>3, <4>1
    <3>. QED  BY <3>1, <3>2, <3>3
  <2>. QED  BY <2>1 DEF WorkRunsOnce, Exists
<1>13. LockDiscipline'
  BY <1>2, <1>5 DEF IInv, LockDiscipline
<1>. QED  BY <1>1, <1>9, <1>10, <1>11, <1>12, <1>13 DEF IInv

LEMMA WorkerStep ==
  ASSUME IInv, [Next]_vars, NEW p \in Proc, NEW t \in Thread, ThreadStep(p, t)
  PROVE  IInv'
<1>. DEFINE j == task[p][t]
<1>1. CASE Take(p, t)
  BY <1>1, TakeStep
<1>2. CASE TakeSentinel(p, t) \/ PopTask(p, t)
  BY <1>2, LeaveStep
<1>3. CASE StartTask(p, t)
  <2>. DEFINE there == IF row'[j].state \in Terminal THEN "pop" ELSE "check"
  <2>1. /\ pc[p][t] = "start" /\ stage[p] \in HasThreads /\ Start(j)
        /\ ThreadGoto(p, t, there) /\ UNCHANGED runs /\ ThreadOnly
    BY <1>3 DEF StartTask, At
  <2>2. pc[p][t] \in Busy /\ there \in Busy /\ there \notin Executing
    BY <2>1 DEF Busy, ThreadPC, Executing
  <2>3. j \in Job /\ runs[j] = 0
    BY <2>1, <2>2, BusyTypes DEF IInv, JobProgress
  <2>4. /\ OnlyRow(j)
        /\ \/ row'[j].state \in Terminal
           \/ row'[j].state = "running" /\ row'[j].started
    BY <2>1, <2>3, StartKeeps DEF IInv, TypeInv, IsTerminal
  <2>. QED  BY <2>1, <2>2, <2>3, <2>4, BusyMove
<1>4. CASE Checkpoint(p, t)
  <2>1. ThreadOnly /\ UNCHANGED row /\ stage[p] \in HasThreads
    BY <1>4 DEF Checkpoint, journal, At
  <2>2. OnlyRow(j)
    BY <2>1 DEF OnlyRow
  <2>3. CASE /\ pc[p][t] = "check" /\ ThreadGoto(p, t, "work")
             /\ runs' = [runs EXCEPT ![j] = @ + 1]
    <3>1. /\ pc[p][t] \in Busy /\ pc[p][t] \in Busy \ {"start", "pop"}
          /\ "work" \in Busy /\ "check" \in Executing \cup {"check"}
      BY <2>3 DEF Busy, ThreadPC
    <3>2. runs[j] = 0 /\ row[j].started /\ (lock[p] = "sh" => row[j].state = "running")
      BY <2>3, <3>1 DEF IInv, JobProgress
    <3>. QED  BY <2>1, <2>2, <2>3, <3>1, <3>2, BusyMove
  <2>4. CASE /\ UNCHANGED runs
             /\ \/ pc[p][t] \in {"check", "finish"} /\ ThreadGoto(p, t, "cancel")
                \/ pc[p][t] = "finish" /\ ThreadGoto(p, t, "succeed")
    <3>1. PICK there \in {"cancel", "succeed"} :
            /\ ThreadGoto(p, t, there)
            /\ pc[p][t] \in {"check", "finish"}
      BY <2>4
    <3>2. there \in Busy \ {"start", "check"}
          /\ pc[p][t] \in Busy \ {"start", "pop"}
          /\ pc[p][t] \in Executing \cup {"check"}
      BY <3>1 DEF Busy, ThreadPC, Executing
    <3>3. row[j].started /\ (lock[p] = "sh" => row[j].state = "running")
      BY <3>2 DEF IInv, JobProgress
    <3>. QED  BY <2>1, <2>2, <2>4, <3>1, <3>2, <3>3, BusyMove
  <2>. QED  BY <1>4, <2>3, <2>4 DEF Checkpoint, At
<1>5. CASE Work(p, t)
  <2>1. ThreadOnly /\ UNCHANGED <<row, runs>> /\ stage[p] \in HasThreads
        /\ pc[p][t] = "work"
    BY <1>5 DEF Work, journal, At
  <2>2. PICK there \in {"cancel", "report", "finish", "fail"} : ThreadGoto(p, t, there)
    BY <1>5 DEF Work
  <2>3. /\ there \in Busy \ {"start", "check"} /\ pc[p][t] \in Busy \ {"start", "pop"}
        /\ pc[p][t] \in Executing \cup {"check"}
    BY <2>1, <2>2 DEF Busy, ThreadPC, Executing
  <2>4. row[j].started /\ (lock[p] = "sh" => row[j].state = "running") /\ OnlyRow(j)
    BY <2>1, <2>3 DEF IInv, JobProgress, OnlyRow
  <2>. QED  BY <2>1, <2>2, <2>3, <2>4, BusyMove
<1>6. CASE ReportTask(p, t)
  <2>1. ThreadOnly /\ UNCHANGED runs /\ stage[p] \in HasThreads /\ pc[p][t] = "report"
    BY <1>6 DEF ReportTask, At
  <2>2. /\ pc[p][t] \in Busy \ {"start", "pop"}
        /\ pc[p][t] \in Executing \cup {"check"}
    BY <2>1 DEF Busy, ThreadPC, Executing
  <2>3. row[j].started /\ j \in Job
    BY <2>2, BusyTypes DEF IInv, JobProgress
  <2>4. CASE ThreadGoto(p, t, "work") /\ \E progress \in 0 .. MaxProgress : Report(j, progress)
    <3>1. OnlyRow(j) /\ row'[j].state = "running" /\ row'[j].started
      BY <2>3, <2>4, ReportKeeps DEF IInv, TypeInv
    <3>2. "work" \in Busy
      BY DEF Busy, ThreadPC
    <3>. QED  BY <2>1, <2>2, <2>4, <3>1, <3>2, BusyMove
  <2>5. CASE /\ UNCHANGED journal
             /\ ThreadGoto(p, t, "cancel") \/ ThreadGoto(p, t, "fail")
    <3>1. PICK there \in {"cancel", "fail"} : ThreadGoto(p, t, there)
      BY <2>5
    <3>2. there \in Busy /\ there \notin Executing \cup {"start", "check"}
      BY DEF Busy, ThreadPC, Executing
    <3>3. OnlyRow(j) /\ row' = row
      BY <2>5 DEF OnlyRow, journal
    <3>. QED  BY <2>1, <2>2, <2>3, <3>1, <3>2, <3>3, BusyMove
  <2>. QED  BY <1>6, <2>4, <2>5 DEF ReportTask
<1>7. CASE EndTask(p, t)
  <2>1. /\ ThreadOnly /\ UNCHANGED runs /\ stage[p] \in HasThreads
        /\ pc[p][t] \in {"succeed", "cancel", "fail"} /\ ThreadGoto(p, t, "pop")
        /\ Succeed(j) \/ Fail(j) \/ CompleteCancelled(j)
    BY <1>7 DEF EndTask, At
  <2>2. pc[p][t] \in Busy /\ "pop" \in Busy /\ "pop" \notin Executing
    BY <2>1 DEF Busy, ThreadPC, Executing
  <2>3. OnlyRow(j)
    BY <2>1, <2>2, BusyTypes, EndKeeps DEF IInv, TypeInv
  <2>. QED  BY <2>1, <2>2, <2>3, BusyMove
<1>. QED  BY <1>1, <1>2, <1>3, <1>4, <1>5, <1>6, <1>7 DEF ThreadStep

LEMMA IInvStep == IInv /\ [Next]_vars => IInv'
<1>. SUFFICES ASSUME IInv, [Next]_vars PROVE IInv'
  OBVIOUS
<1>1. CASE UNCHANGED vars
  <2>1. UNCHANGED <<row, stage, lock, owner, submitting, queue, pending, pc, task, runs>>
    BY <1>1 DEF vars, journal, process, executor
  <2>2. TypeInv'
    BY TypeStep DEF IInv
  <2>3. LockDiscipline' /\ ThreadPlace' /\ WaitingPlace'
    BY <2>1 DEF IInv, LockDiscipline, ThreadPlace, WaitingPlace, Exists
  <2>4. JobProgress' /\ WorkRunsOnce'
    BY <2>1 DEF IInv, JobProgress, WorkRunsOnce, Exists
  <2>. QED  BY <2>2, <2>3, <2>4 DEF IInv
<1>2. CASE Next
  BY <1>2, ConstructionStep, ShutdownControlStep, CancelRequestStep, SubmitCreateStep,
     SubmitDispatchStep, DropStep, DieStep, WorkerStep DEF Next, ShutdownStep, Caller
<1>. QED  BY <1>1, <1>2

\* A live runtime's work is never taken for an orphan: while a thread of a
\* process that holds the lock is inside a job's work, the journal says running,
\* whichever processes start, recover or die meanwhile (LiveWorkIsRunning).
THEOREM LiveWorkIsKept == Spec => []LiveWorkIsRunning
<1>1. IInv => LiveWorkIsRunning
  BY DEF IInv, JobProgress, LiveWorkIsRunning
<1>. QED  BY <1>1, InitIInv, IInvStep, PTL DEF Spec

\* The work of a job is entered at most once over all processes and threads,
\* and never for a job cancelled while it was queued (WorkRunsOnce).
THEOREM WorkIsEnteredOnce == Spec => []WorkRunsOnce
<1>1. IInv => WorkRunsOnce
  BY DEF IInv
<1>. QED  BY <1>1, InitIInv, IInvStep, PTL DEF Spec
-----------------------------------------------------------------------------
(* Where a job can be lost: between the queue, the table of active jobs,   *)
(* the threads and the journal.                                            *)

\* A thread between tasks holds none.
IdleHasNoJob ==
  \A p \in Proc, t \in Thread : pc[p][t] \notin Busy => task[p][t] = NoJob

\* A Future that can still be cancelled is in the table, where cancel() looks.
PendingIsActive == \A j \in pending : owner[j] \in Proc /\ j \in active[owner[j]]

\* Only the thread that takes a job starts it.
WaitingNeverStarted ==
  /\ \A j \in pending : ~row[j].started
  /\ \A p \in Proc : submitting[p] # NoJob => ~row[submitting[p]].started

\* A cancellation whose transaction was made: the job was still waiting, and
\* has its terminal record, or a thread has taken it.
CancellingIsTold ==
  \A c \in cancelling : Exists(c[3]) /\ (IsTerminal(c[3]) \/ row[c[3]].started)

\* What the executor drains was cancelled before.
DrainedOfWork ==
  \A p \in Proc : \A j \in active[p] \cap pending :
    /\ stage[p] \notin {"drain", "get"}
    /\ stage[p] = "cancel" /\ mode[p].cancel =>
         j \in todo[p] \/ <<p, "shutdown", j>> \in cancelling

\* A job of a live process has its terminal record or is on its way to one.
Accounted ==
  \A j \in Job : owner[j] \in Proc /\ stage[owner[j]] # "dead" =>
    \/ IsTerminal(j)
    \/ submitting[owner[j]] = j
    \/ j \in pending
    \/ \E t \in Thread : task[owner[j]][t] = j /\ pc[owner[j]][t] \in Busy \ {"pop"}

\* A thread leaves after the last task: submit() is refused by then.
Markers ==
  \A p \in Proc :
    /\ stage[p] # "up" => submitting[p] = NoJob
    /\ stage[p] \notin {"join", "release", "closed", "dead"} =>
         sentinels[p] = 0 /\ \A t \in Thread : pc[p][t] # "exited"
    /\ stage[p] # "dead" /\ (\E t \in Thread : pc[p][t] = "exited") => queue[p] = <<>>
    /\ stage[p] \in {"release", "closed"} /\ mode[p].wait =>
         \A t \in Thread : pc[p][t] = "exited"

TrackInv ==
  /\ IInv /\ IdleHasNoJob /\ ActiveIsTracked /\ PendingIsActive
  /\ WaitingNeverStarted /\ CancellingIsTold /\ DrainedOfWork /\ Accounted /\ Markers

LEMMA InitTrackInv == Init => TrackInv
<1>. SUFFICES ASSUME Init PROVE TrackInv
  OBVIOUS
<1>1. IInv
  BY InitIInv
<1>2. IdleHasNoJob /\ ActiveIsTracked /\ PendingIsActive /\ WaitingNeverStarted
  BY DEF Init, IdleHasNoJob, ActiveIsTracked, PendingIsActive, WaitingNeverStarted
<1>3. CancellingIsTold /\ DrainedOfWork
  BY DEF Init, CancellingIsTold, DrainedOfWork
<1>4. Accounted /\ Markers
  BY NullAssumption DEF Init, Accounted, Markers
<1>. QED  BY <1>1, <1>2, <1>3, <1>4 DEF TrackInv

LEMMA ActiveTypes ==
  ASSUME TrackInv, NEW p \in Proc, NEW j \in active[p]
  PROVE  j \in Job /\ Exists(j) /\ owner[j] = p
<1>1. j \in Job /\ j # NoJob
  BY NullAssumption DEF TrackInv, IInv, TypeInv, TypeOK, ExecutorTypeOK
<1>2. CASE \E i \in DOMAIN queue[p] : queue[p][i] = j
  BY <1>1, <1>2 DEF TrackInv, IInv, WaitingPlace
<1>3. CASE \E t \in Thread : task[p][t] = j
  <2>1. PICK t \in Thread : task[p][t] = j
    BY <1>3
  <2>2. pc[p][t] \in Busy
    BY <1>1, <2>1 DEF TrackInv, IdleHasNoJob
  <2>. QED  BY <1>1, <2>1, <2>2, BusyTypes DEF TrackInv
<1>. QED  BY <1>1, <1>2, <1>3 DEF TrackInv, ActiveIsTracked

\* Only the thread that has taken a job starts it.
LEMMA StartedByItsThread ==
  ASSUME IInv, [Next]_vars, NEW k \in Job, Exists(k), ~row[k].started,
         \A p \in Proc, t \in Thread : pc[p][t] \in Busy => task[p][t] # k
  PROVE  ~row'[k].started
<1>1. JournalInv /\ BusyHasJob
  BY DEF IInv, TypeInv
<1>2. CASE UNCHANGED journal
  BY <1>2 DEF journal
<1>3. CASE FailInterrupted
  BY <1>1, <1>3, FailInterruptedKeeps
<1>4. ASSUME NEW j \in Job,
             \/ Create(j) \/ RequestCancel(j)
             \/ \E progress \in 0 .. MaxProgress : Report(j, progress)
      PROVE  ~row'[k].started
  <2>1. OnlyRow(j)
    BY <1>1, <1>4, CreateKeeps, RequestCancelKeeps, ReportKeeps
  <2>2. CASE j # k
    BY <2>1, <2>2 DEF OnlyRow
  <2>3. CASE j = k
    <3>1. ~Create(k)
      BY DEF Create
    <3>2. CASE \E progress \in 0 .. MaxProgress : Report(k, progress)
      BY <1>1, <3>2, ReportKeeps
    <3>3. CASE RequestCancel(k)
      <4>1. row[k] \in Row
        BY <1>1 DEF JournalInv, JournalTypeOK, Exists
      <4>. QED  BY <1>1, <3>3, <4>1, RequestCancelKeeps DEF Row
    <3>. QED  BY <1>4, <2>3, <3>1, <3>2, <3>3
  <2>. QED  BY <2>2, <2>3
<1>5. ASSUME NEW p \in Proc, NEW t \in Thread,
             StartTask(p, t) \/ EndTask(p, t)
      PROVE  ~row'[k].started
  <2>1. pc[p][t] \in Busy /\ task[p][t] \in Job
    BY <1>1, <1>5 DEF StartTask, EndTask, At, BusyHasJob, Busy, ThreadPC
  <2>2. OnlyRow(task[p][t])
    BY <1>1, <1>5, <2>1, StartKeeps, EndKeeps DEF StartTask, EndTask
  <2>. QED  BY <2>1, <2>2 DEF OnlyRow
<1>. QED  BY <1>1, <1>2, <1>3, <1>4, <1>5, ServiceStepOperations

\* Removing one element of a sequence keeps the others.
LEMMA RemoveAtKeeps ==
  ASSUME NEW S, NEW s \in Seq(S), NEW i \in DOMAIN s, NEW m \in DOMAIN s, m # i
  PROVE  \E k \in DOMAIN RemoveAt(s, i) : RemoveAt(s, i)[k] = s[m]
<1>. DEFINE a == SubSeq(s, 1, i - 1)
            b == SubSeq(s, i + 1, Len(s))
<1>1. i \in 1 .. Len(s) /\ m \in 1 .. Len(s) /\ Len(s) \in Nat
  OBVIOUS
<1>2. \A k \in 1 .. Len(s) : s[k] \in S
  BY ElementOfSeq
<1>3. /\ a \in Seq(S) /\ Len(a) = i - 1
      /\ \A k \in 1 .. i - 1 : a[k] = s[1 + k - 1]
  <2>1. 1 \in Int /\ i - 1 \in Int /\ \A k \in 1 .. i - 1 : s[k] \in S
    BY <1>1, <1>2
  <2>2. /\ a \in Seq(S) /\ Len(a) = IF 1 <= i - 1 THEN (i - 1) - 1 + 1 ELSE 0
        /\ \A k \in 1 .. (i - 1) - 1 + 1 : a[k] = s[1 + k - 1]
    BY <2>1, SubSeqProperties
  <2>. QED  BY <2>2, <1>1
<1>4. /\ b \in Seq(S) /\ Len(b) = Len(s) - i
      /\ \A k \in 1 .. Len(s) - i : b[k] = s[i + 1 + k - 1]
  <2>1. i + 1 \in Int /\ Len(s) \in Int /\ \A k \in i + 1 .. Len(s) : s[k] \in S
    BY <1>1, <1>2
  <2>2. /\ b \in Seq(S)
        /\ Len(b) = IF i + 1 <= Len(s) THEN Len(s) - (i + 1) + 1 ELSE 0
        /\ \A k \in 1 .. Len(s) - (i + 1) + 1 : b[k] = s[i + 1 + k - 1]
    BY <2>1, SubSeqProperties
  <2>3. i + 1 <= Len(s) => Len(s) - (i + 1) + 1 = Len(s) - i
    BY <1>1
  <2>4. ~(i + 1 <= Len(s)) => Len(s) - i = 0
    BY <1>1
  <2>5. Len(s) - (i + 1) + 1 = Len(s) - i
    BY <1>1
  <2>. HIDE DEF b
  <2>. QED  BY <2>2, <2>3, <2>4, <2>5
<1>. DEFINE c == RemoveAt(s, i)
<1>5. c = a \o b
  BY DEF RemoveAt
<1>. HIDE DEF a, b, c
<1>6. /\ c \in Seq(S) /\ Len(c) = Len(a) + Len(b)
      /\ \A k \in 1 .. Len(a) + Len(b) : c[k] = IF k <= Len(a) THEN a[k] ELSE b[k - Len(a)]
  BY <1>3, <1>4, <1>5, ConcatProperties
<1>7. DOMAIN c = 1 .. Len(s) - 1
  <2>1. Len(c) = Len(s) - 1
    BY <1>1, <1>3, <1>4, <1>6
  <2>. QED  BY <1>6, <2>1
<1>8. CASE m < i
  <2>1. /\ m \in DOMAIN c /\ m <= Len(a) /\ 1 + m - 1 = m /\ m \in 1 .. i - 1
        /\ m \in 1 .. Len(a) + Len(b)
    BY <1>1, <1>3, <1>4, <1>7, <1>8
  <2>2. c[m] = a[m] /\ a[m] = s[1 + m - 1]
    BY <1>3, <1>6, <2>1
  <2>. QED  BY <2>1, <2>2 DEF c
<1>9. CASE m > i
  <2>0. i \in Int /\ m \in Int /\ Len(s) \in Nat /\ 1 <= i /\ i < m /\ m <= Len(s)
        /\ Len(a) = i - 1 /\ Len(b) = Len(s) - i
    BY <1>1, <1>3, <1>4, <1>9
  <2>1. /\ m - 1 \in DOMAIN c /\ ~(m - 1 <= Len(a)) /\ m - 1 \in 1 .. Len(a) + Len(b)
        /\ (m - 1) - Len(a) = m - i /\ m - i \in 1 .. Len(s) - i
        /\ i + 1 + (m - i) - 1 = m
    <3>1. m - 1 \in 1 .. Len(s) - 1 /\ ~(m - 1 <= i - 1)
      BY <2>0
    <3>2. m - i \in 1 .. Len(s) - i
      BY <2>0
    <3>4. (m - 1) - (i - 1) = m - i
      BY <2>0
    <3>5. i + 1 + (m - i) - 1 = m
      BY <2>0
    <3>3. (i - 1) + (Len(s) - i) = Len(s) - 1
      BY <2>0
    <3>. QED  BY <1>7, <2>0, <3>1, <3>2, <3>3, <3>4, <3>5
  <2>2. c[m - 1] = b[m - i] /\ b[m - i] = s[i + 1 + (m - i) - 1]
    BY <1>4, <1>6, <2>1
  <2>. QED  BY <2>1, <2>2 DEF c
<1>. QED  BY <1>1, <1>8, <1>9

-----------------------------------------------------------------------------
(* The journal's part: it follows from the way rows evolve.                *)

\* Nothing enters the queue but what a submit held, and nothing is held by a
\* submit but a job it has just created.
NothingAppears ==
  /\ \A j \in pending' : j \in pending \/ \E p \in Proc : submitting[p] = j
  /\ \A p \in Proc : submitting'[p] \notin {NoJob, submitting[p]} =>
       ~row'[submitting'[p]].started

LEMMA WaitingStep ==
  ASSUME TrackInv, [Next]_vars, NothingAppears
  PROVE  WaitingNeverStarted'
<1>1. IInv /\ WaitingNeverStarted /\ ThreadPlace /\ WaitingPlace
  BY DEF TrackInv, IInv
<1>2. ASSUME NEW j \in pending
      PROVE  ~row'[j].started
  <2>1. j \in Job /\ Exists(j) /\ ~row[j].started
    BY <1>1, <1>2, WaitingTypes DEF WaitingNeverStarted, WaitingPlace, IInv, TypeInv, TypeOK,
                                    ExecutorTypeOK
  <2>2. \A p \in Proc, t \in Thread : pc[p][t] \in Busy => task[p][t] # j
    BY <1>1, <1>2 DEF ThreadPlace
  <2>. QED  BY <1>1, <2>1, <2>2, StartedByItsThread
<1>3. ASSUME NEW p \in Proc, submitting[p] # NoJob
      PROVE  ~row'[submitting[p]].started
  <2>1. submitting[p] \in Job /\ Exists(submitting[p]) /\ ~row[submitting[p]].started
        /\ owner[submitting[p]] = p
    BY <1>1, <1>3, WaitingTypes DEF WaitingNeverStarted, WaitingPlace
  <2>2. \A q \in Proc, t \in Thread : pc[q][t] \in Busy => task[q][t] # submitting[p]
    BY <1>1, <2>1 DEF ThreadPlace
  <2>. QED  BY <1>1, <2>1, <2>2, StartedByItsThread
<1>4. \A j \in pending' : ~row'[j].started
  <2>1. ASSUME NEW j \in pending', NEW p \in Proc, submitting[p] = j, j \notin pending
        PROVE  ~row'[j].started
    <3>1. TypeInv'
      BY <1>1, TypeStep DEF IInv
    <3>2. j # NoJob
      BY <3>1, NullAssumption DEF TypeInv, TypeOK, ExecutorTypeOK
    <3>. QED  BY <1>3, <2>1, <3>2
  <2>. QED  BY <1>2, <2>1 DEF NothingAppears
<1>. QED  BY <1>3, <1>4 DEF NothingAppears, WaitingNeverStarted

LEMMA ToldStep ==
  ASSUME TrackInv, [Next]_vars,
         \A c \in cancelling' : c \in cancelling
                                \/ \E p \in Proc, a \in Caller, j \in Job :
                                     c = <<p, a, j>> /\ RequestCancel(j)
  PROVE  CancellingIsTold'
<1>1. JournalInv /\ Evolves
  BY ServiceStepIsJournalStep, JournalStepKeeps DEF TrackInv, IInv, TypeInv
<1>2. ASSUME NEW c \in cancelling
      PROVE  Exists(c[3])' /\ (IsTerminal(c[3])' \/ row'[c[3]].started)
  <2>1. c[3] \in Job
    BY <1>2 DEF TrackInv, IInv, TypeInv, TypeOK, ProcessTypeOK
  <2>2. Exists(c[3]) /\ (IsTerminal(c[3]) \/ row[c[3]].started)
    BY <1>2 DEF TrackInv, CancellingIsTold
  <2>. QED  BY <1>1, <2>1, <2>2 DEF Evolves, IsTerminal, Exists
<1>3. ASSUME NEW j \in Job, RequestCancel(j)
      PROVE  Exists(j)' /\ (IsTerminal(j)' \/ row'[j].started)
  <2>1. Exists(j) /\ Exists(j)' /\ row[j] \in Row
    BY <1>1, <1>3, RequestCancelKeeps DEF Evolves, JournalInv, JournalTypeOK, Exists
  <2>2. CASE IsTerminal(j) /\ row'[j] = row[j]
    BY <2>1, <2>2 DEF IsTerminal, Exists
  <2>3. CASE row'[j] = [row[j] EXCEPT !.state = "cancelled", !.cancel = TRUE]
    BY <2>1, <2>3 DEF IsTerminal, Exists, Terminal, Row
  <2>4. CASE row[j].state = "running" /\ row'[j] = [row[j] EXCEPT !.cancel = TRUE]
    <3>1. row[j].started
      BY <1>1, <2>1, <2>4 DEF JournalInv, RowShape, Shaped
    <3>. QED  BY <2>1, <2>4, <3>1 DEF Row
  <2>. QED  BY <1>1, <1>3, <2>2, <2>3, <2>4, RequestCancelKeeps
<1>4. ASSUME NEW c \in cancelling'
      PROVE  Exists(c[3])' /\ (IsTerminal(c[3])' \/ row'[c[3]].started)
  <2>1. CASE c \in cancelling
    BY <1>2, <2>1
  <2>2. CASE c \notin cancelling
    <3>1. PICK p \in Proc, a \in Caller, j \in Job : c = <<p, a, j>> /\ RequestCancel(j)
      BY <2>2
    <3>2. c[3] = j
      BY <3>1
    <3>3. Exists(j)' /\ (IsTerminal(j)' \/ row'[j].started)
      BY <1>3, <3>1
    <3>. QED  BY <3>2, <3>3 DEF Exists, IsTerminal
  <2>. QED  BY <2>1, <2>2
<1>. QED  BY <1>4 DEF CancellingIsTold

-----------------------------------------------------------------------------
(* The steps that move no job.                                             *)

LEMMA StepFacts ==
  ASSUME TrackInv, [Next]_vars
  PROVE  IInv' /\ Evolves /\ ProcessTypeOK /\ ExecutorTypeOK /\ IInv
BY IInvStep, ServiceStepIsJournalStep, JournalStepKeeps DEF TrackInv, IInv, TypeInv, TypeOK

\* Who is still alive was alive, and what was terminal stays so.
LEMMA StillAccounted ==
  ASSUME TrackInv, [Next]_vars, UNCHANGED <<owner, submitting, pending, pc, task>>,
         \A q \in Proc : stage[q] = "dead" => stage'[q] = "dead"
  PROVE  Accounted'
<1>1. Evolves
  BY StepFacts
<1>2. ASSUME NEW j \in Job, IsTerminal(j)
      PROVE  row'[j] # NoRow /\ row'[j].state \in Terminal
  BY <1>1, <1>2 DEF Evolves, IsTerminal, Exists
<1>. QED  BY <1>2 DEF TrackInv, Accounted, IsTerminal, Exists

LEMMA ControlKeeps ==
  ASSUME TrackInv, [Next]_vars,
         UNCHANGED <<owner, submitting, active, queue, pending, pc, task>>,
         \A q \in Proc : stage[q] = "dead" => stage'[q] = "dead",
         \A c \in cancelling' : c \in cancelling
                                \/ \E p \in Proc, a \in Caller, j \in Job :
                                     c = <<p, a, j>> /\ RequestCancel(j),
         DrainedOfWork', Markers'
  PROVE  TrackInv'
<1>1. WaitingNeverStarted'
  BY WaitingStep DEF NothingAppears
<1>2. CancellingIsTold' /\ Accounted'
  BY ToldStep, StillAccounted
<1>3. IdleHasNoJob' /\ ActiveIsTracked' /\ PendingIsActive'
  BY DEF TrackInv, IdleHasNoJob, ActiveIsTracked, PendingIsActive
<1>. QED  BY <1>1, <1>2, <1>3, StepFacts DEF TrackInv

LEMMA ConstructionKeeps ==
  ASSUME TrackInv, [Next]_vars, NEW p \in Proc,
         \/ \E recover \in BOOLEAN : Open(p, recover)
         \/ TryExclusive(p) \/ Recover(p) \/ Share(p)
  PROVE  TrackInv'
<1>1. UNCHANGED <<owner, submitting, active, queue, pending, pc, task, cancelling, sentinels>>
  BY DEF Open, TryExclusive, Recover, Share, executor
<1>2. PICK s \in {"trylock", "recover", "share", "up"} : Goto(p, s)
  BY DEF Open, TryExclusive, Recover, Share
<1>3. stage[p] \in {"unborn", "trylock", "recover", "share"}
  BY DEF Open, TryExclusive, Recover, Share
<1>4. stage'[p] = s /\ \A q \in Proc \ {p} : stage'[q] = stage[q]
  BY <1>2, StepFacts DEF Goto, ProcessTypeOK
<1>5. \A q \in Proc \ {p} : mode'[q] = mode[q] /\ todo'[q] = todo[q]
  BY StepFacts DEF Open, TryExclusive, Recover, Share, ProcessTypeOK
<1>6. DrainedOfWork'
  BY <1>1, <1>4, <1>5 DEF TrackInv, DrainedOfWork
<1>7. Markers'
  BY <1>1, <1>3, <1>4, <1>5 DEF TrackInv, Markers
<1>. QED  BY <1>1, <1>3, <1>4, <1>6, <1>7, ControlKeeps

LEMMA CancelKeeps ==
  ASSUME TrackInv, [Next]_vars, NEW p \in Proc, NEW j \in Job,
         Cancel(p, j) \/ ShutdownCancel(p, j)
  PROVE  TrackInv'
<1>1. UNCHANGED <<owner, submitting, active, queue, pending, pc, task, sentinels, stage, mode>>
  BY DEF Cancel, ShutdownCancel, CancelRequest, executor
<1>2. PICK a \in Caller : /\ RequestCancel(j)
                          /\ cancelling' = cancelling \cup {<<p, a, j>>}
                          /\ \/ todo' = todo
                             \/ a = "shutdown" /\ todo' = [todo EXCEPT ![p] = @ \ {j}]
  BY DEF Cancel, ShutdownCancel, CancelRequest, Caller
<1>3. DrainedOfWork'
  <2>1. ASSUME NEW q \in Proc, NEW k, k \in todo[q] \/ <<q, "shutdown", k>> \in cancelling
        PROVE  k \in todo'[q] \/ <<q, "shutdown", k>> \in cancelling'
    <3>1. q \in DOMAIN todo
      BY StepFacts DEF ProcessTypeOK
    <3>. QED  BY <1>2, <2>1, <3>1
  <2>. QED  BY <1>1, <2>1 DEF TrackInv, DrainedOfWork
<1>4. Markers'
  BY <1>1 DEF TrackInv, Markers
<1>. QED  BY <1>1, <1>2, <1>3, <1>4, ControlKeeps

LEMMA ShutdownControlKeeps ==
  ASSUME TrackInv, [Next]_vars, NEW p \in Proc,
         \/ \E wait, cancel \in BOOLEAN : Shutdown(p, wait, cancel)
         \/ ShutdownCancelled(p) \/ DrainTest(p) \/ Join(p) \/ Release(p) \/ Seal(p)
  PROVE  TrackInv'
<1>1. UNCHANGED <<owner, submitting, active, queue, pending, pc, task, cancelling>>
  BY DEF Shutdown, ShutdownCancelled, DrainTest, Join, Release, Seal, executor
<1>2. PICK s \in {"cancel", "drain", "seal", "get", "join", "release", "closed"} : Goto(p, s)
  BY DEF Shutdown, ShutdownCancelled, DrainTest, Join, Release, Seal
<1>3. /\ stage[p] \in {"up", "cancel", "drain", "seal", "join", "release"}
      /\ submitting[p] = NoJob
  BY DEF Shutdown, ShutdownCancelled, DrainTest, Join, Release, Seal, LockFree, TrackInv, Markers
<1>4. stage'[p] = s /\ \A q \in Proc \ {p} : stage'[q] = stage[q]
  BY <1>2, StepFacts DEF Goto, ProcessTypeOK
<1>5. \A q \in Proc \ {p} : /\ mode'[q] = mode[q] /\ todo'[q] = todo[q]
                            /\ sentinels'[q] = sentinels[q]
  BY StepFacts DEF Shutdown, ShutdownCancelled, DrainTest, Join, Release, Seal,
                   ProcessTypeOK, ExecutorTypeOK, executor
<1>6. DrainedOfWork'
  <2>1. ASSUME NEW k \in active[p] \cap pending
        PROVE  /\ s \notin {"drain", "get"}
               /\ s = "cancel" /\ mode'[p].cancel =>
                    k \in todo'[p] \/ <<p, "shutdown", k>> \in cancelling
    <3>1. CASE \E wait, cancel \in BOOLEAN : Shutdown(p, wait, cancel)
      <4>1. PICK wait \in BOOLEAN, cancel \in BOOLEAN : Shutdown(p, wait, cancel)
        BY <3>1
      <4>2. stage'[p] = "cancel"
        BY <4>1, StepFacts DEF Shutdown, Goto, ProcessTypeOK
      <4>3. mode'[p].cancel = cancel
        BY <4>1, StepFacts DEF Shutdown, ProcessTypeOK
      <4>4. todo'[p] = IF cancel THEN active[p] ELSE {}
        BY <4>1, StepFacts DEF Shutdown, ProcessTypeOK
      <4>. QED  BY <1>4, <4>2, <4>3, <4>4
    <3>2. CASE ShutdownCancelled(p)
      <4>1. k \in Job
        BY ActiveTypes
      <4>2. mode[p].cancel => FALSE
        BY <3>2, <4>1 DEF ShutdownCancelled, InShutdownCancel, TrackInv, DrainedOfWork
      <4>3. stage'[p] = "seal"
        BY <3>2, <4>2, StepFacts DEF ShutdownCancelled, Goto, ProcessTypeOK
      <4>. QED  BY <1>4, <4>3
    <3>3. CASE DrainTest(p)
      BY <3>3 DEF DrainTest, TrackInv, DrainedOfWork
    <3>4. CASE Join(p) \/ Release(p) \/ Seal(p)
      <4>1. stage'[p] \in {"join", "release", "closed"}
        BY <3>4, StepFacts DEF Join, Release, Seal, Goto, ProcessTypeOK
      <4>. QED  BY <1>4, <4>1
    <3>. QED  BY <3>1, <3>2, <3>3, <3>4
  <2>. QED  BY <1>1, <1>4, <1>5, <2>1 DEF TrackInv, DrainedOfWork
<1>7. Markers'
  <2>1. s \notin {"join", "release", "closed"} =>
          sentinels'[p] = 0 /\ \A t \in Thread : pc[p][t] # "exited"
    <3>1. CASE Seal(p) \/ Join(p) \/ Release(p)
      <4>1. stage'[p] \in {"join", "release", "closed"}
        BY <3>1, StepFacts DEF Join, Release, Seal, Goto, ProcessTypeOK
      <4>. QED  BY <1>4, <4>1
    <3>2. CASE \/ \E wait, cancel \in BOOLEAN : Shutdown(p, wait, cancel)
               \/ ShutdownCancelled(p) \/ DrainTest(p)
      <4>1. stage[p] \in {"up", "cancel", "drain"} /\ UNCHANGED sentinels
        BY <3>2 DEF Shutdown, ShutdownCancelled, DrainTest, executor
      <4>. QED  BY <4>1 DEF TrackInv, Markers
    <3>. QED  BY <3>1, <3>2
  <2>2. s \in {"release", "closed"} /\ mode'[p].wait => \A t \in Thread : pc[p][t] = "exited"
    <3>1. CASE Seal(p)
      <4>1. UNCHANGED mode /\ stage'[p] = IF mode[p].wait THEN "join" ELSE "release"
        BY <3>1, StepFacts DEF Seal, Goto, ProcessTypeOK
      <4>. QED  BY <1>4, <4>1
    <3>2. CASE Join(p)
      BY <3>2 DEF Join
    <3>3. CASE Release(p)
      BY <3>3 DEF Release, TrackInv, Markers
    <3>4. CASE \/ \E wait, cancel \in BOOLEAN : Shutdown(p, wait, cancel)
               \/ ShutdownCancelled(p) \/ DrainTest(p)
      <4>1. stage'[p] \in {"cancel", "drain", "seal", "get"}
        BY <3>4, StepFacts DEF Shutdown, ShutdownCancelled, DrainTest, Goto, ProcessTypeOK
      <4>. QED  BY <1>4, <4>1
    <3>. QED  BY <3>1, <3>2, <3>3, <3>4
  <2>3. (\E t \in Thread : pc[p][t] = "exited") => queue[p] = <<>>
    BY <1>3 DEF TrackInv, Markers
  <2>. QED  BY <1>1, <1>3, <1>4, <1>5, <2>1, <2>2, <2>3 DEF TrackInv, Markers
<1>. QED  BY <1>1, <1>3, <1>4, <1>6, <1>7, ControlKeeps

-----------------------------------------------------------------------------
(* Submission and cancellation.                                            *)

LEMMA SubmitCreateKeeps ==
  ASSUME TrackInv, [Next]_vars, NEW p \in Proc, NEW j \in Job, SubmitCreate(p, j)
  PROVE  TrackInv'
<1>1. UNCHANGED <<stage, mode, todo, cancelling, active, queue, pending, sentinels, pc, task>>
  BY DEF SubmitCreate, executor
<1>2. /\ stage[p] = "up" /\ submitting[p] = NoJob
      /\ submitting'[p] = j /\ \A q \in Proc \ {p} : submitting'[q] = submitting[q]
      /\ owner'[j] = p /\ \A k \in Job \ {j} : owner'[k] = owner[k]
  BY StepFacts DEF SubmitCreate, LockFree, ProcessTypeOK
<1>3. ~Exists(j) /\ ~row'[j].started
  <2>1. JournalInv' /\ Exists(j)' /\ row'[j].state = "queued" /\ ~Exists(j)
    BY CreateKeeps DEF SubmitCreate, TrackInv, IInv, TypeInv
  <2>. QED  BY <2>1 DEF JournalInv, RowShape, Shaped
<1>4. WaitingNeverStarted'
  BY <1>1, <1>2, <1>3, WaitingStep DEF NothingAppears
<1>5. CancellingIsTold'
  BY <1>1, ToldStep
<1>6. IdleHasNoJob' /\ ActiveIsTracked'
  BY <1>1 DEF TrackInv, IdleHasNoJob, ActiveIsTracked
<1>7. PendingIsActive'
  <2>1. \A k \in pending : k \in Job /\ Exists(k)
    BY StepFacts DEF ExecutorTypeOK, IInv, WaitingPlace
  <2>. QED  BY <1>1, <1>2, <1>3, <2>1 DEF TrackInv, PendingIsActive
<1>8. DrainedOfWork' /\ Markers'
  BY <1>1, <1>2 DEF TrackInv, DrainedOfWork, Markers
<1>9. Accounted'
  <2>1. ASSUME NEW k \in Job \ {j}, IsTerminal(k)
        PROVE  row'[k] # NoRow /\ row'[k].state \in Terminal
    BY <2>1, StepFacts DEF Evolves, IsTerminal, Exists
  <2>2. ASSUME NEW k \in Job \ {j}, owner[k] \in Proc, stage[owner[k]] # "dead"
        PROVE  \/ row'[k] # NoRow /\ row'[k].state \in Terminal
               \/ submitting'[owner[k]] = k
               \/ k \in pending
               \/ \E t \in Thread : task[owner[k]][t] = k /\ pc[owner[k]][t] \in Busy \ {"pop"}
    <3>1. submitting[owner[k]] = k => submitting'[owner[k]] = k
      BY <1>2, <2>2, NullAssumption
    <3>. QED  BY <2>1, <2>2, <3>1 DEF TrackInv, Accounted
  <2>. QED  BY <1>1, <1>2, <2>2 DEF Accounted, IsTerminal, Exists
<1>. QED  BY <1>4, <1>5, <1>6, <1>7, <1>8, <1>9, StepFacts DEF TrackInv

LEMMA SubmitDispatchKeeps ==
  ASSUME TrackInv, [Next]_vars, NEW p \in Proc, SubmitDispatch(p)
  PROVE  TrackInv'
<1>. DEFINE j == submitting[p]
<1>1. UNCHANGED <<row, stage, owner, mode, todo, cancelling, sentinels, pc, task>>
  BY DEF SubmitDispatch, journal
<1>2. j \in Job /\ owner[j] = p /\ stage[p] = "up" /\ j # NoJob
  BY StepFacts DEF SubmitDispatch, LockFree, ProcessTypeOK, IInv, WaitingPlace
<1>3. /\ submitting'[p] = NoJob /\ \A q \in Proc \ {p} : submitting'[q] = submitting[q]
      /\ pending' = pending \cup {j}
      /\ active'[p] = active[p] \cup {j} /\ \A q \in Proc \ {p} : active'[q] = active[q]
      /\ queue'[p] = Append(queue[p], j) /\ \A q \in Proc \ {p} : queue'[q] = queue[q]
  BY StepFacts DEF SubmitDispatch, ProcessTypeOK, ExecutorTypeOK
<1>. HIDE DEF j
<1>4. WaitingNeverStarted'
  BY <1>3, WaitingStep DEF NothingAppears, j
<1>5. CancellingIsTold'
  BY <1>1, ToldStep
<1>6. IdleHasNoJob' /\ PendingIsActive'
  BY <1>1, <1>2, <1>3 DEF TrackInv, IdleHasNoJob, PendingIsActive
<1>7. ActiveIsTracked'
  <2>1. /\ \A i \in DOMAIN queue[p] : i \in DOMAIN queue'[p] /\ queue'[p][i] = queue[p][i]
        /\ \E i \in DOMAIN queue'[p] : queue'[p][i] = j
    <3>1. queue[p] \in Seq(Job)
      BY StepFacts DEF ExecutorTypeOK
    <3>2. /\ \A i \in 1 .. Len(queue[p]) : Append(queue[p], j)[i] = queue[p][i]
          /\ Append(queue[p], j)[Len(queue[p]) + 1] = j
          /\ DOMAIN queue[p] = 1 .. Len(queue[p])
          /\ DOMAIN Append(queue[p], j) = 1 .. Len(queue[p]) + 1
          /\ Len(queue[p]) \in Nat
      BY <1>2, <3>1
    <3>. QED  BY <1>3, <3>2
  <2>. QED  BY <1>1, <1>3, <2>1 DEF TrackInv, ActiveIsTracked
<1>8. DrainedOfWork'
  <2>1. ASSUME NEW q \in Proc \ {p}
        PROVE  j \notin active[q]
    BY <1>2, ActiveTypes
  <2>2. ASSUME NEW q \in Proc, NEW k \in active'[q] \cap pending'
        PROVE  /\ stage'[q] \notin {"drain", "get"}
               /\ stage'[q] = "cancel" /\ mode'[q].cancel =>
                    k \in todo'[q] \/ <<q, "shutdown", k>> \in cancelling'
    <3>1. CASE q = p
      BY <1>1, <1>2, <3>1
    <3>2. CASE q # p
      <4>1. k \in active[q] /\ k \in pending
        BY <1>3, <2>1, <3>2
      <4>. QED  BY <1>1, <4>1 DEF TrackInv, DrainedOfWork
    <3>. QED  BY <3>1, <3>2
  <2>. QED  BY <2>2 DEF DrainedOfWork
<1>9. Markers'
  BY <1>1, <1>2, <1>3 DEF TrackInv, Markers
<1>10. Accounted'
  BY <1>1, <1>2, <1>3 DEF TrackInv, Accounted, IsTerminal, Exists, j
<1>. QED  BY <1>4, <1>5, <1>6, <1>7, <1>8, <1>9, <1>10, StepFacts DEF TrackInv

LEMMA CancelSignalKeeps ==
  ASSUME TrackInv, [Next]_vars, NEW p \in Proc, NEW a \in Caller, NEW j \in Job,
         CancelSignal(p, a, j)
  PROVE  TrackInv'
<1>1. /\ UNCHANGED <<row, stage, owner, submitting, mode, todo, queue, sentinels, pc, task>>
      /\ <<p, a, j>> \in cancelling /\ cancelling' = cancelling \ {<<p, a, j>>}
  BY DEF CancelSignal, journal
<1>2. CASE UNCHANGED <<pending, active>> /\ j \notin active[p]
  <2>1. DrainedOfWork'
    BY <1>1, <1>2 DEF TrackInv, DrainedOfWork
  <2>2. Markers'
    BY <1>1 DEF TrackInv, Markers
  <2>. QED  BY <1>1, <1>2, <2>1, <2>2, ControlKeeps
<1>3. CASE /\ j \in active[p] /\ pending' = pending \ {j}
           /\ active' = [active EXCEPT ![p] = IF j \in pending THEN @ \ {j} ELSE @]
  <2>1. /\ active'[p] = IF j \in pending THEN active[p] \ {j} ELSE active[p]
        /\ \A q \in Proc \ {p} : active'[q] = active[q]
    BY <1>3, StepFacts DEF ExecutorTypeOK
  <2>2. owner[j] = p /\ \A q \in Proc \ {p} : j \notin active[q]
    BY <1>3, ActiveTypes
  <2>3. j \in pending => IsTerminal(j)
    <3>1. IsTerminal(j) \/ row[j].started
      BY <1>1 DEF TrackInv, CancellingIsTold
    <3>. QED  BY <3>1 DEF TrackInv, WaitingNeverStarted
  <2>4. WaitingNeverStarted'
    BY <1>1, <1>3, WaitingStep DEF NothingAppears
  <2>5. CancellingIsTold'
    BY <1>1, ToldStep
  <2>6. IdleHasNoJob' /\ PendingIsActive'
    BY <1>1, <1>3, <2>1 DEF TrackInv, IdleHasNoJob, PendingIsActive
  <2>7. ActiveIsTracked'
    <3>1. ASSUME NEW q \in Proc, NEW k \in active'[q]
          PROVE  \/ k \in pending' /\ \E i \in DOMAIN queue[q] : queue[q][i] = k
                 \/ \E t \in Thread : task[q][t] = k
      <4>1. k \in active[q] /\ (k = j => k \notin pending)
        BY <2>1, <2>2
      <4>. QED  BY <1>3, <4>1 DEF TrackInv, ActiveIsTracked
    <3>. QED  BY <1>1, <3>1 DEF ActiveIsTracked
  <2>8. DrainedOfWork'
    <3>1. ASSUME NEW q \in Proc, NEW k \in active'[q] \cap pending'
          PROVE  /\ k \in active[q] \cap pending
                 /\ <<q, "shutdown", k>> \in cancelling =>
                      <<q, "shutdown", k>> \in cancelling'
      BY <1>1, <1>3, <2>1
    <3>. QED  BY <1>1, <3>1 DEF TrackInv, DrainedOfWork
  <2>9. Markers'
    BY <1>1 DEF TrackInv, Markers
  <2>10. Accounted'
    BY <1>1, <1>3, <2>3 DEF TrackInv, Accounted, IsTerminal, Exists
  <2>. QED  BY <2>4, <2>5, <2>6, <2>7, <2>8, <2>9, <2>10, StepFacts DEF TrackInv
<1>. QED  BY <1>2, <1>3 DEF CancelSignal

LEMMA DieKeeps ==
  ASSUME TrackInv, [Next]_vars, NEW p \in Proc, Die(p)
  PROVE  TrackInv'
<1>1. UNCHANGED <<row, owner>>
  BY DEF Die, journal
<1>2. /\ stage'[p] = "dead" /\ submitting'[p] = NoJob /\ active'[p] = {}
      /\ queue'[p] = <<>> /\ \A t \in Thread : task'[p][t] = NoJob /\ pc'[p][t] = "exited"
      /\ pending' = {j \in pending : owner[j] # p}
      /\ cancelling' = {c \in cancelling : c[1] # p}
  BY StepFacts DEF Die, Goto, ProcessTypeOK, ExecutorTypeOK
<1>3. \A q \in Proc \ {p} :
        /\ stage'[q] = stage[q] /\ submitting'[q] = submitting[q] /\ active'[q] = active[q]
        /\ queue'[q] = queue[q] /\ task'[q] = task[q] /\ pc'[q] = pc[q]
        /\ sentinels'[q] = sentinels[q] /\ mode'[q] = mode[q] /\ todo'[q] = todo[q]
  BY StepFacts DEF Die, Goto, ProcessTypeOK, ExecutorTypeOK
<1>4. WaitingNeverStarted'
  BY <1>2, <1>3, WaitingStep DEF NothingAppears
<1>5. CancellingIsTold'
  BY <1>2, ToldStep
<1>6. IdleHasNoJob' /\ PendingIsActive'
  BY <1>1, <1>2, <1>3 DEF TrackInv, IdleHasNoJob, PendingIsActive
<1>7. ActiveIsTracked'
  <2>1. ASSUME NEW q \in Proc \ {p}, NEW k \in active[q]
        PROVE  owner[k] # p
    BY ActiveTypes
  <2>. QED  BY <1>2, <1>3, <2>1 DEF TrackInv, ActiveIsTracked
<1>8. DrainedOfWork'
  <2>1. ASSUME NEW q \in Proc \ {p}, NEW k, <<q, "shutdown", k>> \in cancelling
        PROVE  <<q, "shutdown", k>> \in cancelling'
    BY <1>2, <2>1
  <2>2. ASSUME NEW q \in Proc, NEW k \in active'[q] \cap pending'
        PROVE  /\ stage'[q] \notin {"drain", "get"}
               /\ stage'[q] = "cancel" /\ mode'[q].cancel =>
                    k \in todo'[q] \/ <<q, "shutdown", k>> \in cancelling'
    <3>1. q # p
      BY <1>2
    <3>2. k \in active[q] /\ k \in pending
      BY <1>2, <1>3, <3>1
    <3>. QED  BY <1>3, <2>1, <3>1, <3>2 DEF TrackInv, DrainedOfWork
  <2>. QED  BY <2>2 DEF DrainedOfWork
<1>9. Markers'
  BY <1>2, <1>3 DEF TrackInv, Markers
<1>10. Accounted'
  BY <1>1, <1>2, <1>3 DEF TrackInv, Accounted, IsTerminal, Exists
<1>. QED  BY <1>4, <1>5, <1>6, <1>7, <1>8, <1>9, <1>10, StepFacts DEF TrackInv

-----------------------------------------------------------------------------
(* The executor's queue and its threads.                                   *)

\* Taking a task off the queue loses no other.
LEMMA OthersStayQueued ==
  ASSUME ExecutorTypeOK, NEW p \in Proc, NEW i \in DOMAIN queue[p],
         queue' = [queue EXCEPT ![p] = RemoveAt(@, i)]
  PROVE  /\ \A q \in Proc \ {p} : queue'[q] = queue[q]
         /\ \A k : k # queue[p][i] /\ (\E m \in DOMAIN queue[p] : queue[p][m] = k)
              => \E m \in DOMAIN queue'[p] : queue'[p][m] = k
<1>1. queue[p] \in Seq(Job) /\ queue'[p] = RemoveAt(queue[p], i)
  BY DEF ExecutorTypeOK
<1>2. \A q \in Proc \ {p} : queue'[q] = queue[q]
  BY DEF ExecutorTypeOK
<1>3. ASSUME NEW k, k # queue[p][i], NEW m \in DOMAIN queue[p], queue[p][m] = k
      PROVE  \E n \in DOMAIN queue'[p] : queue'[p][n] = k
  <2>1. m # i
    BY <1>3
  <2>. QED  BY <1>1, <1>3, <2>1, RemoveAtKeeps
<1>. QED  BY <1>2, <1>3

LEMMA DrainGetKeeps ==
  ASSUME TrackInv, [Next]_vars, NEW p \in Proc, DrainGet(p)
  PROVE  TrackInv'
<1>1. UNCHANGED <<row, owner, submitting, mode, todo, cancelling, active, sentinels, pc, task>>
  BY DEF DrainGet, journal
<1>2. stage[p] = "get" /\ \A k \in active[p] : k \notin pending
  BY DEF DrainGet, TrackInv, DrainedOfWork
<1>3. stage'[p] \in {"raised", "drain"} /\ \A q \in Proc \ {p} : stage'[q] = stage[q]
  BY StepFacts DEF DrainGet, Goto, ProcessTypeOK
<1>4. CASE UNCHANGED <<queue, pending>>
  <2>1. DrainedOfWork'
    BY <1>1, <1>2, <1>3, <1>4 DEF TrackInv, DrainedOfWork
  <2>2. Markers'
    BY <1>1, <1>2, <1>3, <1>4 DEF TrackInv, Markers
  <2>. QED  BY <1>1, <1>2, <1>3, <1>4, <2>1, <2>2, ControlKeeps
<1>5. CASE ~UNCHANGED <<queue, pending>>
  <2>1. PICK i \in DOMAIN queue[p] : /\ queue' = [queue EXCEPT ![p] = RemoveAt(@, i)]
                                     /\ pending' = pending \ {queue[p][i]}
    BY <1>5 DEF DrainGet
  <2>2. queue[p][i] \notin pending
    BY <1>2 DEF TrackInv, IInv, WaitingPlace, PendingIsActive
  <2>3. pending' = pending
    BY <2>1, <2>2
  <2>4. \A q \in Proc \ {p} : queue'[q] = queue[q]
    BY <2>1, StepFacts, OthersStayQueued
  <2>5. ActiveIsTracked'
    BY <1>1, <1>2, <2>3, <2>4 DEF TrackInv, ActiveIsTracked
  <2>6. WaitingNeverStarted' /\ CancellingIsTold'
    BY <1>1, <2>3, WaitingStep, ToldStep DEF NothingAppears
  <2>7. Accounted'
    BY <1>1, <1>2, <1>3, <2>3, StillAccounted
  <2>8. DrainedOfWork'
    BY <1>1, <1>2, <1>3, <2>3 DEF TrackInv, DrainedOfWork
  <2>9. Markers'
    BY <1>1, <1>2, <1>3, <2>4 DEF TrackInv, Markers
  <2>10. IdleHasNoJob' /\ PendingIsActive'
    BY <1>1, <2>3 DEF TrackInv, IdleHasNoJob, PendingIsActive
  <2>. QED  BY <2>5, <2>6, <2>7, <2>8, <2>9, <2>10, StepFacts DEF TrackInv
<1>. QED  BY <1>4, <1>5

LEMMA TakeKeeps ==
  ASSUME TrackInv, [Next]_vars, NEW p \in Proc, NEW t \in Thread, Take(p, t)
  PROVE  TrackInv'
<1>1. /\ UNCHANGED <<row, stage, owner, submitting, mode, todo, cancelling, active, sentinels>>
      /\ pc[p][t] = "idle"
  BY DEF Take, At, journal, process
<1>2. PICK i \in DOMAIN queue[p] :
        /\ queue' = [queue EXCEPT ![p] = RemoveAt(@, i)]
        /\ pending' = pending \ {queue[p][i]}
        /\ IF queue[p][i] \in pending
           THEN ThreadGoto(p, t, "start") /\ task' = [task EXCEPT ![p][t] = queue[p][i]]
           ELSE UNCHANGED <<pc, task>>
  BY DEF Take
<1>. DEFINE j == queue[p][i]
<1>3. /\ \A q \in Proc \ {p} : queue'[q] = queue[q]
      /\ \A k : k # j /\ (\E m \in DOMAIN queue[p] : queue[p][m] = k)
           => \E m \in DOMAIN queue'[p] : queue'[p][m] = k
  BY <1>2, StepFacts, OthersStayQueued
<1>4. j \in Job /\ owner[j] = p /\ j # NoJob
  BY StepFacts, WaitingTypes, NullAssumption DEF IInv, WaitingPlace
<1>5. task[p][t] = NoJob /\ pc[p][t] \notin Busy
  BY <1>1 DEF TrackInv, IdleHasNoJob, Busy
<1>6. pending' = pending \ {j}
  BY <1>2
<1>. HIDE DEF j
<1>7. WaitingNeverStarted' /\ CancellingIsTold'
  BY <1>1, <1>6, WaitingStep, ToldStep DEF NothingAppears
<1>8. PendingIsActive' /\ DrainedOfWork'
  BY <1>1, <1>6 DEF TrackInv, PendingIsActive, DrainedOfWork
<1>9. CASE j \notin pending
  <2>1. UNCHANGED <<pc, task, pending>>
    BY <1>2, <1>6, <1>9 DEF j
  <2>2. IdleHasNoJob' /\ Accounted'
    BY <1>1, <2>1, StillAccounted DEF TrackInv, IdleHasNoJob
  <2>3. ActiveIsTracked'
    BY <1>1, <1>3, <1>9, <2>1 DEF TrackInv, ActiveIsTracked
  <2>4. Markers'
    BY <1>1, <1>2, <1>3, <2>1 DEF TrackInv, Markers
  <2>. QED  BY <1>7, <1>8, <2>2, <2>3, <2>4, StepFacts DEF TrackInv
<1>10. CASE j \in pending
  <2>1. ThreadGoto(p, t, "start") /\ task' = [task EXCEPT ![p][t] = j]
    BY <1>2, <1>10 DEF j
  <2>2. /\ pc'[p][t] = "start"
        /\ \A q \in Proc, u \in Thread : q # p \/ u # t => pc'[q][u] = pc[q][u]
    BY <2>1, StepFacts, PcUpdate DEF ThreadPC
  <2>3. /\ task'[p][t] = j
        /\ \A q \in Proc, u \in Thread : q # p \/ u # t => task'[q][u] = task[q][u]
    BY <1>4, <2>1, StepFacts DEF ExecutorTypeOK
  <2>4. "start" \in Busy \ {"pop", "exited"}
    BY DEF Busy, ThreadPC
  <2>5. IdleHasNoJob'
    BY <2>2, <2>3, <2>4 DEF TrackInv, IdleHasNoJob
  <2>6. ActiveIsTracked'
    <3>1. ASSUME NEW q \in Proc, NEW k \in active[q]
          PROVE  \/ k \in pending' /\ \E m \in DOMAIN queue'[q] : queue'[q][m] = k
                 \/ \E u \in Thread : task'[q][u] = k
      <4>1. k # NoJob /\ owner[k] = q
        BY ActiveTypes, NullAssumption
      <4>2. CASE k = j
        BY <1>4, <2>3, <4>1, <4>2
      <4>3. CASE k # j /\ k \in pending /\ \E m \in DOMAIN queue[q] : queue[q][m] = k
        BY <1>3, <1>6, <4>3
      <4>4. CASE k # j /\ \E u \in Thread : task[q][u] = k
        BY <1>5, <2>3, <4>1, <4>4
      <4>. QED  BY <4>2, <4>3, <4>4 DEF TrackInv, ActiveIsTracked
    <3>. QED  BY <1>1, <3>1 DEF ActiveIsTracked
  <2>7. Accounted'
    <3>1. ASSUME NEW k \in Job, owner[k] \in Proc, stage[owner[k]] # "dead"
          PROVE  \/ IsTerminal(k)
                 \/ submitting[owner[k]] = k
                 \/ k \in pending'
                 \/ \E u \in Thread : /\ task'[owner[k]][u] = k
                                      /\ pc'[owner[k]][u] \in Busy \ {"pop"}
      <4>1. CASE k = j
        BY <1>4, <2>2, <2>3, <2>4, <4>1
      <4>2. CASE k # j /\ \E u \in Thread : /\ task[owner[k]][u] = k
                                            /\ pc[owner[k]][u] \in Busy \ {"pop"}
        <5>1. PICK u \in Thread : task[owner[k]][u] = k /\ pc[owner[k]][u] \in Busy \ {"pop"}
          BY <4>2
        <5>2. owner[k] # p \/ u # t
          BY <1>5, <5>1
        <5>. QED  BY <2>2, <2>3, <3>1, <5>1, <5>2
      <4>. QED  BY <1>6, <3>1, <4>1, <4>2 DEF TrackInv, Accounted
    <3>. QED  BY <1>1, <3>1 DEF Accounted, IsTerminal, Exists
  <2>8. Markers'
    <3>1. \A u \in Thread : pc[p][u] # "exited"
      <4>1. queue[p] # <<>> /\ stage[p] # "dead"
        BY <1>2 DEF Take, At, HasThreads, ShuttingDown
      <4>. QED  BY <4>1 DEF TrackInv, Markers
    <3>2. \A u \in Thread : pc'[p][u] # "exited"
      BY <2>2, <3>1
    <3>3. \A q \in Proc \ {p} : \A u \in Thread : pc'[q][u] = pc[q][u]
      BY <2>2
    <3>4. ~(stage[p] \in {"release", "closed"} /\ mode[p].wait)
      BY <3>1 DEF TrackInv, Markers
    <3>. QED  BY <1>1, <1>3, <3>2, <3>3, <3>4 DEF TrackInv, Markers
  <2>. QED  BY <1>7, <1>8, <2>5, <2>6, <2>7, <2>8, StepFacts DEF TrackInv
<1>. QED  BY <1>9, <1>10

LEMMA TakeSentinelKeeps ==
  ASSUME TrackInv, [Next]_vars, NEW p \in Proc, NEW t \in Thread, TakeSentinel(p, t)
  PROVE  TrackInv'
<1>1. /\ UNCHANGED <<row, stage, owner, submitting, mode, todo, cancelling, active, queue,
                     pending, task>>
      /\ pc[p][t] = "idle" /\ queue[p] = <<>> /\ sentinels[p] > 0
      /\ stage[p] \in HasThreads
  BY DEF TakeSentinel, At, journal, process
<1>2. /\ pc'[p][t] = "exited"
      /\ \A q \in Proc, u \in Thread : q # p \/ u # t => pc'[q][u] = pc[q][u]
  BY StepFacts, PcUpdate DEF TakeSentinel, ThreadPC
<1>3. \A q \in Proc \ {p} : sentinels'[q] = sentinels[q]
  BY StepFacts DEF TakeSentinel, ExecutorTypeOK
<1>4. stage[p] \in {"join", "release", "closed"}
  <2>1. sentinels[p] # 0
    BY <1>1, StepFacts, ThreadCount DEF ExecutorTypeOK
  <2>. QED  BY <1>1, <2>1 DEF TrackInv, Markers, HasThreads, ShuttingDown
<1>5. task[p][t] = NoJob /\ "exited" \notin Busy /\ "idle" \notin Busy
  BY <1>1 DEF TrackInv, IdleHasNoJob, Busy
<1>6. WaitingNeverStarted' /\ CancellingIsTold'
  BY <1>1, WaitingStep, ToldStep DEF NothingAppears
<1>7. PendingIsActive' /\ DrainedOfWork' /\ ActiveIsTracked'
  BY <1>1 DEF TrackInv, PendingIsActive, DrainedOfWork, ActiveIsTracked
<1>8. IdleHasNoJob'
  BY <1>1, <1>2, <1>5 DEF TrackInv, IdleHasNoJob
<1>9. Accounted'
  <2>1. ASSUME NEW q \in Proc, NEW u \in Thread, pc[q][u] \in Busy \ {"pop"}
        PROVE  pc'[q][u] \in Busy \ {"pop"}
    BY <1>1, <1>2, <1>5, <2>1
  <2>. QED  BY <1>1, <2>1 DEF TrackInv, Accounted, IsTerminal, Exists
<1>10. Markers'
  <2>1. ASSUME NEW q \in Proc, NEW u \in Thread, pc[q][u] = "exited"
        PROVE  pc'[q][u] = "exited"
    BY <1>1, <1>2, <2>1
  <2>2. ASSUME NEW q \in Proc \ {p}, NEW u \in Thread
        PROVE  pc'[q][u] = pc[q][u]
    BY <1>2
  <2>. QED  BY <1>1, <1>3, <1>4, <2>1, <2>2 DEF TrackInv, Markers
<1>. QED  BY <1>6, <1>7, <1>8, <1>9, <1>10, StepFacts DEF TrackInv

LEMMA WorkKeeps ==
  ASSUME TrackInv, [Next]_vars, NEW p \in Proc, NEW t \in Thread,
         \/ StartTask(p, t) \/ Checkpoint(p, t) \/ Work(p, t)
         \/ ReportTask(p, t) \/ EndTask(p, t)
  PROVE  TrackInv'
<1>1. /\ UNCHANGED <<stage, owner, submitting, mode, todo, cancelling, active, queue,
                     pending, sentinels, task>>
      /\ pc[p][t] \in Busy
  BY DEF StartTask, Checkpoint, Work, ReportTask, EndTask, ThreadOnly, process, At, Busy, ThreadPC
<1>2. PICK there \in Busy : ThreadGoto(p, t, there)
  BY DEF StartTask, Checkpoint, Work, ReportTask, EndTask, Busy, ThreadPC
<1>3. /\ pc'[p][t] = there
      /\ \A q \in Proc, u \in Thread : q # p \/ u # t => pc'[q][u] = pc[q][u]
  BY <1>2, StepFacts, PcUpdate DEF Busy
<1>4. "exited" \notin Busy
  BY DEF Busy
<1>5. there = "pop" => row'[task[p][t]] # NoRow /\ row'[task[p][t]].state \in Terminal
  <2>1. task[p][t] \in Job /\ Exists(task[p][t]) /\ JournalInv
    BY <1>1, BusyTypes, StepFacts DEF IInv, TypeInv
  <2>2. CASE Checkpoint(p, t) \/ Work(p, t) \/ ReportTask(p, t)
    <3>1. pc'[p][t] # "pop"
      BY <2>2, StepFacts DEF Checkpoint, Work, ReportTask, ThreadGoto, ExecutorTypeOK
    <3>. QED  BY <1>3, <3>1
  <2>3. CASE StartTask(p, t)
    <3>1. pc'[p][t] = IF row'[task[p][t]].state \in Terminal THEN "pop" ELSE "check"
      BY <2>3, StepFacts DEF StartTask, ThreadGoto, ExecutorTypeOK
    <3>. QED  BY <1>3, <2>1, <3>1, StepFacts DEF Evolves, Exists
  <2>4. CASE EndTask(p, t)
    <3>1. Succeed(task[p][t]) \/ Fail(task[p][t]) \/ CompleteCancelled(task[p][t])
      BY <2>4 DEF EndTask
    <3>2. row'[task[p][t]] # NoRow /\ row[task[p][t]] \in Row
      BY <2>1, StepFacts DEF Evolves, Exists, JournalInv, JournalTypeOK
    <3>3. row'[task[p][t]].state \in Terminal
      BY <2>1, <3>1, <3>2, EndKeeps DEF IsTerminal, Terminal, Row
    <3>. QED  BY <3>2, <3>3
  <2>. QED  BY <2>2, <2>3, <2>4
<1>6. WaitingNeverStarted' /\ CancellingIsTold'
  BY <1>1, WaitingStep, ToldStep DEF NothingAppears
<1>7. PendingIsActive' /\ DrainedOfWork' /\ ActiveIsTracked'
  BY <1>1 DEF TrackInv, PendingIsActive, DrainedOfWork, ActiveIsTracked
<1>8. IdleHasNoJob'
  BY <1>1, <1>3 DEF TrackInv, IdleHasNoJob
<1>9. Markers'
  <2>1. \A q \in Proc, u \in Thread : pc'[q][u] = "exited" <=> pc[q][u] = "exited"
    BY <1>1, <1>3, <1>4
  <2>. QED  BY <1>1, <2>1 DEF TrackInv, Markers
<1>10. Accounted'
  <2>1. ASSUME NEW k \in Job, owner[k] \in Proc, stage[owner[k]] # "dead"
        PROVE  \/ row'[k] # NoRow /\ row'[k].state \in Terminal
               \/ submitting[owner[k]] = k
               \/ k \in pending
               \/ \E u \in Thread : /\ task[owner[k]][u] = k
                                    /\ pc'[owner[k]][u] \in Busy \ {"pop"}
    <3>1. CASE IsTerminal(k)
      BY <3>1, StepFacts DEF Evolves, IsTerminal, Exists
    <3>2. ASSUME NEW u \in Thread, task[owner[k]][u] = k, pc[owner[k]][u] \in Busy \ {"pop"}
          PROVE  \/ row'[k] # NoRow /\ row'[k].state \in Terminal
                 \/ pc'[owner[k]][u] \in Busy \ {"pop"}
      <4>1. CASE owner[k] = p /\ u = t
        BY <1>3, <1>5, <3>2, <4>1
      <4>2. CASE owner[k] # p \/ u # t
        BY <1>3, <2>1, <3>2, <4>2
      <4>. QED  BY <4>1, <4>2
    <3>. QED  BY <2>1, <3>1, <3>2 DEF TrackInv, Accounted
  <2>. QED  BY <1>1, <2>1 DEF Accounted, IsTerminal, Exists
<1>. QED  BY <1>6, <1>7, <1>8, <1>9, <1>10, StepFacts DEF TrackInv

LEMMA PopTaskKeeps ==
  ASSUME TrackInv, [Next]_vars, NEW p \in Proc, NEW t \in Thread, PopTask(p, t)
  PROVE  TrackInv'
<1>. DEFINE j == task[p][t]
<1>1. /\ UNCHANGED <<row, stage, owner, submitting, mode, todo, cancelling, queue, pending,
                     sentinels>>
      /\ pc[p][t] = "pop"
  BY DEF PopTask, At, journal, process
<1>2. /\ pc'[p][t] = "idle" /\ task'[p][t] = NoJob
      /\ \A q \in Proc, u \in Thread : q # p \/ u # t =>
           pc'[q][u] = pc[q][u] /\ task'[q][u] = task[q][u]
      /\ active'[p] = active[p] \ {j} /\ \A q \in Proc \ {p} : active'[q] = active[q]
  BY StepFacts DEF PopTask, ThreadGoto, ExecutorTypeOK
<1>3. j \in Job /\ owner[j] = p /\ j \notin pending
  <2>1. pc[p][t] \in Busy
    BY <1>1 DEF Busy, ThreadPC
  <2>. QED  BY <2>1, StepFacts, BusyTypes
<1>. HIDE DEF j
<1>4. WaitingNeverStarted' /\ CancellingIsTold'
  BY <1>1, WaitingStep, ToldStep DEF NothingAppears
<1>5. PendingIsActive' /\ DrainedOfWork'
  BY <1>1, <1>2, <1>3 DEF TrackInv, PendingIsActive, DrainedOfWork
<1>6. IdleHasNoJob'
  BY <1>2 DEF TrackInv, IdleHasNoJob
<1>7. ActiveIsTracked'
  <2>1. ASSUME NEW q \in Proc, NEW k \in active'[q], NEW u \in Thread, task[q][u] = k
        PROVE  task'[q][u] = k
    BY <1>2, <2>1 DEF j
  <2>2. \A q \in Proc : active'[q] \subseteq active[q]
    BY <1>2
  <2>. QED  BY <1>1, <2>1, <2>2 DEF TrackInv, ActiveIsTracked
<1>8. Accounted'
  <2>1. ASSUME NEW q \in Proc, NEW u \in Thread, pc[q][u] \in Busy \ {"pop"}
        PROVE  pc'[q][u] \in Busy \ {"pop"} /\ task'[q][u] = task[q][u]
    BY <1>1, <1>2, <2>1
  <2>. QED  BY <1>1, <2>1 DEF TrackInv, Accounted, IsTerminal, Exists
<1>9. Markers'
  <2>1. \A q \in Proc, u \in Thread : pc'[q][u] = "exited" <=> pc[q][u] = "exited"
    BY <1>1, <1>2
  <2>. QED  BY <1>1, <2>1 DEF TrackInv, Markers
<1>. QED  BY <1>4, <1>5, <1>6, <1>7, <1>8, <1>9, StepFacts DEF TrackInv

LEMMA TrackInvStep == TrackInv /\ [Next]_vars => TrackInv'
<1>. SUFFICES ASSUME TrackInv, [Next]_vars PROVE TrackInv'
  OBVIOUS
<1>1. CASE UNCHANGED vars
  <2>1. UNCHANGED <<owner, submitting, active, queue, pending, pc, task, stage, cancelling,
                    mode, todo, sentinels>>
    BY <1>1 DEF vars, process, executor
  <2>2. DrainedOfWork' /\ Markers'
    BY <2>1 DEF TrackInv, DrainedOfWork, Markers
  <2>. QED  BY <2>1, <2>2, ControlKeeps
<1>2. ASSUME NEW p \in Proc, NEW t \in Thread, ThreadStep(p, t)
      PROVE  TrackInv'
  BY <1>2, TakeKeeps, TakeSentinelKeeps, WorkKeeps, PopTaskKeeps DEF ThreadStep
<1>3. CASE Next
  BY <1>2, <1>3, ConstructionKeeps, SubmitCreateKeeps, SubmitDispatchKeeps, CancelKeeps,
     CancelSignalKeeps, ShutdownControlKeeps, DrainGetKeeps, DieKeeps
     DEF Next, ShutdownStep, Caller
<1>. QED  BY <1>1, <1>3

\* The table of active jobs never leaks: every entry is a task that waits in
\* the queue or that a thread is on, through cancellation, the drain loop of a
\* shutdown and the deaths of other processes (ActiveIsTracked).
THEOREM ActiveJobsAreTracked == Spec => []ActiveIsTracked
<1>1. TrackInv => ActiveIsTracked
  BY DEF TrackInv
<1>. QED  BY <1>1, InitTrackInv, TrackInvStep, PTL DEF Spec

\* A shutdown that waits returns with a terminal record for every job that was
\* accepted, whether the queued work was run or cancelled (ShutdownQuiesces).
THEOREM ShutdownLeavesNothing == Spec => []ShutdownQuiesces
<1>1. ASSUME TrackInv, NEW p \in Proc, stage[p] = "closed", mode[p].wait, NEW j \in Job,
             owner[j] = p
      PROVE  IsTerminal(j)
  <2>1. \A t \in Thread : pc[p][t] = "exited"
    BY <1>1 DEF TrackInv, Markers
  <2>2. queue[p] = <<>> /\ submitting[p] = NoJob
    BY <1>1, <2>1, ThreadAssumption DEF TrackInv, Markers
  <2>3. j \notin pending
    <3>1. ASSUME j \in pending PROVE FALSE
      <4>1. j \in active[p]
        BY <1>1, <3>1 DEF TrackInv, PendingIsActive
      <4>2. PICK t \in Thread : task[p][t] = j
        BY <2>2, <4>1, <1>1 DEF TrackInv, ActiveIsTracked
      <4>. QED  BY <1>1, <2>1, <4>2, NullAssumption DEF TrackInv, IdleHasNoJob, Busy
    <3>. QED  BY <3>1
  <2>. QED  BY <1>1, <2>1, <2>2, <2>3, NullAssumption DEF TrackInv, Accounted, Busy
<1>2. TrackInv => ShutdownQuiesces
  BY <1>1 DEF ShutdownQuiesces
<1>. QED  BY <1>2, InitTrackInv, TrackInvStep, PTL DEF Spec

-----------------------------------------------------------------------------
(* JobService implements JobContract: every transaction of the journal is  *)
(* one move of the contract or changes nothing a client of it can see.     *)

\* What the contract sees of one row.
PhaseOf(r) ==
  IF r = NoRow THEN "absent"
  ELSE IF r.error = "interrupted" THEN "interrupted" ELSE r.state
AskedOf(r) == r # NoRow /\ r.started /\ r.cancel

LEMMA PhaseView ==
  /\ \A j \in Job : ContractPhase[j] = PhaseOf(row[j])
  /\ \A j \in Job : ContractPhase'[j] = PhaseOf(row'[j])
  /\ \A j \in Job : j \in ContractAsked <=> AskedOf(row[j])
  /\ \A j \in Job : j \in ContractAsked' <=> AskedOf(row'[j])
BY DEF ContractPhase, ContractAsked, PhaseOf, AskedOf, Exists

\* A step that changes no row's view changes nothing.
LEMMA SameView ==
  ASSUME \A k \in Job : row'[k] = row[k]
  PROVE  UNCHANGED <<ContractPhase, ContractAsked>>
BY DEF ContractPhase, ContractAsked, Exists

\* A step on one row moves its phase and, perhaps, asks it to stop.
LEMMA OneView ==
  ASSUME NEW j \in Job, OnlyRow(j)
  PROVE  /\ ContractPhase' = [ContractPhase EXCEPT ![j] = PhaseOf(row'[j])]
         /\ PhaseOf(row'[j]) = PhaseOf(row[j]) => ContractPhase' = ContractPhase
         /\ (AskedOf(row'[j]) <=> AskedOf(row[j])) => ContractAsked' = ContractAsked
         /\ AskedOf(row'[j]) => ContractAsked' = ContractAsked \cup {j}
<1>1. ContractPhase' = [ContractPhase EXCEPT ![j] = PhaseOf(row'[j])]
  BY DEF ContractPhase, PhaseOf, OnlyRow, Exists
<1>2. ContractAsked \subseteq Job /\ ContractAsked' \subseteq Job
  BY DEF ContractAsked
<1>3. \A k \in Job \ {j} : k \in ContractAsked' <=> k \in ContractAsked
  BY DEF ContractAsked, OnlyRow, Exists
<1>4. /\ j \in ContractAsked <=> AskedOf(row[j])
      /\ j \in ContractAsked' <=> AskedOf(row'[j])
  BY PhaseView
<1>5. ASSUME AskedOf(row'[j]) <=> AskedOf(row[j])
      PROVE  ContractAsked' = ContractAsked
  BY <1>2, <1>3, <1>4, <1>5
<1>6. ASSUME AskedOf(row'[j])
      PROVE  ContractAsked' = ContractAsked \cup {j}
  BY <1>2, <1>3, <1>4, <1>6
<1>7. ASSUME PhaseOf(row'[j]) = PhaseOf(row[j])
      PROVE  ContractPhase' = ContractPhase
  <2>1. ContractPhase[j] = PhaseOf(row[j])
    BY PhaseView
  <2>2. ContractPhase = [k \in Job |-> ContractPhase[k]]
    BY DEF ContractPhase
  <2>. QED  BY <1>1, <1>7, <2>1, <2>2
<1>. QED  BY <1>1, <1>5, <1>6, <1>7

LEMMA ContractInit == Init => Contract!Init
BY DEF Init, JournalInit, Contract!Init, ContractPhase, ContractAsked, Exists

LEMMA CreateMoves ==
  ASSUME JournalInv, NEW j \in Job, Create(j)
  PROVE  Contract!Accept(j)
<1>1. /\ OnlyRow(j) /\ row[j] = NoRow /\ row'[j] # NoRow /\ row'[j].state = "queued"
      /\ ~row'[j].cancel /\ JournalInv'
  BY CreateKeeps DEF Exists
<1>2. row'[j].error # "interrupted"
  BY <1>1 DEF JournalInv, RowShape, Shaped, Exists
<1>3. PhaseOf(row[j]) = "absent" /\ PhaseOf(row'[j]) = "queued"
  BY <1>1, <1>2 DEF PhaseOf
<1>4. ~AskedOf(row[j]) /\ ~AskedOf(row'[j])
  BY <1>1 DEF AskedOf
<1>. QED  BY <1>1, <1>3, <1>4, OneView, PhaseView DEF Contract!Accept, Contract!Move

\* A started row is not queued; a queued one has not been asked to stop.
LEMMA ViewOfLive ==
  ASSUME JournalInv, NEW j \in Job, IsLive(j)
  PROVE  /\ PhaseOf(row[j]) = row[j].state /\ row[j] # NoRow /\ row[j] \in Row
         /\ row[j].state = "queued" => ~row[j].started /\ ~row[j].cancel
         /\ row[j].state = "running" => row[j].started
         /\ row[j].state \in {"queued", "running"}
         /\ row[j].error # "interrupted"
BY LiveRow DEF PhaseOf, Exists, Shaped

LEMMA StartMoves ==
  ASSUME JournalInv, NEW j \in Job, Start(j)
  PROVE  Contract!Begin(j) \/ \A k \in Job : row'[k] = row[k]
<1>1. CASE AlreadyTerminal(j)
  BY <1>1 DEF AlreadyTerminal, journal
<1>2. CASE ~AlreadyTerminal(j)
  <2>. DEFINE s == [row[j] EXCEPT !.state = "running", !.started = TRUE]
  <2>1. IsLive(j) /\ row[j].state = "queued"
    BY <1>2 DEF Start, IsLive, Terminal
  <2>2. /\ PhaseOf(row[j]) = "queued" /\ row[j] \in Row /\ ~row[j].cancel
        /\ row[j].error # "interrupted" /\ ~AskedOf(row[j])
    BY <2>1, ViewOfLive DEF AskedOf
  <2>3. row' = [row EXCEPT ![j] = s]
    BY <1>2, <2>1, <2>2 DEF Start, Transition
  <2>4. row'[j] = s /\ OnlyRow(j)
    BY <2>3 DEF OnlyRow, JournalInv, JournalTypeOK
  <2>5. s \in Row /\ s.state = "running" /\ ~s.cancel /\ s.error # "interrupted"
    BY <2>2 DEF Row, JobState
  <2>6. PhaseOf(row'[j]) = "running" /\ ~AskedOf(row'[j])
    BY <2>4, <2>5, NoRowAssumption DEF PhaseOf, AskedOf
  <2>. QED  BY <2>2, <2>4, <2>6, OneView, PhaseView DEF Contract!Begin, Contract!Move
<1>. QED  BY <1>1, <1>2

LEMMA ReportMoves ==
  ASSUME JournalInv, NEW j \in Job, NEW progress \in 0 .. MaxProgress,
         Report(j, progress)
  PROVE  UNCHANGED <<ContractPhase, ContractAsked>>
<1>1. /\ IsLive(j) /\ row[j].state = "running"
  BY DEF Report, CanReport, IsLive, Terminal
<1>2. /\ OnlyRow(j) /\ row'[j].state = "running" /\ row'[j].started = row[j].started
      /\ row'[j].cancel = row[j].cancel /\ row'[j].error = row[j].error
      /\ Evolves
  BY ReportKeeps
<1>3. row'[j] # NoRow /\ row[j] # NoRow
  BY <1>1, <1>2 DEF Evolves, IsLive, Exists
<1>4. PhaseOf(row'[j]) = PhaseOf(row[j]) /\ (AskedOf(row'[j]) <=> AskedOf(row[j]))
  BY <1>1, <1>2, <1>3 DEF PhaseOf, AskedOf
<1>. QED  BY <1>2, <1>4, OneView

LEMMA RequestCancelMoves ==
  ASSUME JournalInv, NEW j \in Job, RequestCancel(j)
  PROVE  \/ Contract!Withdraw(j) \/ Contract!AskStop(j)
         \/ \A k \in Job : row'[k] = row[k]
<1>1. OnlyRow(j) /\ Evolves /\ Exists(j) /\ row'[j] # NoRow
  BY RequestCancelKeeps DEF Evolves, Exists
<1>2. CASE row'[j] = row[j]
  BY <1>1, <1>2 DEF OnlyRow
<1>3. CASE /\ row[j].state = "queued"
           /\ row'[j] = [row[j] EXCEPT !.state = "cancelled", !.cancel = TRUE]
  <2>1. IsLive(j)
    BY <1>1, <1>3 DEF IsLive, Terminal
  <2>2. /\ row[j] \in Row /\ PhaseOf(row[j]) = "queued" /\ ~row[j].started
        /\ row[j].error # "interrupted"
    BY <1>3, <2>1, ViewOfLive
  <2>3. /\ row'[j].state = "cancelled" /\ row'[j].started = row[j].started
        /\ row'[j].error = row[j].error
    BY <1>3, <2>2 DEF Row
  <2>4. PhaseOf(row'[j]) = "cancelled" /\ ~AskedOf(row[j]) /\ ~AskedOf(row'[j])
    BY <1>1, <2>2, <2>3 DEF PhaseOf, AskedOf
  <2>. QED  BY <1>1, <2>2, <2>4, OneView, PhaseView DEF Contract!Withdraw, Contract!Move
<1>4. CASE row[j].state = "running" /\ row'[j] = [row[j] EXCEPT !.cancel = TRUE]
  <2>1. IsLive(j)
    BY <1>1, <1>4 DEF IsLive, Terminal
  <2>2. /\ row[j] \in Row /\ PhaseOf(row[j]) = "running" /\ row[j].started
        /\ row[j].error # "interrupted"
    BY <1>4, <2>1, ViewOfLive
  <2>3. /\ row'[j].state = "running" /\ row'[j].started /\ row'[j].cancel = TRUE
        /\ row'[j].error = row[j].error
    BY <1>4, <2>2 DEF Row
  <2>4. PhaseOf(row'[j]) = "running" /\ AskedOf(row'[j])
    BY <1>1, <2>2, <2>3 DEF PhaseOf, AskedOf
  <2>5. ContractPhase' = ContractPhase
    BY <1>1, <2>2, <2>4, OneView
  <2>. QED  BY <1>1, <2>2, <2>4, <2>5, OneView, PhaseView DEF Contract!AskStop
<1>. QED  BY <1>2, <1>3, <1>4, RequestCancelKeeps

LEMMA EndMoves ==
  ASSUME JournalInv, NEW j \in Job, Succeed(j) \/ Fail(j) \/ CompleteCancelled(j),
         row[j].started
  PROVE  \/ \E outcome \in Contract!Outcome : Contract!Finish(j, outcome)
         \/ \A k \in Job : row'[k] = row[k]
<1>1. CASE row'[j] = row[j]
  BY <1>1, EndKeeps DEF OnlyRow
<1>2. CASE row'[j] # row[j]
  <2>1. OnlyRow(j) /\ IsLive(j) /\ row'[j] # NoRow
    BY <1>2, EndKeeps DEF Evolves, IsLive, Exists
  <2>2. /\ row[j] \in Row /\ PhaseOf(row[j]) = "running" /\ row[j].error # "interrupted"
        /\ row[j] # NoRow
    BY <2>1, ViewOfLive
  <2>3. \E outcome \in {"succeeded", "failed", "cancelled"} :
          /\ PhaseOf(row'[j]) = outcome
          /\ outcome # "cancelled" => ~row[j].cancel
          /\ row'[j].cancel <=> row[j].cancel
          /\ row'[j].started
    <3>1. CASE row'[j] = [row[j] EXCEPT !.state = "cancelled"]
      <4>1. /\ row'[j].state = "cancelled" /\ row'[j].error = row[j].error
            /\ row'[j].cancel = row[j].cancel /\ row'[j].started = row[j].started
        BY <2>2, <3>1 DEF Row
      <4>. QED  BY <2>1, <2>2, <4>1 DEF PhaseOf
    <3>2. CASE /\ ~row[j].cancel /\ ~row'[j].cancel
               /\ row'[j].started = row[j].started
               /\ \/ row'[j].state = "succeeded" /\ row'[j].error = row[j].error
                  \/ row'[j].state = "failed" /\ row'[j].error = "failed"
      BY <2>1, <2>2, <3>2 DEF PhaseOf
    <3>. QED  BY <1>2, <3>1, <3>2, EndKeeps
  <2>4. PICK outcome \in {"succeeded", "failed", "cancelled"} :
          /\ PhaseOf(row'[j]) = outcome
          /\ outcome # "cancelled" => ~row[j].cancel
          /\ row'[j].cancel <=> row[j].cancel
          /\ row'[j].started
    BY <2>3
  <2>5. AskedOf(row'[j]) <=> AskedOf(row[j])
    BY <2>1, <2>2, <2>4 DEF AskedOf
  <2>6. j \in ContractAsked <=> row[j].cancel
    BY <2>2, PhaseView DEF AskedOf
  <2>7. Contract!Finish(j, outcome)
    BY <2>1, <2>2, <2>4, <2>5, <2>6, OneView, PhaseView DEF Contract!Finish, Contract!Move
  <2>. QED  BY <2>7 DEF Contract!Outcome
<1>. QED  BY <1>1, <1>2

LEMMA InterruptMoves ==
  ASSUME JournalInv, FailInterrupted
  PROVE  Contract!Interrupt
<1>1. ASSUME NEW k \in Job
      PROVE  /\ ContractPhase'[k] = IF ContractPhase[k] \in {"queued", "running"}
                                    THEN "interrupted" ELSE ContractPhase[k]
             /\ k \in ContractAsked' <=> k \in ContractAsked
  <2>1. CASE IsLive(k)
    <3>1. /\ row'[k] # NoRow /\ row'[k].error = "interrupted"
          /\ row'[k].cancel = row[k].cancel /\ row'[k].started = row[k].started
      BY <2>1, FailInterruptedKeeps DEF Exists
    <3>2. PhaseOf(row[k]) \in {"queued", "running"} /\ row[k] # NoRow
      BY <2>1, ViewOfLive
    <3>3. PhaseOf(row'[k]) = "interrupted" /\ (AskedOf(row'[k]) <=> AskedOf(row[k]))
      BY <3>1, <3>2 DEF PhaseOf, AskedOf
    <3>. QED  BY <3>2, <3>3, PhaseView
  <2>2. CASE ~IsLive(k)
    <3>1. row'[k] = row[k]
      BY <2>2, FailInterruptedKeeps
    <3>2. PhaseOf(row[k]) \notin {"queued", "running"}
      BY <2>2 DEF PhaseOf, IsLive, Exists, Terminal
    <3>. QED  BY <3>1, <3>2, PhaseView
  <2>. QED  BY <2>1, <2>2
<1>2. ContractPhase' = [k \in Job |-> ContractPhase'[k]]
  BY DEF ContractPhase
<1>3. ContractAsked' = ContractAsked
  BY <1>1 DEF ContractAsked
<1>. QED  BY <1>1, <1>2, <1>3 DEF Contract!Interrupt

\* A thread that ends its job had started it.
LEMMA ServiceStepIsContractStep == IInv /\ [Next]_vars => [Contract!Next]_(Contract!vars)
<1>. SUFFICES ASSUME IInv, [Next]_vars PROVE [Contract!Next]_(Contract!vars)
  OBVIOUS
<1>1. CASE \A k \in Job : row'[k] = row[k]
  BY <1>1, SameView DEF Contract!vars
<1>2. JournalInv
  BY DEF IInv, TypeInv
<1>3. ASSUME NEW p \in Proc, NEW t \in Thread, EndTask(p, t)
      PROVE  [Contract!Next]_(Contract!vars)
  <2>1. pc[p][t] \in Busy \ {"start", "pop"}
    BY <1>3 DEF EndTask, At, Busy, ThreadPC
  <2>2. task[p][t] \in Job /\ row[task[p][t]].started
    BY <2>1, BusyTypes DEF IInv, JobProgress
  <2>3. Succeed(task[p][t]) \/ Fail(task[p][t]) \/ CompleteCancelled(task[p][t])
    BY <1>3 DEF EndTask
  <2>. QED  BY <1>1, <1>2, <2>2, <2>3, EndMoves DEF Contract!Next
<1>4. ASSUME NEW j \in Job,
             \/ Create(j) \/ Start(j) \/ RequestCancel(j)
             \/ \E progress \in 0 .. MaxProgress : Report(j, progress)
      PROVE  [Contract!Next]_(Contract!vars)
  BY <1>1, <1>2, <1>4, CreateMoves, StartMoves, RequestCancelMoves, ReportMoves
     DEF Contract!Next, Contract!vars
<1>5. CASE FailInterrupted
  BY <1>2, <1>5, InterruptMoves DEF Contract!Next
<1>6. CASE UNCHANGED journal
  BY <1>1, <1>6 DEF journal
<1>7. \/ UNCHANGED journal \/ FailInterrupted
      \/ \E p \in Proc, t \in Thread : EndTask(p, t)
      \/ \E j \in Job : \/ Create(j) \/ Start(j) \/ RequestCancel(j)
                       \/ \E progress \in 0 .. MaxProgress : Report(j, progress)
  BY ServiceStepOperations DEF IInv, TypeInv, StartTask
<1>. QED  BY <1>3, <1>4, <1>5, <1>6, <1>7

\* The service implements the contract a client may rely on: one outcome per
\* job, for ever, and none the work chose once a stop was asked for
\* (ContractSpec, by the mapping ContractPhase, ContractAsked).
THEOREM ServiceImplementsContract == Spec => ContractSpec
BY InitIInv, IInvStep, ContractInit, ServiceStepIsContractStep, PTL
   DEF Spec, ContractSpec, Contract!Spec
=============================================================================
