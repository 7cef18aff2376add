--------------------------- MODULE JobStoreProofs ---------------------------
(***************************************************************************)
(* Proofs about the journal alone: what every sequence of JobStore's       *)
(* transactions preserves, whichever process or thread calls them and in   *)
(* whatever order.  JobServiceProofs shows that the processes do nothing   *)
(* else to the journal.                                                    *)
(***************************************************************************)
EXTENDS JobStore, TLAPS

\* What the columns of one row say together.
Shaped(r) ==
  /\ r.state = "queued" => ~r.started /\ ~r.cancel
  /\ r.state = "running" => r.started
  /\ r.error = "interrupted" => r.state = "failed"
  /\ r.state = "failed" => r.error # "none"
  /\ r.cancel => \/ r.state \in {"running", "cancelled"}
                 \/ r.state = "failed" /\ r.error = "interrupted"

RowShape == \A j \in Job : Exists(j) => Shaped(row[j])

JournalInv == JournalTypeOK /\ RowShape /\ LogMatchesRow

\* Rows stay, a terminal row is final, and a job once started stays started.
Evolves ==
  \A k \in Job : Exists(k) =>
    /\ Exists(k)'
    /\ row[k].started => row'[k].started
    /\ IsTerminal(k) => row'[k] = row[k]

OnlyRow(j) == \A k \in Job \ {j} : row'[k] = row[k]

\* The event a transition that leaves the row r has to append.
Announces(r, event) ==
  /\ event \in TerminalEvent <=> r.state \in Terminal
  /\ r.state \in Terminal =>
       event = IF r.error = "interrupted" THEN "interrupted" ELSE r.state

\* Any of the transactions that concern one job.
JobOperation(j) ==
  \/ Create(j) \/ Start(j) \/ RequestCancel(j)
  \/ \E progress \in 0 .. MaxProgress : Report(j, progress)
  \/ Succeed(j) \/ Fail(j) \/ CompleteCancelled(j)

JournalStep == (\E j \in Job : JobOperation(j)) \/ FailInterrupted

-----------------------------------------------------------------------------
(* A transition of one job, from a row that is absent or live.             *)

LEMMA EventFacts ==
  /\ "created" \in EventType \ TerminalEvent
  /\ "started" \in EventType \ TerminalEvent
  /\ "progress" \in EventType \ TerminalEvent
  /\ "cancellation_requested" \in EventType \ TerminalEvent
  /\ Terminal \subseteq TerminalEvent
  /\ "interrupted" \in TerminalEvent
  /\ TerminalEvent \subseteq EventType
BY DEF EventType, TerminalEvent, Terminal

LEMMA AppendFacts ==
  ASSUME NEW s \in Seq(EventType), NEW e \in EventType
  PROVE  /\ Append(s, e) \in Seq(EventType)
         /\ Len(Append(s, e)) = Len(s) + 1
         /\ Len(s) \in Nat
         /\ Append(s, e)[Len(s) + 1] = e
         /\ \A i \in 1 .. Len(s) : Append(s, e)[i] = s[i]
         /\ s # <<>> => 1 \in 1 .. Len(s)
OBVIOUS

LEMMA TransitionEffect ==
  ASSUME JournalTypeOK, NEW j \in Job, NEW r \in Row, NEW e \in EventType,
         Transition(j, r, e)
  PROVE  /\ JournalTypeOK'
         /\ OnlyRow(j) /\ row'[j] = r /\ Exists(j)'
         /\ log'[j] = Append(log[j], e)
         /\ \A k \in Job \ {j} : log'[k] = log[k]
<1>1. /\ row' \in [Job -> Row \cup {NoRow}] /\ OnlyRow(j) /\ row'[j] = r
      /\ log'[j] = Append(log[j], e)
      /\ \A k \in Job \ {j} : log'[k] = log[k]
  BY DEF JournalTypeOK, Transition, OnlyRow
<1>2. log' \in [Job -> Seq(EventType)]
  BY DEF JournalTypeOK, Transition
<1>. QED  BY <1>1, <1>2, NoRowAssumption DEF JournalTypeOK, Exists

LEMMA TransitionKeeps ==
  ASSUME JournalInv, NEW j \in Job, NEW r \in Row, NEW e \in EventType,
         Transition(j, r, e),
         ~IsTerminal(j), ~Exists(j) => e = "created",
         Exists(j) => (row[j].started => r.started),
         Shaped(r), Announces(r, e)
  PROVE  JournalInv' /\ Evolves /\ OnlyRow(j) /\ row'[j] = r
<1>1. /\ JournalTypeOK'
      /\ OnlyRow(j) /\ row'[j] = r /\ Exists(j)'
      /\ log'[j] = Append(log[j], e)
      /\ \A k \in Job \ {j} : log'[k] = log[k]
  BY TransitionEffect DEF JournalInv
<1>2. RowShape'
  BY <1>1 DEF JournalInv, RowShape, OnlyRow, Exists
<1>3. Evolves
  BY <1>1 DEF Evolves, OnlyRow, Exists, IsTerminal
<1>4. LogMatchesRow'
  <2>1. SUFFICES ASSUME NEW k \in Job
        PROVE  /\ ((log[k] = <<>>) <=> ~Exists(k))'
               /\ (Exists(k) => log[k][1] = "created")'
               /\ (\A i \in 1 .. Len(log[k]) :
                     log[k][i] \in TerminalEvent
                       <=> (IsTerminal(k) /\ i = Len(log[k])))'
               /\ (IsTerminal(k) => log[k][Len(log[k])] =
                     IF row[k].error = "interrupted" THEN "interrupted"
                     ELSE row[k].state)'
    BY DEF LogMatchesRow
  <2>2. CASE k # j
    BY <1>1, <2>2 DEF JournalInv, LogMatchesRow, OnlyRow, Exists, IsTerminal
  <2>3. CASE k = j
    <3>. DEFINE n == Len(log[j])
    <3>1. /\ log[j] \in Seq(EventType) /\ n \in Nat
          /\ log'[j] \in Seq(EventType) /\ Len(log'[j]) = n + 1
          /\ log'[j][n + 1] = e
          /\ \A i \in 1 .. n : log'[j][i] = log[j][i]
      BY <1>1, AppendFacts DEF JournalInv, JournalTypeOK
    <3>2. \A i \in 1 .. n : log'[j][i] \notin TerminalEvent
      BY <3>1 DEF JournalInv, LogMatchesRow
    <3>3. log'[j] # <<>>
      BY <3>1
    <3>4. log'[j][1] = "created"
      <4>1. CASE Exists(j)
        BY <4>1, <3>1, AppendFacts DEF JournalInv, LogMatchesRow
      <4>2. CASE ~Exists(j)
        <5>1. log[j] = <<>>
          BY <4>2 DEF JournalInv, LogMatchesRow
        <5>. QED  BY <5>1, <4>2, <3>1
      <4>. QED  BY <4>1, <4>2
    <3>5. IsTerminal(j)' <=> r.state \in Terminal
      BY <1>1 DEF IsTerminal
    <3>. QED  BY <2>3, <1>1, <3>1, <3>2, <3>3, <3>4, <3>5 DEF Announces
  <2>. QED  BY <2>2, <2>3
<1>. QED  BY <1>1, <1>2, <1>3, <1>4 DEF JournalInv

-----------------------------------------------------------------------------
(* The operations.                                                         *)

LEMMA AlreadyTerminalKeeps ==
  ASSUME JournalInv, NEW j \in Job, AlreadyTerminal(j)
  PROVE  JournalInv' /\ Evolves /\ OnlyRow(j) /\ row'[j] = row[j]
<1>1. row' = row /\ log' = log
  BY DEF AlreadyTerminal, journal
<1>2. JournalTypeOK'
  BY <1>1 DEF JournalInv, JournalTypeOK
<1>3. RowShape'
  BY <1>1 DEF JournalInv, RowShape, Exists
<1>4. LogMatchesRow'
  BY <1>1 DEF JournalInv, LogMatchesRow, Exists, IsTerminal
<1>. QED  BY <1>1, <1>2, <1>3, <1>4 DEF JournalInv, Evolves, OnlyRow, Exists

LEMMA CreateKeeps ==
  ASSUME JournalInv, NEW j \in Job, Create(j)
  PROVE  /\ JournalInv' /\ Evolves /\ OnlyRow(j) /\ ~Exists(j) /\ Exists(j)'
         /\ row'[j].state = "queued" /\ ~row'[j].cancel
<1>. DEFINE r == [state |-> "queued", cancel |-> FALSE, progress |-> 0,
                  started |-> FALSE, error |-> "none"]
<1>1. r \in Row
  BY MaxProgressAssumption DEF Row, JobState
<1>2. ~Exists(j) /\ Transition(j, r, "created")
  BY DEF Create
<1>3. Shaped(r) /\ Announces(r, "created")
  BY EventFacts DEF Shaped, Announces, Terminal
<1>4. JournalInv' /\ Evolves /\ OnlyRow(j) /\ row'[j] = r
  BY <1>1, <1>2, <1>3, TransitionKeeps, EventFacts DEF IsTerminal
<1>5. r.state = "queued" /\ ~r.cancel /\ r # NoRow
  BY <1>1, NoRowAssumption
<1>. QED  BY <1>2, <1>4, <1>5 DEF Exists

\* The rows that the transitions of a live row leave behind.
Leads(r, s, event) ==
  /\ s \in Row /\ Shaped(s) /\ Announces(s, event)
  /\ r.started => s.started

LEMMA LiveRow ==
  ASSUME JournalInv, NEW j \in Job, IsLive(j)
  PROVE  /\ row[j] \in Row /\ Shaped(row[j]) /\ Exists(j) /\ ~IsTerminal(j)
         /\ row[j].state \in {"queued", "running"}
         /\ row[j].started \in BOOLEAN /\ row[j].cancel \in BOOLEAN
         /\ row[j].error # "interrupted"
<1>1. row[j] \in Row /\ Shaped(row[j]) /\ Exists(j) /\ row[j].state \notin Terminal
  BY DEF JournalInv, JournalTypeOK, RowShape, IsLive, Exists
<1>2. /\ row[j].state \in {"queued", "running"}
      /\ row[j].started \in BOOLEAN /\ row[j].cancel \in BOOLEAN
  BY <1>1 DEF Row, JobState
<1>. QED  BY <1>1, <1>2 DEF Shaped, Terminal, IsTerminal

LEMMA LiveTransition ==
  ASSUME JournalInv, NEW j \in Job, IsLive(j), NEW s \in Row, NEW e \in EventType,
         Leads(row[j], s, e), Transition(j, s, e)
  PROVE  JournalInv' /\ Evolves /\ OnlyRow(j) /\ row'[j] = s
BY LiveRow, TransitionKeeps DEF Leads

LEMMA CancelledKeeps ==
  ASSUME JournalInv, NEW j \in Job, IsLive(j), Cancelled(j)
  PROVE  /\ JournalInv' /\ Evolves /\ OnlyRow(j)
         /\ row'[j] = [row[j] EXCEPT !.state = "cancelled"]
<1>. DEFINE s == [row[j] EXCEPT !.state = "cancelled"]
<1>1. Leads(row[j], s, "cancelled")
  BY LiveRow, EventFacts DEF Leads, Row, JobState, Shaped, Announces, Terminal
<1>2. s \in Row /\ "cancelled" \in EventType
  BY <1>1, EventFacts DEF Leads, Terminal
<1>. QED  BY <1>1, <1>2, LiveTransition DEF Cancelled

LEMMA StartKeeps ==
  ASSUME JournalInv, NEW j \in Job, Start(j)
  PROVE  /\ JournalInv' /\ Evolves /\ OnlyRow(j) /\ Exists(j)
         /\ \/ IsTerminal(j)'
            \/ row'[j].state = "running" /\ row'[j].started
<1>1. CASE AlreadyTerminal(j)
  BY <1>1, AlreadyTerminalKeeps DEF AlreadyTerminal, IsTerminal, Exists
<1>2. CASE ~AlreadyTerminal(j)
  <2>. DEFINE s == [row[j] EXCEPT !.state = "running", !.started = TRUE]
  <2>1. IsLive(j) /\ row[j].state = "queued" /\ ~row[j].cancel
    <3>1. IsLive(j) /\ row[j].state = "queued"
      BY <1>2 DEF Start, IsLive, Terminal
    <3>. QED  BY <3>1, LiveRow DEF Shaped
  <2>2. Transition(j, s, "started")
    BY <1>2, <2>1 DEF Start
  <2>3. s \in Row /\ s.state = "running" /\ s.started = TRUE /\ ~s.cancel
        /\ s.error = row[j].error
    BY <2>1, LiveRow DEF Row, JobState
  <2>4. Leads(row[j], s, "started")
    BY <2>1, <2>3, LiveRow, EventFacts DEF Leads, Shaped, Announces, Terminal
  <2>5. JournalInv' /\ Evolves /\ OnlyRow(j) /\ row'[j] = s
    BY <2>1, <2>2, <2>3, <2>4, LiveTransition, EventFacts
  <2>. QED  BY <2>1, <2>3, <2>5 DEF IsLive
<1>. QED  BY <1>1, <1>2

LEMMA ReportKeeps ==
  ASSUME JournalInv, NEW j \in Job, NEW progress \in 0 .. MaxProgress,
         Report(j, progress)
  PROVE  /\ JournalInv' /\ Evolves /\ OnlyRow(j)
         /\ row'[j].state = "running" /\ row'[j].started = row[j].started
         /\ row'[j].cancel = row[j].cancel /\ row'[j].error = row[j].error
<1>. DEFINE s == [row[j] EXCEPT !.progress = progress]
<1>1. IsLive(j) /\ row[j].state = "running" /\ Transition(j, s, "progress")
  BY DEF Report, CanReport, IsLive, Terminal
<1>2. /\ s \in Row /\ s.state = "running" /\ s.started = row[j].started
      /\ s.cancel = row[j].cancel /\ s.error = row[j].error
  BY <1>1, LiveRow DEF Row
<1>3. Leads(row[j], s, "progress")
  BY <1>1, <1>2, LiveRow, EventFacts DEF Leads, Shaped, Announces, Terminal
<1>. QED  BY <1>1, <1>2, <1>3, LiveTransition, EventFacts

LEMMA RequestCancelKeeps ==
  ASSUME JournalInv, NEW j \in Job, RequestCancel(j)
  PROVE  /\ JournalInv' /\ Evolves /\ OnlyRow(j) /\ Exists(j)
         /\ \/ IsTerminal(j) /\ row'[j] = row[j]
            \/ /\ row[j].state = "queued"
               /\ row'[j] = [row[j] EXCEPT !.state = "cancelled", !.cancel = TRUE]
            \/ /\ row[j].state = "running"
               /\ row'[j] = [row[j] EXCEPT !.cancel = TRUE]
<1>1. CASE AlreadyTerminal(j)
  BY <1>1, AlreadyTerminalKeeps DEF AlreadyTerminal, IsTerminal
<1>2. CASE Exists(j) /\ row[j].state = "queued" /\ ~AlreadyTerminal(j)
  <2>. DEFINE s == [row[j] EXCEPT !.state = "cancelled", !.cancel = TRUE]
  <2>1. IsLive(j) /\ Transition(j, s, "cancelled")
    BY <1>2 DEF RequestCancel, IsLive, Terminal
  <2>2. s \in Row /\ s.state = "cancelled" /\ s.started = row[j].started
        /\ s.cancel = TRUE /\ s.error = row[j].error
    BY <2>1, LiveRow DEF Row, JobState, Terminal
  <2>3. Leads(row[j], s, "cancelled")
    BY <2>1, <2>2, LiveRow, EventFacts DEF Leads, Shaped, Announces, Terminal
  <2>. QED  BY <1>2, <2>1, <2>2, <2>3, LiveTransition, EventFacts DEF Terminal
<1>3. CASE Exists(j) /\ row[j].state = "running" /\ ~AlreadyTerminal(j)
  <2>. DEFINE s == [row[j] EXCEPT !.cancel = TRUE]
  <2>1. IsLive(j) /\ Transition(j, s, "cancellation_requested")
    BY <1>3 DEF RequestCancel, IsLive, Terminal
  <2>2. s \in Row /\ s.state = "running" /\ s.started = row[j].started
        /\ s.cancel = TRUE /\ s.error = row[j].error
    BY <2>1, <1>3, LiveRow DEF Row
  <2>3. Leads(row[j], s, "cancellation_requested")
    BY <2>1, <1>3, <2>2, LiveRow, EventFacts DEF Leads, Shaped, Announces, Terminal
  <2>. QED  BY <1>3, <2>1, <2>2, <2>3, LiveTransition, EventFacts
<1>. QED  BY <1>1, <1>2, <1>3 DEF RequestCancel

LEMMA SucceedKeeps ==
  ASSUME JournalInv, NEW j \in Job, Succeed(j), ~IsTerminal(j), ~row[j].cancel
  PROVE  /\ JournalInv' /\ Evolves /\ OnlyRow(j) /\ row[j].state = "running"
         /\ IsLive(j) /\ row'[j] \in Row /\ row'[j].state = "succeeded"
         /\ row'[j].error = row[j].error
         /\ row'[j].started = row[j].started /\ row'[j].cancel = row[j].cancel
<1>. DEFINE s == [row[j] EXCEPT !.state = "succeeded", !.progress = MaxProgress]
<1>1. IsLive(j) /\ row[j].state = "running" /\ Transition(j, s, "succeeded")
  BY DEF Succeed, AlreadyTerminal, IsLive, Terminal
<1>2. MaxProgress \in 0 .. MaxProgress
  BY MaxProgressAssumption
<1>3. /\ s \in Row /\ s.state = "succeeded" /\ s.started = row[j].started
      /\ s.cancel = row[j].cancel /\ s.error = row[j].error
  BY <1>1, <1>2, LiveRow DEF Row, JobState, Terminal
<1>4. Leads(row[j], s, "succeeded")
  BY <1>1, <1>3, LiveRow, EventFacts DEF Leads, Shaped, Announces, Terminal
<1>. QED  BY <1>1, <1>3, <1>4, LiveTransition, EventFacts DEF Terminal

LEMMA FailKeeps ==
  ASSUME JournalInv, NEW j \in Job, Fail(j), ~IsTerminal(j), ~row[j].cancel
  PROVE  /\ JournalInv' /\ Evolves /\ OnlyRow(j) /\ IsLive(j)
         /\ row'[j] \in Row /\ row'[j].state = "failed" /\ row'[j].error = "failed"
         /\ row'[j].started = row[j].started /\ row'[j].cancel = row[j].cancel
<1>. DEFINE s == [row[j] EXCEPT !.state = "failed", !.error = "failed"]
<1>1. IsLive(j) /\ Transition(j, s, "failed")
  BY DEF Fail, AlreadyTerminal
<1>2. /\ s \in Row /\ s.state = "failed" /\ s.started = row[j].started
      /\ s.cancel = row[j].cancel /\ s.error = "failed"
  BY <1>1, LiveRow DEF Row, JobState, Terminal
<1>3. Leads(row[j], s, "failed")
  BY <1>1, <1>2, LiveRow, EventFacts DEF Leads, Shaped, Announces, Terminal
<1>. QED  BY <1>1, <1>2, <1>3, LiveTransition, EventFacts DEF Terminal

\* How the transaction that ends a job can end it.
LEMMA EndKeeps ==
  ASSUME JournalInv, NEW j \in Job, Succeed(j) \/ Fail(j) \/ CompleteCancelled(j)
  PROVE  /\ JournalInv' /\ Evolves /\ OnlyRow(j)
         /\ \/ IsTerminal(j) /\ row'[j] = row[j]
            \/ /\ IsLive(j)
               /\ row'[j] = [row[j] EXCEPT !.state = "cancelled"]
            \/ /\ IsLive(j) /\ ~row[j].cancel
               /\ row'[j].state = "succeeded" /\ row'[j].error = row[j].error
               /\ row'[j].started = row[j].started /\ ~row'[j].cancel
            \/ /\ IsLive(j) /\ ~row[j].cancel
               /\ row'[j].state = "failed" /\ row'[j].error = "failed"
               /\ row'[j].started = row[j].started /\ ~row'[j].cancel
<1>1. CASE IsTerminal(j)
  <2>1. AlreadyTerminal(j)
    BY <1>1 DEF Succeed, Fail, CompleteCancelled, IsTerminal, IsLive, Terminal
  <2>. QED  BY <1>1, <2>1, AlreadyTerminalKeeps
<1>2. CASE ~IsTerminal(j)
  <2>1. CASE Cancelled(j) /\ IsLive(j)
    BY <2>1, CancelledKeeps
  <2>2. CASE Succeed(j) /\ ~row[j].cancel
    BY <1>2, <2>2, SucceedKeeps
  <2>3. CASE Fail(j) /\ ~row[j].cancel
    BY <1>2, <2>3, FailKeeps
  <2>4. \/ Cancelled(j) /\ IsLive(j)
        \/ Succeed(j) /\ ~row[j].cancel
        \/ Fail(j) /\ ~row[j].cancel
    BY <1>2 DEF Succeed, Fail, CompleteCancelled, AlreadyTerminal, IsLive, Terminal
  <2>. QED  BY <2>1, <2>2, <2>3, <2>4
<1>. QED  BY <1>1, <1>2

LEMMA FailInterruptedKeeps ==
  ASSUME JournalInv, FailInterrupted
  PROVE  /\ JournalInv' /\ Evolves
         /\ \A k \in Job : ~IsLive(k) => row'[k] = row[k]
         /\ \A k \in Job : IsLive(k) =>
              /\ Exists(k)' /\ row'[k].state = "failed" /\ row'[k].error = "interrupted"
              /\ row'[k].cancel = row[k].cancel /\ row'[k].started = row[k].started
<1>. DEFINE s(k) == [row[k] EXCEPT !.state = "failed", !.error = "interrupted"]
<1>1. ASSUME NEW k \in Job
      PROVE  /\ row'[k] = IF IsLive(k) THEN s(k) ELSE row[k]
             /\ log'[k] = IF IsLive(k) THEN Append(log[k], "interrupted") ELSE log[k]
  BY DEF FailInterrupted
<1>2. ASSUME NEW k \in Job, IsLive(k)
      PROVE  /\ s(k) \in Row /\ s(k).state = "failed" /\ s(k).error = "interrupted"
             /\ s(k).cancel = row[k].cancel /\ s(k).started = row[k].started
  BY <1>2, LiveRow DEF Row, JobState, Terminal
<1>3. ASSUME NEW k \in Job
      PROVE  row'[k] \in Row \cup {NoRow} /\ log'[k] \in Seq(EventType)
  <2>1. row[k] \in Row \cup {NoRow} /\ log[k] \in Seq(EventType)
    BY DEF JournalInv, JournalTypeOK
  <2>2. Append(log[k], "interrupted") \in Seq(EventType)
    BY <2>1, EventFacts
  <2>. QED  BY <1>1, <1>2, <2>1, <2>2
<1>4. JournalTypeOK'
  BY <1>3 DEF JournalTypeOK, FailInterrupted
<1>5. \A k \in Job : Exists(k)' <=> Exists(k)
  BY <1>1, <1>2, NoRowAssumption DEF Exists, IsLive
<1>6. RowShape'
  <2>1. SUFFICES ASSUME NEW k \in Job, Exists(k)'
        PROVE  Shaped(row'[k])
    BY DEF RowShape
  <2>2. CASE IsLive(k)
    BY <1>1, <1>2, <2>2 DEF Shaped
  <2>3. CASE ~IsLive(k)
    BY <1>1, <1>5, <2>1, <2>3 DEF JournalInv, RowShape
  <2>. QED  BY <2>2, <2>3
<1>7. LogMatchesRow'
  <2>1. SUFFICES ASSUME NEW k \in Job
        PROVE  /\ ((log[k] = <<>>) <=> ~Exists(k))'
               /\ (Exists(k) => log[k][1] = "created")'
               /\ (\A i \in 1 .. Len(log[k]) :
                     log[k][i] \in TerminalEvent
                       <=> (IsTerminal(k) /\ i = Len(log[k])))'
               /\ (IsTerminal(k) => log[k][Len(log[k])] =
                     IF row[k].error = "interrupted" THEN "interrupted"
                     ELSE row[k].state)'
    BY DEF LogMatchesRow
  <2>2. CASE IsLive(k)
    <3>. DEFINE n == Len(log[k])
    <3>1. log[k] \in Seq(EventType) /\ log[k] # <<>>
      BY <2>2 DEF JournalInv, JournalTypeOK, LogMatchesRow, IsLive
    <3>2. n \in Nat
      BY <3>1
    <3>3. log'[k] = Append(log[k], "interrupted")
      BY <1>1, <2>2
    <3>4. /\ log'[k] \in Seq(EventType) /\ Len(log'[k]) = n + 1
          /\ log'[k][n + 1] = "interrupted"
          /\ \A i \in 1 .. n : log'[k][i] = log[k][i]
          /\ 1 \in 1 .. n
      BY <3>1, <3>2, <3>3, AppendFacts, EventFacts
    <3>5. (\A i \in 1 .. n : log[k][i] \notin TerminalEvent) /\ log[k][1] = "created"
      BY <2>2, LiveRow DEF JournalInv, LogMatchesRow
    <3>6. /\ IsTerminal(k)' /\ Exists(k)' /\ row'[k].error = "interrupted"
      BY <1>1, <1>2, <1>5, <2>2 DEF IsTerminal, IsLive, Terminal
    <3>. QED  BY <3>2, <3>4, <3>5, <3>6, EventFacts
  <2>3. CASE ~IsLive(k)
    <3>1. row'[k] = row[k] /\ log'[k] = log[k]
      BY <1>1, <2>3
    <3>. QED  BY <3>1 DEF JournalInv, LogMatchesRow, Exists, IsTerminal
  <2>. QED  BY <2>2, <2>3
<1>8. Evolves
  BY <1>1, <1>2, <1>5 DEF Evolves, IsLive, IsTerminal
<1>9. \A k \in Job : ~IsLive(k) => row'[k] = row[k]
  BY <1>1
<1>10. ASSUME NEW k \in Job, IsLive(k)
       PROVE  /\ Exists(k)' /\ row'[k].state = "failed" /\ row'[k].error = "interrupted"
              /\ row'[k].cancel = row[k].cancel /\ row'[k].started = row[k].started
  <2>1. row'[k] = s(k) /\ Exists(k)'
    BY <1>1, <1>5, <1>10 DEF IsLive
  <2>. QED  BY <1>2, <1>10, <2>1
<1>. QED  BY <1>4, <1>6, <1>7, <1>8, <1>9, <1>10 DEF JournalInv

-----------------------------------------------------------------------------
(* The journal's invariants hold initially, every step of its operations   *)
(* preserves them, and they include the properties the runs check.         *)

LEMMA JournalInitInv == JournalInit => JournalInv
<1>. SUFFICES ASSUME JournalInit PROVE JournalInv
  OBVIOUS
<1>1. \A j \in Job : ~Exists(j)
  BY DEF JournalInit, Exists
<1>2. JournalTypeOK
  BY DEF JournalInit, JournalTypeOK
<1>3. LogMatchesRow
  BY <1>1 DEF LogMatchesRow, JournalInit, IsTerminal
<1>. QED  BY <1>1, <1>2, <1>3 DEF JournalInv, RowShape

LEMMA JournalStepKeeps ==
  ASSUME JournalInv, [JournalStep]_journal
  PROVE  JournalInv' /\ Evolves
<1>1. CASE UNCHANGED journal
  BY <1>1 DEF journal, JournalInv, JournalTypeOK, RowShape, LogMatchesRow, Evolves,
              Exists, IsTerminal
<1>2. ASSUME NEW j \in Job, JobOperation(j)
      PROVE  JournalInv' /\ Evolves
  BY <1>2, CreateKeeps, StartKeeps, ReportKeeps, RequestCancelKeeps, EndKeeps
     DEF JobOperation
<1>3. CASE FailInterrupted
  BY <1>3, FailInterruptedKeeps
<1>. QED  BY <1>1, <1>2, <1>3 DEF JournalStep

LEMMA JournalInvImplies == JournalInv => CancelHonoured
BY DEF JournalInv, RowShape, Shaped, CancelHonoured
=============================================================================
