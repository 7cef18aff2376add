--------------------------- MODULE SessionProofs ---------------------------
(***************************************************************************)
(* What is proved of the sessions of MCWorkbench, for any callers, jobs,   *)
(* threads, routes and bounds.                                             *)
(*                                                                         *)
(* Worker jobs.  WorkInv says of each actor, by the steps it has left,     *)
(* what its copy of a record may say and what it still owes: whoever       *)
(* writes a terminal status, its message and its event are there, or       *)
(* somebody owes them.                                                     *)
(*                                                                         *)
(* Design threads.  ThreadInv says of each request what the steps it has   *)
(* left need (a fact: a snapshot, a message, a draft that is there) and    *)
(* which earlier step of it brings that about; facts of a thread are never *)
(* lost, so the requests of others and a restart disturb none of them.     *)
(*                                                                         *)
(* Agent screen.  ScreenInv says the same of the routes, each of which     *)
(* holds the picture it writes about.                                      *)
(***************************************************************************)
EXTENDS MCWorkbench, SequenceTheorems, TLAPS

-----------------------------------------------------------------------------
(* The scripts of callers and threads.                                     *)

Ahead(x) == IF x = <<>> THEN "none" ELSE Head(x)

\* What is left of the scripts of callers: of a start,
S1 == <<"queue", "queued", "register", "get">>
S2 == <<"queued", "register", "get">>
S3 == <<"register", "get">>
\* of what follows a look at the record,
Cancelling == <<"signal", "write", "tell", "write", "cancelled">>
Comparing == <<"compare", "commit", "write", "committed">>
Rest == {<<>>, Cancelling, Comparing, <<"get", "look">>, <<"look">>}
\* and of the change of a record to a terminal status, with its message and event.
Told == {"cancelled", "failed", "committed"}
WriteTell(t, r) == <<"write", "tell", "write", t>> \o r
Tell(t, r) == <<"tell", "write", t>> \o r
Write(t, r) == <<"write", t>> \o r
Say(t, r) == <<t>> \o r
Change1 == {WriteTell(t, r) : t \in Told, r \in Rest}
Change2 == {Tell(t, r) : t \in Told, r \in Rest}
Change3 == {Write(t, r) : t \in Told, r \in Rest}
Change4 == {Say(t, r) : t \in Told, r \in Rest}
Changing == Change1 \cup Change2 \cup Change3 \cup Change4
Asking == {<<"get">>, Workers!cancel_job, Workers!commit_job, Workers!stream_events}
Committing == <<"commit", "write", "committed">>
CallerScripts == {S1, S2, S3, Committing} \cup Asking \cup Rest \cup Changing

\* What is left of the scripts of a job's thread.
R1 == <<"get", "begin", "write", "running", "codex">>
R2 == <<"begin", "write", "running", "codex">>
R3 == <<"write", "running", "codex">>
R4 == <<"running", "codex">>
R5 == <<"codex">>
E1 == <<"get", "write", "codex_event", "codex">>
E2 == <<"write", "codex_event", "codex">>
E3 == <<"codex_event", "codex">>
F1 == <<"get", "decide", "event", "write", "unregister">>
F2 == <<"decide", "event", "write", "unregister">>
F3 == <<"tell", "event", "write", "unregister">>
F4 == <<"event", "write", "unregister">>
F5 == <<"write", "unregister">>
F6 == <<"unregister">>
Busy == {R3, R4, R5, E1, E2, E3, F1, F2, F3, F4, F5}
ThreadScripts == {<<>>, R1, R2, F6} \cup Busy

StepName ==
  {"queue", "queued", "register", "get", "signal", "write", "tell", "cancelled", "compare",
   "commit", "committed", "look", "failed", "begin", "running", "codex", "codex_event", "decide",
   "event", "unregister"}

LEMMA Joined ==
  ASSUME NEW S, NEW r \in Seq(S), NEW a \in S, NEW b \in S, NEW c \in S, NEW d \in S
  PROVE  /\ Head(<<a>> \o r) = a /\ Tail(<<a>> \o r) = r /\ <<a>> \o r # <<>>
         /\ Head(<<a, b>> \o r) = a /\ Tail(<<a, b>> \o r) = <<b>> \o r
         /\ <<a, b>> \o r # <<>> /\ (<<a, b>> \o r)[2] = b
         /\ Head(<<a, b, c>> \o r) = a /\ Tail(<<a, b, c>> \o r) = <<b, c>> \o r
         /\ <<a, b, c>> \o r # <<>> /\ (<<a, b, c>> \o r)[2] = b /\ (<<a, b, c>> \o r)[3] = c
         /\ Head(<<a, b, c, d>> \o r) = a /\ Tail(<<a, b, c, d>> \o r) = <<b, c, d>> \o r
         /\ <<a, b, c, d>> \o r # <<>> /\ (<<a, b, c, d>> \o r)[2] = b
         /\ (<<a, b, c, d>> \o r)[3] = c /\ (<<a, b, c, d>> \o r)[4] = d
<1>1. /\ Head(<<a>> \o r) = a /\ Tail(<<a>> \o r) = r /\ <<a>> \o r # <<>>
  OBVIOUS
<1>2. /\ Head(<<a, b>> \o r) = a /\ Tail(<<a, b>> \o r) = <<b>> \o r
      /\ <<a, b>> \o r # <<>> /\ (<<a, b>> \o r)[2] = b
  OBVIOUS
<1>3. /\ Head(<<a, b, c>> \o r) = a /\ Tail(<<a, b, c>> \o r) = <<b, c>> \o r
      /\ <<a, b, c>> \o r # <<>> /\ (<<a, b, c>> \o r)[2] = b /\ (<<a, b, c>> \o r)[3] = c
  OBVIOUS
<1>4. /\ Head(<<a, b, c, d>> \o r) = a /\ Tail(<<a, b, c, d>> \o r) = <<b, c, d>> \o r
      /\ <<a, b, c, d>> \o r # <<>> /\ (<<a, b, c, d>> \o r)[2] = b
      /\ (<<a, b, c, d>> \o r)[3] = c /\ (<<a, b, c, d>> \o r)[4] = d
  OBVIOUS
<1>. QED  BY <1>1, <1>2, <1>3, <1>4

LEMMA RestNames == Rest \subseteq Seq(StepName)
BY DEF Rest, Cancelling, Comparing, StepName

LEMMA ToldNames == Told \subseteq StepName /\ {"write", "tell"} \subseteq StepName
BY DEF Told, StepName

LEMMA ChangeTails ==
  ASSUME NEW x
  PROVE  /\ x \in Change1 =>
              /\ Ahead(x) = "write" /\ x[2] = "tell" /\ x[4] \in Told
              /\ Tail(x) \in Change2 /\ Tail(x)[3] = x[4]
         /\ x \in Change2 =>
              /\ Ahead(x) = "tell" /\ x[3] \in Told /\ Tail(x) \in Change3 /\ Tail(x)[2] = x[3]
         /\ x \in Change3 =>
              /\ Ahead(x) = "write" /\ x[2] \in Told /\ Tail(x) \in Change4 /\ Ahead(Tail(x)) = x[2]
         /\ x \in Change4 => Ahead(x) \in Told /\ Tail(x) \in Rest
         /\ x \in Changing => x # <<>>
<1>1. ASSUME NEW t \in Told, NEW r \in Rest, x = WriteTell(t, r)
      PROVE  /\ Ahead(x) = "write" /\ x[2] = "tell" /\ x[4] \in Told /\ x # <<>>
             /\ Tail(x) \in Change2 /\ Tail(x)[3] = x[4]
  <2>1. /\ Head(x) = "write" /\ x[2] = "tell" /\ x[4] = t /\ x # <<>>
        /\ Tail(x) = Tell(t, r) /\ (Tell(t, r))[3] = t
    BY <1>1, Joined, RestNames, ToldNames DEF WriteTell, Tell, Write, Say
  <2>2. Tail(x) \in Change2
    BY <2>1 DEF Change2
  <2>. QED  BY <2>1, <2>2 DEF Ahead
<1>2. ASSUME NEW t \in Told, NEW r \in Rest, x = Tell(t, r)
      PROVE  /\ Ahead(x) = "tell" /\ x[3] \in Told /\ x # <<>>
             /\ Tail(x) \in Change3 /\ Tail(x)[2] = x[3]
  <2>1. /\ Head(x) = "tell" /\ x[3] = t /\ x # <<>>
        /\ Tail(x) = Write(t, r) /\ (Write(t, r))[2] = t
    BY <1>2, Joined, RestNames, ToldNames DEF WriteTell, Tell, Write, Say
  <2>2. Tail(x) \in Change3
    BY <2>1 DEF Change3
  <2>. QED  BY <2>1, <2>2 DEF Ahead
<1>3. ASSUME NEW t \in Told, NEW r \in Rest, x = Write(t, r)
      PROVE  /\ Ahead(x) = "write" /\ x[2] \in Told /\ x # <<>>
             /\ Tail(x) \in Change4 /\ Ahead(Tail(x)) = x[2]
  <2>1. /\ Head(x) = "write" /\ x[2] = t /\ x # <<>>
        /\ Tail(x) = Say(t, r) /\ Head(Say(t, r)) = t /\ Say(t, r) # <<>>
    BY <1>3, Joined, RestNames, ToldNames DEF WriteTell, Tell, Write, Say
  <2>2. Tail(x) \in Change4
    BY <2>1 DEF Change4
  <2>. QED  BY <2>1, <2>2 DEF Ahead
<1>4. ASSUME NEW t \in Told, NEW r \in Rest, x = Say(t, r)
      PROVE  Ahead(x) \in Told /\ Tail(x) \in Rest /\ x # <<>>
  <2>1. Head(x) = t /\ x # <<>> /\ Tail(x) = r
    BY <1>4, Joined, RestNames, ToldNames DEF WriteTell, Tell, Write, Say
  <2>. QED  BY <2>1 DEF Ahead
<1>5. x \in Change1 => \E t \in Told, r \in Rest : x = WriteTell(t, r)
  BY DEF Change1
<1>6. x \in Change2 => \E t \in Told, r \in Rest : x = Tell(t, r)
  BY DEF Change2
<1>7. x \in Change3 => \E t \in Told, r \in Rest : x = Write(t, r)
  BY DEF Change3
<1>8. x \in Change4 => \E t \in Told, r \in Rest : x = Say(t, r)
  BY DEF Change4
<1>. QED  BY <1>1, <1>2, <1>3, <1>4, <1>5, <1>6, <1>7, <1>8 DEF Changing

-----------------------------------------------------------------------------
StatusName == {"none", "queued", "running", "succeeded", "failed", "cancelled", "committed"}
EventName == StatusName \cup {"codex_event"}
JobRecord == [status : StatusName, told : BOOLEAN, diff : Nat]
StartScripts == {S1, S2, S3}

Says(es, t) == \E k \in DOMAIN es : es[k] = t
Whole(j) ==
  jobs[j].status \in Workers!Terminal /\ jobs[j].told /\ Says(events[j], jobs[j].status)

WorkTypes ==
  /\ jobs \in [WorkerJob -> JobRecord] /\ events \in [WorkerJob -> Seq(EventName)]
  /\ steps \in [Workers!Actor -> CallerScripts \cup ThreadScripts]
  /\ held \in [Workers!Actor -> JobRecord] /\ aim \in [Workers!Actor -> WorkerJob]
  /\ tree \in Nat /\ head \in Nat /\ reboots \in Nat

\* Nobody else starts the job that a caller starts, and its thread has not begun.
StarterFits(c) ==
  steps[c] \in StartScripts =>
    /\ steps[aim[c]] = <<>>
    /\ \A d \in Caller \ {c} : steps[d] \in StartScripts => aim[d] # aim[c]

CallerFits(c) ==
  /\ steps[c] \in CallerScripts
  /\ steps[c] = <<>> => held[c].status = "none"
  /\ steps[c] \in {S2, S3} => jobs[aim[c]] # Workers!NoJob
  /\ steps[c] \in Change1 => held[c].status = steps[c][4]
  /\ steps[c] \in Change2 => held[c].status = steps[c][3]
  /\ steps[c] \in Change3 => held[c].status = steps[c][2] /\ held[c].told
  /\ steps[c] = Committing => held[c].status = "succeeded"

ThreadFits(j) ==
  /\ steps[j] \in ThreadScripts /\ aim[j] = j
  /\ steps[j] # <<>> => j \in registered /\ jobs[j] # Workers!NoJob
  /\ steps[j] \in {R3, E2} => held[j] # Workers!NoJob
  /\ steps[j] \in {F3, F4, F5} => held[j].status \in Workers!Terminal
  /\ steps[j] \in {F4, F5} => held[j].told
  /\ steps[j] = F5 => Says(events[j], held[j].status)
  /\ steps[j] = R2 /\ held[j].status = "cancelled" => jobs[j].status # "queued"

\* A copy that says succeeded is of a job whose thread was told and whose log says so,
\* or its thread is about to tell.
CopyFits(a) ==
  held[a].status = "succeeded" =>
    \/ held[a].told /\ Says(events[aim[a]], "succeeded")
    \/ steps[a] \in {F3, F4}

RecordFits(j) ==
  jobs[j].status = "succeeded" => jobs[j].told /\ Says(events[j], "succeeded")

\* Who will still make the record, the message and the event of a job agree.
Owes(a) ==
  \/ a \in Caller /\ steps[a] \in Change1 \cup Change2 \cup Change3
  \/ /\ a \in Caller /\ steps[a] \in Change4
     /\ jobs[aim[a]].status = Ahead(steps[a]) /\ jobs[aim[a]].told
  \/ a \in Caller /\ steps[a] \in {S2, S3} /\ jobs[aim[a]].status = "queued"
  \/ a \in WorkerJob /\ steps[a] \in Busy
  \/ a \in WorkerJob /\ steps[a] \in {R1, R2} /\ jobs[aim[a]].status = "queued"
Accounted(j) ==
  jobs[j] # Workers!NoJob =>
    Whole(j) \/ \E a \in Workers!Actor : aim[a] = j /\ Owes(a)

StreamFits ==
  closed.status = "succeeded" =>
    /\ closed.job \in WorkerJob /\ closed.sent \in 0 .. Len(events[closed.job])
    /\ \E k \in 1 .. closed.sent : events[closed.job][k] = "succeeded"

WorkInv ==
  /\ WorkTypes
  /\ \A c \in Caller : StarterFits(c) /\ CallerFits(c)
  /\ \A j \in WorkerJob : ThreadFits(j) /\ RecordFits(j)
  /\ \A a \in Workers!Actor : CopyFits(a)
  /\ reboots = 0 => \A j \in WorkerJob : Accounted(j)
  /\ StreamFits

-----------------------------------------------------------------------------
\* A step of one actor: x is what it has left, and r the copy it holds.
Moves(a, x, r) ==
  /\ steps[a] # <<>> /\ x \in CallerScripts \cup ThreadScripts /\ r \in JobRecord
  /\ steps' = [steps EXCEPT ![a] = x] /\ held' = [held EXCEPT ![a] = r]
  /\ aim' = aim /\ reboots' = reboots
  /\ x \in StartScripts => steps[a] \in StartScripts
  /\ \A j \in registered : j \in registered' \/ j = a
LogsGrow ==
  /\ events' \in [WorkerJob -> Seq(EventName)]
  /\ \A j \in WorkerJob :
       /\ Len(events[j]) <= Len(events'[j])
       /\ \A k \in 1 .. Len(events[j]) : events'[j][k] = events[j][k]
\* What it writes, if it writes.
Records(a) ==
  /\ jobs' \in [WorkerJob -> JobRecord]
  /\ \A j \in WorkerJob \ {aim[a]} : jobs'[j] = jobs[j]
  /\ \/ jobs' = jobs
     \/ /\ jobs'[aim[a]] # Workers!NoJob
        /\ jobs'[aim[a]].status = "queued" => a \in WorkerJob \/ steps[aim[a]] = <<>>
        /\ RecordFits(aim[a])'
        /\ Owes(a)' \/ Whole(aim[a])'
Keeps(a) ==
  /\ a \in Caller => CallerFits(a)'
  /\ a \in WorkerJob => ThreadFits(a)'
  /\ CopyFits(a)'
  /\ Owes(a) => Owes(a)' \/ Whole(aim[a])'

LEMMA StillSaying ==
  ASSUME LogsGrow, WorkTypes, NEW j \in WorkerJob, NEW t, Says(events[j], t)
  PROVE  Says(events'[j], t)
<1>1. PICK k \in DOMAIN events[j] : events[j][k] = t
  BY DEF Says
<1>2. events[j] \in Seq(EventName) /\ events'[j] \in Seq(EventName)
  BY DEF LogsGrow, WorkTypes
<1>3. k \in 1 .. Len(events[j]) /\ k \in 1 .. Len(events'[j]) /\ events'[j][k] = t
  BY <1>1, <1>2 DEF LogsGrow
<1>4. k \in DOMAIN events'[j]
  BY <1>2, <1>3
<1>. QED  BY <1>3, <1>4 DEF Says

LEMMA StillWhole ==
  ASSUME LogsGrow, WorkTypes, NEW j \in WorkerJob, jobs'[j] = jobs[j], Whole(j)
  PROVE  Whole(j)'
BY StillSaying DEF Whole

LEMMA OthersFit ==
  ASSUME WorkInv, NEW a \in Workers!Actor, NEW x, NEW r, Moves(a, x, r), Records(a), LogsGrow,
         NEW b \in Workers!Actor, b # a
  PROVE  /\ b \in Caller => CallerFits(b)'
         /\ b \in WorkerJob => ThreadFits(b)'
         /\ CopyFits(b)'
         /\ Owes(b) /\ (jobs' = jobs \/ aim[b] # aim[a]) => Owes(b)'
<1>1. /\ steps'[b] = steps[b] /\ held'[b] = held[b] /\ aim'[b] = aim[b] /\ aim[b] \in WorkerJob
      /\ WorkTypes
  BY DEF WorkInv, WorkTypes, Moves
<1>2. jobs[aim[b]] # Workers!NoJob => jobs'[aim[b]] # Workers!NoJob
  BY <1>1 DEF Records
<1>3. ASSUME b \in Caller PROVE CallerFits(b)'
  <2>1. CallerFits(b)
    BY <1>3 DEF WorkInv
  <2>. QED  BY <2>1, <1>1, <1>2 DEF CallerFits
<1>4. ASSUME b \in WorkerJob PROVE ThreadFits(b)'
  <2>1. ThreadFits(b)
    BY <1>4 DEF WorkInv
  <2>2. aim[b] = b /\ (b \in registered => b \in registered')
    BY <2>1 DEF ThreadFits, Moves
  <2>3. ASSUME steps[b] = R2, held[b].status = "cancelled" PROVE jobs'[b].status # "queued"
    <3>1. jobs[b].status # "queued" /\ steps[b] # <<>>
      BY <2>1, <2>3 DEF ThreadFits, R2
    <3>2. ASSUME a \in WorkerJob PROVE aim[a] = a
      BY <3>2 DEF WorkInv, ThreadFits
    <3>. QED  BY <3>1, <3>2, <1>4 DEF Records
  <2>4. Says(events[b], held[b].status) => Says(events'[b], held[b].status)
    BY <1>1, <1>4, StillSaying
  <2>. QED  BY <2>1, <2>2, <2>3, <2>4, <1>1, <1>2 DEF ThreadFits
<1>5. CopyFits(b)'
  <2>2. Says(events[aim[b]], "succeeded") => Says(events'[aim[b]], "succeeded")
    BY <1>1, StillSaying
  <2>3. CopyFits(b)
    BY DEF WorkInv
  <2>. QED  BY <2>2, <2>3, <1>1 DEF CopyFits
<1>6. ASSUME Owes(b), jobs' = jobs \/ aim[b] # aim[a] PROVE Owes(b)'
  <2>1. jobs'[aim[b]] = jobs[aim[b]]
    BY <1>1, <1>6 DEF Records
  <2>. QED  BY <2>1, <1>1, <1>6 DEF Owes
<1>. QED  BY <1>3, <1>4, <1>5, <1>6

LEMMA AllAccounted ==
  ASSUME WorkInv, NEW a \in Workers!Actor, NEW x, NEW r, Moves(a, x, r), Records(a), LogsGrow,
         Keeps(a), reboots = 0
  PROVE  \A j \in WorkerJob : Accounted(j)'
<1> SUFFICES ASSUME NEW j \in WorkerJob, jobs'[j] # Workers!NoJob
             PROVE  Whole(j)' \/ \E b \in Workers!Actor : aim'[b] = j /\ Owes(b)'
  BY DEF Accounted
<1>1. WorkTypes /\ aim' = aim /\ aim[a] \in WorkerJob /\ Accounted(j)
  BY DEF WorkInv, WorkTypes, Moves
<1>2. CASE jobs'[j] = jobs[j] /\ (j = aim[a] => jobs' = jobs)
  <2>1. CASE Whole(j)
    BY <2>1, <1>1, <1>2, StillWhole
  <2>2. ASSUME NEW b \in Workers!Actor, aim[b] = j, Owes(b)
        PROVE  Whole(j)' \/ \E d \in Workers!Actor : aim'[d] = j /\ Owes(d)'
    <3>1. CASE b = a
      BY <3>1, <2>2, <1>1 DEF Keeps
    <3>2. CASE b # a
      <4>1. Owes(b)'
        BY <3>2, <2>2, <1>2, OthersFit
      <4>. QED  BY <4>1, <2>2, <1>1
    <3>. QED  BY <3>1, <3>2
  <2>. QED  BY <2>1, <2>2, <1>1, <1>2 DEF Accounted
<1>3. CASE j = aim[a] /\ jobs' # jobs
  BY <1>1, <1>3 DEF Records
<1>. QED  BY <1>2, <1>3 DEF Records

LEMMA ActorSteps ==
  ASSUME WorkInv, NEW a \in Workers!Actor, NEW x, NEW r, Moves(a, x, r), Records(a), LogsGrow,
         Keeps(a), StreamFits', tree' \in Nat, head' \in Nat
  PROVE  WorkInv'
<1>1. WorkTypes'
  BY DEF WorkInv, WorkTypes, Moves, Records, LogsGrow
<1>2. ASSUME NEW c \in Caller PROVE StarterFits(c)' /\ CallerFits(c)'
  <2>1. CallerFits(c)'
    BY OthersFit DEF Keeps, Workers!Actor
  <2>2. StarterFits(c)'
    <3>1. /\ \A d \in Caller : steps'[d] \in StartScripts => steps[d] \in StartScripts
          /\ aim' = aim /\ aim[c] \in WorkerJob
      BY DEF WorkInv, WorkTypes, Moves, Workers!Actor
    <3>2. ASSUME steps[aim[c]] = <<>> PROVE steps'[aim[c]] = <<>>
      BY <3>1, <3>2 DEF WorkInv, WorkTypes, Moves, Workers!Actor
    <3>3. StarterFits(c)
      BY DEF WorkInv
    <3>. QED  BY <3>1, <3>2, <3>3 DEF StarterFits
  <2>. QED  BY <2>1, <2>2
<1>3. ASSUME NEW j \in WorkerJob PROVE ThreadFits(j)' /\ RecordFits(j)'
  <2>1. ThreadFits(j)'
    BY OthersFit DEF Keeps, Workers!Actor
  <2>2. RecordFits(j)'
    <3>1. CASE jobs'[j] = jobs[j]
      BY <3>1, StillSaying DEF WorkInv, RecordFits
    <3>2. CASE jobs'[j] # jobs[j]
      BY <3>2 DEF Records, Moves, RecordFits
    <3>. QED  BY <3>1, <3>2
  <2>. QED  BY <2>1, <2>2
<1>4. ASSUME NEW b \in Workers!Actor PROVE CopyFits(b)'
  BY OthersFit DEF Keeps
<1>5. reboots' = 0 => \A j \in WorkerJob : Accounted(j)'
  BY AllAccounted DEF Moves
<1>. QED  BY <1>1, <1>2, <1>3, <1>4, <1>5 DEF WorkInv

-----------------------------------------------------------------------------
LEMMA Heads ==
  ASSUME NEW x \in CallerScripts \cup ThreadScripts, x # <<>>
  PROVE  Ahead(x) = Head(x)
BY DEF Ahead

LEMMA Names ==
  ASSUME NEW x \in CallerScripts \cup ThreadScripts
  PROVE  x \in Seq(StepName)
<1>1. Rest \subseteq Seq(StepName)
  BY RestNames
<1>2. Changing \subseteq Seq(StepName)
  <2>1. ASSUME NEW t \in Told, NEW r \in Rest
        PROVE  {WriteTell(t, r), Tell(t, r), Write(t, r), Say(t, r)} \subseteq Seq(StepName)
    <3>1. t \in StepName /\ r \in Seq(StepName) /\ "write" \in StepName /\ "tell" \in StepName
      BY <1>1, ToldNames
    <3>2. /\ <<"write", "tell", "write", t>> \in Seq(StepName)
          /\ <<"tell", "write", t>> \in Seq(StepName)
          /\ <<"write", t>> \in Seq(StepName) /\ <<t>> \in Seq(StepName)
      BY <3>1
    <3>. QED  BY <3>1, <3>2 DEF WriteTell, Tell, Write, Say
  <2>. QED  BY <2>1 DEF Changing, Change1, Change2, Change3, Change4
<1>3. {S1, S2, S3, Committing} \cup Asking \cup ThreadScripts \subseteq Seq(StepName)
  <2>1. {S1, S2, S3, Committing} \cup Asking \subseteq Seq(StepName)
    BY DEF S1, S2, S3, Committing, Asking, Workers!cancel_job, Workers!commit_job,
           Workers!stream_events, StepName
  <2>2. ThreadScripts \subseteq Seq(StepName)
    BY DEF ThreadScripts, Busy, R1, R2, R3, R4, R5, E1, E2, E3, F1, F2, F3, F4, F5, F6, StepName
  <2>. QED  BY <2>1, <2>2
<1>. QED  BY <1>1, <1>2, <1>3 DEF CallerScripts

\* What a caller's script is, by the step ahead.
LEMMA RestHeads ==
  ASSUME NEW x \in Rest
  PROVE  Ahead(x) \in {"none", "signal", "compare", "get", "look"}
BY DEF Rest, Cancelling, Comparing, Ahead

LEMMA OtherHeads ==
  /\ Ahead(S1) = "queue" /\ Ahead(S2) = "queued" /\ Ahead(S3) = "register"
  /\ Ahead(Committing) = "commit"
  /\ \A x \in Asking : Ahead(x) = "get" /\ Tail(x) \in Rest
  /\ Tail(S1) = S2 /\ Tail(S2) = S3 /\ Tail(S3) = <<"get">>
BY DEF S1, S2, S3, Committing, Asking, Workers!cancel_job, Workers!commit_job,
       Workers!stream_events, Rest, Cancelling, Comparing, Ahead

LEMMA CallerHeads ==
  ASSUME NEW x \in CallerScripts
  PROVE  /\ Ahead(x) = "none" => x = <<>>
         /\ Ahead(x) = "queue" => x = S1
         /\ Ahead(x) = "queued" => x = S2
         /\ Ahead(x) = "register" => x = S3
         /\ Ahead(x) = "get" => Tail(x) \in Rest
         /\ Ahead(x) = "signal" => x = Cancelling
         /\ Ahead(x) = "compare" => x = Comparing
         /\ Ahead(x) = "commit" => x = Committing
         /\ Ahead(x) = "look" => x = <<"look">>
         /\ Ahead(x) = "write" => x \in Change1 \/ x \in Change3
         /\ Ahead(x) = "tell" => x \in Change2
         /\ Ahead(x) \in Told => x \in Change4
         /\ Ahead(x) \in {"none", "queue", "queued", "register", "get", "signal", "compare",
                          "commit", "look", "write", "tell"} \cup Told
         /\ x \in StartScripts <=> Ahead(x) \in {"queue", "queued", "register"}
         /\ x \in Changing <=> Ahead(x) \in {"write", "tell"} \cup Told
         /\ x = Committing <=> Ahead(x) = "commit"
<1>1. CASE x \in Rest
  <2>1. x \notin Changing /\ x \notin StartScripts /\ x # Committing
    BY <1>1, RestHeads, OtherHeads, ChangeTails DEF StartScripts, Told, Changing
  <2>2. /\ Ahead(<<>>) = "none" /\ Ahead(Cancelling) = "signal" /\ Ahead(Comparing) = "compare"
        /\ Ahead(<<"get", "look">>) = "get" /\ Tail(<<"get", "look">>) = <<"look">>
        /\ Ahead(<<"look">>) = "look"
    BY DEF Cancelling, Comparing, Ahead
  <2>3. x \in {<<>>, Cancelling, Comparing, <<"get", "look">>, <<"look">>} /\ <<"look">> \in Rest
    BY <1>1 DEF Rest
  <2>. QED  BY <2>1, <2>2, <2>3 DEF Told
<1>2. CASE x \in Changing
  BY <1>2, ChangeTails, OtherHeads DEF Changing, StartScripts, Told
<1>3. CASE x \in {S1, S2, S3, Committing} \cup Asking
  BY <1>3, OtherHeads, ChangeTails DEF StartScripts, Told, Changing
<1>. QED  BY <1>1, <1>2, <1>3 DEF CallerScripts

\* What is left after the orphan mark, the cancellation and the commit.
LEMMA Changes ==
  ASSUME NEW t \in Told, NEW r \in Rest
  PROVE  /\ <<"write", "tell", "write", t>> \o r \in Change1
         /\ (<<"write", "tell", "write", t>> \o r)[4] = t
         /\ <<"write", t>> \o r \in Change3 /\ (<<"write", t>> \o r)[2] = t
<1>1. (WriteTell(t, r))[4] = t /\ (Write(t, r))[2] = t
  BY Joined, RestNames, ToldNames DEF WriteTell, Write
<1>2. WriteTell(t, r) \in Change1 /\ Write(t, r) \in Change3
  BY DEF Change1, Change3
<1>. QED  BY <1>1, <1>2 DEF WriteTell, Write

LEMMA LogsKept ==
  ASSUME WorkTypes, events' = events
  PROVE  LogsGrow
<1>. USE DEF WorkTypes
<1>1. \A j \in WorkerJob : Len(events[j]) \in Nat
  OBVIOUS
<1>. QED  BY <1>1 DEF LogsGrow

LEMMA LogAppended ==
  ASSUME WorkTypes, NEW j \in WorkerJob, NEW t \in EventName,
         events' = [events EXCEPT ![j] = Append(@, t)]
  PROVE  LogsGrow /\ Says(events'[j], t)
<1>1. \A i \in WorkerJob : events[i] \in Seq(EventName)
  BY DEF WorkTypes
<1>2. events'[j] = Append(events[j], t) /\ \A i \in WorkerJob \ {j} : events'[i] = events[i]
  BY DEF WorkTypes
<1>3. /\ Append(events[j], t) \in Seq(EventName) /\ Len(Append(events[j], t)) = Len(events[j]) + 1
      /\ \A k \in 1 .. Len(events[j]) : Append(events[j], t)[k] = events[j][k]
      /\ Append(events[j], t)[Len(events[j]) + 1] = t
      /\ Len(events[j]) + 1 \in DOMAIN Append(events[j], t)
  BY <1>1
<1>4. events' \in [WorkerJob -> Seq(EventName)]
  BY <1>3 DEF WorkTypes
<1>5. \A i \in WorkerJob : Len(events[i]) \in Nat
  BY <1>1
<1>. QED  BY <1>2, <1>3, <1>4, <1>5 DEF LogsGrow, Says

LEMMA StreamKept ==
  ASSUME WorkInv, LogsGrow, closed' = closed
  PROVE  StreamFits'
<1> SUFFICES ASSUME closed.status = "succeeded" PROVE StreamFits'
  BY DEF StreamFits
<1> DEFINE j == closed.job
<1>1. j \in WorkerJob /\ closed.sent \in 0 .. Len(events[j])
  BY DEF WorkInv, StreamFits
<1>2. PICK k \in 1 .. closed.sent : events[j][k] = "succeeded"
  BY DEF WorkInv, StreamFits
<1>3. events[j] \in Seq(EventName) /\ events'[j] \in Seq(EventName)
  BY <1>1 DEF WorkInv, WorkTypes, LogsGrow
<1>4. Len(events[j]) \in Nat /\ Len(events'[j]) \in Nat /\ Len(events[j]) <= Len(events'[j])
  BY <1>1, <1>3 DEF LogsGrow
<1>5. k \in 1 .. Len(events[j]) /\ closed.sent \in 0 .. Len(events'[j])
  BY <1>1, <1>4
<1>6. events'[j][k] = "succeeded"
  BY <1>1, <1>2, <1>5 DEF LogsGrow
<1>. QED  BY <1>1, <1>5, <1>6 DEF StreamFits

\* The step ahead is taken, and the rest stays.
LEMMA Going ==
  ASSUME WorkTypes, NEW a \in Workers!Actor, NEW t, Workers!Takes(a, t), NEW r \in JobRecord,
         Workers!GoesWith(a, r)
  PROVE  /\ steps[a] \in CallerScripts \cup ThreadScripts /\ steps[a] # <<>>
         /\ Ahead(steps[a]) = t
         /\ steps' = [steps EXCEPT ![a] = Tail(steps[a])]
         /\ \E q \in JobRecord :
              /\ held' = [held EXCEPT ![a] = q]
              /\ Tail(steps[a]) = <<>> => q = Workers!NoJob
              /\ Tail(steps[a]) # <<>> => q = r
         /\ aim' = aim /\ reboots' = reboots
<1>1. steps[a] \in CallerScripts \cup ThreadScripts /\ steps[a] # <<>> /\ Ahead(steps[a]) = t
  BY DEF WorkTypes, Workers!Takes, Workers!Idle, Ahead
<1>2. <<>> \o Tail(steps[a]) = Tail(steps[a])
  BY <1>1, Names
<1>3. Workers!NoJob \in JobRecord
  BY DEF Workers!NoJob, JobRecord, StatusName
<1>. QED  BY <1>1, <1>2, <1>3 DEF Workers!GoesWith, Workers!Becomes, Workers!bounds

LEMMA Ending ==
  ASSUME WorkTypes, NEW a \in Workers!Actor, NEW t, Workers!Takes(a, t), Workers!Ends(a)
  PROVE  /\ steps[a] \in CallerScripts \cup ThreadScripts /\ steps[a] # <<>>
         /\ Ahead(steps[a]) = t /\ Workers!NoJob \in JobRecord
         /\ steps' = [steps EXCEPT ![a] = <<>>] /\ held' = [held EXCEPT ![a] = Workers!NoJob]
         /\ aim' = aim /\ reboots' = reboots
<1>1. Workers!NoJob \in JobRecord
  BY DEF Workers!NoJob, JobRecord, StatusName
<1>. QED
  BY <1>1 DEF WorkTypes, Workers!Takes, Workers!Idle, Ahead, Workers!Ends, Workers!bounds

-----------------------------------------------------------------------------
LEMMA NotOwing ==
  ASSUME NEW c \in Caller, WorkInv, Owes(c)
  PROVE  Ahead(steps[c]) \in {"write", "tell", "queued", "register"} \cup Told
<1>1. c \notin WorkerJob /\ steps[c] \in CallerScripts
  BY CallerAssumption DEF WorkInv, CallerFits
<1>2. CASE steps[c] \in Changing
  BY <1>1, <1>2, CallerHeads
<1>3. CASE steps[c] \in {S2, S3}
  BY <1>3, OtherHeads
<1>. QED  BY <1>1, <1>2, <1>3 DEF Owes, Changing

LEMMA RestFits ==
  ASSUME NEW c \in Caller, steps'[c] \in Rest, steps'[c] = <<>> => held'[c].status = "none"
  PROVE  CallerFits(c)'
<1>1. steps'[c] \in CallerScripts
  BY DEF CallerScripts
<1>2. Ahead(steps'[c]) \in {"none", "signal", "compare", "get", "look"}
  BY RestHeads
<1>3. steps'[c] \notin Changing /\ steps'[c] # Committing /\ steps'[c] \notin StartScripts
  BY <1>1, <1>2, CallerHeads DEF Told
<1>. QED  BY <1>1, <1>3 DEF CallerFits, Changing, StartScripts

LEMMA ChangeFits ==
  ASSUME NEW c \in Caller, steps'[c] \in Changing,
         steps'[c] \in Change1 => held'[c].status = steps'[c][4],
         steps'[c] \in Change2 => held'[c].status = steps'[c][3],
         steps'[c] \in Change3 => held'[c].status = steps'[c][2] /\ held'[c].told
  PROVE  CallerFits(c)'
<1>1. steps'[c] \in CallerScripts
  BY DEF CallerScripts
<1>2. steps'[c] # <<>> /\ Ahead(steps'[c]) \in {"write", "tell"} \cup Told
  BY <1>1, ChangeTails, CallerHeads
<1>3. steps'[c] # Committing /\ steps'[c] \notin StartScripts
  BY <1>1, <1>2, CallerHeads DEF Told
<1>. QED  BY <1>1, <1>2, <1>3 DEF CallerFits, StartScripts

\* Heads tell the classes apart.
LEMMA ChangeClasses ==
  ASSUME NEW x
  PROVE  /\ x \in Change1 => x \notin Change2 \cup Change3 \cup Change4
         /\ x \in Change2 => x \notin Change3 \cup Change4
         /\ x \in Change3 => x \notin Change4
BY ChangeTails DEF Told

LEMMA OrphanSteps ==
  /\ (<<"write">> \o <<>>) \o <<"failed">> = <<"write", "failed">>
  /\ (<<"write">> \o <<"tell", "write">>) \o <<"failed">> = <<"write", "tell", "write", "failed">>
<1>0. /\ <<"write">> \in Seq(StepName) /\ <<"tell", "write">> \in Seq(StepName)
      /\ <<"write", "tell", "write">> \in Seq(StepName) /\ <<"failed">> \in Seq(StepName)
  BY DEF StepName
<1>1. (<<"write">> \o <<>>) \o <<"failed">> = <<"write", "failed">>
  <2> DEFINE s == <<"write">> \o <<"failed">>
  <2>1. <<"write">> \o <<>> = <<"write">>
    BY <1>0
  <2>2. s \in Seq(StepName) /\ Len(s) = 2 /\ s[1] = "write" /\ s[2] = "failed"
    BY <1>0
  <2> HIDE DEF s
  <2>3. s = <<"write", "failed">>
    BY <2>2
  <2>. QED  BY <2>1, <2>3 DEF s
<1>4. (<<"write">> \o <<"tell", "write">>) \o <<"failed">> = <<"write", "tell", "write", "failed">>
  <2> DEFINE s == <<"write">> \o <<"tell", "write">>
  <2> DEFINE t == <<"write", "tell", "write">> \o <<"failed">>
  <2>1. s \in Seq(StepName) /\ Len(s) = 3 /\ s[1] = "write" /\ s[2] = "tell" /\ s[3] = "write"
    BY <1>0
  <2>2. /\ t \in Seq(StepName) /\ Len(t) = 4
        /\ t[1] = "write" /\ t[2] = "tell" /\ t[3] = "write" /\ t[4] = "failed"
    BY <1>0
  <2> HIDE DEF s, t
  <2>3. s = <<"write", "tell", "write">> /\ t = <<"write", "tell", "write", "failed">>
    BY <2>1, <2>2
  <2>. QED  BY <2>3 DEF s, t
<1>. QED  BY <1>1, <1>4

LEMMA OrphanTold ==
  ASSUME NEW r, r.told, NEW y \in Rest,
         NEW x, x = Workers!_mark_orphaned_job_failed(r) \o y
  PROVE  x \in Change3 /\ x[2] = "failed"
<1>1. x = <<"write", "failed">> \o y
  BY OrphanSteps DEF Workers!_mark_orphaned_job_failed
<1>. QED  BY <1>1, Changes DEF Told

LEMMA OrphanUntold ==
  ASSUME NEW r, ~r.told, NEW y \in Rest,
         NEW x, x = Workers!_mark_orphaned_job_failed(r) \o y
  PROVE  x \in Change1 /\ x[4] = "failed"
<1>1. x = <<"write", "tell", "write", "failed">> \o y
  BY OrphanSteps DEF Workers!_mark_orphaned_job_failed
<1>. QED  BY <1>1, Changes DEF Told

LEMMA GetOfCaller ==
  ASSUME WorkInv, NEW c \in Caller, Workers!get_job(c)
  PROVE  WorkInv'
<1> DEFINE j == aim[c]
<1> DEFINE r == jobs[j]
<1>1. /\ WorkTypes /\ c \in Workers!Actor /\ c \notin WorkerJob /\ CallerFits(c)
      /\ steps[c] \in CallerScripts /\ CopyFits(c)
  BY CallerAssumption DEF WorkInv, CallerFits, Workers!Actor
<1>2. /\ j \in WorkerJob /\ r \in JobRecord /\ [r EXCEPT !.status = "failed"] \in JobRecord
  BY <1>1 DEF WorkTypes, JobRecord, StatusName
<1>3. /\ jobs' = jobs /\ events' = events /\ registered' = registered /\ closed' = closed
      /\ tree' = tree /\ head' = head /\ Workers!Takes(c, "get")
  BY DEF Workers!get_job, Workers!stored, Workers!control, Workers!git
<1>4. LogsGrow /\ StreamFits' /\ tree' \in Nat /\ head' \in Nat
  BY <1>1, <1>3, LogsKept, StreamKept DEF WorkTypes
<1>5. steps[c] # <<>> /\ Ahead(steps[c]) = "get" /\ Tail(steps[c]) \in Rest
  <2>1. steps[c] # <<>> /\ Ahead(steps[c]) = "get"
    BY <1>3 DEF Workers!Takes, Workers!Idle, Ahead
  <2>. QED  BY <2>1, <1>1, CallerHeads
<1>6. ~Owes(c)
  BY <1>5, NotOwing DEF Told
<1>7. ASSUME NEW q, NEW x \in Rest \cup Changing, Moves(c, x, q), CallerFits(c)', CopyFits(c)'
      PROVE  WorkInv'
  <2>1. Keeps(c)
    BY <1>7, <1>1, <1>6 DEF Keeps
  <2>2. Records(c)
    BY <1>3, <1>1 DEF Records, WorkTypes
  <2>. QED  BY <2>1, <2>2, <1>7, <1>4, <1>1, ActorSteps
<1>8. CASE Workers!GoesWith(c, r)
  <2>1. PICK q \in JobRecord :
          /\ steps' = [steps EXCEPT ![c] = Tail(steps[c])] /\ held' = [held EXCEPT ![c] = q]
          /\ Tail(steps[c]) = <<>> => q = Workers!NoJob
          /\ Tail(steps[c]) # <<>> => q = r
          /\ aim' = aim /\ reboots' = reboots
    BY <1>1, <1>2, <1>3, <1>8, Going
  <2>2. steps'[c] = Tail(steps[c]) /\ held'[c] = q /\ aim'[c] = j
    BY <2>1, <1>1 DEF WorkTypes
  <2>3. CallerFits(c)'
    BY <2>1, <2>2, <1>5, RestFits DEF Workers!NoJob
  <2>4. CopyFits(c)'
    <3>1. CASE q = r
      <4>1. RecordFits(j)
        BY <1>2 DEF WorkInv
      <4>. QED  BY <4>1, <3>1, <2>2, <1>3 DEF RecordFits, CopyFits
    <3>2. CASE q = Workers!NoJob
      BY <3>2, <2>2 DEF CopyFits, Workers!NoJob
    <3>. QED  BY <3>1, <3>2, <2>1
  <2>5. Tail(steps[c]) \in CallerScripts /\ Tail(steps[c]) \notin StartScripts
    <3>1. Tail(steps[c]) \in CallerScripts
      BY <1>5 DEF CallerScripts
    <3>. QED  BY <3>1, <1>5, RestHeads, CallerHeads
  <2>6. Moves(c, Tail(steps[c]), q)
    BY <2>1, <2>5, <1>3, <1>5 DEF Moves
  <2>. QED  BY <2>3, <2>4, <2>6, <1>5, <1>7
<1>9. CASE Workers!Becomes(c, Workers!_mark_orphaned_job_failed(r), [r EXCEPT !.status = "failed"])
  <2> DEFINE q == [r EXCEPT !.status = "failed"]
  <2> DEFINE x == Workers!_mark_orphaned_job_failed(r) \o Tail(steps[c])
  <2>1. /\ q.status = "failed" /\ q.told = r.told /\ q \in JobRecord /\ r.told \in BOOLEAN
    BY <1>2 DEF JobRecord
  <2>2. ASSUME r.told PROVE x \in Change3 /\ x[2] = "failed"
    BY <2>2, <1>5, OrphanTold
  <2>3. ASSUME ~r.told PROVE x \in Change1 /\ x[4] = "failed"
    BY <2>3, <1>5, OrphanUntold
  <2>4. /\ x \in Changing /\ x # <<>> /\ x \notin StartScripts /\ x \in CallerScripts
        /\ x \in Change1 \/ x \in Change3
    <3>1. x \in Changing /\ (x \in Change1 \/ x \in Change3)
      BY <2>2, <2>3 DEF Changing
    <3>2. x # <<>> /\ x \in CallerScripts
      BY <3>1, ChangeTails DEF CallerScripts
    <3>. QED  BY <3>1, <3>2, CallerHeads DEF Told
  <2> HIDE DEF x
  <2> HIDE DEF q
  <2>5. /\ steps' = [steps EXCEPT ![c] = x] /\ held' = [held EXCEPT ![c] = q]
        /\ aim' = aim /\ reboots' = reboots
    BY <1>9, <2>4 DEF Workers!Becomes, Workers!bounds, x, q
  <2>6. steps'[c] = x /\ held'[c] = q
    BY <2>5, <1>1 DEF WorkTypes
  <2>7. CallerFits(c)'
    <3>1. x \in Change1 => x \notin Change3 /\ x \notin Change2
      BY ChangeClasses
    <3>2. x \in Change3 => x \notin Change1 /\ x \notin Change2
      BY ChangeClasses
    <3>. QED  BY <3>1, <3>2, <2>1, <2>2, <2>3, <2>4, <2>6, ChangeFits
  <2>8. CopyFits(c)'
    BY <2>1, <2>6 DEF CopyFits
  <2>9. Moves(c, x, q)
    BY <2>1, <2>4, <2>5, <1>3, <1>5 DEF Moves
  <2>. QED  BY <2>4, <2>7, <2>8, <2>9, <1>7
<1>. QED  BY <1>8, <1>9 DEF Workers!get_job, Workers!job

LEMMA NotThreads == F3 \notin CallerScripts /\ F4 \notin CallerScripts
<1>1. F3[3] = "write" /\ Ahead(F3) = "tell" /\ Ahead(F4) = "event"
  BY DEF F3, F4, Ahead
<1>. QED  BY <1>1, CallerHeads, ChangeTails DEF Told

LEMMA CallerFacts ==
  ASSUME WorkInv, NEW c \in Caller
  PROVE  /\ WorkTypes /\ c \in Workers!Actor /\ c \notin WorkerJob
         /\ CallerFits(c) /\ StarterFits(c) /\ CopyFits(c)
         /\ steps[c] \in CallerScripts /\ aim[c] \in WorkerJob
         /\ held[c] \in JobRecord /\ jobs[aim[c]] \in JobRecord
         /\ held[c].status = "succeeded" => held[c].told /\ Says(events[aim[c]], "succeeded")
<1>1. /\ WorkTypes /\ c \in Workers!Actor /\ c \notin WorkerJob
      /\ CallerFits(c) /\ StarterFits(c) /\ CopyFits(c)
  BY CallerAssumption DEF WorkInv, Workers!Actor
<1>2. steps[c] \in CallerScripts /\ steps[c] \notin {F3, F4}
  BY <1>1, NotThreads DEF CallerFits
<1>. QED  BY <1>1, <1>2 DEF WorkTypes, CopyFits

LEMMA CallerGoes ==
  ASSUME WorkInv, NEW c \in Caller, NEW t, Workers!Takes(c, t), NEW r \in JobRecord,
         Workers!GoesWith(c, r), registered' = registered, Tail(steps[c]) \in CallerScripts,
         Tail(steps[c]) \in StartScripts => steps[c] \in StartScripts
  PROVE  \E q \in JobRecord :
           /\ Moves(c, Tail(steps[c]), q)
           /\ steps'[c] = Tail(steps[c]) /\ held'[c] = q /\ aim'[c] = aim[c]
           /\ Tail(steps[c]) = <<>> => q = Workers!NoJob
           /\ Tail(steps[c]) # <<>> => q = r
<1>1. WorkTypes /\ c \in Workers!Actor
  BY CallerFacts
<1>2. PICK q \in JobRecord :
        /\ steps[c] # <<>>
        /\ steps' = [steps EXCEPT ![c] = Tail(steps[c])] /\ held' = [held EXCEPT ![c] = q]
        /\ Tail(steps[c]) = <<>> => q = Workers!NoJob
        /\ Tail(steps[c]) # <<>> => q = r
        /\ aim' = aim /\ reboots' = reboots
  BY <1>1, Going
<1>3. steps'[c] = Tail(steps[c]) /\ held'[c] = q /\ aim'[c] = aim[c]
  BY <1>1, <1>2 DEF WorkTypes
<1>4. Moves(c, Tail(steps[c]), q)
  BY <1>2 DEF Moves
<1>. QED  BY <1>2, <1>3, <1>4

LEMMA CallerEnds ==
  ASSUME WorkInv, NEW c \in Caller, NEW t, Workers!Takes(c, t), Workers!Ends(c),
         registered' = registered
  PROVE  /\ Moves(c, <<>>, Workers!NoJob) /\ CallerFits(c)' /\ CopyFits(c)'
<1>1. WorkTypes /\ c \in Workers!Actor
  BY CallerFacts
<1>2. <<>> \in CallerScripts /\ <<>> \notin StartScripts /\ <<>> \in Rest
  BY DEF CallerScripts, Rest, StartScripts, S1, S2, S3
<1>3. /\ steps[c] # <<>> /\ Workers!NoJob \in JobRecord
      /\ steps' = [steps EXCEPT ![c] = <<>>] /\ held' = [held EXCEPT ![c] = Workers!NoJob]
      /\ aim' = aim /\ reboots' = reboots
  BY <1>1, Ending
<1>4. steps'[c] = <<>> /\ held'[c].status = "none"
  BY <1>1, <1>3 DEF WorkTypes, Workers!NoJob
<1>5. CallerFits(c)' /\ CopyFits(c)'
  BY <1>2, <1>4, RestFits DEF CopyFits
<1>6. Moves(c, <<>>, Workers!NoJob)
  BY <1>2, <1>3 DEF Moves
<1>. QED  BY <1>5, <1>6

\* A step that writes no record.
LEMMA CallerReads ==
  ASSUME WorkInv, NEW c \in Caller, NEW x, NEW q, Moves(c, x, q), CallerFits(c)', CopyFits(c)',
         Owes(c) => Owes(c)' \/ Whole(aim[c])',
         jobs' = jobs, LogsGrow, closed' = closed \/ StreamFits', tree' \in Nat, head' \in Nat
  PROVE  WorkInv'
<1>1. Keeps(c) /\ c \in Workers!Actor
  BY CallerFacts DEF Keeps
<1>2. Records(c)
  BY CallerFacts DEF Records, WorkTypes
<1>. QED  BY <1>1, <1>2, StreamKept, ActorSteps

LEMMA HeadOf ==
  ASSUME NEW a, NEW t, Workers!Takes(a, t)
  PROVE  steps[a] # <<>> /\ Ahead(steps[a]) = t
BY DEF Workers!Takes, Workers!Idle, Ahead

LEMMA WriteOfCaller ==
  ASSUME WorkInv, NEW c \in Caller, Workers!_write_job(c)
  PROVE  WorkInv'
<1> DEFINE x == Tail(steps[c])
<1> DEFINE r == held[c]
<1>1. /\ WorkTypes /\ c \in Workers!Actor /\ c \notin WorkerJob /\ CallerFits(c)
      /\ steps[c] \in CallerScripts /\ aim[c] \in WorkerJob /\ r \in JobRecord
  BY CallerFacts
<1>2. /\ jobs' = [jobs EXCEPT ![aim[c]] = held[c]] /\ events' = events
      /\ registered' = registered /\ closed' = closed
      /\ tree' = tree /\ head' = head /\ Workers!Takes(c, "write") /\ Workers!GoesWith(c, held[c])
  BY DEF Workers!_write_job, Workers!control, Workers!git, Workers!Goes, Workers!copy
<1>3. LogsGrow /\ StreamFits' /\ tree' \in Nat /\ head' \in Nat
  BY <1>1, <1>2, LogsKept, StreamKept DEF WorkTypes
<1>4. steps[c] \in Change1 \/ steps[c] \in Change3
  BY <1>1, <1>2, HeadOf, CallerHeads
<1>5. /\ r.status \in Told
      /\ \/ x \in Change2 /\ x[3] = r.status
         \/ x \in Change4 /\ Ahead(x) = r.status /\ r.told
  BY <1>1, <1>4, ChangeTails DEF CallerFits
<1>6. x \in Changing /\ x \in CallerScripts /\ x # <<>> /\ x \notin StartScripts
  <2>1. x \in Changing
    BY <1>5 DEF Changing
  <2>. QED  BY <2>1, ChangeTails, CallerHeads DEF CallerScripts, Told
<1>7. Moves(c, x, r) /\ steps'[c] = x /\ held'[c] = r /\ aim'[c] = aim[c]
  BY <1>1, <1>2, <1>6, CallerGoes
<1>8. CallerFits(c)' /\ CopyFits(c)'
  <2>1. CallerFits(c)'
    BY <1>5, <1>6, <1>7, ChangeFits, ChangeClasses
  <2>. QED  BY <2>1, <1>5, <1>7 DEF CopyFits, Told
<1>9. /\ jobs'[aim[c]] = r /\ \A j \in WorkerJob \ {aim[c]} : jobs'[j] = jobs[j]
      /\ jobs' \in [WorkerJob -> JobRecord]
  BY <1>1, <1>2 DEF WorkTypes
<1>10. Owes(c)'
  <2>1. jobs'[aim'[c]] = r
    BY <1>7, <1>9
  <2>. QED  BY <2>1, <1>5, <1>7 DEF Owes
<1>11. Records(c)
  <2>1. r # Workers!NoJob /\ r.status # "queued" /\ r.status # "succeeded"
    BY <1>5 DEF Told, Workers!NoJob
  <2>2. RecordFits(aim[c])'
    BY <2>1, <1>7, <1>9 DEF RecordFits
  <2>. QED  BY <2>1, <2>2, <1>9, <1>10 DEF Records
<1>12. Keeps(c)
  BY <1>1, <1>8, <1>10 DEF Keeps
<1>. QED  BY <1>1, <1>3, <1>7, <1>11, <1>12, ActorSteps

LEMMA TellOfCaller ==
  ASSUME WorkInv, NEW c \in Caller, Workers!_append_terminal_message(c)
  PROVE  WorkInv'
<1> DEFINE x == Tail(steps[c])
<1> DEFINE r == [held[c] EXCEPT !.told = TRUE]
<1>1. /\ WorkTypes /\ c \notin WorkerJob /\ CallerFits(c) /\ held[c] \in JobRecord
      /\ steps[c] \in CallerScripts
  BY CallerFacts
<1>2. r \in JobRecord /\ r.told /\ r.status = held[c].status
  BY <1>1 DEF JobRecord
<1>3. /\ jobs' = jobs /\ events' = events /\ registered' = registered /\ closed' = closed
      /\ tree' = tree /\ head' = head /\ Workers!Takes(c, "tell") /\ Workers!GoesWith(c, r)
  BY DEF Workers!_append_terminal_message, Workers!stored, Workers!control, Workers!git,
         Workers!copy
<1>4. LogsGrow /\ tree' \in Nat /\ head' \in Nat
  BY <1>1, <1>3, LogsKept DEF WorkTypes
<1>5. steps[c] \in Change2
  BY <1>1, <1>3, HeadOf, CallerHeads
<1>6. x \in Change3 /\ x[2] = r.status /\ r.status \in Told
  BY <1>1, <1>2, <1>5, ChangeTails DEF CallerFits
<1>7. x \in Changing /\ x \in CallerScripts /\ x # <<>> /\ x \notin StartScripts
  <2>1. x \in Changing
    BY <1>6 DEF Changing
  <2>. QED  BY <2>1, ChangeTails, CallerHeads DEF CallerScripts, Told
<1> HIDE DEF r
<1>8. Moves(c, x, r) /\ steps'[c] = x /\ held'[c] = r /\ aim'[c] = aim[c]
  BY <1>2, <1>3, <1>7, CallerGoes
<1>9. CallerFits(c)' /\ CopyFits(c)' /\ Owes(c)'
  <2>1. CallerFits(c)'
    BY <1>2, <1>6, <1>7, <1>8, ChangeFits, ChangeClasses
  <2>. QED  BY <2>1, <1>6, <1>8 DEF CopyFits, Told, Owes
<1>. QED  BY <1>3, <1>4, <1>8, <1>9, CallerReads

\* The copy stays as it is.
LEMMA CopyStays ==
  ASSUME WorkInv, NEW c \in Caller, LogsGrow, held'[c] = held[c] \/ held'[c] = Workers!NoJob,
         aim'[c] = aim[c]
  PROVE  CopyFits(c)'
<1>1. /\ held[c].status = "succeeded" => held[c].told /\ Says(events[aim[c]], "succeeded")
      /\ WorkTypes /\ aim[c] \in WorkerJob
  BY CallerFacts
<1>2. Says(events[aim[c]], "succeeded") => Says(events'[aim[c]], "succeeded")
  BY <1>1, StillSaying
<1>3. CASE held'[c] = held[c]
  BY <1>1, <1>2, <1>3 DEF CopyFits
<1>4. CASE held'[c] = Workers!NoJob
  BY <1>4 DEF CopyFits, Workers!NoJob
<1>. QED  BY <1>3, <1>4

LEMMA EventOfCaller ==
  ASSUME WorkInv, NEW c \in Caller, Workers!_append_event(c)
  PROVE  WorkInv'
<1> DEFINE x == Tail(steps[c])
<1> DEFINE j == aim[c]
<1>1. /\ WorkTypes /\ c \notin WorkerJob /\ CallerFits(c) /\ held[c] \in JobRecord
      /\ steps[c] \in CallerScripts /\ j \in WorkerJob
  BY CallerFacts
<1>2. PICK type \in {"queued", "running", "codex_event", "cancelled", "failed", "committed",
                     held[c].status} :
        /\ Workers!Takes(c, type) \/ Workers!Takes(c, "event")
        /\ Workers!GoesWith(c, held[c])
        /\ events' = [events EXCEPT ![j] = Append(@, type)]
  BY DEF Workers!_append_event, Workers!Goes, Workers!copy
<1>3. /\ jobs' = jobs /\ registered' = registered /\ closed' = closed
      /\ tree' = tree /\ head' = head
  BY DEF Workers!_append_event, Workers!control, Workers!git
<1>4. /\ type \in EventName
      /\ type \in {"none", "queued", "running", "codex_event", "cancelled", "failed", "committed",
                   "succeeded"}
  BY <1>1, <1>2 DEF JobRecord, StatusName, EventName
<1>5. LogsGrow /\ Says(events'[j], type) /\ tree' \in Nat /\ head' \in Nat
  BY <1>1, <1>2, <1>3, <1>4, LogAppended DEF WorkTypes
<1>6. Workers!Takes(c, type) /\ Ahead(steps[c]) = type /\ type \in {"queued"} \cup Told
  BY <1>1, <1>2, <1>4, HeadOf, CallerHeads DEF Told
<1>7. CASE type = "queued"
  <2>1. steps[c] = S2 /\ x = S3 /\ x # <<>> /\ x \in CallerScripts /\ steps[c] \in StartScripts
    BY <1>1, <1>6, <1>7, CallerHeads, OtherHeads DEF S3, CallerScripts, StartScripts
  <2>2. /\ Moves(c, x, held[c]) /\ steps'[c] = x /\ held'[c] = held[c] /\ aim'[c] = j
    BY <1>1, <1>2, <1>3, <1>6, <2>1, CallerGoes
  <2>3. CallerFits(c)'
    <3>1. steps'[c] \notin Changing /\ steps'[c] # Committing
      <4>1. steps'[c] \in CallerScripts /\ Ahead(steps'[c]) = "register"
        BY <2>1, <2>2, OtherHeads
      <4>. HIDE DEF x
      <4>. QED  BY <4>1, CallerHeads DEF Told
    <3>2. jobs'[j] # Workers!NoJob
      BY <1>1, <1>3, <2>1 DEF CallerFits
    <3>. QED  BY <2>1, <2>2, <3>1, <3>2 DEF CallerFits, Changing
  <2>4. CopyFits(c)'
    BY <1>5, <2>2, CopyStays
  <2>5. Owes(c) => Owes(c)'
    <3>1. steps[c] \notin Changing
      BY <2>1, CallerHeads, OtherHeads, <1>1 DEF Told
    <3>. QED  BY <1>1, <1>3, <2>1, <2>2, <3>1 DEF Owes, Changing
  <2>. QED  BY <1>3, <1>5, <2>2, <2>3, <2>4, <2>5, CallerReads
<1>8. CASE type \in Told
  <2>1. steps[c] \in Change4 /\ x \in Rest
    BY <1>1, <1>6, <1>8, CallerHeads, ChangeTails
  <2>2. x \in CallerScripts /\ x \notin StartScripts
    <3>1. x \in CallerScripts
      BY <2>1 DEF CallerScripts
    <3>. QED  BY <2>1, <3>1, RestHeads, CallerHeads
  <2>3. PICK q \in JobRecord :
          /\ Moves(c, x, q) /\ steps'[c] = x /\ held'[c] = q /\ aim'[c] = j
          /\ x = <<>> => q = Workers!NoJob
          /\ x # <<>> => q = held[c]
    BY <1>1, <1>2, <1>3, <1>6, <2>2, CallerGoes
  <2>4. CallerFits(c)'
    <3>1. steps'[c] \in Rest /\ (steps'[c] = <<>> => held'[c].status = "none")
      BY <2>1, <2>3 DEF Workers!NoJob
    <3>. QED  BY <3>1, RestFits
  <2>5. CopyFits(c)'
    BY <1>5, <2>3, CopyStays
  <2>6. ASSUME Owes(c) PROVE Whole(aim[c])'
    <3>1. jobs[j].status = type /\ jobs[j].told
      <4>1. steps[c] \notin Change1 \cup Change2 \cup Change3
        BY <2>1, ChangeClasses
      <4>2. steps[c] \notin {S2, S3}
        BY <1>6, <1>8, OtherHeads DEF Told
      <4>. QED  BY <2>6, <1>1, <1>6, <4>1, <4>2 DEF Owes
    <3>2. type \in Workers!Terminal
      BY <1>8 DEF Told, Workers!Terminal
    <3>. QED  BY <3>1, <3>2, <2>3, <1>3, <1>5 DEF Whole
  <2>. QED  BY <1>3, <1>5, <2>3, <2>4, <2>5, <2>6, CallerReads
<1>. QED  BY <1>6, <1>7, <1>8

LEMMA QueueKeeps ==
  ASSUME WorkInv, NEW c \in Caller, Workers!Queue(c)
  PROVE  WorkInv'
<1> DEFINE x == Tail(steps[c])
<1> DEFINE j == aim[c]
<1>1. /\ WorkTypes /\ c \in Workers!Actor /\ c \notin WorkerJob /\ StarterFits(c)
      /\ steps[c] \in CallerScripts /\ j \in WorkerJob
      /\ held[c] \in JobRecord /\ jobs[j] \in JobRecord
  BY CallerFacts
<1>2. /\ jobs' = [jobs EXCEPT ![j].status = "queued"] /\ events' = events
      /\ registered' = registered /\ closed' = closed
      /\ tree' = tree /\ head' = head /\ Workers!Takes(c, "queue") /\ Workers!GoesWith(c, held[c])
  BY DEF Workers!Queue, Workers!control, Workers!git, Workers!Goes, Workers!copy
<1>3. LogsGrow /\ StreamFits' /\ tree' \in Nat /\ head' \in Nat
  BY <1>1, <1>2, LogsKept, StreamKept DEF WorkTypes
<1>4. steps[c] = S1 /\ x = S2 /\ x # <<>> /\ x \in CallerScripts /\ steps[c] \in StartScripts
  BY <1>1, <1>2, HeadOf, CallerHeads, OtherHeads DEF S2, CallerScripts, StartScripts
<1>5. Moves(c, x, held[c]) /\ steps'[c] = x /\ held'[c] = held[c] /\ aim'[c] = j
  BY <1>1, <1>2, <1>4, CallerGoes
<1>6. /\ jobs' \in [WorkerJob -> JobRecord] /\ \A i \in WorkerJob \ {j} : jobs'[i] = jobs[i]
      /\ jobs'[j].status = "queued"
  BY <1>1, <1>2 DEF WorkTypes, JobRecord, StatusName
<1>7. jobs'[j] # Workers!NoJob
  BY <1>6 DEF Workers!NoJob
<1>8. Owes(c)'
  BY <1>4, <1>5, <1>6 DEF Owes
<1>9. Records(c)
  <2>1. steps[j] = <<>>
    BY <1>1, <1>4 DEF StarterFits
  <2>. QED  BY <2>1, <1>5, <1>6, <1>7, <1>8 DEF Records, RecordFits
<1>10. CallerFits(c)'
  <2>1. steps'[c] \notin Changing /\ steps'[c] # Committing
    BY <1>4, <1>5, CallerHeads, OtherHeads DEF Told
  <2>. QED  BY <2>1, <1>4, <1>5, <1>7 DEF CallerFits, Changing
<1>11. CopyFits(c)'
  BY <1>3, <1>5, CopyStays
<1>12. Keeps(c)
  BY <1>1, <1>8, <1>10, <1>11 DEF Keeps
<1>. QED  BY <1>1, <1>3, <1>5, <1>9, <1>12, ActorSteps

LEMMA SignalKeeps ==
  ASSUME WorkInv, NEW c \in Caller, Workers!Signal(c)
  PROVE  WorkInv'
<1> DEFINE x == Tail(steps[c])
<1> DEFINE r == [held[c] EXCEPT !.status = "cancelled"]
<1>1. WorkTypes /\ steps[c] \in CallerScripts /\ held[c] \in JobRecord
  BY CallerFacts
<1>2. /\ jobs' = jobs /\ events' = events /\ registered' = registered /\ closed' = closed
      /\ tree' = tree /\ head' = head /\ Workers!Takes(c, "signal")
      /\ Workers!Ends(c) \/ Workers!GoesWith(c, r)
  BY DEF Workers!Signal, Workers!stored, Workers!control, Workers!git, Workers!copy
<1>3. LogsGrow /\ tree' \in Nat /\ head' \in Nat
  BY <1>1, <1>2, LogsKept DEF WorkTypes
<1>4. Ahead(steps[c]) = "signal" /\ steps[c] = Cancelling
  BY <1>1, <1>2, HeadOf, CallerHeads
<1>5. ~Owes(c)
  BY <1>4, NotOwing DEF Told
<1>6. CASE Workers!Ends(c)
  BY <1>2, <1>3, <1>5, <1>6, CallerEnds, CallerReads
<1>7. CASE Workers!GoesWith(c, r)
  <2>1. r \in JobRecord /\ r.status = "cancelled"
    BY <1>1 DEF JobRecord, StatusName
  <2>2. x \in Change1 /\ x[4] = "cancelled"
    <3>1. <<"write", "tell", "write", "cancelled">> \in Seq(StepName)
      BY DEF StepName
    <3>2. x = <<"write", "tell", "write", "cancelled">> \o <<>>
      BY <1>4, <3>1 DEF Cancelling
    <3>3. <<>> \in Rest /\ "cancelled" \in Told
      BY DEF Rest, Told
    <3>. QED  BY <3>2, <3>3, Changes
  <2>3. x \in Changing /\ x \in CallerScripts /\ x # <<>> /\ x \notin StartScripts
    <3>1. x \in Changing
      BY <2>2 DEF Changing
    <3>. QED  BY <3>1, ChangeTails, CallerHeads DEF CallerScripts, Told
  <2> HIDE DEF r
  <2>4. Moves(c, x, r) /\ steps'[c] = x /\ held'[c] = r /\ aim'[c] = aim[c]
    BY <1>2, <1>7, <2>1, <2>3, CallerGoes
  <2>5. CallerFits(c)' /\ CopyFits(c)'
    <3>1. CallerFits(c)'
      BY <2>1, <2>2, <2>3, <2>4, ChangeFits, ChangeClasses
    <3>. QED  BY <3>1, <2>1, <2>4 DEF CopyFits
  <2>. QED  BY <1>2, <1>3, <1>5, <2>4, <2>5, CallerReads
<1>. QED  BY <1>2, <1>6, <1>7

LEMMA CompareKeeps ==
  ASSUME WorkInv, NEW c \in Caller, Workers!Compare(c)
  PROVE  WorkInv'
<1> DEFINE x == Tail(steps[c])
<1>1. WorkTypes /\ steps[c] \in CallerScripts /\ held[c] \in JobRecord
  BY CallerFacts
<1>2. /\ jobs' = jobs /\ events' = events /\ registered' = registered /\ closed' = closed
      /\ tree' = tree /\ head' = head /\ Workers!Takes(c, "compare")
      /\ \/ Workers!Ends(c)
         \/ held[c].status = "succeeded" /\ Workers!GoesWith(c, held[c])
  BY DEF Workers!Compare, Workers!stored, Workers!control, Workers!git, Workers!copy, Workers!Goes
<1>3. LogsGrow /\ tree' \in Nat /\ head' \in Nat
  BY <1>1, <1>2, LogsKept DEF WorkTypes
<1>4. Ahead(steps[c]) = "compare" /\ steps[c] = Comparing
  BY <1>1, <1>2, HeadOf, CallerHeads
<1>5. ~Owes(c)
  BY <1>4, NotOwing DEF Told
<1>6. CASE Workers!Ends(c)
  BY <1>2, <1>3, <1>5, <1>6, CallerEnds, CallerReads
<1>7. CASE held[c].status = "succeeded" /\ Workers!GoesWith(c, held[c])
  <2>1. x = Committing /\ x # <<>> /\ x \in CallerScripts
    BY <1>4 DEF Comparing, Committing, CallerScripts
  <2>2. x \notin StartScripts /\ x \notin Changing
    BY <2>1, CallerHeads, OtherHeads DEF Told
  <2>3. Moves(c, x, held[c]) /\ steps'[c] = x /\ held'[c] = held[c] /\ aim'[c] = aim[c]
    BY <1>1, <1>2, <1>7, <2>1, <2>2, CallerGoes
  <2>4. CallerFits(c)'
    BY <2>1, <2>2, <2>3, <1>7 DEF CallerFits, Changing, StartScripts
  <2>5. CopyFits(c)'
    BY <1>3, <2>3, CopyStays
  <2>. QED  BY <1>2, <1>3, <1>5, <2>3, <2>4, <2>5, CallerReads
<1>. QED  BY <1>2, <1>6, <1>7

LEMMA CommitKeeps ==
  ASSUME WorkInv, NEW c \in Caller, Workers!Commit(c)
  PROVE  WorkInv'
<1> DEFINE x == Tail(steps[c])
<1> DEFINE r == [held[c] EXCEPT !.status = "committed"]
<1>1. /\ WorkTypes /\ steps[c] \in CallerScripts /\ held[c] \in JobRecord /\ CallerFits(c)
      /\ held[c].status = "succeeded" => held[c].told
  BY CallerFacts
<1>2. /\ jobs' = jobs /\ events' = events /\ registered' = registered /\ closed' = closed
      /\ tree' = tree /\ head' \in {head, tree} /\ Workers!Takes(c, "commit")
      /\ Workers!Ends(c) \/ Workers!GoesWith(c, r)
  BY DEF Workers!Commit, Workers!stored, Workers!control, Workers!copy
<1>3. LogsGrow /\ tree' \in Nat /\ head' \in Nat
  BY <1>1, <1>2, LogsKept DEF WorkTypes
<1>4. Ahead(steps[c]) = "commit" /\ steps[c] = Committing
  BY <1>1, <1>2, HeadOf, CallerHeads
<1>5. ~Owes(c)
  BY <1>4, NotOwing DEF Told
<1>6. CASE Workers!Ends(c)
  BY <1>2, <1>3, <1>5, <1>6, CallerEnds, CallerReads
<1>7. CASE Workers!GoesWith(c, r)
  <2>1. r \in JobRecord /\ r.status = "committed" /\ r.told
    BY <1>1, <1>4 DEF JobRecord, StatusName, CallerFits
  <2>2. x \in Change3 /\ x[2] = "committed"
    <3>1. <<"write", "committed">> \in Seq(StepName)
      BY DEF StepName
    <3>2. x = <<"write", "committed">> \o <<>>
      BY <1>4, <3>1 DEF Committing
    <3>3. <<>> \in Rest /\ "committed" \in Told
      BY DEF Rest, Told
    <3>. QED  BY <3>2, <3>3, Changes
  <2>3. x \in Changing /\ x \in CallerScripts /\ x # <<>> /\ x \notin StartScripts
    <3>1. x \in Changing
      BY <2>2 DEF Changing
    <3>. QED  BY <3>1, ChangeTails, CallerHeads DEF CallerScripts, Told
  <2> HIDE DEF r
  <2>4. Moves(c, x, r) /\ steps'[c] = x /\ held'[c] = r /\ aim'[c] = aim[c]
    BY <1>2, <1>7, <2>1, <2>3, CallerGoes
  <2>5. CallerFits(c)' /\ CopyFits(c)'
    <3>1. CallerFits(c)'
      BY <2>1, <2>2, <2>3, <2>4, ChangeFits, ChangeClasses
    <3>. QED  BY <3>1, <2>1, <2>4 DEF CopyFits
  <2>. QED  BY <1>2, <1>3, <1>5, <2>4, <2>5, CallerReads
<1>. QED  BY <1>2, <1>6, <1>7

LEMMA LookKeeps ==
  ASSUME WorkInv, NEW c \in Caller, Workers!Look(c)
  PROVE  WorkInv'
<1>1. /\ WorkTypes /\ c \in Workers!Actor /\ steps[c] \in CallerScripts /\ held[c] \in JobRecord
      /\ aim[c] \in WorkerJob
      /\ held[c].status = "succeeded" => Says(events[aim[c]], "succeeded")
  BY CallerFacts
<1>2. /\ jobs' = jobs /\ events' = events /\ registered' = registered
      /\ tree' = tree /\ head' = head /\ Workers!Takes(c, "look")
  BY DEF Workers!Look, Workers!stored, Workers!control, Workers!git
<1>3. LogsGrow /\ tree' \in Nat /\ head' \in Nat
  BY <1>1, <1>2, LogsKept DEF WorkTypes
<1>4. Ahead(steps[c]) = "look" /\ steps[c] = <<"look">> /\ steps[c] # <<>>
  BY <1>1, <1>2, HeadOf, CallerHeads
<1>5. ~Owes(c)
  BY <1>4, NotOwing DEF Told
<1>6. ASSUME Workers!Ends(c),
             closed' = [job |-> aim[c], status |-> held[c].status, sent |-> Len(events[aim[c]])]
      PROVE  WorkInv'
  <2>1. StreamFits'
    <3> SUFFICES ASSUME closed'.status = "succeeded" PROVE StreamFits'
      BY DEF StreamFits
    <3>1. /\ closed'.job = aim[c] /\ closed'.sent = Len(events[aim[c]])
          /\ held[c].status = "succeeded"
      BY <1>6
    <3>2. events'[aim[c]] = events[aim[c]] /\ events[aim[c]] \in Seq(EventName)
      BY <1>1, <1>2 DEF WorkTypes
    <3>3. PICK k \in DOMAIN events[aim[c]] : events[aim[c]][k] = "succeeded"
      BY <3>1, <1>1 DEF Says
    <3>. QED  BY <1>1, <3>1, <3>2, <3>3 DEF StreamFits
  <2>. QED  BY <1>2, <1>3, <1>5, <1>6, <2>1, CallerEnds, CallerReads
<1>7. ASSUME Workers!Becomes(c, <<"get", "look">>, held[c]), closed' = closed
      PROVE  WorkInv'
  <2> DEFINE x == <<"get", "look">>
  <2>1. /\ x \in Rest /\ x \in CallerScripts /\ Ahead(x) = "get" /\ x # <<>>
        /\ x \in Seq(StepName)
    BY DEF Rest, CallerScripts, Ahead, StepName
  <2>2. Tail(steps[c]) = <<>>
    BY <1>4
  <2> HIDE DEF x
  <2>3. x \o <<>> = x
    BY <2>1
  <2>4. /\ steps' = [steps EXCEPT ![c] = x] /\ held' = [held EXCEPT ![c] = held[c]]
        /\ aim' = aim /\ reboots' = reboots
    <3>1. Workers!Becomes(c, x, held[c])
      BY <1>7 DEF x
    <3>. QED  BY <3>1, <2>2, <2>1, <2>3 DEF Workers!Becomes, Workers!bounds
  <2>5. steps'[c] = x /\ held'[c] = held[c] /\ aim'[c] = aim[c]
    BY <2>4, <1>1 DEF WorkTypes
  <2>6. CallerFits(c)' /\ CopyFits(c)'
    BY <2>1, <2>5, <1>3, RestFits, CopyStays
  <2>7. Moves(c, x, held[c])
    <3>1. x \notin StartScripts
      BY <2>1, CallerHeads
    <3>. QED  BY <3>1, <2>4, <2>1, <1>1, <1>2, <1>4 DEF Moves
  <2>. QED  BY <1>2, <1>3, <1>5, <1>7, <2>6, <2>7, CallerReads
<1>. QED  BY <1>6, <1>7 DEF Workers!Look, Workers!GoesOn, Workers!copy

-----------------------------------------------------------------------------
(* The thread of a job.                                                    *)

LEMMA ThreadNames ==
  /\ Ahead(R2) = "begin" /\ Ahead(R3) = "write" /\ Ahead(R4) = "running" /\ Ahead(R5) = "codex"
  /\ Ahead(E1) = "get" /\ Ahead(E2) = "write" /\ Ahead(E3) = "codex_event" /\ Ahead(F1) = "get"
  /\ Ahead(F2) = "decide" /\ Ahead(F3) = "tell" /\ Ahead(F4) = "event" /\ Ahead(F5) = "write"
  /\ Ahead(F6) = "unregister" /\ Ahead(R1) = "get" /\ Ahead(<<>>) = "none"
BY DEF R1, R2, R3, R4, R5, E1, E2, E3, F1, F2, F3, F4, F5, F6, Ahead

LEMMA ThreadHeads ==
  ASSUME NEW x \in ThreadScripts
  PROVE  /\ Ahead(x) = "get" => x \in {R1, E1, F1}
         /\ Ahead(x) = "begin" => x = R2
         /\ Ahead(x) = "write" => x \in {R3, E2, F5}
         /\ Ahead(x) = "running" => x = R4
         /\ Ahead(x) = "codex" => x = R5
         /\ Ahead(x) = "codex_event" => x = E3
         /\ Ahead(x) = "decide" => x = F2
         /\ Ahead(x) = "tell" => x = F3
         /\ Ahead(x) = "event" => x = F4
         /\ Ahead(x) = "unregister" => x = F6
         /\ Ahead(x) \in {"none", "get", "begin", "write", "running", "codex", "codex_event",
                          "decide", "tell", "event", "unregister"}
         /\ x \notin StartScripts
<1>1. x \in {<<>>, R1, R2, R3, R4, R5, E1, E2, E3, F1, F2, F3, F4, F5, F6}
  BY DEF ThreadScripts, Busy
<1>. QED  BY <1>1, ThreadNames, OtherHeads DEF StartScripts

LEMMA ThreadTails ==
  /\ Tail(R1) = R2 /\ Tail(R2) = R3 /\ Tail(R3) = R4 /\ Tail(R4) = R5 /\ Tail(R5) = <<>>
  /\ Tail(E1) = E2 /\ Tail(E2) = E3 /\ Tail(E3) = R5
  /\ Tail(F1) = F2 /\ Tail(F2) = F4 /\ Tail(F3) = F4 /\ Tail(F4) = F5 /\ Tail(F5) = F6
  /\ Tail(F6) = <<>>
  /\ <<>> \notin {R1, R2, R3, R4, R5, E1, E2, E3, F1, F2, F3, F4, F5, F6}
BY DEF R1, R2, R3, R4, R5, E1, E2, E3, F1, F2, F3, F4, F5, F6

\* The scripts with the same step ahead are not the same.
LEMMA ThreadClasses ==
  /\ R1 # E1 /\ R1 # F1 /\ E1 # F1 /\ R3 # E2 /\ R3 # F5 /\ E2 # F5
  /\ {R1, R2, F6} \cap Busy = {}
<1>1. R1[2] = "begin" /\ E1[2] = "write" /\ F1[2] = "decide"
  BY DEF R1, E1, F1
<1>2. R3[2] = "running" /\ E2[2] = "codex_event" /\ F5[2] = "unregister"
  BY DEF R3, E2, F5
<1>3. R1 # E1 /\ R1 # F1 /\ E1 # F1 /\ R3 # E2 /\ R3 # F5 /\ E2 # F5
  BY <1>1, <1>2
<1>4. R1 \notin Busy /\ R2 \notin Busy /\ F6 \notin Busy
  BY <1>3, ThreadNames DEF Busy
<1>. QED  BY <1>3, <1>4

LEMMA ThreadFacts ==
  ASSUME WorkInv, NEW j \in WorkerJob
  PROVE  /\ WorkTypes /\ j \in Workers!Actor /\ j \notin Caller
         /\ ThreadFits(j) /\ CopyFits(j) /\ RecordFits(j)
         /\ steps[j] \in ThreadScripts /\ aim[j] = j
         /\ held[j] \in JobRecord /\ jobs[j] \in JobRecord
<1>1. /\ WorkTypes /\ j \in Workers!Actor /\ j \notin Caller
      /\ ThreadFits(j) /\ CopyFits(j) /\ RecordFits(j)
  BY CallerAssumption DEF WorkInv, Workers!Actor
<1>. QED  BY <1>1 DEF WorkTypes, ThreadFits

LEMMA ThreadGoes ==
  ASSUME WorkInv, NEW j \in WorkerJob, NEW t, Workers!Takes(j, t), NEW r \in JobRecord,
         Workers!GoesWith(j, r), \A i \in registered : i \in registered' \/ i = j,
         Tail(steps[j]) \in ThreadScripts
  PROVE  \E q \in JobRecord :
           /\ Moves(j, Tail(steps[j]), q)
           /\ steps'[j] = Tail(steps[j]) /\ held'[j] = q /\ aim'[j] = j
           /\ Tail(steps[j]) = <<>> => q = Workers!NoJob
           /\ Tail(steps[j]) # <<>> => q = r
<1>1. WorkTypes /\ j \in Workers!Actor /\ aim[j] = j
  BY ThreadFacts
<1>2. PICK q \in JobRecord :
        /\ steps[j] # <<>>
        /\ steps' = [steps EXCEPT ![j] = Tail(steps[j])] /\ held' = [held EXCEPT ![j] = q]
        /\ Tail(steps[j]) = <<>> => q = Workers!NoJob
        /\ Tail(steps[j]) # <<>> => q = r
        /\ aim' = aim /\ reboots' = reboots
  BY <1>1, Going
<1>3. steps'[j] = Tail(steps[j]) /\ held'[j] = q /\ aim'[j] = j
  BY <1>1, <1>2 DEF WorkTypes
<1>4. Moves(j, Tail(steps[j]), q)
  BY <1>2, ThreadHeads DEF Moves
<1>. QED  BY <1>2, <1>3, <1>4

\* A step that writes no record.
LEMMA ThreadReads ==
  ASSUME WorkInv, NEW j \in WorkerJob, NEW x, NEW q, Moves(j, x, q), ThreadFits(j)', CopyFits(j)',
         Owes(j) => Owes(j)', jobs' = jobs, LogsGrow, closed' = closed, tree' \in Nat, head' \in Nat
  PROVE  WorkInv'
<1>1. Keeps(j) /\ j \in Workers!Actor
  BY ThreadFacts DEF Keeps
<1>2. Records(j)
  BY ThreadFacts DEF Records, WorkTypes
<1>. QED  BY <1>1, <1>2, StreamKept, ActorSteps

LEMMA ThreadCopyStays ==
  ASSUME WorkInv, NEW j \in WorkerJob, LogsGrow, held'[j] = held[j] \/ held'[j] = Workers!NoJob,
         aim'[j] = aim[j], steps[j] \notin {F3, F4}
  PROVE  CopyFits(j)'
<1>1. /\ held[j].status = "succeeded" => held[j].told /\ Says(events[aim[j]], "succeeded")
      /\ WorkTypes /\ aim[j] \in WorkerJob
  BY ThreadFacts DEF CopyFits
<1>2. Says(events[aim[j]], "succeeded") => Says(events'[aim[j]], "succeeded")
  BY <1>1, StillSaying
<1>3. CASE held'[j] = held[j]
  BY <1>1, <1>2, <1>3 DEF CopyFits
<1>4. CASE held'[j] = Workers!NoJob
  BY <1>4 DEF CopyFits, Workers!NoJob
<1>. QED  BY <1>3, <1>4

LEMMA GetOfThread ==
  ASSUME WorkInv, NEW j \in WorkerJob, Workers!get_job(j)
  PROVE  WorkInv'
<1> DEFINE x == Tail(steps[j])
<1>1. /\ WorkTypes /\ j \notin Caller /\ ThreadFits(j) /\ RecordFits(j)
      /\ steps[j] \in ThreadScripts /\ aim[j] = j /\ jobs[j] \in JobRecord
  BY ThreadFacts
<1>2. /\ jobs' = jobs /\ events' = events /\ registered' = registered /\ closed' = closed
      /\ tree' = tree /\ head' = head /\ Workers!Takes(j, "get")
  BY DEF Workers!get_job, Workers!stored, Workers!control, Workers!git
<1>3. LogsGrow /\ tree' \in Nat /\ head' \in Nat
  BY <1>1, <1>2, LogsKept DEF WorkTypes
<1>4. steps[j] # <<>> /\ steps[j] \in {R1, E1, F1}
  BY <1>1, <1>2, HeadOf, ThreadHeads
<1>5. j \in registered /\ jobs[j] # Workers!NoJob
  BY <1>1, <1>4 DEF ThreadFits
<1>6. Workers!GoesWith(j, jobs[j])
  BY <1>1, <1>5 DEF Workers!get_job, Workers!job
<1>7. x \in {R2, E2, F2} /\ x # <<>> /\ x \in ThreadScripts
  BY <1>4, ThreadTails DEF ThreadScripts, Busy
<1>8. Moves(j, x, jobs[j]) /\ steps'[j] = x /\ held'[j] = jobs[j] /\ aim'[j] = j
  BY <1>1, <1>2, <1>6, <1>7, ThreadGoes
<1>9. ThreadFits(j)'
  <2>1. x \notin {R3, F3, F4, F5} /\ (x = R2 => x # E2)
    <3>. QED  BY <1>7, ThreadNames, ThreadClasses
  <2>. QED  BY <2>1, <1>1, <1>2, <1>5, <1>7, <1>8 DEF ThreadFits
<1>10. CopyFits(j)'
  BY <1>1, <1>2, <1>8 DEF CopyFits, RecordFits
<1>11. Owes(j) => Owes(j)'
  <2>1. CASE steps[j] = R1
    BY <2>1, <1>1, <1>2, <1>8, ThreadTails, ThreadClasses DEF Owes
  <2>2. CASE steps[j] # R1
    <3>1. x \in Busy
      BY <2>2, <1>4, ThreadTails DEF Busy
    <3>. QED  BY <3>1, <1>8 DEF Owes
  <2>. QED  BY <2>1, <2>2
<1>. QED  BY <1>2, <1>3, <1>8, <1>9, <1>10, <1>11, ThreadReads

LEMMA WriteOfThread ==
  ASSUME WorkInv, NEW j \in WorkerJob, Workers!_write_job(j)
  PROVE  WorkInv'
<1> DEFINE x == Tail(steps[j])
<1> DEFINE r == held[j]
<1>1. /\ WorkTypes /\ j \in Workers!Actor /\ j \notin Caller /\ ThreadFits(j) /\ CopyFits(j)
      /\ steps[j] \in ThreadScripts /\ aim[j] = j /\ r \in JobRecord
  BY ThreadFacts
<1>2. /\ jobs' = [jobs EXCEPT ![j] = r] /\ events' = events
      /\ registered' = registered /\ closed' = closed
      /\ tree' = tree /\ head' = head /\ Workers!Takes(j, "write") /\ Workers!GoesWith(j, r)
  BY <1>1 DEF Workers!_write_job, Workers!control, Workers!git, Workers!Goes, Workers!copy
<1>3. LogsGrow /\ StreamFits' /\ tree' \in Nat /\ head' \in Nat
  BY <1>1, <1>2, LogsKept, StreamKept DEF WorkTypes
<1>4. steps[j] # <<>> /\ steps[j] \in {R3, E2, F5}
  BY <1>1, <1>2, HeadOf, ThreadHeads
<1>5. x \in {R4, E3, F6} /\ x # <<>> /\ x \in ThreadScripts
  BY <1>4, ThreadTails DEF ThreadScripts, Busy
<1>6. Moves(j, x, r) /\ steps'[j] = x /\ held'[j] = r /\ aim'[j] = j
  BY <1>1, <1>2, <1>5, ThreadGoes
<1>7. /\ jobs'[j] = r /\ \A i \in WorkerJob \ {j} : jobs'[i] = jobs[i]
      /\ jobs' \in [WorkerJob -> JobRecord]
  BY <1>1, <1>2 DEF WorkTypes
<1>8. r # Workers!NoJob
  <2>1. CASE steps[j] \in {R3, E2}
    BY <2>1, <1>1 DEF ThreadFits
  <2>2. CASE steps[j] = F5
    <3>1. r.status \in Workers!Terminal
      BY <2>2, <1>1 DEF ThreadFits
    <3>. QED  BY <3>1 DEF Workers!Terminal, Workers!NoJob
  <2>. QED  BY <2>1, <2>2, <1>4
<1>9. /\ Ahead(x) \in {"running", "codex_event", "unregister"}
      /\ Ahead(steps[j]) = "write"
      /\ Ahead(R2) = "begin" /\ Ahead(R3) = "write" /\ Ahead(E2) = "write" /\ Ahead(F3) = "tell"
      /\ Ahead(F4) = "event" /\ Ahead(F5) = "write"
  BY <1>4, <1>5 DEF R2, R3, R4, E2, E3, F3, F4, F5, F6, Ahead
<1>10. ThreadFits(j)'
  <2>1. x \notin {R2, R3, E2, F3, F4, F5}
    BY <1>9
  <2>. QED  BY <2>1, <1>1, <1>2, <1>4, <1>5, <1>6, <1>7, <1>8 DEF ThreadFits
<1>11. CopyFits(j)' /\ steps[j] \notin {F3, F4}
  BY <1>1, <1>3, <1>6, <1>9, ThreadCopyStays
<1>12. RecordFits(aim[j])'
  BY <1>1, <1>2, <1>6, <1>7, <1>11 DEF CopyFits, RecordFits
<1>13. Owes(j)' \/ Whole(aim[j])'
  <2>1. CASE steps[j] = F5
    <3>1. r.status \in Workers!Terminal /\ Says(events[j], r.status)
      BY <2>1, <1>1 DEF ThreadFits
    <3>2. r.told
      BY <2>1, <1>1 DEF ThreadFits
    <3>. QED  BY <3>1, <3>2, <1>2, <1>6, <1>7 DEF Whole
  <2>2. CASE steps[j] \in {R3, E2}
    BY <2>2, <1>6, ThreadTails DEF Owes, Busy
  <2>. QED  BY <2>1, <2>2, <1>4
<1>14. Records(j)
  BY <1>1, <1>7, <1>8, <1>12, <1>13 DEF Records
<1>15. Keeps(j)
  BY <1>1, <1>10, <1>11, <1>13 DEF Keeps
<1>. QED  BY <1>1, <1>3, <1>6, <1>14, <1>15, ActorSteps

LEMMA TellOfThread ==
  ASSUME WorkInv, NEW j \in WorkerJob, Workers!_append_terminal_message(j)
  PROVE  WorkInv'
<1> DEFINE r == [held[j] EXCEPT !.told = TRUE]
<1>1. /\ WorkTypes /\ j \notin Caller /\ ThreadFits(j) /\ steps[j] \in ThreadScripts
      /\ aim[j] = j /\ held[j] \in JobRecord
  BY ThreadFacts
<1>2. r \in JobRecord /\ r.told /\ r.status = held[j].status
  BY <1>1 DEF JobRecord
<1>3. /\ jobs' = jobs /\ events' = events /\ registered' = registered /\ closed' = closed
      /\ tree' = tree /\ head' = head /\ Workers!Takes(j, "tell") /\ Workers!GoesWith(j, r)
  BY DEF Workers!_append_terminal_message, Workers!stored, Workers!control, Workers!git,
         Workers!copy
<1>4. LogsGrow /\ tree' \in Nat /\ head' \in Nat
  BY <1>1, <1>3, LogsKept DEF WorkTypes
<1>5. /\ steps[j] = F3 /\ Tail(steps[j]) = F4 /\ F4 # <<>> /\ F3 # <<>>
      /\ F4 \in ThreadScripts /\ F4 \in Busy
  <2>1. steps[j] = F3
    BY <1>1, <1>3, HeadOf, ThreadHeads
  <2>2. F4 \in Busy
    BY DEF Busy
  <2>. QED  BY <2>1, <2>2, ThreadTails DEF ThreadScripts
<1> HIDE DEF r
<1>6. Moves(j, Tail(steps[j]), r) /\ steps'[j] = F4 /\ held'[j] = r /\ aim'[j] = j
  <2>1. Tail(steps[j]) \in ThreadScripts /\ Tail(steps[j]) # <<>>
    BY <1>5
  <2>2. PICK q \in JobRecord :
          /\ Moves(j, Tail(steps[j]), q)
          /\ steps'[j] = Tail(steps[j]) /\ held'[j] = q /\ aim'[j] = j
          /\ Tail(steps[j]) # <<>> => q = r
    BY <2>1, <1>2, <1>3, ThreadGoes
  <2>. QED  BY <2>1, <2>2, <1>5
<1>7. ThreadFits(j)'
  <2>1. F4 \notin {R2, R3, E2, F5}
    BY ThreadNames
  <2>. QED  BY <2>1, <1>1, <1>2, <1>3, <1>5, <1>6 DEF ThreadFits
<1>8. CopyFits(j)' /\ Owes(j)'
  BY <1>5, <1>6 DEF CopyFits, Owes
<1>. QED  BY <1>3, <1>4, <1>6, <1>7, <1>8, ThreadReads

LEMMA EventOfThread ==
  ASSUME WorkInv, NEW j \in WorkerJob, Workers!_append_event(j)
  PROVE  WorkInv'
<1> DEFINE x == Tail(steps[j])
<1>1. /\ WorkTypes /\ j \notin Caller /\ ThreadFits(j) /\ steps[j] \in ThreadScripts
      /\ aim[j] = j /\ held[j] \in JobRecord
  BY ThreadFacts
<1>2. PICK type \in {"queued", "running", "codex_event", "cancelled", "failed", "committed",
                     held[j].status} :
        /\ Workers!Takes(j, type) \/ (type = held[j].status /\ Workers!Takes(j, "event"))
        /\ Workers!GoesWith(j, held[j])
        /\ events' = [events EXCEPT ![j] = Append(@, type)]
  BY <1>1 DEF Workers!_append_event, Workers!Goes, Workers!copy
<1>3. /\ jobs' = jobs /\ registered' = registered /\ closed' = closed
      /\ tree' = tree /\ head' = head
  BY DEF Workers!_append_event, Workers!control, Workers!git
<1>4. /\ type \in EventName
      /\ type \in {"none", "queued", "running", "codex_event", "cancelled", "failed", "committed",
                   "succeeded"}
  BY <1>1, <1>2 DEF JobRecord, StatusName, EventName
<1>5. LogsGrow /\ Says(events'[j], type) /\ tree' \in Nat /\ head' \in Nat
  BY <1>1, <1>2, <1>3, <1>4, LogAppended DEF WorkTypes
<1>6. /\ steps[j] # <<>> /\ steps[j] \in {R4, E3, F4}
      /\ steps[j] = F4 => type = held[j].status
  <2>1. CASE Workers!Takes(j, type)
    <3>1. steps[j] # <<>> /\ Ahead(steps[j]) = type
      BY <2>1, HeadOf
    <3>2. Ahead(steps[j]) # "none"
      BY <3>1, <1>1, ThreadNames DEF ThreadScripts, Busy
    <3>. QED  BY <3>1, <3>2, <1>1, <1>4, ThreadHeads, ThreadNames
  <2>2. CASE type = held[j].status /\ Workers!Takes(j, "event")
    BY <2>2, <1>1, HeadOf, ThreadHeads
  <2>. QED  BY <2>1, <2>2, <1>2
<1>7. x \in {R5, F5} /\ (x = F5 <=> steps[j] = F4) /\ x # <<>> /\ x \in ThreadScripts /\ x \in Busy
  <2>1. R5 # F5 /\ R4 # F4 /\ E3 # F4
    BY ThreadNames
  <2>. QED  BY <2>1, <1>6, ThreadTails DEF ThreadScripts, Busy
<1>8. \E t : Workers!Takes(j, t)
  BY <1>2
<1>9. Moves(j, x, held[j]) /\ steps'[j] = x /\ held'[j] = held[j] /\ aim'[j] = j
  BY <1>1, <1>2, <1>3, <1>7, <1>8, ThreadGoes
<1>10. ASSUME steps[j] = F4
       PROVE  /\ held[j].status \in Workers!Terminal /\ held[j].told
              /\ Says(events'[j], held[j].status)
  BY <1>10, <1>1, <1>5, <1>6 DEF ThreadFits
<1>11. ThreadFits(j)'
  <2>1. x \notin {R2, R3, E2, F3, F4}
    <3>1. R5 \notin {R2, R3, E2, F3, F4} /\ F5 \notin {R2, F3, F4, R3, E2}
      BY ThreadNames, ThreadClasses
    <3>. QED  BY <3>1, <1>7
  <2>. QED  BY <2>1, <1>1, <1>3, <1>6, <1>7, <1>9, <1>10 DEF ThreadFits
<1>12. CopyFits(j)'
  <2>1. CASE steps[j] = F4
    BY <2>1, <1>9, <1>10 DEF CopyFits
  <2>2. CASE steps[j] # F4
    <3>1. steps[j] # F3
      BY <1>6, ThreadNames
    <3>. QED  BY <2>2, <3>1, <1>1, <1>5, <1>9, ThreadCopyStays
  <2>. QED  BY <2>1, <2>2
<1>13. Owes(j)'
  BY <1>7, <1>9 DEF Owes
<1>. QED  BY <1>3, <1>5, <1>9, <1>11, <1>12, <1>13, ThreadReads

\* A thread that ends owes nothing.
LEMMA ThreadEnds ==
  ASSUME WorkInv, NEW j \in WorkerJob, steps'[j] = <<>>, held'[j] = Workers!NoJob, aim'[j] = j
  PROVE  ThreadFits(j)' /\ CopyFits(j)'
BY ThreadTails DEF ThreadFits, CopyFits, ThreadScripts, Workers!NoJob

LEMMA BeginKeeps ==
  ASSUME WorkInv, NEW j \in WorkerJob, Workers!Begin(j)
  PROVE  WorkInv'
<1> DEFINE r == [held[j] EXCEPT !.status = "running"]
<1>1. /\ WorkTypes /\ j \in Workers!Actor /\ j \notin Caller /\ ThreadFits(j)
      /\ steps[j] \in ThreadScripts /\ aim[j] = j /\ held[j] \in JobRecord
  BY ThreadFacts
<1>2. /\ jobs' = jobs /\ events' = events /\ registered' = registered /\ closed' = closed
      /\ tree' = tree /\ head' = head /\ Workers!Takes(j, "begin")
      /\ \/ held[j].status = "cancelled" /\ Workers!Ends(j)
         \/ Workers!GoesWith(j, r)
  BY DEF Workers!Begin, Workers!stored, Workers!control, Workers!git, Workers!copy
<1>3. LogsGrow /\ tree' \in Nat /\ head' \in Nat
  BY <1>1, <1>2, LogsKept DEF WorkTypes
<1>4. /\ steps[j] = R2 /\ Tail(steps[j]) = R3 /\ R3 # <<>> /\ R2 # <<>>
      /\ R3 \in ThreadScripts /\ R3 \in Busy
  <2>1. steps[j] = R2
    BY <1>1, <1>2, HeadOf, ThreadHeads
  <2>2. R3 \in Busy
    BY DEF Busy
  <2>. QED  BY <2>1, <2>2, ThreadTails DEF ThreadScripts
<1>5. CASE held[j].status = "cancelled" /\ Workers!Ends(j)
  <2>1. /\ steps' = [steps EXCEPT ![j] = <<>>] /\ held' = [held EXCEPT ![j] = Workers!NoJob]
        /\ aim' = aim /\ reboots' = reboots /\ Workers!NoJob \in JobRecord
    BY <1>1, <1>2, <1>5, Ending
  <2>2. steps'[j] = <<>> /\ held'[j] = Workers!NoJob /\ aim'[j] = j
    BY <2>1, <1>1 DEF WorkTypes
  <2>3. <<>> \in ThreadScripts
    BY DEF ThreadScripts
  <2>4. Moves(j, <<>>, Workers!NoJob)
    BY <2>1, <2>3, <1>2, <1>4, ThreadHeads DEF Moves
  <2>5. ~Owes(j)
    <3>1. jobs[j].status # "queued"
      BY <1>1, <1>4, <1>5 DEF ThreadFits
    <3>2. R2 \notin Busy
      BY ThreadClasses
    <3>. QED  BY <3>1, <3>2, <1>1, <1>4 DEF Owes
  <2>. QED  BY <2>2, <2>4, <2>5, <1>2, <1>3, ThreadEnds, ThreadReads
<1>6. CASE Workers!GoesWith(j, r)
  <2>1. r \in JobRecord /\ r.status = "running"
    BY <1>1 DEF JobRecord, StatusName
  <2> HIDE DEF r
  <2>2. Moves(j, Tail(steps[j]), r) /\ steps'[j] = R3 /\ held'[j] = r /\ aim'[j] = j
    <3>1. Tail(steps[j]) \in ThreadScripts /\ Tail(steps[j]) # <<>>
      BY <1>4
    <3>2. PICK q \in JobRecord :
            /\ Moves(j, Tail(steps[j]), q)
            /\ steps'[j] = Tail(steps[j]) /\ held'[j] = q /\ aim'[j] = j
            /\ Tail(steps[j]) # <<>> => q = r
      BY <3>1, <2>1, <1>2, <1>6, ThreadGoes
    <3>. QED  BY <3>1, <3>2, <1>4
  <2>3. ThreadFits(j)'
    <3>1. R3 \notin {R2, E2, F3, F4, F5}
      BY ThreadNames, ThreadClasses
    <3>2. r # Workers!NoJob
      BY <2>1 DEF Workers!NoJob
    <3>. QED  BY <3>1, <3>2, <2>2, <1>1, <1>2, <1>4 DEF ThreadFits
  <2>4. CopyFits(j)' /\ Owes(j)'
    BY <2>1, <2>2, <1>4 DEF CopyFits, Owes
  <2>. QED  BY <2>2, <2>3, <2>4, <1>2, <1>3, ThreadReads
<1>. QED  BY <1>2, <1>5, <1>6

LEMMA CodexKeeps ==
  ASSUME WorkInv, NEW j \in WorkerJob, Workers!Codex(j)
  PROVE  WorkInv'
<1>1. /\ WorkTypes /\ j \in Workers!Actor /\ j \notin Caller /\ ThreadFits(j)
      /\ steps[j] \in ThreadScripts /\ aim[j] = j /\ held[j] \in JobRecord
  BY ThreadFacts
<1>2. /\ jobs' = jobs /\ events' = events /\ registered' = registered /\ closed' = closed
      /\ Workers!Takes(j, "codex")
  BY DEF Workers!Codex, Workers!stored, Workers!control
<1>3. steps[j] = R5 /\ R5 # <<>> /\ Tail(R5) = <<>>
  BY <1>1, <1>2, HeadOf, ThreadHeads, ThreadTails
<1>4. \E x \in {E1, F1} :
        /\ steps' = [steps EXCEPT ![j] = x] /\ held' = [held EXCEPT ![j] = held[j]]
        /\ aim' = aim /\ reboots' = reboots /\ tree' \in {tree, tree + 1} /\ head' = head
  <2>1. CASE /\ tree' = tree + 1 /\ steps' = [steps EXCEPT ![j] = Workers!on_codex_event]
             /\ UNCHANGED <<held, aim, commands, reboots, head>>
    <3>1. Workers!on_codex_event = E1
      BY DEF Workers!on_codex_event, E1
    <3>2. held' = [held EXCEPT ![j] = held[j]]
      BY <2>1, <1>1 DEF WorkTypes
    <3>. QED  BY <2>1, <3>1, <3>2
  <2>2. CASE Workers!Becomes(j, Workers!Finish, held[j]) /\ UNCHANGED <<tree, head>>
    <3>1. Workers!Finish = F1 /\ F1 \in Seq(StepName) /\ F1 # <<>>
      BY DEF Workers!Finish, F1, StepName
    <3>2. F1 \o Tail(steps[j]) = F1
      <4>1. Tail(steps[j]) = <<>> /\ F1 \o <<>> = F1
        BY <3>1, <1>3
      <4>. QED  BY <4>1
    <3>. QED  BY <2>2, <3>1, <3>2 DEF Workers!Becomes, Workers!bounds
  <2>. QED  BY <2>1, <2>2 DEF Workers!Codex, Workers!GoesOn, Workers!git
<1>5. PICK x \in {E1, F1} :
        /\ steps' = [steps EXCEPT ![j] = x] /\ held' = [held EXCEPT ![j] = held[j]]
        /\ aim' = aim /\ reboots' = reboots /\ tree' \in {tree, tree + 1} /\ head' = head
  BY <1>4
<1>6. LogsGrow /\ tree' \in Nat /\ head' \in Nat
  BY <1>1, <1>2, <1>5, LogsKept DEF WorkTypes
<1>7. steps'[j] = x /\ held'[j] = held[j] /\ aim'[j] = j
  BY <1>1, <1>5 DEF WorkTypes
<1>8. x \in ThreadScripts /\ x \in Busy /\ x # <<>>
  BY ThreadTails DEF ThreadScripts, Busy
<1>9. Moves(j, x, held[j])
  BY <1>1, <1>2, <1>3, <1>5, <1>8, ThreadHeads DEF Moves
<1>10. ThreadFits(j)'
  <2>1. x \notin {R2, R3, E2, F3, F4, F5}
    BY ThreadNames
  <2>. QED  BY <2>1, <1>1, <1>2, <1>3, <1>7, <1>8 DEF ThreadFits
<1>11. CopyFits(j)'
  <2>1. R5 \notin {F3, F4}
    BY ThreadNames
  <2>. QED  BY <2>1, <1>1, <1>3, <1>6, <1>7, ThreadCopyStays
<1>12. Owes(j)'
  BY <1>7, <1>8 DEF Owes
<1>. QED  BY <1>2, <1>6, <1>9, <1>10, <1>11, <1>12, ThreadReads

LEMMA DecideKeeps ==
  ASSUME WorkInv, NEW j \in WorkerJob, Workers!Decide(j)
  PROVE  WorkInv'
<1>1. /\ WorkTypes /\ j \in Workers!Actor /\ j \notin Caller /\ ThreadFits(j)
      /\ steps[j] \in ThreadScripts /\ aim[j] = j /\ held[j] \in JobRecord
  BY ThreadFacts
<1>2. /\ jobs' = jobs /\ events' = events /\ registered' = registered /\ closed' = closed
      /\ tree' = tree /\ head' = head /\ Workers!Takes(j, "decide")
  BY DEF Workers!Decide, Workers!stored, Workers!control, Workers!git
<1>3. LogsGrow /\ tree' \in Nat /\ head' \in Nat
  BY <1>1, <1>2, LogsKept DEF WorkTypes
<1>4. steps[j] = F2 /\ Tail(steps[j]) = F4 /\ F2 # <<>>
  <2>1. Ahead(steps[j]) = "decide"
    BY <1>2, HeadOf
  <2>2. steps[j] = F2
    BY <1>1, <2>1, ThreadHeads
  <2>. QED  BY <2>2, ThreadTails
<1>5. PICK status \in {"cancelled", "succeeded", "failed"} :
        Workers!Becomes(j, IF status = "cancelled" /\ held[j].told THEN <<>> ELSE <<"tell">>,
                        [held[j] EXCEPT !.status = status, !.diff = Workers!_git_change_snapshot])
  BY DEF Workers!Decide, Workers!copy
<1> DEFINE r == [held[j] EXCEPT !.status = status, !.diff = Workers!_git_change_snapshot]
<1>6. r \in JobRecord /\ r.status = status /\ r.told = held[j].told
  <2>1. Workers!_git_change_snapshot \in Nat
    BY <1>1 DEF Workers!_git_change_snapshot, WorkTypes
  <2>. QED  BY <2>1, <1>1 DEF JobRecord, StatusName
<1> HIDE DEF r
<1>7. \E x \in {F3, F4} :
        /\ x = F4 => status = "cancelled" /\ held[j].told
        /\ steps' = [steps EXCEPT ![j] = x] /\ held' = [held EXCEPT ![j] = r]
        /\ aim' = aim /\ reboots' = reboots
  <2>1. F4 \in Seq(StepName) /\ F3 # F4 /\ F3 # <<>> /\ F4 # <<>>
    <3>1. F4 \in Seq(StepName)
      BY DEF F4, StepName
    <3>. QED  BY <3>1, ThreadNames, ThreadTails
  <2>2. <<>> \o F4 = F4
    BY <2>1
  <2>3. <<"tell">> \o F4 = F3
    <3> DEFINE s == <<"tell">> \o F4
    <3>1. <<"tell">> \in Seq(StepName)
      BY DEF StepName
    <3>2. /\ s \in Seq(StepName) /\ Len(s) = 4 /\ s[1] = "tell" /\ s[2] = "event" /\ s[3] = "write"
          /\ s[4] = "unregister"
      BY <3>1, <2>1 DEF F4
    <3> HIDE DEF s
    <3>3. s = <<"tell", "event", "write", "unregister">>
      BY <3>2
    <3>. QED  BY <3>3 DEF F3, s
  <2>4. CASE status = "cancelled" /\ held[j].told
    <3>1. Workers!Becomes(j, <<>>, r)
      BY <2>4, <1>5 DEF r
    <3>. QED  BY <2>1, <2>2, <2>4, <3>1, <1>4 DEF Workers!Becomes, Workers!bounds
  <2>5. CASE ~(status = "cancelled" /\ held[j].told)
    <3>1. Workers!Becomes(j, <<"tell">>, r)
      BY <2>5, <1>5 DEF r
    <3>. QED  BY <2>1, <2>3, <3>1, <1>4 DEF Workers!Becomes, Workers!bounds
  <2>. QED  BY <2>4, <2>5
<1>8. PICK x \in {F3, F4} :
        /\ x = F4 => status = "cancelled" /\ held[j].told
        /\ steps' = [steps EXCEPT ![j] = x] /\ held' = [held EXCEPT ![j] = r]
        /\ aim' = aim /\ reboots' = reboots
  BY <1>7
<1>9. steps'[j] = x /\ held'[j] = r /\ aim'[j] = j
  BY <1>1, <1>8 DEF WorkTypes
<1>10. x \in ThreadScripts /\ x \in Busy /\ x # <<>>
  BY ThreadTails DEF ThreadScripts, Busy
<1>11. Moves(j, x, r)
  BY <1>1, <1>2, <1>4, <1>6, <1>8, <1>10, ThreadHeads DEF Moves
<1>12. ThreadFits(j)'
  <2>1. x \notin {R2, R3, E2, F5}
    BY ThreadNames
  <2>2. r.status \in Workers!Terminal /\ (x = F4 => r.told)
    BY <1>6, <1>8 DEF Workers!Terminal
  <2>. QED  BY <2>1, <2>2, <1>1, <1>2, <1>4, <1>9, <1>10 DEF ThreadFits
<1>13. CopyFits(j)' /\ Owes(j)'
  BY <1>9, <1>10 DEF CopyFits, Owes
<1>. QED  BY <1>2, <1>3, <1>11, <1>12, <1>13, ThreadReads

LEMMA UnregisterKeeps ==
  ASSUME WorkInv, NEW j \in WorkerJob, Workers!Unregister(j)
  PROVE  WorkInv'
<1>1. /\ WorkTypes /\ j \in Workers!Actor /\ j \notin Caller
      /\ steps[j] \in ThreadScripts /\ aim[j] = j /\ held[j] \in JobRecord
  BY ThreadFacts
<1>2. /\ jobs' = jobs /\ events' = events /\ registered' = registered \ {j} /\ closed' = closed
      /\ tree' = tree /\ head' = head /\ Workers!Takes(j, "unregister")
      /\ Workers!GoesWith(j, held[j])
  BY DEF Workers!Unregister, Workers!stored, Workers!git, Workers!Goes, Workers!copy
<1>3. LogsGrow /\ tree' \in Nat /\ head' \in Nat
  BY <1>1, <1>2, LogsKept DEF WorkTypes
<1>4. steps[j] = F6 /\ Tail(steps[j]) = <<>> /\ <<>> \in ThreadScripts
  BY <1>1, <1>2, HeadOf, ThreadHeads, ThreadTails DEF ThreadScripts
<1>5. /\ Moves(j, <<>>, Workers!NoJob) /\ steps'[j] = <<>> /\ held'[j] = Workers!NoJob
      /\ aim'[j] = j
  BY <1>1, <1>2, <1>4, ThreadGoes
<1>6. ~Owes(j)
  BY <1>1, <1>4, ThreadClasses, ThreadNames DEF Owes
<1>. QED  BY <1>2, <1>3, <1>5, <1>6, ThreadEnds, ThreadReads

-----------------------------------------------------------------------------
(* The steps that are of two actors, or of none.                           *)

LEMMA RegisterKeeps ==
  ASSUME WorkInv, NEW c \in Caller, Workers!Register(c)
  PROVE  WorkInv'
<1> DEFINE j == aim[c]
<1>1. /\ WorkTypes /\ c \in Workers!Actor /\ c \notin WorkerJob /\ StarterFits(c) /\ CallerFits(c)
      /\ steps[c] \in CallerScripts /\ j \in WorkerJob
  BY CallerFacts
<1>2. /\ jobs' = jobs /\ events' = events /\ registered' = registered \cup {j} /\ closed' = closed
      /\ tree' = tree /\ head' = head /\ held' = held /\ aim' = aim /\ reboots' = reboots
      /\ steps' = [steps EXCEPT ![c] = Tail(@), ![j] = Workers!_run_job]
      /\ Workers!Takes(c, "register")
  BY DEF Workers!Register, Workers!stored, Workers!git, Workers!bounds
<1>3. steps[c] = S3 /\ Tail(steps[c]) = <<"get">> /\ steps[c] \in StartScripts
  BY <1>1, <1>2, HeadOf, CallerHeads, OtherHeads DEF StartScripts
<1>4. Workers!_run_job = R1
  BY DEF Workers!_run_job, R1
<1>5. j \in Workers!Actor /\ j # c
  BY <1>1 DEF Workers!Actor
<1>6. /\ steps'[c] = <<"get">> /\ steps'[j] = R1
      /\ \A b \in Workers!Actor \ {c, j} : steps'[b] = steps[b]
  BY <1>1, <1>2, <1>3, <1>4, <1>5 DEF WorkTypes
<1>7. steps[j] = <<>> /\ jobs[j] # Workers!NoJob
  BY <1>1, <1>3 DEF StarterFits, CallerFits
<1>8. <<"get">> \in CallerScripts /\ Ahead(<<"get">>) = "get" /\ R1 \in ThreadScripts
  BY DEF CallerScripts, Asking, Ahead, ThreadScripts
<1>9. /\ <<"get">> \notin Changing /\ <<"get">> # Committing /\ <<"get">> \notin StartScripts
      /\ <<"get">> # <<>>
  BY <1>8, CallerHeads DEF Told, Ahead
<1>10. WorkTypes'
  <2>1. steps' \in [Workers!Actor -> CallerScripts \cup ThreadScripts]
    BY <1>1, <1>2, <1>3, <1>4, <1>8 DEF WorkTypes
  <2>. QED  BY <2>1, <1>1, <1>2 DEF WorkTypes
<1>11. ASSUME NEW d \in Caller PROVE StarterFits(d)' /\ CallerFits(d)'
  <2>1. CASE d = c
    BY <2>1, <1>2, <1>6, <1>8, <1>9 DEF StarterFits, CallerFits, Changing, StartScripts
  <2>2. CASE d # c
    <3>1. /\ StarterFits(d) /\ CallerFits(d) /\ d \in Workers!Actor \ {c, j} /\ aim[d] \in WorkerJob
      BY <2>2, <1>1, CallerFacts
    <3>2. steps'[d] = steps[d] /\ CallerFits(d)'
      BY <3>1, <1>2, <1>6 DEF CallerFits
    <3>3. StarterFits(d)'
      <4>1. steps[d] \in StartScripts => aim[d] # j
        BY <2>2, <1>1, <1>3 DEF StarterFits
      <4>2. aim[d] # j => steps'[aim[d]] = steps[aim[d]]
        BY <3>1, <1>1, <1>6 DEF Workers!Actor
      <4>3. \A e \in Caller : steps'[e] \in StartScripts => steps[e] \in StartScripts
        <5>1. j \notin Caller
          BY <1>1, ThreadFacts
        <5>. QED  BY <5>1, <1>3, <1>6 DEF Workers!Actor
      <4>. QED  BY <3>1, <3>2, <4>1, <4>2, <4>3, <1>2 DEF StarterFits
    <3>. QED  BY <3>2, <3>3
  <2>. QED  BY <2>1, <2>2
<1>12. ASSUME NEW i \in WorkerJob PROVE ThreadFits(i)' /\ RecordFits(i)'
  <2>1. ThreadFits(i) /\ RecordFits(i) /\ i \in Workers!Actor /\ i # c
    BY <1>1, ThreadFacts
  <2>2. RecordFits(i)'
    BY <2>1, <1>2 DEF RecordFits
  <2>3. CASE i = j
    <3>1. R1 \notin {R2, R3, E2, F3, F4, F5}
      BY ThreadNames
    <3>. QED  BY <2>1, <2>2, <2>3, <3>1, <1>2, <1>6, <1>7, <1>8 DEF ThreadFits
  <2>4. CASE i # j
    BY <2>1, <2>2, <2>4, <1>2, <1>6 DEF ThreadFits
  <2>. QED  BY <2>3, <2>4
<1>13. ASSUME NEW b \in Workers!Actor PROVE CopyFits(b)'
  <2>1. CopyFits(b)
    BY DEF WorkInv
  <2>2. CASE b = c
    <3>1. held[c].status = "succeeded" => held[c].told /\ Says(events[aim[c]], "succeeded")
      BY CallerFacts
    <3>. QED  BY <2>2, <3>1, <1>2 DEF CopyFits
  <2>3. CASE b = j
    <3>1. steps[j] \notin {F3, F4}
      BY <1>7, ThreadTails
    <3>. QED  BY <2>1, <2>3, <3>1, <1>2 DEF CopyFits
  <2>4. CASE b \notin {c, j}
    BY <2>1, <2>4, <1>2, <1>6 DEF CopyFits
  <2>. QED  BY <2>2, <2>3, <2>4
<1>14. ASSUME reboots = 0, NEW i \in WorkerJob PROVE Accounted(i)'
  <2> SUFFICES ASSUME jobs[i] # Workers!NoJob
               PROVE  Whole(i)' \/ \E b \in Workers!Actor : aim'[b] = i /\ Owes(b)'
    BY <1>2 DEF Accounted
  <2>1. Accounted(i)
    BY <1>14 DEF WorkInv
  <2>2. CASE Whole(i)
    BY <2>2, <1>2 DEF Whole
  <2>3. ASSUME NEW b \in Workers!Actor, aim[b] = i, Owes(b)
        PROVE  \E d \in Workers!Actor : aim'[d] = i /\ Owes(d)'
    <3>1. aim[j] = j
      BY <1>1, ThreadFacts
    <3>2. CASE b = c
      <4>1. steps[c] \notin Changing /\ c \notin WorkerJob
        BY <1>1, <1>3, CallerHeads, OtherHeads DEF Told
      <4>2. jobs[j].status = "queued"
        BY <2>3, <3>2, <4>1 DEF Owes, Changing
      <4>3. Owes(j)'
        BY <4>2, <3>1, <1>1, <1>2, <1>6 DEF Owes
      <4>. QED  BY <4>3, <3>1, <3>2, <2>3, <1>2, <1>5
    <3>3. b # j
      <4>1. j \notin Caller
        BY <1>1, ThreadFacts
      <4>2. <<>> \notin Busy /\ <<>> \notin {R1, R2}
        BY ThreadTails DEF Busy
      <4>. QED  BY <4>1, <4>2, <2>3, <1>7 DEF Owes
    <3>4. CASE b \notin {c, j}
      BY <2>3, <3>4, <1>2, <1>6 DEF Owes
    <3>. QED  BY <3>2, <3>3, <3>4
  <2>. QED  BY <2>1, <2>2, <2>3 DEF Accounted
<1>15. StreamFits'
  BY <1>1, <1>2, LogsKept, StreamKept
<1>16. reboots' = 0 => \A i \in WorkerJob : Accounted(i)'
  BY <1>2, <1>14
<1>. QED  BY <1>10, <1>11, <1>12, <1>13, <1>15, <1>16 DEF WorkInv

LEMMA CommandKeeps ==
  ASSUME WorkInv, NEW c \in Caller, NEW j \in WorkerJob, Workers!Command(c, j)
  PROVE  WorkInv'
<1>1. /\ WorkTypes /\ c \in Workers!Actor /\ c \notin WorkerJob /\ CallerFits(c)
  BY CallerFacts
<1>2. PICK x \in {S1} \cup Asking :
        /\ x = S1 => jobs[j] = Workers!NoJob /\ \A d \in Caller : steps[d] = <<>> \/ aim[d] # j
        /\ Workers!Request(c, j, x)
  <2>1. Workers!start_job = S1
    BY DEF Workers!start_job, S1
  <2>2. {Workers!cancel_job, Workers!commit_job, Workers!stream_events} \subseteq Asking
    BY DEF Asking
  <2>3. S1 \notin Asking
    BY OtherHeads
  <2>. QED  BY <2>1, <2>2, <2>3 DEF Workers!Command, Workers!Idle
<1>3. /\ jobs' = jobs /\ events' = events /\ registered' = registered /\ closed' = closed
      /\ tree' = tree /\ head' = head /\ held' = held /\ reboots' = reboots
      /\ steps' = [steps EXCEPT ![c] = x] /\ aim' = [aim EXCEPT ![c] = j] /\ steps[c] = <<>>
  BY <1>2 DEF Workers!Request, Workers!stored, Workers!control, Workers!git, Workers!Idle
<1>4. /\ steps'[c] = x /\ aim'[c] = j
      /\ \A b \in Workers!Actor \ {c} : steps'[b] = steps[b] /\ aim'[b] = aim[b]
  BY <1>1, <1>3 DEF WorkTypes
<1>5. /\ x \in CallerScripts /\ x # <<>> /\ x \notin Changing /\ x # Committing
      /\ x \notin {S2, S3} /\ (x \in StartScripts => x = S1)
  <2>1. x \in CallerScripts /\ Ahead(x) \in {"queue", "get"}
    BY OtherHeads DEF CallerScripts
  <2>. QED  BY <2>1, CallerHeads, OtherHeads DEF Told, Ahead, StartScripts
<1>6. held[c].status = "none"
  BY <1>1, <1>3 DEF CallerFits
<1>7. WorkTypes'
  BY <1>1, <1>3, <1>5 DEF WorkTypes
<1>8. ASSUME x = S1
      PROVE  /\ steps[j] = <<>>
             /\ \A d \in Caller \ {c} : steps[d] \in StartScripts => aim[d] # j
  <2>1. ThreadFits(j)
    BY ThreadFacts
  <2>2. <<>> \notin StartScripts
    BY DEF StartScripts, S1, S2, S3
  <2>. QED  BY <2>1, <2>2, <1>2, <1>8 DEF ThreadFits
<1>9. ASSUME NEW d \in Caller PROVE StarterFits(d)' /\ CallerFits(d)'
  <2>1. CASE d = c
    <3>1. CallerFits(d)'
      BY <2>1, <1>3, <1>4, <1>5 DEF CallerFits, Changing
    <3>2. j \in Workers!Actor \ {c} /\ Caller \subseteq Workers!Actor
      BY <1>1 DEF Workers!Actor
    <3>3. StarterFits(d)'
      BY <2>1, <3>2, <1>3, <1>4, <1>5, <1>8 DEF StarterFits
    <3>. QED  BY <3>1, <3>3
  <2>2. CASE d # c
    <3>1. /\ StarterFits(d) /\ CallerFits(d) /\ d \in Workers!Actor \ {c} /\ aim[d] \in WorkerJob
      BY <2>2, CallerFacts
    <3>2. CallerFits(d)'
      BY <3>1, <1>3, <1>4 DEF CallerFits
    <3>3. aim[d] \in Workers!Actor \ {c} /\ Caller \subseteq Workers!Actor
      BY <3>1, <1>1 DEF Workers!Actor
    <3>4. StarterFits(d)'
      BY <3>1, <3>3, <2>2, <1>3, <1>4, <1>5, <1>8 DEF StarterFits
    <3>. QED  BY <3>2, <3>4
  <2>. QED  BY <2>1, <2>2
<1>10. ASSUME NEW i \in WorkerJob PROVE ThreadFits(i)' /\ RecordFits(i)'
  <2>1. ThreadFits(i) /\ RecordFits(i) /\ i \in Workers!Actor \ {c}
    BY <1>1, ThreadFacts
  <2>. QED  BY <2>1, <1>3, <1>4 DEF ThreadFits, RecordFits
<1>11. ASSUME NEW b \in Workers!Actor PROVE CopyFits(b)'
  <2>1. CASE b = c
    BY <2>1, <1>3, <1>6 DEF CopyFits
  <2>2. CASE b # c
    <3>1. CopyFits(b)
      BY DEF WorkInv
    <3>. QED  BY <2>2, <3>1, <1>3, <1>4 DEF CopyFits
  <2>. QED  BY <2>1, <2>2
<1>12. ASSUME reboots = 0, NEW i \in WorkerJob PROVE Accounted(i)'
  <2> SUFFICES ASSUME jobs[i] # Workers!NoJob
               PROVE  Whole(i)' \/ \E b \in Workers!Actor : aim'[b] = i /\ Owes(b)'
    BY <1>3 DEF Accounted
  <2>1. Accounted(i)
    BY <1>12 DEF WorkInv
  <2>2. CASE Whole(i)
    BY <2>2, <1>3 DEF Whole
  <2>3. ASSUME NEW b \in Workers!Actor, aim[b] = i, Owes(b)
        PROVE  \E d \in Workers!Actor : aim'[d] = i /\ Owes(d)'
    <3>1. b # c
      <4>1. Ahead(<<>>) = "none"
        BY DEF Ahead
      <4>. QED  BY <4>1, <2>3, <1>3, NotOwing DEF Told
    <3>. QED  BY <3>1, <2>3, <1>3, <1>4 DEF Owes
  <2>. QED  BY <2>1, <2>2, <2>3 DEF Accounted
<1>13. StreamFits'
  BY <1>1, <1>3, LogsKept, StreamKept
<1>14. reboots' = 0 => \A i \in WorkerJob : Accounted(i)'
  BY <1>3, <1>12
<1>. QED  BY <1>7, <1>9, <1>10, <1>11, <1>13, <1>14 DEF WorkInv

\* Nothing changes but the working tree.
LEMMA WorkStays ==
  ASSUME WorkInv, UNCHANGED <<jobs, events, registered, steps, held, aim, closed, reboots>>,
         tree' \in Nat, head' \in Nat
  PROVE  WorkInv'
<1>1. WorkTypes'
  BY DEF WorkInv, WorkTypes
<1>2. ASSUME NEW c \in Caller PROVE StarterFits(c)' /\ CallerFits(c)'
  BY DEF WorkInv, StarterFits, CallerFits
<1>3. ASSUME NEW j \in WorkerJob PROVE ThreadFits(j)' /\ RecordFits(j)'
  BY DEF WorkInv, ThreadFits, RecordFits
<1>4. ASSUME NEW a \in Workers!Actor PROVE CopyFits(a)'
  BY DEF WorkInv, CopyFits
<1>5. ASSUME reboots' = 0, NEW j \in WorkerJob PROVE Accounted(j)'
  <2>1. Accounted(j)
    BY <1>5 DEF WorkInv
  <2>2. \A a \in Workers!Actor : Owes(a) => Owes(a)'
    BY DEF Owes
  <2>. QED  BY <2>1, <2>2 DEF Accounted, Whole
<1>6. StreamFits'
  BY DEF WorkInv, StreamFits
<1>. QED  BY <1>1, <1>2, <1>3, <1>4, <1>5, <1>6 DEF WorkInv

LEMMA RebootKeeps ==
  ASSUME WorkInv, Workers!Reboot
  PROVE  WorkInv'
<1>1. /\ jobs' = jobs /\ events' = events /\ closed' = closed /\ tree' = tree /\ head' = head
      /\ aim' = aim /\ steps' = [a \in Workers!Actor |-> <<>>]
      /\ held' = [a \in Workers!Actor |-> Workers!NoJob] /\ reboots' = reboots + 1
  BY DEF Workers!Reboot, Workers!stored, Workers!git
<1>2. WorkTypes /\ Workers!NoJob \in JobRecord /\ <<>> \in CallerScripts /\ <<>> \in ThreadScripts
  BY DEF WorkInv, Workers!NoJob, JobRecord, StatusName, CallerScripts, Rest, ThreadScripts
<1>3. WorkTypes'
  BY <1>1, <1>2 DEF WorkTypes
<1>4. \A a \in Workers!Actor : steps'[a] = <<>> /\ held'[a] = Workers!NoJob
  BY <1>1
<1>5. ASSUME NEW c \in Caller PROVE StarterFits(c)' /\ CallerFits(c)'
  <2>1. steps'[c] = <<>> /\ held'[c].status = "none" /\ <<>> \in Rest /\ <<>> \notin StartScripts
    BY <1>4 DEF Workers!Actor, Workers!NoJob, Rest, StartScripts, S1, S2, S3
  <2>. QED  BY <2>1, RestFits DEF StarterFits
<1>6. ASSUME NEW j \in WorkerJob PROVE ThreadFits(j)' /\ RecordFits(j)'
  <2>1. steps'[j] = <<>> /\ held'[j] = Workers!NoJob /\ aim'[j] = j
    BY <1>1, <1>4, ThreadFacts DEF Workers!Actor
  <2>2. ThreadFits(j)'
    BY <2>1, ThreadEnds
  <2>3. RecordFits(j)
    BY DEF WorkInv
  <2>. QED  BY <2>2, <2>3, <1>1 DEF RecordFits
<1>7. ASSUME NEW a \in Workers!Actor PROVE CopyFits(a)'
  BY <1>4 DEF CopyFits, Workers!NoJob
<1>8. reboots' # 0
  BY <1>1, <1>2 DEF WorkTypes
<1>9. StreamFits'
  BY <1>1, <1>2, LogsKept, StreamKept
<1>. QED  BY <1>3, <1>5, <1>6, <1>7, <1>8, <1>9 DEF WorkInv

LEMMA WorkStarts ==
  ASSUME Workers!Init
  PROVE  WorkInv
<1>1. /\ jobs = [j \in WorkerJob |-> Workers!NoJob] /\ events = [j \in WorkerJob |-> <<>>]
      /\ steps = [a \in Workers!Actor |-> <<>>] /\ held = [a \in Workers!Actor |-> Workers!NoJob]
      /\ aim = [a \in Workers!Actor |-> IF a \in WorkerJob THEN a ELSE Workers!NoAim]
      /\ closed = Workers!NotClosed /\ tree = 0 /\ head = 0 /\ reboots = 0
  BY DEF Workers!Init
<1>2. /\ Workers!NoJob \in JobRecord /\ <<>> \in CallerScripts /\ <<>> \in ThreadScripts
      /\ <<>> \in Seq(EventName) /\ <<>> \in Rest /\ <<>> \notin StartScripts
      /\ Workers!NoJob.status = "none"
  BY DEF Workers!NoJob, JobRecord, StatusName, CallerScripts, Rest, ThreadScripts, StartScripts,
         S1, S2, S3
<1>3. Workers!NoAim \in WorkerJob
  BY CallerAssumption DEF Workers!NoAim
<1>4. WorkTypes
  BY <1>1, <1>2, <1>3 DEF WorkTypes
<1>5. \A a \in Workers!Actor : steps[a] = <<>> /\ held[a] = Workers!NoJob
  BY <1>1
<1>6. ASSUME NEW c \in Caller PROVE StarterFits(c) /\ CallerFits(c)
  <2>1. steps[c] = <<>> /\ held[c].status = "none"
    BY <1>2, <1>5 DEF Workers!Actor
  <2>2. <<>> \notin Changing /\ <<>> # Committing
    BY ChangeTails DEF Committing
  <2>. QED  BY <2>1, <2>2, <1>2 DEF StarterFits, CallerFits, Changing, StartScripts
<1>7. ASSUME NEW j \in WorkerJob PROVE ThreadFits(j) /\ RecordFits(j)
  <2>1. steps[j] = <<>> /\ held[j] = Workers!NoJob /\ aim[j] = j /\ jobs[j] = Workers!NoJob
    BY <1>1, <1>5 DEF Workers!Actor
  <2>. QED  BY <2>1, <1>2, ThreadTails DEF ThreadFits, RecordFits
<1>8. ASSUME NEW a \in Workers!Actor PROVE CopyFits(a)
  BY <1>2, <1>5 DEF CopyFits
<1>9. ASSUME NEW j \in WorkerJob PROVE Accounted(j)
  BY <1>1 DEF Accounted
<1>10. StreamFits
  BY <1>1 DEF StreamFits, Workers!NotClosed
<1>. QED  BY <1>4, <1>6, <1>7, <1>8, <1>9, <1>10 DEF WorkInv

LEMMA WorkStep ==
  ASSUME WorkInv, Workers!Next
  PROVE  WorkInv'
<1>1. ASSUME NEW c \in Caller, NEW j \in WorkerJob, Workers!Command(c, j) PROVE WorkInv'
  BY <1>1, CommandKeeps
<1>2. ASSUME NEW a \in Workers!Actor,
             \/ Workers!get_job(a) \/ Workers!_write_job(a)
             \/ Workers!_append_terminal_message(a) \/ Workers!_append_event(a)
      PROVE  WorkInv'
  <2>1. CASE a \in Caller
    BY <1>2, <2>1, GetOfCaller, WriteOfCaller, TellOfCaller, EventOfCaller
  <2>2. CASE a \in WorkerJob
    BY <1>2, <2>2, GetOfThread, WriteOfThread, TellOfThread, EventOfThread
  <2>. QED  BY <2>1, <2>2 DEF Workers!Actor
<1>3. ASSUME NEW c \in Caller,
             \/ Workers!Queue(c) \/ Workers!Register(c) \/ Workers!Signal(c) \/ Workers!Compare(c)
             \/ Workers!Commit(c) \/ Workers!Look(c)
      PROVE  WorkInv'
  BY <1>3, QueueKeeps, RegisterKeeps, SignalKeeps, CompareKeeps, CommitKeeps, LookKeeps
<1>4. ASSUME NEW j \in WorkerJob,
             Workers!Begin(j) \/ Workers!Codex(j) \/ Workers!Decide(j) \/ Workers!Unregister(j)
      PROVE  WorkInv'
  BY <1>4, BeginKeeps, CodexKeeps, DecideKeeps, UnregisterKeeps
<1>5. CASE Workers!Edit
  <2>1. /\ UNCHANGED <<jobs, events, registered, steps, held, aim, closed, reboots>>
        /\ tree' = tree + 1 /\ head' = head
    BY <1>5 DEF Workers!Edit, Workers!stored, Workers!control
  <2>2. tree \in Nat /\ head \in Nat
    BY DEF WorkInv, WorkTypes
  <2>. QED  BY <2>1, <2>2, WorkStays
<1>6. CASE Workers!Reboot
  BY <1>6, RebootKeeps
<1>. QED  BY <1>1, <1>2, <1>3, <1>4, <1>5, <1>6 DEF Workers!Next

LEMMA WorkAlways == WorkbenchSpec => []WorkInv
<1>1. WorkbenchInit => WorkInv
  BY WorkStarts DEF WorkbenchInit
<1>2. WorkInv /\ [WorkbenchNext]_workbenchVars => WorkInv'
  <2> SUFFICES ASSUME WorkInv, [WorkbenchNext]_workbenchVars PROVE WorkInv'
    OBVIOUS
  <2>1. CASE Workers!Next
    BY <2>1, WorkStep
  <2>2. CASE UNCHANGED workerVars
    <3>1. /\ UNCHANGED <<jobs, events, registered, steps, held, aim, closed, reboots>>
          /\ tree' = tree /\ head' = head /\ tree \in Nat /\ head \in Nat
      BY <2>2 DEF workerVars, WorkInv, WorkTypes
    <3>. QED  BY <3>1, WorkStays
  <2>. QED
    BY <2>1, <2>2 DEF WorkbenchNext, workbenchVars, sessionVars
<1>. QED  BY <1>1, <1>2, PTL DEF WorkbenchSpec

\* A stream that ended with the job succeeded has sent that event.
THEOREM StreamsTellSuccess == WorkbenchSpec => []StreamTellsSuccess
<1>1. WorkInv => StreamTellsSuccess
  BY DEF WorkInv, StreamFits, StreamTellsSuccess, Workers!StreamTellsSuccess
<1>. QED  BY <1>1, WorkAlways, PTL

\* What nobody works on any more is whole: its record, its message and its event agree.
THEOREM SettledJobsAreWhole == WorkbenchSpec => []SettledIsWhole
<1>1. WorkInv => SettledIsWhole
  <2> SUFFICES ASSUME WorkInv, NEW j \in WorkerJob, reboots = 0, jobs[j] # Workers!NoJob,
                      \A a \in Workers!Actor : aim[a] = j => steps[a] = <<>>
               PROVE  Whole(j)
    BY DEF SettledIsWhole, Workers!SettledIsWhole, Workers!Idle, Whole, Says
  <2>1. Accounted(j)
    BY DEF WorkInv
  <2>2. ASSUME NEW a \in Workers!Actor, aim[a] = j, Owes(a) PROVE FALSE
    <3>1. steps[a] = <<>> /\ Ahead(<<>>) = "none"
      BY <2>2 DEF Ahead
    <3>2. CASE a \in Caller
      BY <2>2, <3>1, <3>2, NotOwing DEF Told
    <3>3. CASE a \in WorkerJob
      <4>1. a \notin Caller
        BY <3>3, ThreadFacts
      <4>2. <<>> \notin Busy /\ <<>> \notin {R1, R2}
        BY ThreadTails DEF Busy
      <4>. QED  BY <4>1, <4>2, <2>2, <3>1 DEF Owes
    <3>. QED  BY <3>2, <3>3 DEF Workers!Actor
  <2>. QED  BY <2>1, <2>2 DEF Accounted
<1>. QED  BY <1>1, WorkAlways, PTL

-----------------------------------------------------------------------------
(* What is known of a thread, and what a step of a request needs of it.    *)

MessageType == {"user", "plan", "waiting", "asked", "passed", "failed", "built", "skipped", "status",
                "tool_call", "tool_result", "assistant", "propose", "apply", "preview", "ready"}
Message == [type : MessageType, id : Nat]
PlainStep == {"require", "writeIndex", "snapshot", "evidence", "screenshot", "describe", "ask",
              "readPending", "fulfill", "fail", "continue", "respond", "draft", "validate",
              "validateAndBuild"}
ThreadStep == [do : PlainStep] \cup [do : {"append"}, message : Message]
              \cup [do : {"writeThread"}, links : SUBSET (Nat \ {0})]
NewStep == [do |-> "newThread"]
TurnRecord == [thread : Thread, n : Nat, target : Nat, snapshot : Nat, annotated : BOOLEAN,
               streamed : BOOLEAN, token : Nat, links : SUBSET (Nat \ {0}), index : SUBSET Thread]
AskRecord == [status : {"none", "pending", "fulfilled", "failed"}, image : Nat, snapshot : Nat]

Fact == {"there", "snapshot", "asked", "passed", "told", "image", "described", "draft"} \X Nat
There == <<"there", 0>>

\* What is so in a thread with this record and these files.
FactsOf(rec, msgs, snaps, imgs, descs, wishes, drs) ==
  { f \in Fact :
      \/ f[1] = "there" /\ rec # Threads!Missing
      \/ f[1] = "snapshot" /\ f[2] \in Threads!Id /\ snaps[f[2]] # "none"
      \/ f[1] = "asked" /\ f[2] \in Threads!Id /\ wishes[f[2]] # Threads!NotAsked
      \/ f[1] = "passed" /\ [type |-> "passed", id |-> f[2]] \in msgs
      \/ f[1] = "told" /\ \E m \in msgs : m.type \in {"propose", "apply"} /\ m.id = f[2]
      \/ f[1] = "image" /\ f[2] \in imgs
      \/ f[1] = "described" /\ f[2] \in descs
      \/ f[1] = "draft" /\ f[2] \in drs }
Known == [t \in Thread |-> FactsOf(record[t], messages[t], snapshots[t], images[t], described[t], asked[t], drafts)]

\* A message tells of what is known, and makes some things known.
Wants(m) ==
  IF m.id = 0 \/ m.type \in {"passed", "failed"} THEN {}
  ELSE IF m.type = "user" THEN {<<"snapshot", m.id>>}
  ELSE IF m.type \in {"waiting", "asked"} THEN {<<"asked", m.id>>}
  ELSE IF m.type = "built" THEN {<<"passed", m.id>>}
  ELSE {<<"draft", m.id>>}
Tells(m) ==
  IF m.type \in {"propose", "apply"} THEN {<<"told", m.id>>}
  ELSE IF m.type = "passed" THEN {<<"passed", m.id>>}
  ELSE {}

NeedsOf(s, n) ==
  {There} \cup
  ( IF s.do = "append" THEN Wants(s.message)
    ELSE IF s.do = "writeThread" THEN {<<"told", x>> : x \in s.links}
    ELSE IF s.do = "describe" THEN {<<"image", n>>}
    ELSE IF s.do = "fulfill" THEN {<<"described", n>>}
    ELSE {} )
GivesOf(s, n) ==
  IF s.do = "append" THEN Tells(s.message)
  ELSE IF s.do = "snapshot" THEN {<<"snapshot", n>>}
  ELSE IF s.do \in {"evidence", "screenshot"} THEN {<<"image", n>>}
  ELSE IF s.do = "describe" THEN {<<"described", n>>}
  ELSE IF s.do = "ask" THEN {<<"asked", n>>}
  ELSE {}
GivenBy(w, n) == {f \in Fact : \E j \in 1 .. Len(w) : f \in GivesOf(w[j], n)}

\* A step needs what is known, or what an earlier step makes known.
Grounded(w, n, facts) ==
  /\ w \in Seq(ThreadStep)
  /\ \A k \in 1 .. Len(w) : \A f \in NeedsOf(w[k], n) :
       f \in facts \/ \E j \in 1 .. k - 1 : f \in GivesOf(w[j], n)

TurnFits(w, r, facts) ==
  /\ w # <<>> => r.n \in Threads!Id
  /\ \A x \in r.links : <<"told", x>> \in facts[r.thread]
  /\ \A t \in r.index : There \in facts[t]
  /\ (w = Threads!create_thread /\ r.links = {}) \/ Grounded(w, r.n, facts[r.thread])

ListedFits(list, facts) == \A t \in list : There \in facts[t]
MessagesFit(msgs, facts) == \A t \in Thread : \A m \in msgs[t] : Wants(m) \subseteq facts[t]
LinkedFits(recs, facts) ==
  \A t \in Thread : recs[t] # Threads!Missing =>
    0 \notin recs[t].linked /\ \A x \in recs[t].linked : <<"told", x>> \in facts[t]
DescribedFits(descs, facts) == \A t \in Thread : \A n \in descs[t] : <<"image", n>> \in facts[t]
AskedFits(wishes, facts) ==
  \A t \in Thread : \A i \in Threads!Id :
    /\ wishes[t][i] # Threads!NotAsked => There \in facts[t]
    /\ wishes[t][i].status = "fulfilled" => <<"described", wishes[t][i].image>> \in facts[t]

FilesTyped ==
  /\ listed \subseteq Thread /\ record \in [Thread -> [linked : SUBSET Nat]]
  /\ messages \in [Thread -> SUBSET Message]
  /\ snapshots \in [Thread -> [Threads!Id -> {"none", "plain", "annotated"}]]
  /\ images \in [Thread -> SUBSET Nat] /\ described \in [Thread -> SUBSET Nat]
  /\ asked \in [Thread -> [Threads!Id -> AskRecord]] /\ drafts \subseteq Nat
CallersTyped ==
  turn \in [Caller -> TurnRecord] /\ work \in [Caller -> Seq(ThreadStep \cup {NewStep})] /\ requests \in Nat
FilesFit ==
  /\ ListedFits(listed, Known) /\ MessagesFit(messages, Known) /\ LinkedFits(record, Known)
  /\ DescribedFits(described, Known) /\ AskedFits(asked, Known)
ThreadInv == FilesTyped /\ CallersTyped /\ FilesFit /\ \A c \in Caller : TurnFits(work[c], turn[c], Known)

-----------------------------------------------------------------------------
(* Scripts.                                                                *)

LEMMA GroundedNone ==
  ASSUME NEW n, NEW facts
  PROVE  Grounded(<<>>, n, facts)
<1>1. <<>> \in Seq(ThreadStep) /\ Len(<<>>) = 0
  BY EmptySeq
<1>. QED  BY <1>1 DEF Grounded

LEMMA GroundedOne ==
  ASSUME NEW n, NEW facts, NEW s \in ThreadStep, NeedsOf(s, n) \subseteq facts
  PROVE  Grounded(<<s>>, n, facts) /\ (GivesOf(s, n) \cap Fact) \subseteq GivenBy(<<s>>, n)
<1>1. <<s>> \in Seq(ThreadStep) /\ Len(<<s>>) = 1 /\ <<s>>[1] = s
  OBVIOUS
<1>. HIDE DEF ThreadStep
<1>2. Grounded(<<s>>, n, facts)
  BY <1>1 DEF Grounded
<1>3. GivesOf(s, n) \cap Fact \subseteq GivenBy(<<s>>, n)
  BY <1>1 DEF GivenBy
<1>. QED  BY <1>2, <1>3

LEMMA GroundedThen ==
  ASSUME NEW n, NEW facts, NEW more, NEW a, NEW b, Grounded(a, n, facts), Grounded(b, n, more),
         more \subseteq facts \cup GivenBy(a, n)
  PROVE  Grounded(a \o b, n, facts)
<1>1. a \in Seq(ThreadStep) /\ b \in Seq(ThreadStep)
  BY DEF Grounded
<1>2. /\ a \o b \in Seq(ThreadStep) /\ Len(a \o b) = Len(a) + Len(b) /\ Len(a) \in Nat /\ Len(b) \in Nat
      /\ \A k \in 1 .. Len(a) : (a \o b)[k] = a[k]
      /\ \A k \in 1 .. Len(a) + Len(b) : k > Len(a) => (a \o b)[k] = b[k - Len(a)]
  BY <1>1, ConcatProperties
<1>3. ASSUME NEW k \in 1 .. Len(a) + Len(b), NEW f \in NeedsOf((a \o b)[k], n), f \notin facts
      PROVE  \E j \in 1 .. k - 1 : f \in GivesOf((a \o b)[j], n)
  <2>1. CASE k <= Len(a)
    <3>1. PICK j \in 1 .. k - 1 : f \in GivesOf(a[j], n)
      BY <1>2, <1>3, <2>1 DEF Grounded
    <3>2. (a \o b)[j] = a[j]
      BY <1>2, <2>1, <3>1
    <3>. QED  BY <3>1, <3>2
  <2>2. CASE k > Len(a)
    <3>1. k - Len(a) \in 1 .. Len(b) /\ f \in NeedsOf(b[k - Len(a)], n)
      BY <1>2, <1>3, <2>2
    <3>2. f \in more \/ \E j \in 1 .. (k - Len(a)) - 1 : f \in GivesOf(b[j], n)
      BY <3>1 DEF Grounded
    <3>3. CASE f \in more
      <4>1. PICK j \in 1 .. Len(a) : f \in GivesOf(a[j], n)
        BY <3>3, <1>3 DEF GivenBy
      <4>2. (a \o b)[j] = a[j] /\ j \in 1 .. k - 1
        BY <1>2, <2>2, <4>1
      <4>. QED  BY <4>1, <4>2
    <3>4. CASE \E j \in 1 .. (k - Len(a)) - 1 : f \in GivesOf(b[j], n)
      <4>1. PICK j \in 1 .. (k - Len(a)) - 1 : f \in GivesOf(b[j], n)
        BY <3>4
      <4>2. j + Len(a) \in 1 .. Len(a) + Len(b) /\ j + Len(a) > Len(a) /\ j + Len(a) \in 1 .. k - 1
            /\ (j + Len(a)) - Len(a) = j
        BY <1>2, <4>1
      <4>3. (a \o b)[j + Len(a)] = b[j]
        BY <1>2, <4>2
      <4>. QED  BY <4>1, <4>2, <4>3
    <3>. QED  BY <3>2, <3>3, <3>4
  <2>. QED  BY <1>2, <2>1, <2>2
<1>. QED  BY <1>2, <1>3 DEF Grounded

\* What a script makes known a longer one makes known.
LEMMA GivenThen ==
  ASSUME NEW n, NEW a \in Seq(ThreadStep), NEW b \in Seq(ThreadStep)
  PROVE  GivenBy(a, n) \subseteq GivenBy(a \o b, n) /\ GivenBy(b, n) \subseteq GivenBy(a \o b, n)
<1>. HIDE DEF ThreadStep
<1>2. /\ Len(a \o b) = Len(a) + Len(b) /\ Len(a) \in Nat /\ Len(b) \in Nat
      /\ \A k \in 1 .. Len(a) : (a \o b)[k] = a[k]
      /\ \A k \in 1 .. Len(a) + Len(b) : k > Len(a) => (a \o b)[k] = b[k - Len(a)]
  BY ConcatProperties
<1>3. ASSUME NEW f \in Fact, NEW j \in 1 .. Len(a), f \in GivesOf(a[j], n)
      PROVE  \E i \in 1 .. Len(a \o b) : f \in GivesOf((a \o b)[i], n)
  <2>1. j \in 1 .. Len(a \o b) /\ (a \o b)[j] = a[j]
    BY <1>2
  <2>. QED  BY <1>3, <2>1
<1>4. ASSUME NEW f \in Fact, NEW j \in 1 .. Len(b), f \in GivesOf(b[j], n)
      PROVE  \E i \in 1 .. Len(a \o b) : f \in GivesOf((a \o b)[i], n)
  <2>1. j + Len(a) \in 1 .. Len(a) + Len(b) /\ j + Len(a) > Len(a) /\ (j + Len(a)) - Len(a) = j
    BY <1>2
  <2>2. (a \o b)[j + Len(a)] = b[j] /\ j + Len(a) \in 1 .. Len(a \o b)
    BY <1>2, <2>1
  <2>. QED  BY <1>4, <2>2
<1>. QED  BY <1>3, <1>4 DEF GivenBy

LEMMA GroundedMore ==
  ASSUME NEW n, NEW facts, NEW more, NEW w, Grounded(w, n, facts), facts \subseteq more
  PROVE  Grounded(w, n, more)
BY DEF Grounded

LEMMA GroundedBoth ==
  ASSUME NEW n, NEW facts, NEW a, NEW b, Grounded(a, n, facts), Grounded(b, n, facts)
  PROVE  Grounded(a \o b, n, facts)
BY GroundedThen

\* What is left after a step, and what the step had.
LEMMA GroundedTail ==
  ASSUME NEW n, NEW facts, NEW more, NEW w, Grounded(w, n, facts), w # <<>>,
         facts \subseteq more, GivesOf(Head(w), n) \subseteq more
  PROVE  Grounded(Tail(w), n, more) /\ Head(w) \in ThreadStep /\ NeedsOf(Head(w), n) \subseteq facts
<1>1. w \in Seq(ThreadStep)
  BY DEF Grounded
<1>2. /\ Len(w) \in Nat /\ Len(w) # 0 /\ Head(w) \in ThreadStep /\ Tail(w) \in Seq(ThreadStep)
      /\ Len(Tail(w)) = Len(w) - 1 /\ \A k \in 1 .. Len(Tail(w)) : Tail(w)[k] = w[k + 1]
      /\ Head(w) = w[1]
  BY <1>1, HeadTailProperties, EmptySeq
<1>3. NeedsOf(Head(w), n) \subseteq facts
  <2>1. 1 \in 1 .. Len(w) /\ 1 .. (1 - 1) = {}
    BY <1>2
  <2>. QED  BY <1>2, <2>1 DEF Grounded
<1>4. ASSUME NEW k \in 1 .. Len(Tail(w)), NEW f \in NeedsOf(Tail(w)[k], n), f \notin more
      PROVE  \E j \in 1 .. k - 1 : f \in GivesOf(Tail(w)[j], n)
  <2>1. k + 1 \in 1 .. Len(w) /\ f \in NeedsOf(w[k + 1], n) /\ f \notin facts
    BY <1>2, <1>4
  <2>2. PICK j \in 1 .. (k + 1) - 1 : f \in GivesOf(w[j], n)
    BY <2>1 DEF Grounded
  <2>3. j # 1
    BY <2>2, <1>2, <1>4
  <2>4. j - 1 \in 1 .. k - 1 /\ j - 1 \in 1 .. Len(Tail(w)) /\ (j - 1) + 1 = j
    BY <2>2, <2>3, <1>2
  <2>5. Tail(w)[j - 1] = w[j]
    BY <2>4, <1>2
  <2>. QED  BY <2>2, <2>4, <2>5
<1>. QED  BY <1>2, <1>3, <1>4 DEF Grounded

\* Messages and the record and the index that follow them.
LEMMA SyncGrounded ==
  ASSUME NEW n, NEW facts, NEW links \in SUBSET (Nat \ {0}), There \in facts,
         \A x \in links : <<"told", x>> \in facts
  PROVE  Grounded(Threads!_sync_index_entry(links), n, facts)
<1> DEFINE s == [do |-> "writeThread", links |-> links]
           e == [do |-> "writeIndex"]
<1>1. s \in ThreadStep /\ NeedsOf(s, n) \subseteq facts
  BY DEF ThreadStep, NeedsOf
<1>2. e \in ThreadStep /\ NeedsOf(e, n) \subseteq facts
  BY DEF ThreadStep, PlainStep, NeedsOf
<1>3. Threads!_sync_index_entry(links) = <<s>> \o <<e>>
  BY DEF Threads!_sync_index_entry, Threads!Do
<1>. HIDE DEF s, e
<1>4. Grounded(<<s>>, n, facts) /\ Grounded(<<e>>, n, facts)
  BY <1>1, <1>2, GroundedOne
<1>. QED  BY <1>3, <1>4, GroundedBoth

LEMMA EventGrounded ==
  ASSUME NEW n, NEW facts, NEW m \in Message, NEW links \in SUBSET (Nat \ {0}), There \in facts,
         Wants(m) \subseteq facts, \A x \in links : <<"told", x>> \in facts \cup Tells(m)
  PROVE  /\ Grounded(Threads!_append_event_message(m, links), n, facts)
         /\ Tells(m) \subseteq GivenBy(Threads!_append_event_message(m, links), n)
<1> DEFINE s == [do |-> "append", message |-> m]
           sync == Threads!_sync_index_entry(links)
           more == facts \cup Tells(m)
<1>1. s \in ThreadStep /\ NeedsOf(s, n) \subseteq facts /\ GivesOf(s, n) = Tells(m)
  BY DEF ThreadStep, NeedsOf, GivesOf
<1>2. Tells(m) \subseteq Fact
  BY DEF Tells, Fact, Message
<1>3. Threads!_append_event_message(m, links) = <<s>> \o sync
  BY DEF Threads!_append_event_message
<1>4. There \in more /\ \A x \in links : <<"told", x>> \in more
  OBVIOUS
<1>. HIDE DEF s, more
<1>5. Grounded(sync, n, more)
  BY <1>4, SyncGrounded
<1>6. Grounded(<<s>>, n, facts) /\ Tells(m) \subseteq GivenBy(<<s>>, n)
  BY <1>1, <1>2, GroundedOne
<1>. HIDE DEF sync
<1>7. more \subseteq facts \cup GivenBy(<<s>>, n)
  BY <1>6 DEF more
<1>8. <<s>> \in Seq(ThreadStep) /\ sync \in Seq(ThreadStep)
  BY <1>5, <1>6 DEF Grounded
<1>9. GivenBy(<<s>>, n) \subseteq GivenBy(<<s>> \o sync, n)
  BY <1>8, GivenThen
<1>. QED  BY <1>3, <1>5, <1>6, <1>7, <1>9, GroundedThen

LEMMA MessageGrounded ==
  ASSUME NEW n, NEW facts, NEW type \in MessageType, NEW id \in Nat, There \in facts,
         Wants([type |-> type, id |-> id]) \subseteq facts
  PROVE  /\ Grounded(Threads!append_message(type, id), n, facts)
         /\ Tells([type |-> type, id |-> id]) \subseteq GivenBy(Threads!append_message(type, id), n)
<1>1. [type |-> type, id |-> id] \in Message /\ {} \in SUBSET (Nat \ {0})
  BY DEF Message
<1>. QED  BY <1>1, EventGrounded DEF Threads!append_message

\* A message that tells of nothing that must be there.
LEMMA PlainMessageGrounded ==
  ASSUME NEW n, NEW facts, NEW type \in MessageType, There \in facts
  PROVE  Grounded(Threads!append_message(type, 0), n, facts)
<1>1. Wants([type |-> type, id |-> 0]) \subseteq facts
  BY DEF Wants
<1>. QED  BY <1>1, MessageGrounded

LEMMA DraftEventGrounded ==
  ASSUME NEW n, NEW facts, NEW action \in {"propose", "apply", "preview"}, NEW token \in Nat, There \in facts,
         token # 0 => <<"draft", token>> \in facts,
         token # 0 /\ action = "preview" => <<"told", token>> \in facts
  PROVE  /\ Grounded(Threads!append_draft_event(action, token), n, facts)
         /\ action # "preview" => <<"told", token>> \in GivenBy(Threads!append_draft_event(action, token), n)
<1> DEFINE m == [type |-> action, id |-> token]
           links == {token} \ {0}
<1>1. m \in Message /\ links \in SUBSET (Nat \ {0})
  BY DEF Message, MessageType
<1>2. Wants(m) \subseteq facts
  BY DEF Wants
<1>3. action # "preview" => <<"told", token>> \in Tells(m)
  BY DEF Tells
<1>4. \A x \in links : <<"told", x>> \in facts \cup Tells(m)
  BY <1>3
<1>5. Threads!append_draft_event(action, token) = Threads!_append_event_message(m, links)
  BY DEF Threads!append_draft_event
<1>. HIDE DEF m, links
<1>. QED  BY <1>1, <1>2, <1>3, <1>4, <1>5, EventGrounded

\* A step alone.
LEMMA DoGrounded ==
  ASSUME NEW n \in Nat, NEW facts, NEW what \in PlainStep, There \in facts,
         what = "describe" => <<"image", n>> \in facts,
         what = "fulfill" => <<"described", n>> \in facts
  PROVE  /\ Grounded(Threads!Do(what), n, facts)
         /\ GivesOf([do |-> what], n) \subseteq GivenBy(Threads!Do(what), n)
<1> DEFINE s == [do |-> what]
<1>1. s \in ThreadStep /\ NeedsOf(s, n) \subseteq facts
  BY DEF ThreadStep, PlainStep, NeedsOf
<1>2. GivesOf(s, n) \subseteq Fact
  BY DEF GivesOf, Fact, PlainStep
<1>3. Threads!Do(what) = <<s>>
  BY DEF Threads!Do
<1>. HIDE DEF s
<1>4. Grounded(<<s>>, n, facts) /\ GivesOf(s, n) \subseteq GivenBy(<<s>>, n)
  BY <1>1, <1>2, GroundedOne
<1>. QED  BY <1>3, <1>4 DEF s

LEMMA SnapshotGrounded ==
  ASSUME NEW n \in Nat, NEW facts, There \in facts
  PROVE  /\ Grounded(Threads!create_context_snapshot, n, facts)
         /\ <<"snapshot", n>> \in GivenBy(Threads!create_context_snapshot, n)
         /\ Grounded(Threads!patch_thread, n, facts)
<1> DEFINE a == Threads!Do("require")
           b == Threads!Do("snapshot")
           sync == Threads!_sync_index_entry({})
<1>1. Grounded(a, n, facts) /\ Grounded(b, n, facts) /\ GivesOf([do |-> "snapshot"], n) \subseteq GivenBy(b, n)
  BY DoGrounded DEF PlainStep
<1>2. <<"snapshot", n>> \in GivesOf([do |-> "snapshot"], n)
  BY DEF GivesOf
<1>3. Grounded(sync, n, facts)
  BY SyncGrounded
<1>4. Threads!create_context_snapshot = a \o b \o sync /\ Threads!patch_thread = a \o sync
  BY DEF Threads!create_context_snapshot, Threads!patch_thread
<1>. HIDE DEF a, b, sync
<1>5. Grounded(a \o b, n, facts) /\ Grounded(a \o sync, n, facts)
  BY <1>1, <1>3, GroundedBoth
<1>6. Grounded(a \o b \o sync, n, facts)
  BY <1>3, <1>5, GroundedBoth
<1>7. a \in Seq(ThreadStep) /\ b \in Seq(ThreadStep) /\ sync \in Seq(ThreadStep) /\ a \o b \in Seq(ThreadStep)
  BY <1>1, <1>3, <1>5 DEF Grounded
<1>8. GivenBy(b, n) \subseteq GivenBy(a \o b \o sync, n)
  <2>1. GivenBy(b, n) \subseteq GivenBy(a \o b, n)
    BY <1>7, GivenThen
  <2>2. GivenBy(a \o b, n) \subseteq GivenBy(a \o b \o sync, n)
    BY <1>7, GivenThen
  <2>. QED  BY <2>1, <2>2
<1>. QED  BY <1>1, <1>2, <1>4, <1>5, <1>6, <1>8

LEMMA EvidenceGrounded ==
  ASSUME NEW n \in Nat, NEW facts, There \in facts
  PROVE  /\ Grounded(Threads!add_visual_evidence, n, facts)
         /\ <<"described", n>> \in GivenBy(Threads!add_visual_evidence, n)
         /\ Grounded(Threads!add_viewport_screenshot_attachment, n, facts)
<1> DEFINE e == Threads!Do("evidence")
           s == Threads!Do("screenshot")
           d == Threads!Do("describe")
           more == facts \cup {<<"image", n>>}
<1>1. /\ Grounded(e, n, facts) /\ GivesOf([do |-> "evidence"], n) \subseteq GivenBy(e, n)
      /\ Grounded(s, n, facts) /\ GivesOf([do |-> "screenshot"], n) \subseteq GivenBy(s, n)
  BY DoGrounded DEF PlainStep
<1>2. Grounded(d, n, more) /\ GivesOf([do |-> "describe"], n) \subseteq GivenBy(d, n)
  <2>1. There \in more /\ <<"image", n>> \in more /\ "describe" \in PlainStep
    BY DEF PlainStep
  <2>. HIDE DEF more
  <2>. QED  BY <2>1, DoGrounded
<1>3. /\ <<"image", n>> \in GivesOf([do |-> "evidence"], n) /\ <<"image", n>> \in GivesOf([do |-> "screenshot"], n)
      /\ <<"described", n>> \in GivesOf([do |-> "describe"], n)
  BY DEF GivesOf
<1>4. Threads!add_visual_evidence = e \o d /\ Threads!add_viewport_screenshot_attachment = s \o d
  BY DEF Threads!add_visual_evidence, Threads!add_viewport_screenshot_attachment
<1>. HIDE DEF e, s, d
<1>5. more \subseteq facts \cup GivenBy(e, n) /\ more \subseteq facts \cup GivenBy(s, n)
  BY <1>1, <1>3
<1>. HIDE DEF more
<1>6. Grounded(e \o d, n, facts) /\ Grounded(s \o d, n, facts)
  BY <1>1, <1>2, <1>5, GroundedThen
<1>7. e \in Seq(ThreadStep) /\ d \in Seq(ThreadStep)
  BY <1>1, <1>2 DEF Grounded
<1>8. GivenBy(d, n) \subseteq GivenBy(e \o d, n)
  BY <1>7, GivenThen
<1>. QED  BY <1>2, <1>3, <1>4, <1>6, <1>8

LEMMA SettlingGrounded ==
  ASSUME NEW n \in Nat, NEW facts, There \in facts
  PROVE  /\ Grounded(Threads!fulfill_visual_evidence_request, n, facts)
         /\ Grounded(Threads!fail_visual_evidence_request, n, facts)
<1> DEFINE p == Threads!Do("readPending")
           e == Threads!add_visual_evidence
           f == Threads!Do("fulfill")
           x == Threads!Do("fail")
           g == Threads!Do("continue")
           more == facts \cup {<<"described", n>>}
<1>1. Grounded(p, n, facts) /\ Grounded(g, n, facts) /\ Grounded(x, n, facts)
  BY DoGrounded DEF PlainStep
<1>2. Grounded(f, n, more)
  BY DoGrounded DEF PlainStep
<1>3. Grounded(e, n, facts) /\ <<"described", n>> \in GivenBy(e, n)
  BY EvidenceGrounded
<1>4. /\ Threads!fulfill_visual_evidence_request = p \o e \o f \o g
      /\ Threads!fail_visual_evidence_request = p \o x
  BY DEF Threads!fulfill_visual_evidence_request, Threads!fail_visual_evidence_request
<1>. HIDE DEF p, e, f, x, g
<1>5. Grounded(p \o e, n, facts) /\ Grounded(p \o x, n, facts)
  BY <1>1, <1>3, GroundedBoth
<1>6. p \in Seq(ThreadStep) /\ e \in Seq(ThreadStep)
  BY <1>1, <1>3 DEF Grounded
<1>7. <<"described", n>> \in GivenBy(p \o e, n)
  BY <1>3, <1>6, GivenThen
<1>8. more \subseteq facts \cup GivenBy(p \o e, n)
  BY <1>7
<1>. HIDE DEF more
<1>9. Grounded(p \o e \o f, n, facts)
  BY <1>2, <1>5, <1>8, GroundedThen
<1>10. Grounded(p \o e \o f \o g, n, facts)
  BY <1>1, <1>9, GroundedBoth
<1>. QED  BY <1>4, <1>5, <1>10

\* A request for an image, and the message that tells of it.
LEMMA AskGrounded ==
  ASSUME NEW n \in Nat, NEW facts, NEW type \in {"waiting", "asked"}, There \in facts
  PROVE  Grounded(Threads!Do("ask") \o Threads!append_message(type, n), n, facts)
<1> DEFINE q == Threads!Do("ask")
           m == Threads!append_message(type, n)
           more == facts \cup {<<"asked", n>>}
<1>1. Grounded(q, n, facts) /\ GivesOf([do |-> "ask"], n) \subseteq GivenBy(q, n)
  BY DoGrounded DEF PlainStep
<1>2. <<"asked", n>> \in GivesOf([do |-> "ask"], n)
  BY DEF GivesOf
<1>3. Wants([type |-> type, id |-> n]) \subseteq more
  BY DEF Wants
<1>4. Grounded(m, n, more)
  BY <1>3, MessageGrounded DEF MessageType
<1>. HIDE DEF q, m
<1>5. more \subseteq facts \cup GivenBy(q, n)
  BY <1>1, <1>2
<1>. HIDE DEF more
<1>6. Grounded(q \o m, n, facts)
  BY <1>1, <1>4, <1>5, GroundedThen
<1>. QED  BY <1>6 DEF q, m

LEMMA ChatGrounded ==
  ASSUME NEW n \in Nat, NEW facts, NEW snapshot \in BOOLEAN, There \in facts
  PROVE  Grounded(Threads!post_design_thread_chat(n, snapshot), n, facts)
<1> DEFINE s == IF snapshot THEN Threads!create_context_snapshot ELSE <<>>
           id == IF snapshot THEN n ELSE 0
           u == Threads!append_message("user", id)
           p == Threads!append_message("plan", 0)
           e == Threads!Do("respond")
           more == facts \cup (IF snapshot THEN {<<"snapshot", n>>} ELSE {})
<1>1. Grounded(s, n, facts) /\ (snapshot => <<"snapshot", n>> \in GivenBy(s, n))
  BY SnapshotGrounded, GroundedNone
<1>2. Wants([type |-> "user", id |-> id]) \subseteq more
  BY DEF Wants
<1>3. Grounded(u, n, more)
  BY <1>2, MessageGrounded DEF MessageType
<1>4. Grounded(p, n, facts) /\ Grounded(e, n, facts)
  BY PlainMessageGrounded, DoGrounded DEF MessageType, PlainStep
<1>5. Threads!post_design_thread_chat(n, snapshot) = (s \o u) \o p \o e
  BY DEF Threads!post_design_thread_chat, Threads!begin_chat_turn, Threads!append_design_plan
<1>6. more \subseteq facts \cup GivenBy(s, n)
  BY <1>1
<1>. HIDE DEF s, u, p, e, more
<1>7. Grounded(s \o u, n, facts)
  BY <1>1, <1>3, <1>6, GroundedThen
<1>8. Grounded((s \o u) \o p, n, facts)
  BY <1>4, <1>7, GroundedBoth
<1>9. Grounded((s \o u) \o p \o e, n, facts)
  BY <1>4, <1>8, GroundedBoth
<1>. QED  BY <1>5, <1>9

LEMMA TellGrounded ==
  ASSUME NEW n \in Nat, NEW facts, NEW token \in Nat \ {0}, There \in facts, <<"draft", token>> \in facts
  PROVE  Grounded(Threads!Tell(token), n, facts) /\ Grounded(Threads!TellProposed(token), n, facts)
<1> DEFINE a == Threads!append_draft_event("apply", token)
           b == Threads!append_draft_event("preview", token)
           c == Threads!append_message("ready", token)
           o == Threads!append_draft_event("propose", token)
           more == facts \cup {<<"told", token>>}
<1>1. Grounded(a, n, facts) /\ <<"told", token>> \in GivenBy(a, n) /\ Grounded(o, n, facts)
  BY DraftEventGrounded
<1>2. Grounded(b, n, more)
  BY DraftEventGrounded
<1>3. Wants([type |-> "ready", id |-> token]) \subseteq facts
  BY DEF Wants
<1>4. Grounded(c, n, facts)
  BY <1>3, MessageGrounded DEF MessageType
<1>5. Threads!Tell(token) = a \o b \o c /\ Threads!TellProposed(token) = o \o Threads!Tell(token)
  BY DEF Threads!Tell, Threads!TellProposed
<1>. HIDE DEF a, b, c, o
<1>6. more \subseteq facts \cup GivenBy(a, n)
  BY <1>1
<1>. HIDE DEF more
<1>7. Grounded(a \o b, n, facts)
  BY <1>1, <1>2, <1>6, GroundedThen
<1>8. Grounded(a \o b \o c, n, facts)
  BY <1>4, <1>7, GroundedBoth
<1>9. Grounded(Threads!Tell(token), n, facts)
  BY <1>5, <1>8
<1>10. Grounded(o \o Threads!Tell(token), n, facts)
  BY <1>1, <1>9, GroundedBoth
<1>. QED  BY <1>5, <1>9, <1>10

LEMMA AgentGrounded ==
  ASSUME NEW n \in Nat, NEW facts, There \in facts, NEW w \in Threads!AgentTurn(n)
  PROVE  Grounded(w, n, facts)
<1> DEFINE call1 == Threads!append_message("tool_call", 0)
           result == Threads!append_message("tool_result", 0)
           status == Threads!append_message("status", 0)
           said1 == Threads!append_message("assistant", 0)
           asking == Threads!Do("ask") \o Threads!append_message("asked", n)
           Began == {<<>>, status, call1 \o result, call1 \o asking}
           Ended == {<<>>, said1}
<1>1. /\ Grounded(call1, n, facts) /\ Grounded(result, n, facts) /\ Grounded(status, n, facts)
      /\ Grounded(said1, n, facts)
  BY PlainMessageGrounded DEF MessageType
<1>2. Grounded(asking, n, facts) /\ Grounded(<<>>, n, facts)
  BY AskGrounded, GroundedNone
<1>3. Threads!Do("ask") \in Seq(ThreadStep) /\ Threads!append_message("asked", n) \in Seq(ThreadStep)
      /\ call1 \in Seq(ThreadStep)
  <2>1. Grounded(Threads!Do("ask"), n, facts)
    BY DoGrounded DEF PlainStep
  <2>2. Wants([type |-> "asked", id |-> n]) \subseteq facts \cup {<<"asked", n>>}
    BY DEF Wants
  <2>3. Grounded(Threads!append_message("asked", n), n, facts \cup {<<"asked", n>>})
    BY <2>2, MessageGrounded DEF MessageType
  <2>. QED  BY <2>1, <2>3, <1>1 DEF Grounded
<1>4. (call1 \o Threads!Do("ask")) \o Threads!append_message("asked", n) = call1 \o asking
  <2>. HIDE DEF call1
  <2>. QED  BY <1>3, ConcatAssociative
<1>5. \E s \in Began : \E e \in Ended : w = s \o e
  <2>1. /\ Threads!_persist_runtime_event_and_side_effects(n)
             = {<<>>, status, call1 \o result, (call1 \o Threads!Do("ask")) \o Threads!append_message("asked", n)}
    BY DEF Threads!_persist_runtime_event_and_side_effects, Threads!append_validator_event
  <2>2. Threads!_persist_runtime_event_and_side_effects(n) = Began
    BY <2>1, <1>4
  <2>3. Threads!AgentTurn(n) = {s \o e : s \in Began, e \in Ended}
    BY <2>2 DEF Threads!AgentTurn
  <2>. HIDE DEF Began, Ended
  <2>. QED  BY <2>3
<1>. HIDE DEF call1, result, status, said1, asking
<1>6. Grounded(call1 \o result, n, facts) /\ Grounded(call1 \o asking, n, facts)
  BY <1>1, <1>2, GroundedBoth
<1>7. PICK s \in Began, e \in Ended : w = s \o e
  BY <1>5
<1>8. Grounded(s, n, facts) /\ Grounded(e, n, facts)
  BY <1>1, <1>2, <1>6, <1>7
<1>. QED  BY <1>7, <1>8, GroundedBoth

LEMMA AnswerGrounded ==
  ASSUME NEW p, NEW r, r.n \in Nat, NEW facts, There \in facts, NEW w \in Threads!Answer(p, r)
  PROVE  Grounded(w, r.n, facts)
<1>1. \/ w = Threads!append_message("assistant", 0)
      \/ w = Threads!_append_visual_evidence_request_for_plan(r.n)
      \/ w = Threads!Do("draft")
      \/ w \in Threads!AgentTurn(r.n)
  BY DEF Threads!Answer
<1>2. Grounded(Threads!append_message("assistant", 0), r.n, facts)
  BY PlainMessageGrounded DEF MessageType
<1>3. Grounded(Threads!_append_visual_evidence_request_for_plan(r.n), r.n, facts)
  BY AskGrounded DEF Threads!_append_visual_evidence_request_for_plan
<1>4. Grounded(Threads!Do("draft"), r.n, facts)
  BY DoGrounded DEF PlainStep
<1>5. w \in Threads!AgentTurn(r.n) => Grounded(w, r.n, facts)
  BY AgentGrounded
<1>. QED  BY <1>1, <1>2, <1>3, <1>4, <1>5

LEMMA ValidatedGrounded ==
  ASSUME NEW n \in Nat, NEW facts, There \in facts
  PROVE  /\ Grounded(Threads!append_validator_event("passed", n), n, facts)
         /\ Grounded(Threads!append_validator_event("failed", n), n, facts)
         /\ Grounded(Threads!append_validator_event("failed", n) \o Threads!append_validator_event("skipped", 0), n, facts)
         /\ Grounded(Threads!append_validator_event("passed", n) \o Threads!append_validator_event("skipped", 0), n, facts)
         /\ Grounded(Threads!append_validator_event("passed", n) \o Threads!append_validator_event("built", n), n, facts)
<1> DEFINE p == Threads!append_message("passed", n)
           f == Threads!append_message("failed", n)
           s == Threads!append_message("skipped", 0)
           b == Threads!append_message("built", n)
           more == facts \cup {<<"passed", n>>}
<1>1. /\ Wants([type |-> "passed", id |-> n]) \subseteq facts /\ Wants([type |-> "failed", id |-> n]) \subseteq facts
      /\ Wants([type |-> "built", id |-> n]) \subseteq more /\ <<"passed", n>> \in Tells([type |-> "passed", id |-> n])
  BY DEF Wants, Tells
<1>2. Grounded(p, n, facts) /\ <<"passed", n>> \in GivenBy(p, n)
  BY <1>1, MessageGrounded DEF MessageType
<1>3. Grounded(f, n, facts) /\ Grounded(s, n, facts)
  BY <1>1, MessageGrounded, PlainMessageGrounded DEF MessageType
<1>4. Grounded(b, n, more)
  BY <1>1, MessageGrounded DEF MessageType
<1>. HIDE DEF p, f, s, b
<1>5. more \subseteq facts \cup GivenBy(p, n)
  BY <1>2
<1>. HIDE DEF more
<1>6. Grounded(p \o b, n, facts)
  BY <1>2, <1>4, <1>5, GroundedThen
<1>7. Grounded(p \o s, n, facts) /\ Grounded(f \o s, n, facts)
  BY <1>2, <1>3, GroundedBoth
<1>. QED  BY <1>2, <1>3, <1>6, <1>7 DEF p, f, s, b, Threads!append_validator_event

-----------------------------------------------------------------------------
(* Callers.                                                                *)

\* What is known stays known.
LEMMA FactsGrow ==
  ASSUME FilesTyped, FilesTyped',
         \A t \in Thread : record[t] # Threads!Missing => record'[t] # Threads!Missing,
         \A t \in Thread : messages[t] \subseteq messages'[t],
         \A t \in Thread : \A i \in Threads!Id : snapshots[t][i] # "none" => snapshots'[t][i] # "none",
         \A t \in Thread : images[t] \subseteq images'[t] /\ described[t] \subseteq described'[t],
         \A t \in Thread : \A i \in Threads!Id : asked[t][i] # Threads!NotAsked => asked'[t][i] # Threads!NotAsked,
         drafts \subseteq drafts'
  PROVE  \A t \in Thread : Known[t] \subseteq Known'[t]
<1>1. ASSUME NEW t \in Thread
      PROVE  Known[t] \subseteq Known'[t]
  BY DEF Known, FactsOf
<1>. QED  BY <1>1

\* What fits what is known fits when more is.
LEMMA FitsMore ==
  ASSUME NEW facts, NEW more, \A t \in Thread : facts[t] \subseteq more[t]
  PROVE  /\ \A list \in SUBSET Thread : ListedFits(list, facts) => ListedFits(list, more)
         /\ \A x : MessagesFit(x, facts) => MessagesFit(x, more)
         /\ \A x : LinkedFits(x, facts) => LinkedFits(x, more)
         /\ \A x : DescribedFits(x, facts) => DescribedFits(x, more)
         /\ \A x : AskedFits(x, facts) => AskedFits(x, more)
         /\ \A w : \A r \in TurnRecord : TurnFits(w, r, facts) => TurnFits(w, r, more)
<1>1. \A list \in SUBSET Thread : ListedFits(list, facts) => ListedFits(list, more)
  BY DEF ListedFits
<1>2. \A x : MessagesFit(x, facts) => MessagesFit(x, more)
  BY DEF MessagesFit
<1>3. \A x : LinkedFits(x, facts) => LinkedFits(x, more)
  BY DEF LinkedFits
<1>4. \A x : DescribedFits(x, facts) => DescribedFits(x, more)
  BY DEF DescribedFits
<1>5. \A x : AskedFits(x, facts) => AskedFits(x, more)
  BY DEF AskedFits
<1>6. ASSUME NEW w, NEW r \in TurnRecord, TurnFits(w, r, facts)
      PROVE  TurnFits(w, r, more)
  <2>1. r.thread \in Thread /\ r.index \subseteq Thread
    BY DEF TurnRecord
  <2>2. Grounded(w, r.n, facts[r.thread]) => Grounded(w, r.n, more[r.thread])
    BY <2>1, GroundedMore
  <2>. QED  BY <1>6, <2>1, <2>2 DEF TurnFits
<1>. QED  BY <1>1, <1>2, <1>3, <1>4, <1>5, <1>6

LEMMA FilesStay ==
  ASSUME ThreadInv, UNCHANGED <<Threads!threads, Threads!media, drafts>>
  PROVE  FilesTyped' /\ FilesFit' /\ Known' = Known
<1>1. Known' = Known
  BY DEF Known, Threads!threads, Threads!media
<1>2. FilesTyped'
  BY DEF ThreadInv, FilesTyped, Threads!threads, Threads!media
<1>3. FilesFit'
  BY <1>1 DEF ThreadInv, FilesFit, Threads!threads, Threads!media
<1>. QED  BY <1>1, <1>2, <1>3

LEMMA CallerTurns ==
  ASSUME ThreadInv, NEW c \in Caller, FilesTyped', CallersTyped', FilesFit',
         \A t \in Thread : Known[t] \subseteq Known'[t],
         \A d \in Caller : d # c => work'[d] = work[d] /\ turn'[d] = turn[d],
         TurnFits(work'[c], turn'[c], Known')
  PROVE  ThreadInv'
<1>1. ASSUME NEW d \in Caller
      PROVE  TurnFits(work'[d], turn'[d], Known')
  <2>1. CASE d = c
    BY <2>1
  <2>2. CASE d # c
    <3>1. turn[d] \in TurnRecord /\ TurnFits(work[d], turn[d], Known)
      BY DEF ThreadInv, CallersTyped
    <3>2. TurnFits(work[d], turn[d], Known')
      BY <3>1, FitsMore
    <3>. QED  BY <2>2, <3>2
  <2>. QED  BY <2>1, <2>2
<1>. QED  BY <1>1 DEF ThreadInv

LEMMA IdleTurn ==
  ASSUME NEW facts
  PROVE  Threads!NoTurn \in TurnRecord /\ TurnFits(<<>>, Threads!NoTurn, facts)
<1>1. (CHOOSE t \in Thread : TRUE) \in Thread
  BY ThreadAssumption
<1>2. Threads!NoTurn \in TurnRecord /\ Threads!NoTurn.links = {} /\ Threads!NoTurn.index = {}
  BY <1>1 DEF Threads!NoTurn, Threads!Turn, TurnRecord
<1>3. Grounded(<<>>, Threads!NoTurn.n, facts[Threads!NoTurn.thread])
  BY GroundedNone
<1>. QED  BY <1>2, <1>3 DEF TurnFits

LEMMA NewTurn ==
  ASSUME NEW t \in Thread, requests \in Nat, requests < MaxRequests
  PROVE  /\ Threads!New(t) \in TurnRecord /\ Threads!New(t).links = {} /\ Threads!New(t).index = {}
         /\ Threads!New(t).n = requests + 1 /\ Threads!New(t).thread = t /\ requests + 1 \in Threads!Id
         /\ Threads!New(t).n \in Nat
BY ThreadAssumption DEF Threads!New, Threads!Turn, TurnRecord, Threads!Id

LEMMA StepsAreSteps ==
  ASSUME NEW w \in Seq(ThreadStep)
  PROVE  w \in Seq(ThreadStep \cup {NewStep})
<1>. HIDE DEF ThreadStep, NewStep
<1>. QED  OBVIOUS

LEMMA CreateSteps ==
  /\ Threads!create_thread = <<NewStep, [do |-> "writeIndex"]>>
  /\ Threads!create_thread \in Seq(ThreadStep \cup {NewStep})
<1>1. Threads!create_thread = <<NewStep, [do |-> "writeIndex"]>>
  <2> DEFINE e == [do |-> "writeIndex"]
  <2>1. Threads!create_thread = <<NewStep>> \o <<e>>
    BY DEF Threads!create_thread, Threads!Do, NewStep
  <2>. HIDE DEF e, NewStep
  <2>2. <<NewStep>> \o <<e>> = <<NewStep, e>>
    <3> DEFINE S == {NewStep, e}
               s == <<NewStep>> \o <<e>>
               t == <<NewStep, e>>
    <3>1. <<NewStep>> \in Seq(S) /\ <<e>> \in Seq(S) /\ t \in Seq(S)
      OBVIOUS
    <3>2. /\ s \in Seq(S) /\ Len(s) = 2
          /\ \A i \in 1 .. 2 : s[i] = IF i <= 1 THEN <<NewStep>>[i] ELSE <<e>>[i - 1]
      <4>. HIDE DEF S
      <4>. QED  BY <3>1, ConcatProperties
    <3>3. s[1] = NewStep /\ s[2] = e
      BY <3>2
    <3>4. Len(t) = 2 /\ t[1] = NewStep /\ t[2] = e
      OBVIOUS
    <3>. HIDE DEF S, s, t
    <3>5. s = t
      <4>1. Len(s) = Len(t) /\ \A i \in 1 .. Len(s) : s[i] = t[i]
        <5>1. \A i \in 1 .. 2 : i = 1 \/ i = 2
          OBVIOUS
        <5>. QED  BY <5>1, <3>2, <3>3, <3>4
      <4>. QED  BY <3>1, <3>2, <4>1, SeqEqual
    <3>. QED  BY <3>5 DEF s, t
  <2>. QED  BY <2>1, <2>2 DEF e
<1>2. [do |-> "writeIndex"] \in ThreadStep
  BY DEF ThreadStep, PlainStep
<1>. HIDE DEF ThreadStep, NewStep
<1>3. <<NewStep, [do |-> "writeIndex"]>> \in Seq(ThreadStep \cup {NewStep})
  BY <1>2
<1>. QED  BY <1>1, <1>3

\* A request begins with a script that what is known lets it follow.
LEMMA StartKeepsThreads ==
  ASSUME ThreadInv, NEW c \in Caller, NEW r \in TurnRecord, NEW w, Threads!Starts(c, r, w),
         r.n = requests + 1, r.links = {}, r.index = {},
         w = Threads!create_thread \/ Grounded(w, requests + 1, Known[r.thread])
  PROVE  ThreadInv'
<1>1. /\ requests < MaxRequests /\ requests' = requests + 1
      /\ turn' = [turn EXCEPT ![c] = r] /\ work' = [work EXCEPT ![c] = w]
      /\ UNCHANGED <<Threads!threads, Threads!media, drafts>>
  BY DEF Threads!Starts
<1>2. FilesTyped' /\ FilesFit' /\ Known' = Known
  BY <1>1, FilesStay
<1>3. w \in Seq(ThreadStep \cup {NewStep})
  BY CreateSteps, StepsAreSteps DEF Grounded
<1>4. CallersTyped' /\ work'[c] = w /\ turn'[c] = r
      /\ \A d \in Caller : d # c => work'[d] = work[d] /\ turn'[d] = turn[d]
  BY <1>1, <1>3 DEF ThreadInv, CallersTyped
<1>5. r.n \in Threads!Id
  BY <1>1, ThreadAssumption DEF ThreadInv, CallersTyped, Threads!Id
<1>6. TurnFits(w, r, Known)
  BY <1>5 DEF TurnFits
<1>7. TurnFits(work'[c], turn'[c], Known')
  BY <1>2, <1>4, <1>6
<1>. QED  BY <1>2, <1>4, <1>7, CallerTurns

\* What the step at the head of a request's work says of it.
LEMMA StepAtHand ==
  ASSUME ThreadInv, NEW c \in Caller, NEW what, what # "newThread", Threads!Takes(c, what)
  PROVE  /\ work[c] # <<>> /\ Head(work[c]).do = what /\ Head(work[c]) \in ThreadStep
         /\ Grounded(work[c], turn[c].n, Known[turn[c].thread])
         /\ NeedsOf(Head(work[c]), turn[c].n) \subseteq Known[turn[c].thread]
         /\ There \in Known[turn[c].thread] /\ record[turn[c].thread] # Threads!Missing
         /\ turn[c] \in TurnRecord /\ turn[c].thread \in Thread /\ turn[c].n \in Threads!Id
<1>1. work[c] # <<>> /\ Head(work[c]).do = what
  BY DEF Threads!Takes, Threads!Idle
<1>2. TurnFits(work[c], turn[c], Known) /\ turn[c] \in TurnRecord
  BY DEF ThreadInv, CallersTyped
<1>3. work[c] # Threads!create_thread
  BY <1>1, CreateSteps DEF NewStep
<1>4. Grounded(work[c], turn[c].n, Known[turn[c].thread]) /\ turn[c].n \in Threads!Id
  BY <1>1, <1>2, <1>3 DEF TurnFits
<1>5. Head(work[c]) \in ThreadStep /\ NeedsOf(Head(work[c]), turn[c].n) \subseteq Known[turn[c].thread]
  <2> DEFINE n == turn[c].n
             facts == Known[turn[c].thread]
             more == facts \cup GivesOf(Head(work[c]), n)
  <2>1. Grounded(work[c], n, facts) /\ facts \subseteq more /\ GivesOf(Head(work[c]), n) \subseteq more
    BY <1>4
  <2>. HIDE DEF n, facts, more
  <2>2. Head(work[c]) \in ThreadStep /\ NeedsOf(Head(work[c]), n) \subseteq facts
    BY <1>1, <2>1, GroundedTail
  <2>. QED  BY <2>2 DEF n, facts
<1>6. There \in Known[turn[c].thread]
  BY <1>5 DEF NeedsOf
<1>7. turn[c].thread \in Thread
  BY <1>2 DEF TurnRecord
<1>8. record[turn[c].thread] # Threads!Missing
  BY <1>6, <1>7 DEF Known, FactsOf, There
<1>. QED  BY <1>1, <1>2, <1>4, <1>5, <1>6, <1>7, <1>8

\* The rest of the work fits when the step has made known what it gives.
LEMMA BecomesFits ==
  ASSUME ThreadInv, NEW c \in Caller, NEW what, what # "newThread", Threads!Takes(c, what),
         NEW w, NEW r \in TurnRecord, Threads!Becomes(c, w, r),
         r.thread = turn[c].thread, r.n = turn[c].n,
         \A t \in Thread : Known[t] \subseteq Known'[t],
         GivesOf(Head(work[c]), turn[c].n) \subseteq Known'[turn[c].thread],
         Grounded(w, turn[c].n, Known'[turn[c].thread]),
         \A x \in r.links : <<"told", x>> \in Known'[turn[c].thread],
         \A t \in r.index : There \in Known'[t]
  PROVE  /\ CallersTyped' /\ TurnFits(work'[c], turn'[c], Known')
         /\ \A d \in Caller : d # c => work'[d] = work[d] /\ turn'[d] = turn[d]
<1> DEFINE n == turn[c].n
           th == turn[c].thread
           remains == w \o Tail(work[c])
<1>1. /\ work' = [work EXCEPT ![c] = remains] /\ requests' = requests
      /\ turn' = [turn EXCEPT ![c] = IF remains = <<>> THEN Threads!NoTurn ELSE r]
  BY DEF Threads!Becomes
<1>2. /\ work[c] # <<>> /\ Grounded(work[c], n, Known[th]) /\ th \in Thread /\ n \in Threads!Id
  BY StepAtHand
<1>3. Grounded(Tail(work[c]), n, Known'[th])
  <2>1. Known[th] \subseteq Known'[th] /\ GivesOf(Head(work[c]), n) \subseteq Known'[th]
    BY <1>2
  <2>. HIDE DEF n, th
  <2>. QED  BY <1>2, <2>1, GroundedTail
<1>4. Grounded(remains, n, Known'[th])
  BY <1>3, GroundedBoth
<1>5. remains \in Seq(ThreadStep \cup {NewStep})
  BY <1>4, StepsAreSteps DEF Grounded
<1>. HIDE DEF remains
<1>6. /\ work'[c] = remains /\ turn'[c] = IF remains = <<>> THEN Threads!NoTurn ELSE r
      /\ \A d \in Caller : d # c => work'[d] = work[d] /\ turn'[d] = turn[d]
  BY <1>1 DEF ThreadInv, CallersTyped
<1>7. CallersTyped'
  BY <1>1, <1>5, IdleTurn DEF ThreadInv, CallersTyped
<1>8. TurnFits(work'[c], turn'[c], Known')
  <2>1. CASE remains = <<>>
    BY <2>1, <1>6, IdleTurn
  <2>2. CASE remains # <<>>
    <3>1. TurnFits(remains, r, Known')
      BY <1>2, <1>4 DEF TurnFits
    <3>. QED  BY <2>2, <3>1, <1>6
  <2>. QED  BY <2>1, <2>2
<1>. QED  BY <1>6, <1>7, <1>8

LEMMA EndsFits ==
  ASSUME ThreadInv, NEW c \in Caller, Threads!Ends(c)
  PROVE  /\ CallersTyped' /\ TurnFits(work'[c], turn'[c], Known')
         /\ \A d \in Caller : d # c => work'[d] = work[d] /\ turn'[d] = turn[d]
<1>1. /\ work' = [work EXCEPT ![c] = <<>>] /\ requests' = requests
      /\ turn' = [turn EXCEPT ![c] = Threads!NoTurn]
  BY DEF Threads!Ends
<1>2. /\ work'[c] = <<>> /\ turn'[c] = Threads!NoTurn
      /\ \A d \in Caller : d # c => work'[d] = work[d] /\ turn'[d] = turn[d]
  BY <1>1 DEF ThreadInv, CallersTyped
<1>3. <<>> \in Seq(ThreadStep \cup {NewStep})
  BY EmptySeq
<1>4. CallersTyped'
  BY <1>1, <1>3, IdleTurn DEF ThreadInv, CallersTyped
<1>. QED  BY <1>2, <1>4, IdleTurn

-----------------------------------------------------------------------------
(* Requests.                                                               *)

LEMMA KnownThere ==
  ASSUME ThreadInv, NEW t \in Thread
  PROVE  /\ Threads!Exists(t) => There \in Known[t]
         /\ \A i \in Threads!Id : asked[t][i] # Threads!NotAsked => There \in Known[t]
         /\ \A token \in drafts : <<"draft", token>> \in Known[t]
<1>1. Threads!Exists(t) => There \in Known[t]
  BY DEF Threads!Exists, Known, FactsOf, There, Fact
<1>2. \A i \in Threads!Id : asked[t][i] # Threads!NotAsked => There \in Known[t]
  BY DEF ThreadInv, FilesFit, AskedFits
<1>3. \A token \in drafts : <<"draft", token>> \in Known[t]
  BY DEF ThreadInv, FilesTyped, Known, FactsOf, Fact
<1>. QED  BY <1>1, <1>2, <1>3

\* A request for a thread that is there.
LEMMA RequestKeeps ==
  ASSUME ThreadInv, NEW c \in Caller, NEW t \in Thread, NEW w, Threads!Starts(c, Threads!New(t), w),
         Grounded(w, requests + 1, Known[t])
  PROVE  ThreadInv'
<1>1. requests \in Nat /\ requests < MaxRequests
  BY DEF ThreadInv, CallersTyped, Threads!Starts
<1> DEFINE r == Threads!New(t)
<1>2. r \in TurnRecord /\ r.links = {} /\ r.index = {} /\ r.n = requests + 1 /\ r.thread = t
  BY <1>1, NewTurn
<1>. HIDE DEF r
<1>3. Grounded(w, requests + 1, Known[r.thread])
  BY <1>2
<1>4. Threads!Starts(c, r, w)
  BY DEF r
<1>. QED  BY <1>2, <1>3, <1>4, StartKeepsThreads

LEMMA CreateKeeps ==
  ASSUME ThreadInv, NEW c \in Caller, NEW t \in Thread, Threads!Create(c, t)
  PROVE  ThreadInv'
<1>1. requests \in Nat /\ requests < MaxRequests /\ Threads!Starts(c, Threads!New(t), Threads!create_thread)
  BY DEF ThreadInv, CallersTyped, Threads!Starts, Threads!Create
<1> DEFINE r == Threads!New(t)
<1>2. r \in TurnRecord /\ r.links = {} /\ r.index = {} /\ r.n = requests + 1 /\ r.thread = t
  BY <1>1, NewTurn
<1>3. Threads!Starts(c, r, Threads!create_thread)
  BY <1>1
<1>. HIDE DEF r
<1>. QED  BY <1>2, <1>3, StartKeepsThreads

LEMMA AskOfThreadKeeps ==
  ASSUME ThreadInv, NEW c \in Caller, NEW t \in Thread,
         Threads!Patch(c, t) \/ Threads!Post(c, t) \/ Threads!Validate(c, t) \/ Threads!Capture(c, t)
  PROVE  ThreadInv'
<1> DEFINE n == requests + 1
           facts == Known[t]
<1>1. Threads!Exists(t) /\ There \in facts /\ n \in Nat
  BY KnownThere DEF Threads!Patch, Threads!Post, Threads!Validate, Threads!Capture, ThreadInv, CallersTyped
<1>2. \A token \in drafts : token \in Nat /\ <<"draft", token>> \in facts
  BY KnownThere DEF ThreadInv, FilesTyped
<1>3. ASSUME NEW w, Threads!Starts(c, Threads!New(t), w), Grounded(w, n, facts)
      PROVE  ThreadInv'
  BY <1>3, RequestKeeps
<1>4. CASE Threads!Patch(c, t)
  <2>1. Threads!Starts(c, Threads!New(t), Threads!patch_thread)
    BY <1>4 DEF Threads!Patch
  <2>2. Grounded(Threads!patch_thread, n, facts)
    <3>. HIDE DEF n, facts
    <3>. QED  BY <1>1, SnapshotGrounded
  <2>. QED  BY <1>3, <2>1, <2>2
<1>5. CASE Threads!Post(c, t)
  <2>1. \/ \E type \in {"user", "tool_result", "plan"} : Threads!Starts(c, Threads!New(t), Threads!append_message(type, 0))
        \/ \E token \in drafts \cup {0} : Threads!Starts(c, Threads!New(t), Threads!append_draft_event("apply", token))
    BY <1>5 DEF Threads!Post
  <2>. HIDE DEF n, facts
  <2>2. ASSUME NEW type \in {"user", "tool_result", "plan"},
               Threads!Starts(c, Threads!New(t), Threads!append_message(type, 0))
        PROVE  ThreadInv'
    <3>1. Grounded(Threads!append_message(type, 0), n, facts)
      BY <1>1, PlainMessageGrounded DEF MessageType
    <3>. QED  BY <1>3, <2>2, <3>1
  <2>3. ASSUME NEW token \in drafts \cup {0},
               Threads!Starts(c, Threads!New(t), Threads!append_draft_event("apply", token))
        PROVE  ThreadInv'
    <3>1. token \in Nat /\ (token # 0 => <<"draft", token>> \in facts)
      BY <1>2
    <3>2. Grounded(Threads!append_draft_event("apply", token), n, facts)
      BY <1>1, <3>1, DraftEventGrounded
    <3>. QED  BY <1>3, <2>3, <3>2
  <2>. QED  BY <2>1, <2>2, <2>3
<1>6. CASE Threads!Validate(c, t)
  <2>. HIDE DEF n, facts
  <2>1. PICK what \in {"validate", "validateAndBuild"} : Threads!Starts(c, Threads!New(t), Threads!Do(what))
    BY <1>6 DEF Threads!Validate
  <2>2. Grounded(Threads!Do(what), n, facts)
    BY <1>1, <2>1, DoGrounded DEF PlainStep
  <2>. QED  BY <1>3, <2>1, <2>2
<1>7. CASE Threads!Capture(c, t)
  <2>. HIDE DEF n, facts
  <2>1. PICK w \in {Threads!create_context_snapshot, Threads!add_visual_evidence,
                    Threads!add_viewport_screenshot_attachment, Threads!Do("ask")} :
          Threads!Starts(c, Threads!New(t), w)
    BY <1>7 DEF Threads!Capture
  <2>2. Grounded(Threads!Do("ask"), n, facts)
    BY <1>1, DoGrounded DEF PlainStep
  <2>3. Grounded(w, n, facts)
    BY <1>1, <2>1, <2>2, SnapshotGrounded, EvidenceGrounded
  <2>. QED  BY <1>3, <2>1, <2>3
<1>. QED  BY <1>4, <1>5, <1>6, <1>7

LEMMA ConverseKeeps ==
  ASSUME ThreadInv, NEW c \in Caller, NEW t \in Thread, Threads!Converse(c, t)
  PROVE  ThreadInv'
<1> DEFINE Takes1(r, snapshot) ==
             Threads!Starts(c, r, Threads!post_design_thread_chat(requests + 1, snapshot))
<1>1. Threads!Exists(t) /\ There \in Known[t] /\ requests \in Nat /\ requests + 1 \in Nat
  <2>1. Threads!Exists(t)
    BY DEF Threads!Converse
  <2>2. There \in Known[t]
    BY <2>1, KnownThere
  <2>3. requests \in Nat /\ requests + 1 \in Nat
    BY DEF ThreadInv, CallersTyped
  <2>. QED  BY <2>1, <2>2, <2>3
<1>2. ASSUME NEW r \in TurnRecord, r.links = {}, r.index = {}, r.n = requests + 1, r.thread = t,
             NEW snapshot \in BOOLEAN, Takes1(r, snapshot)
      PROVE  ThreadInv'
  <2>1. Grounded(Threads!post_design_thread_chat(requests + 1, snapshot), requests + 1, Known[r.thread])
    BY <1>1, <1>2, ChatGrounded
  <2>. QED  BY <1>2, <2>1, StartKeepsThreads
<1>3. \E streamed \in BOOLEAN :
        \/ Takes1([Threads!New(t) EXCEPT !.streamed = streamed], FALSE)
        \/ \E annotated \in BOOLEAN, token \in drafts \cup {0} :
             Takes1([Threads!New(t) EXCEPT !.streamed = streamed, !.annotated = annotated,
                                           !.token = token, !.snapshot = requests + 1], TRUE)
  BY DEF Threads!Converse
<1>4. PICK streamed \in BOOLEAN :
        \/ Takes1([Threads!New(t) EXCEPT !.streamed = streamed], FALSE)
        \/ \E annotated \in BOOLEAN, token \in drafts \cup {0} :
             Takes1([Threads!New(t) EXCEPT !.streamed = streamed, !.annotated = annotated,
                                           !.token = token, !.snapshot = requests + 1], TRUE)
  BY <1>3
<1>5. requests < MaxRequests
  BY <1>4 DEF Threads!Starts
<1>. HIDE DEF Takes1
<1>6. /\ Threads!New(t) \in TurnRecord /\ Threads!New(t).links = {} /\ Threads!New(t).index = {}
      /\ Threads!New(t).n = requests + 1 /\ Threads!New(t).thread = t
  BY <1>1, <1>5, NewTurn
<1>7. CASE Takes1([Threads!New(t) EXCEPT !.streamed = streamed], FALSE)
  <2> DEFINE r == [Threads!New(t) EXCEPT !.streamed = streamed]
  <2>1. r \in TurnRecord /\ r.links = {} /\ r.index = {} /\ r.n = requests + 1 /\ r.thread = t
    BY <1>6 DEF TurnRecord
  <2>2. Takes1(r, FALSE)
    BY <1>7
  <2>. HIDE DEF r
  <2>. QED  BY <1>2, <2>1, <2>2
<1>8. ASSUME NEW annotated \in BOOLEAN, NEW token \in drafts \cup {0},
             Takes1([Threads!New(t) EXCEPT !.streamed = streamed, !.annotated = annotated,
                                           !.token = token, !.snapshot = requests + 1], TRUE)
      PROVE  ThreadInv'
  <2> DEFINE r == [Threads!New(t) EXCEPT !.streamed = streamed, !.annotated = annotated,
                                         !.token = token, !.snapshot = requests + 1]
  <2>1. token \in Nat
    BY DEF ThreadInv, FilesTyped
  <2>2. r \in TurnRecord /\ r.links = {} /\ r.index = {} /\ r.n = requests + 1 /\ r.thread = t
    BY <1>1, <1>6, <2>1 DEF TurnRecord
  <2>3. Takes1(r, TRUE)
    BY <1>8
  <2>. HIDE DEF r
  <2>. QED  BY <1>2, <2>2, <2>3
<1>. QED  BY <1>4, <1>7, <1>8

LEMMA CompleteKeeps ==
  ASSUME ThreadInv, NEW c \in Caller, NEW t \in Thread, NEW i \in Threads!Id,
         Threads!Complete(c, t, i) \/ Threads!Decline(c, t, i)
  PROVE  ThreadInv'
<1> DEFINE r == [Threads!New(t) EXCEPT !.target = i]
<1>1. /\ There \in Known[t] /\ requests \in Nat /\ requests + 1 \in Nat /\ i \in Nat
  BY KnownThere DEF Threads!Complete, Threads!Decline, ThreadInv, CallersTyped, Threads!Id
<1>2. PICK w \in {Threads!fulfill_visual_evidence_request, Threads!fail_visual_evidence_request} :
        Threads!Starts(c, r, w)
  BY DEF Threads!Complete, Threads!Decline
<1>3. requests < MaxRequests
  BY <1>2 DEF Threads!Starts
<1>4. /\ Threads!New(t) \in TurnRecord /\ Threads!New(t).links = {} /\ Threads!New(t).index = {}
      /\ Threads!New(t).n = requests + 1 /\ Threads!New(t).thread = t
  BY <1>1, <1>3, NewTurn
<1>5. r \in TurnRecord /\ r.links = {} /\ r.index = {} /\ r.n = requests + 1 /\ r.thread = t
  BY <1>1, <1>4 DEF TurnRecord
<1>. HIDE DEF r
<1>6. Grounded(w, requests + 1, Known[r.thread])
  BY <1>1, <1>2, <1>5, SettlingGrounded
<1>. QED  BY <1>2, <1>5, <1>6, StartKeepsThreads

-----------------------------------------------------------------------------
(* Steps.                                                                  *)

\* A step that leaves the files as they are.
LEMMA QuietStepKeeps ==
  ASSUME ThreadInv, NEW c \in Caller, NEW what, what # "newThread", Threads!Takes(c, what),
         UNCHANGED <<Threads!threads, Threads!media, drafts>>,
         NEW w, NEW r \in TurnRecord, Threads!Becomes(c, w, r),
         r.thread = turn[c].thread, r.n = turn[c].n,
         GivesOf(Head(work[c]), turn[c].n) = {},
         Grounded(w, turn[c].n, Known[turn[c].thread]),
         \A x \in r.links : <<"told", x>> \in Known[turn[c].thread],
         \A t \in r.index : There \in Known[t]
  PROVE  ThreadInv'
<1>1. FilesTyped' /\ FilesFit' /\ Known' = Known
  BY FilesStay
<1>2. /\ CallersTyped' /\ TurnFits(work'[c], turn'[c], Known')
      /\ \A d \in Caller : d # c => work'[d] = work[d] /\ turn'[d] = turn[d]
  BY <1>1, BecomesFits
<1>3. \A t \in Thread : Known[t] \subseteq Known'[t]
  BY <1>1
<1>. QED  BY <1>1, <1>2, <1>3, CallerTurns

LEMMA EndKeeps ==
  ASSUME ThreadInv, NEW c \in Caller, Threads!Ends(c), UNCHANGED <<Threads!threads, Threads!media, drafts>>
  PROVE  ThreadInv'
<1>1. FilesTyped' /\ FilesFit' /\ Known' = Known
  BY FilesStay
<1>2. /\ CallersTyped' /\ TurnFits(work'[c], turn'[c], Known')
      /\ \A d \in Caller : d # c => work'[d] = work[d] /\ turn'[d] = turn[d]
  BY EndsFits
<1>3. \A t \in Thread : Known[t] \subseteq Known'[t]
  BY <1>1
<1>. QED  BY <1>1, <1>2, <1>3, CallerTurns

\* What a request has in hand of its thread.
LEMMA InTurn ==
  ASSUME ThreadInv, NEW c \in Caller
  PROVE  /\ turn[c] \in TurnRecord /\ turn[c].thread \in Thread /\ turn[c].n \in Nat
         /\ \A x \in turn[c].links : <<"told", x>> \in Known[turn[c].thread]
         /\ \A t \in turn[c].index : There \in Known[t]
  BY DEF ThreadInv, CallersTyped, TurnRecord, TurnFits

\* The drafts that the record of the thread links have been told of.
LEMMA LinksAreTold ==
  ASSUME ThreadInv, NEW t \in Thread, record[t] # Threads!Missing
  PROVE  record[t].linked \in SUBSET (Nat \ {0}) /\ \A x \in record[t].linked : <<"told", x>> \in Known[t]
BY DEF ThreadInv, FilesTyped, FilesFit, LinkedFits

LEMMA RequireKeeps ==
  ASSUME ThreadInv, NEW c \in Caller, Threads!_require_thread(c)
  PROVE  ThreadInv'
<1> DEFINE th == turn[c].thread
           r == [turn[c] EXCEPT !.links = record[th].linked]
<1>1. /\ Threads!Takes(c, "require") /\ Threads!Becomes(c, <<>>, r)
      /\ UNCHANGED <<Threads!threads, Threads!media, drafts>>
  BY DEF Threads!_require_thread, Threads!GoesWith, Threads!thread
<1>2. th \in Thread /\ turn[c] \in TurnRecord /\ record[th] # Threads!Missing /\ Head(work[c]).do = "require"
  BY <1>1, StepAtHand
<1>3. r \in TurnRecord /\ r.thread = th /\ r.n = turn[c].n /\ r.index = turn[c].index /\ r.links = record[th].linked
  BY <1>2, LinksAreTold DEF TurnRecord
<1>4. GivesOf(Head(work[c]), turn[c].n) = {} /\ Grounded(<<>>, turn[c].n, Known[th])
  BY <1>2, GroundedNone DEF GivesOf
<1>5. \A x \in r.links : <<"told", x>> \in Known[th]
  BY <1>2, <1>3, LinksAreTold
<1>6. \A t \in r.index : There \in Known[t]
  BY <1>3, InTurn
<1>. HIDE DEF th, r
<1>. QED  BY <1>1, <1>3, <1>4, <1>5, <1>6, QuietStepKeeps DEF th

LEMMA AppendKeeps ==
  ASSUME ThreadInv, NEW c \in Caller, Threads!_append_jsonl(c)
  PROVE  ThreadInv'
<1> DEFINE th == turn[c].thread
           n == turn[c].n
           r == [turn[c] EXCEPT !.links = record[th].linked]
           m == Head(work[c]).message
<1>1. /\ Threads!Takes(c, "append") /\ Threads!Becomes(c, <<>>, r)
      /\ messages' = [messages EXCEPT ![th] = @ \cup {m}]
      /\ UNCHANGED <<listed, record, Threads!media, drafts>>
  BY DEF Threads!_append_jsonl, Threads!GoesWith, Threads!thread
<1>2. /\ th \in Thread /\ turn[c] \in TurnRecord /\ record[th] # Threads!Missing /\ Head(work[c]).do = "append"
      /\ Head(work[c]) \in ThreadStep /\ NeedsOf(Head(work[c]), n) \subseteq Known[th]
  BY <1>1, StepAtHand
<1>3. r \in TurnRecord /\ r.thread = th /\ r.n = n /\ r.index = turn[c].index /\ r.links = record[th].linked
  BY <1>2, LinksAreTold DEF TurnRecord
<1>4. m \in Message
  BY <1>2 DEF ThreadStep, PlainStep
<1>5. Wants(m) \subseteq Known[th] /\ GivesOf(Head(work[c]), n) = Tells(m)
  BY <1>2 DEF NeedsOf, GivesOf
<1>. HIDE DEF r, m, n
<1>6. FilesTyped'
  BY <1>1, <1>2, <1>4 DEF ThreadInv, FilesTyped, Threads!media
<1>7. messages'[th] = messages[th] \cup {m} /\ \A t \in Thread : t # th => messages'[t] = messages[t]
  BY <1>1, <1>2 DEF ThreadInv, FilesTyped
<1>8. \A t \in Thread : Known[t] \subseteq Known'[t]
  <2>1. \A t \in Thread : messages[t] \subseteq messages'[t]
    BY <1>7
  <2>. QED  BY <1>1, <1>6, <2>1, FactsGrow DEF ThreadInv, Threads!media
<1>9. FilesFit'
  <2>1. MessagesFit(messages', Known')
    <3>1. ASSUME NEW t \in Thread, NEW e \in messages'[t]
          PROVE  Wants(e) \subseteq Known'[t]
      <4>1. CASE e \in messages[t]
        BY <4>1, <1>8 DEF ThreadInv, FilesFit, MessagesFit
      <4>2. CASE t = th /\ e = m
        BY <4>2, <1>5, <1>8
      <4>. QED  BY <1>7, <4>1, <4>2
    <3>. QED  BY <3>1 DEF MessagesFit
  <2>2. /\ ListedFits(listed, Known') /\ LinkedFits(record, Known')
        /\ DescribedFits(described, Known') /\ AskedFits(asked, Known')
    BY <1>8, FitsMore DEF ThreadInv, FilesFit, FilesTyped
  <2>. QED  BY <1>1, <2>1, <2>2 DEF FilesFit, Threads!media
<1>10. Tells(m) \subseteq Known'[th]
  <2>1. m \in messages'[th] /\ Tells(m) \subseteq Fact
    BY <1>4, <1>7 DEF Tells, Fact, Message
  <2>2. Known'[th] = FactsOf(record'[th], messages'[th], snapshots'[th], images'[th], described'[th], asked'[th], drafts')
    BY <1>2 DEF Known
  <2>3. m.type = "passed" => [type |-> "passed", id |-> m.id] = m
    BY <1>4 DEF Message
  <2>. QED  BY <2>1, <2>2, <2>3 DEF FactsOf, Tells
<1>11. /\ \A x \in r.links : <<"told", x>> \in Known'[th]
       /\ \A t \in r.index : There \in Known'[t]
  <2>1. \A x \in r.links : <<"told", x>> \in Known[th]
    BY <1>2, <1>3, LinksAreTold
  <2>2. \A t \in r.index : t \in Thread /\ There \in Known[t]
    BY <1>3, InTurn DEF TurnRecord
  <2>. QED  BY <1>2, <1>8, <2>1, <2>2
<1>12. Grounded(<<>>, n, Known'[th])
  BY GroundedNone
<1>13. /\ CallersTyped' /\ TurnFits(work'[c], turn'[c], Known')
       /\ \A d \in Caller : d # c => work'[d] = work[d] /\ turn'[d] = turn[d]
  BY <1>1, <1>3, <1>5, <1>8, <1>10, <1>11, <1>12, BecomesFits DEF n
<1>. QED  BY <1>6, <1>8, <1>9, <1>13, CallerTurns

LEMMA WriteThreadKeeps ==
  ASSUME ThreadInv, NEW c \in Caller, Threads!_write_thread(c)
  PROVE  ThreadInv'
<1> DEFINE th == turn[c].thread
           n == turn[c].n
           r == [turn[c] EXCEPT !.links = {}, !.index = listed]
           all == turn[c].links \cup Head(work[c]).links
<1>1. /\ Threads!Takes(c, "writeThread") /\ Threads!Becomes(c, <<>>, r)
      /\ record' = [record EXCEPT ![th].linked = all]
      /\ UNCHANGED <<listed, messages, Threads!media, drafts>>
  BY DEF Threads!_write_thread, Threads!GoesWith, Threads!thread
<1>2. /\ th \in Thread /\ turn[c] \in TurnRecord /\ record[th] # Threads!Missing /\ Head(work[c]).do = "writeThread"
      /\ Head(work[c]) \in ThreadStep /\ NeedsOf(Head(work[c]), n) \subseteq Known[th]
  BY <1>1, StepAtHand
<1>3. r \in TurnRecord /\ r.thread = th /\ r.n = n /\ r.index = listed /\ r.links = {}
  BY <1>2 DEF TurnRecord, ThreadInv, FilesTyped
<1>4. all \subseteq Nat \ {0} /\ \A x \in all : <<"told", x>> \in Known[th]
  <2>1. Head(work[c]).links \subseteq Nat \ {0}
    BY <1>2 DEF ThreadStep, PlainStep
  <2>2. \A x \in Head(work[c]).links : <<"told", x>> \in Known[th]
    BY <1>2 DEF NeedsOf
  <2>3. turn[c].links \subseteq Nat \ {0} /\ \A x \in turn[c].links : <<"told", x>> \in Known[th]
    BY <1>2, InTurn DEF TurnRecord
  <2>. QED  BY <2>1, <2>2, <2>3
<1>5. GivesOf(Head(work[c]), n) = {}
  BY <1>2 DEF GivesOf
<1>. HIDE DEF r, all, n
<1>6. record'[th] = [linked |-> all] /\ \A t \in Thread : t # th => record'[t] = record[t]
  BY <1>1, <1>2 DEF ThreadInv, FilesTyped
<1>7. record'[th] # Threads!Missing
  <2>1. 0 \notin all
    BY <1>4
  <2>. QED  BY <1>6, <2>1 DEF Threads!Missing
<1>8. FilesTyped'
  BY <1>1, <1>2, <1>4 DEF ThreadInv, FilesTyped, Threads!media
<1>9. \A t \in Thread : Known[t] \subseteq Known'[t]
  <2>1. \A t \in Thread : record[t] # Threads!Missing => record'[t] # Threads!Missing
    BY <1>6, <1>7
  <2>. QED  BY <1>1, <1>8, <2>1, FactsGrow DEF ThreadInv, Threads!media
<1>10. FilesFit'
  <2>1. LinkedFits(record', Known')
    <3>1. ASSUME NEW t \in Thread, record'[t] # Threads!Missing
          PROVE  0 \notin record'[t].linked /\ \A x \in record'[t].linked : <<"told", x>> \in Known'[t]
      <4>1. CASE t = th
        BY <4>1, <1>4, <1>6, <1>9
      <4>2. CASE t # th
        BY <3>1, <4>2, <1>6, <1>9, LinksAreTold
      <4>. QED  BY <4>1, <4>2
    <3>. QED  BY <3>1 DEF LinkedFits
  <2>2. /\ ListedFits(listed, Known') /\ MessagesFit(messages, Known')
        /\ DescribedFits(described, Known') /\ AskedFits(asked, Known')
    BY <1>9, FitsMore DEF ThreadInv, FilesFit, FilesTyped
  <2>. QED  BY <1>1, <2>1, <2>2 DEF FilesFit, Threads!media
<1>11. /\ \A x \in r.links : <<"told", x>> \in Known'[th]
       /\ \A t \in r.index : There \in Known'[t]
  BY <1>1, <1>3, <1>10 DEF FilesFit, ListedFits
<1>12. Grounded(<<>>, n, Known'[th]) /\ GivesOf(Head(work[c]), n) \subseteq Known'[th]
  BY <1>5, GroundedNone
<1>13. /\ CallersTyped' /\ TurnFits(work'[c], turn'[c], Known')
       /\ \A d \in Caller : d # c => work'[d] = work[d] /\ turn'[d] = turn[d]
  BY <1>1, <1>3, <1>9, <1>11, <1>12, BecomesFits DEF n
<1>. QED  BY <1>8, <1>9, <1>10, <1>13, CallerTurns

LEMMA WriteIndexKeeps ==
  ASSUME ThreadInv, NEW c \in Caller, Threads!_write_index(c)
  PROVE  ThreadInv'
<1> DEFINE th == turn[c].thread
           n == turn[c].n
           r == [turn[c] EXCEPT !.index = {}]
<1>1. /\ Threads!Takes(c, "writeIndex") /\ Threads!Becomes(c, <<>>, r)
      /\ listed' = turn[c].index \cup {th}
      /\ UNCHANGED <<record, messages, Threads!media, drafts>>
  BY DEF Threads!_write_index, Threads!GoesWith, Threads!thread
<1>2. /\ th \in Thread /\ turn[c] \in TurnRecord /\ Head(work[c]).do = "writeIndex" /\ There \in Known[th]
  BY <1>1, StepAtHand
<1>3. r \in TurnRecord /\ r.thread = th /\ r.n = n /\ r.index = {} /\ r.links = turn[c].links
  BY <1>2 DEF TurnRecord
<1>4. GivesOf(Head(work[c]), n) = {}
  BY <1>2 DEF GivesOf
<1>. HIDE DEF r, n
<1>5. FilesTyped'
  BY <1>1, <1>2 DEF ThreadInv, FilesTyped, Threads!media, TurnRecord
<1>6. Known' = Known
  BY <1>1 DEF Known, Threads!media
<1>7. FilesFit'
  <2>1. ListedFits(listed', Known)
    BY <1>1, <1>2, InTurn DEF ListedFits
  <2>. QED  BY <1>1, <1>6, <2>1 DEF ThreadInv, FilesFit, Threads!media
<1>8. \A x \in r.links : <<"told", x>> \in Known'[th]
  BY <1>3, <1>6, InTurn
<1>9. Grounded(<<>>, n, Known'[th]) /\ GivesOf(Head(work[c]), n) \subseteq Known'[th]
      /\ \A t \in Thread : Known[t] \subseteq Known'[t]
  BY <1>4, <1>6, GroundedNone
<1>10. /\ CallersTyped' /\ TurnFits(work'[c], turn'[c], Known')
       /\ \A d \in Caller : d # c => work'[d] = work[d] /\ turn'[d] = turn[d]
  BY <1>1, <1>3, <1>8, <1>9, BecomesFits DEF n
<1>. QED  BY <1>5, <1>7, <1>9, <1>10, CallerTurns

\* What the files told of before they still may.
LEMMA FilesFitMore ==
  ASSUME ThreadInv, \A t \in Thread : Known[t] \subseteq Known'[t]
  PROVE  /\ ListedFits(listed, Known') /\ MessagesFit(messages, Known') /\ LinkedFits(record, Known')
         /\ DescribedFits(described, Known') /\ AskedFits(asked, Known')
BY FitsMore DEF ThreadInv, FilesFit, FilesTyped

\* A step after which the request knows what it knew.
LEMMA FileStepKeeps ==
  ASSUME ThreadInv, NEW c \in Caller, NEW what, what # "newThread", Threads!Takes(c, what),
         NEW w, Threads!Becomes(c, w, turn[c]), FilesTyped', FilesFit',
         \A t \in Thread : Known[t] \subseteq Known'[t],
         GivesOf(Head(work[c]), turn[c].n) \subseteq Known'[turn[c].thread],
         Grounded(w, turn[c].n, Known'[turn[c].thread])
  PROVE  ThreadInv'
<1>1. turn[c] \in TurnRecord /\ turn[c].thread \in Thread /\ turn[c].index \subseteq Thread
  BY InTurn DEF TurnRecord
<1>2. /\ \A x \in turn[c].links : <<"told", x>> \in Known'[turn[c].thread]
      /\ \A t \in turn[c].index : There \in Known'[t]
  BY <1>1, InTurn
<1>3. /\ CallersTyped' /\ TurnFits(work'[c], turn'[c], Known')
      /\ \A d \in Caller : d # c => work'[d] = work[d] /\ turn'[d] = turn[d]
  BY <1>1, <1>2, BecomesFits
<1>. QED  BY <1>3, CallerTurns

\* Whose first step is a new thread, it creates one.
LEMMA CreatesAlone ==
  ASSUME NEW w, NEW n, NEW facts, w = Threads!create_thread \/ (w # <<>> /\ Head(w).do = "newThread")
  PROVE  ~Grounded(w, n, facts)
<1>1. SUFFICES ASSUME Grounded(w, n, facts) PROVE FALSE
  OBVIOUS
<1>2. w # <<>> /\ Head(w).do = "newThread"
  BY CreateSteps DEF NewStep
<1>3. Head(w) \in ThreadStep
  BY <1>1, <1>2, EmptySeq, HeadTailProperties DEF Grounded
<1>. QED  BY <1>2, <1>3 DEF ThreadStep, PlainStep

LEMMA NewThreadKeeps ==
  ASSUME ThreadInv, NEW c \in Caller, Threads!NewThread(c)
  PROVE  ThreadInv'
<1> DEFINE n == turn[c].n
           e == [do |-> "writeIndex"]
<1>1. Threads!Takes(c, "newThread") /\ UNCHANGED <<listed, messages, Threads!media, drafts>>
  BY DEF Threads!NewThread
<1>2. PICK t \in Thread :
        /\ record' = [record EXCEPT ![t] = [linked |-> {}]]
        /\ Threads!Becomes(c, <<>>, [turn[c] EXCEPT !.thread = t, !.index = listed])
        /\ (t = turn[c].thread \/ t \notin listed)
  BY DEF Threads!NewThread, Threads!GoesWith, Threads!thread
<1> DEFINE r == [turn[c] EXCEPT !.thread = t, !.index = listed]
<1>3. work[c] # <<>> /\ Head(work[c]).do = "newThread" /\ TurnFits(work[c], turn[c], Known) /\ turn[c] \in TurnRecord
  BY <1>1 DEF Threads!Takes, Threads!Idle, ThreadInv, CallersTyped
<1>4. work[c] = Threads!create_thread /\ n \in Threads!Id
  BY <1>3, CreatesAlone DEF TurnFits
<1>5. <<>> \o Tail(work[c]) = <<e>> /\ e \in ThreadStep
  <2>1. e \in ThreadStep
    BY DEF ThreadStep, PlainStep
  <2>2. work[c] = <<NewStep, e>>
    BY <1>4, CreateSteps
  <2>. HIDE DEF e, ThreadStep, NewStep
  <2>3. Tail(work[c]) = <<e>> /\ <<e>> \in Seq(ThreadStep)
    BY <2>1, <2>2
  <2>. QED  BY <2>1, <2>3, ConcatEmptySeq
<1>6. r \in TurnRecord /\ r.thread = t /\ r.n = n /\ r.index = listed /\ r.links = turn[c].links
  BY <1>3 DEF TurnRecord, ThreadInv, FilesTyped
<1>7. record'[t] = [linked |-> {}] /\ record'[t] # Threads!Missing
      /\ \A s \in Thread : s # t => record'[s] = record[s]
  BY <1>2 DEF ThreadInv, FilesTyped, Threads!Missing
<1>8. FilesTyped'
  BY <1>1, <1>2 DEF ThreadInv, FilesTyped, Threads!media
<1>9. \A s \in Thread : Known[s] \subseteq Known'[s]
  <2>1. \A s \in Thread : record[s] # Threads!Missing => record'[s] # Threads!Missing
    BY <1>7
  <2>. QED  BY <1>1, <1>8, <2>1, FactsGrow DEF ThreadInv, Threads!media
<1>10. FilesFit'
  <2>1. LinkedFits(record', Known')
    <3>1. ASSUME NEW s \in Thread, record'[s] # Threads!Missing
          PROVE  0 \notin record'[s].linked /\ \A x \in record'[s].linked : <<"told", x>> \in Known'[s]
      <4>1. CASE s = t
        BY <4>1, <1>7
      <4>2. CASE s # t
        BY <3>1, <4>2, <1>7, <1>9, LinksAreTold
      <4>. QED  BY <4>1, <4>2
    <3>. QED  BY <3>1 DEF LinkedFits
  <2>. QED  BY <1>1, <1>9, <2>1, FilesFitMore DEF FilesFit, Threads!media
<1>11. There \in Known'[t]
  BY <1>7 DEF Known, FactsOf, There, Fact
<1>. HIDE DEF r, n
<1>12. r.links = {}
  <2>1. ~Grounded(work[c], n, Known[turn[c].thread])
    BY <1>4, CreatesAlone
  <2>. QED  BY <1>3, <1>6, <2>1 DEF TurnFits, n
<1>13. Grounded(<<e>>, n, Known'[t])
  <2>1. NeedsOf(e, n) \subseteq Known'[t]
    BY <1>11 DEF NeedsOf
  <2>. HIDE DEF e, ThreadStep
  <2>. QED  BY <1>5, <2>1, GroundedOne
<1>14. /\ work' = [work EXCEPT ![c] = <<e>>] /\ turn' = [turn EXCEPT ![c] = r] /\ requests' = requests
  <2>1. <<e>> # <<>>
    OBVIOUS
  <2>. QED  BY <1>2, <1>5, <2>1 DEF Threads!Becomes, r
<1>15. <<e>> \in Seq(ThreadStep \cup {NewStep})
  BY <1>13, StepsAreSteps DEF Grounded
<1>. HIDE DEF e
<1>16. /\ CallersTyped' /\ work'[c] = <<e>> /\ turn'[c] = r
       /\ \A d \in Caller : d # c => work'[d] = work[d] /\ turn'[d] = turn[d]
  BY <1>6, <1>14, <1>15 DEF ThreadInv, CallersTyped
<1>17. \A s \in r.index : There \in Known'[s]
  BY <1>1, <1>6, <1>10 DEF FilesFit, ListedFits
<1>18. TurnFits(<<e>>, r, Known')
  BY <1>4, <1>6, <1>12, <1>13, <1>17 DEF TurnFits
<1>. QED  BY <1>8, <1>9, <1>10, <1>16, <1>18, CallerTurns

LEMMA WriteSnapshotKeeps ==
  ASSUME ThreadInv, NEW c \in Caller, Threads!WriteSnapshot(c)
  PROVE  ThreadInv'
<1> DEFINE th == turn[c].thread
           n == turn[c].n
           kind == IF turn[c].annotated THEN "annotated" ELSE "plain"
<1>1. /\ Threads!Takes(c, "snapshot") /\ Threads!Becomes(c, <<>>, turn[c])
      /\ snapshots' = [snapshots EXCEPT ![th][n] = kind]
      /\ UNCHANGED <<Threads!threads, images, described, asked, drafts>>
  BY DEF Threads!WriteSnapshot, Threads!Goes, Threads!thread, Threads!number
<1>2. th \in Thread /\ n \in Threads!Id /\ Head(work[c]).do = "snapshot"
  BY <1>1, StepAtHand
<1>3. kind \in {"plain", "annotated"}
  OBVIOUS
<1>. HIDE DEF kind
<1>4. FilesTyped'
  BY <1>1, <1>2, <1>3 DEF ThreadInv, FilesTyped, Threads!threads
<1>5. /\ snapshots'[th][n] # "none"
      /\ \A t \in Thread : \A i \in Threads!Id : snapshots[t][i] # "none" => snapshots'[t][i] # "none"
  BY <1>1, <1>2, <1>3 DEF ThreadInv, FilesTyped
<1>6. \A t \in Thread : Known[t] \subseteq Known'[t]
  BY <1>1, <1>4, <1>5, FactsGrow DEF ThreadInv, Threads!threads
<1>7. FilesFit'
  BY <1>1, <1>6, FilesFitMore DEF FilesFit, Threads!threads
<1>8. GivesOf(Head(work[c]), n) = {<<"snapshot", n>>} /\ n \in Nat
  BY <1>2 DEF GivesOf, Threads!Id
<1>9. <<"snapshot", n>> \in Known'[th]
  BY <1>2, <1>5, <1>8 DEF Known, FactsOf, Fact
<1>10. Grounded(<<>>, n, Known'[th]) /\ GivesOf(Head(work[c]), n) \subseteq Known'[th]
  BY <1>8, <1>9, GroundedNone
<1>. QED  BY <1>1, <1>4, <1>6, <1>7, <1>10, FileStepKeeps

LEMMA WriteBytesKeeps ==
  ASSUME ThreadInv, NEW c \in Caller, Threads!_write_bytes_atomic(c)
  PROVE  ThreadInv'
<1> DEFINE th == turn[c].thread
           n == turn[c].n
<1>1. /\ Threads!Takes(c, "evidence") \/ Threads!Takes(c, "screenshot")
      /\ UNCHANGED <<Threads!threads, snapshots, described, asked, drafts>>
      /\ \/ Threads!Ends(c) /\ UNCHANGED images
         \/ Threads!Becomes(c, <<>>, turn[c]) /\ images' = [images EXCEPT ![th] = @ \cup {n}]
  BY DEF Threads!_write_bytes_atomic, Threads!Goes, Threads!thread, Threads!number
<1>2. PICK what \in {"evidence", "screenshot"} : Threads!Takes(c, what)
  BY <1>1
<1>3. th \in Thread /\ n \in Nat /\ Head(work[c]).do = what
  BY <1>2, StepAtHand, InTurn
<1>4. CASE Threads!Ends(c) /\ UNCHANGED images
  BY <1>1, <1>4, EndKeeps DEF Threads!media
<1>5. CASE Threads!Becomes(c, <<>>, turn[c]) /\ images' = [images EXCEPT ![th] = @ \cup {n}]
  <2>1. FilesTyped' /\ \A t \in Thread : images[t] \subseteq images'[t]
    BY <1>1, <1>3, <1>5 DEF ThreadInv, FilesTyped, Threads!threads
  <2>2. \A t \in Thread : Known[t] \subseteq Known'[t]
    BY <1>1, <2>1, FactsGrow DEF ThreadInv, Threads!threads
  <2>3. FilesFit'
    BY <1>1, <2>2, FilesFitMore DEF FilesFit, Threads!threads
  <2>4. n \in images'[th]
    BY <1>3, <1>5 DEF ThreadInv, FilesTyped
  <2>5. <<"image", n>> \in Known'[th]
    BY <1>3, <2>4 DEF Known, FactsOf, Fact
  <2>6. GivesOf(Head(work[c]), n) = {<<"image", n>>}
    BY <1>3 DEF GivesOf
  <2>7. Grounded(<<>>, n, Known'[th]) /\ GivesOf(Head(work[c]), n) \subseteq Known'[th]
    BY <2>5, <2>6, GroundedNone
  <2>. QED  BY <1>2, <1>5, <2>1, <2>2, <2>3, <2>7, FileStepKeeps
<1>. QED  BY <1>1, <1>4, <1>5

LEMMA DescribeKeeps ==
  ASSUME ThreadInv, NEW c \in Caller, Threads!DescribeImage(c)
  PROVE  ThreadInv'
<1> DEFINE th == turn[c].thread
           n == turn[c].n
<1>1. /\ Threads!Takes(c, "describe") /\ Threads!Becomes(c, <<>>, turn[c])
      /\ described' = [described EXCEPT ![th] = @ \cup {n}]
      /\ UNCHANGED <<Threads!threads, snapshots, images, asked, drafts>>
  BY DEF Threads!DescribeImage, Threads!Goes, Threads!thread, Threads!number
<1>2. /\ th \in Thread /\ n \in Nat /\ Head(work[c]).do = "describe"
      /\ NeedsOf(Head(work[c]), n) \subseteq Known[th]
  BY <1>1, StepAtHand, InTurn
<1>3. <<"image", n>> \in Known[th]
  BY <1>2 DEF NeedsOf
<1>4. FilesTyped' /\ \A t \in Thread : described[t] \subseteq described'[t]
  BY <1>1, <1>2 DEF ThreadInv, FilesTyped, Threads!threads
<1>5. \A t \in Thread : Known[t] \subseteq Known'[t]
  BY <1>1, <1>4, FactsGrow DEF ThreadInv, Threads!threads
<1>6. described'[th] = described[th] \cup {n} /\ \A t \in Thread : t # th => described'[t] = described[t]
  BY <1>1, <1>2 DEF ThreadInv, FilesTyped
<1>7. DescribedFits(described', Known')
  <2>1. DescribedFits(described, Known')
    BY <1>5, FilesFitMore
  <2>. QED  BY <1>3, <1>2, <1>5, <1>6, <2>1 DEF DescribedFits
<1>8. FilesFit'
  BY <1>1, <1>5, <1>7, FilesFitMore DEF FilesFit, Threads!threads
<1>9. <<"described", n>> \in Known'[th]
  BY <1>2, <1>6 DEF Known, FactsOf, Fact
<1>10. GivesOf(Head(work[c]), n) = {<<"described", n>>}
  BY <1>2 DEF GivesOf
<1>11. Grounded(<<>>, n, Known'[th]) /\ GivesOf(Head(work[c]), n) \subseteq Known'[th]
  BY <1>9, <1>10, GroundedNone
<1>. QED  BY <1>1, <1>4, <1>5, <1>8, <1>11, FileStepKeeps

\* A request for an image that is written whatever it was.
LEMMA AskedAnew ==
  ASSUME ThreadInv, NEW th \in Thread, NEW i \in Threads!Id, NEW new \in AskRecord,
         asked' = [asked EXCEPT ![th][i] = new], new # Threads!NotAsked, There \in Known[th],
         new.status = "fulfilled" => <<"described", new.image>> \in Known[th],
         UNCHANGED <<Threads!threads, snapshots, images, described, drafts>>
  PROVE  /\ FilesTyped' /\ FilesFit' /\ asked'[th][i] = new
         /\ \A t \in Thread : Known[t] \subseteq Known'[t]
<1>1. FilesTyped'
  BY DEF ThreadInv, FilesTyped, Threads!threads
<1>2. /\ asked'[th][i] = new
      /\ \A t \in Thread : \A k \in Threads!Id : ~(t = th /\ k = i) => asked'[t][k] = asked[t][k]
  BY DEF ThreadInv, FilesTyped
<1>3. \A t \in Thread : Known[t] \subseteq Known'[t]
  <2>1. \A t \in Thread : \A k \in Threads!Id : asked[t][k] # Threads!NotAsked => asked'[t][k] # Threads!NotAsked
    BY <1>2
  <2>. QED  BY <1>1, <2>1, FactsGrow DEF ThreadInv, Threads!threads
<1>4. AskedFits(asked', Known')
  <2>1. AskedFits(asked, Known')
    BY <1>3, FilesFitMore
  <2>2. ASSUME NEW t \in Thread, NEW k \in Threads!Id
        PROVE  /\ asked'[t][k] # Threads!NotAsked => There \in Known'[t]
               /\ asked'[t][k].status = "fulfilled" => <<"described", asked'[t][k].image>> \in Known'[t]
    <3>1. CASE t = th /\ k = i
      BY <3>1, <1>2, <1>3
    <3>2. CASE ~(t = th /\ k = i)
      BY <3>2, <1>2, <2>1 DEF AskedFits
    <3>. QED  BY <3>1, <3>2
  <2>. QED  BY <2>2 DEF AskedFits
<1>5. FilesFit'
  BY <1>3, <1>4, FilesFitMore DEF FilesFit, Threads!threads
<1>. QED  BY <1>1, <1>2, <1>3, <1>5

LEMMA AskKeeps ==
  ASSUME ThreadInv, NEW c \in Caller, Threads!request_visual_evidence(c)
  PROVE  ThreadInv'
<1> DEFINE th == turn[c].thread
           n == turn[c].n
           new == [status |-> "pending", image |-> 0, snapshot |-> turn[c].snapshot]
<1>1. /\ Threads!Takes(c, "ask") /\ Threads!Becomes(c, <<>>, turn[c])
      /\ asked' = [asked EXCEPT ![th][n] = new]
      /\ UNCHANGED <<Threads!threads, snapshots, images, described, drafts>>
  BY DEF Threads!request_visual_evidence, Threads!Goes, Threads!thread, Threads!number
<1>2. /\ th \in Thread /\ n \in Threads!Id /\ Head(work[c]).do = "ask" /\ There \in Known[th]
      /\ turn[c] \in TurnRecord
  BY <1>1, StepAtHand
<1>3. new \in AskRecord /\ new.status = "pending" /\ new # Threads!NotAsked
  BY <1>2 DEF AskRecord, TurnRecord, Threads!NotAsked
<1>. HIDE DEF new
<1>4. /\ FilesTyped' /\ FilesFit' /\ asked'[th][n] = new
      /\ \A t \in Thread : Known[t] \subseteq Known'[t]
  BY <1>1, <1>2, <1>3, AskedAnew
<1>5. GivesOf(Head(work[c]), n) = {<<"asked", n>>} /\ n \in Nat
  BY <1>2 DEF GivesOf, Threads!Id
<1>6. <<"asked", n>> \in Known'[th]
  BY <1>2, <1>3, <1>4, <1>5 DEF Known, FactsOf, Fact
<1>7. Grounded(<<>>, n, Known'[th]) /\ GivesOf(Head(work[c]), n) \subseteq Known'[th]
  BY <1>5, <1>6, GroundedNone
<1>. QED  BY <1>1, <1>4, <1>7, FileStepKeeps

LEMMA SettleKeeps ==
  ASSUME ThreadInv, NEW c \in Caller, Threads!Settle(c)
  PROVE  ThreadInv'
<1> DEFINE th == turn[c].thread
           n == turn[c].n
           i == turn[c].target
           done == [asked[th][i] EXCEPT !.status = "fulfilled", !.image = n]
           undone == [asked[th][i] EXCEPT !.status = "failed", !.image = 0]
<1>1. /\ UNCHANGED <<Threads!threads, snapshots, images, described, drafts>>
      /\ Threads!Becomes(c, <<>>, turn[c])
      /\ \/ Threads!Takes(c, "fulfill") /\ asked' = [asked EXCEPT ![th][i] = done]
         \/ Threads!Takes(c, "fail") /\ asked' = [asked EXCEPT ![th][i] = undone]
  BY DEF Threads!Settle, Threads!Goes, Threads!thread, Threads!number
<1>2. PICK what \in {"fulfill", "fail"} : Threads!Takes(c, what)
  BY <1>1
<1>3. /\ th \in Thread /\ n \in Nat /\ Head(work[c]).do = what /\ There \in Known[th]
      /\ NeedsOf(Head(work[c]), n) \subseteq Known[th]
  BY <1>2, StepAtHand, InTurn
<1>4. what = "fulfill" => <<"described", n>> \in Known[th]
  BY <1>3 DEF NeedsOf
<1>5. Threads!Takes(c, "fulfill") => what = "fulfill"
  BY <1>2 DEF Threads!Takes
<1>6. FilesTyped' /\ FilesFit' /\ \A t \in Thread : Known[t] \subseteq Known'[t]
  <2>1. CASE i \in Threads!Id
    <3>1. asked[th][i] \in AskRecord
      BY <1>3, <2>1 DEF ThreadInv, FilesTyped
    <3>2. /\ done \in AskRecord /\ done.status = "fulfilled" /\ done.image = n
          /\ undone \in AskRecord /\ undone.status = "failed"
      BY <1>3, <3>1 DEF AskRecord
    <3>3. done # Threads!NotAsked /\ undone # Threads!NotAsked
      BY <3>2 DEF Threads!NotAsked
    <3>4. CASE Threads!Takes(c, "fulfill") /\ asked' = [asked EXCEPT ![th][i] = done]
      <4>1. <<"described", done.image>> \in Known[th]
        BY <1>4, <1>5, <3>2, <3>4
      <4>. HIDE DEF done
      <4>. QED  BY <1>1, <1>3, <2>1, <3>2, <3>3, <3>4, <4>1, AskedAnew
    <3>5. CASE Threads!Takes(c, "fail") /\ asked' = [asked EXCEPT ![th][i] = undone]
      <4>1. undone.status # "fulfilled"
        BY <3>2
      <4>. HIDE DEF undone
      <4>. QED  BY <1>1, <1>3, <2>1, <3>2, <3>3, <3>5, <4>1, AskedAnew
    <3>. QED  BY <1>1, <3>4, <3>5
  <2>2. CASE i \notin Threads!Id
    <3>1. ASSUME NEW new
          PROVE  [asked EXCEPT ![th][i] = new] = asked
      <4>1. asked \in [Thread -> [Threads!Id -> AskRecord]] /\ asked[th] \in [Threads!Id -> AskRecord]
        BY <1>3 DEF ThreadInv, FilesTyped
      <4>. HIDE DEF th, i
      <4>2. [asked[th] EXCEPT ![i] = new] = asked[th]
        BY <4>1, <2>2
      <4>3. [asked EXCEPT ![th][i] = new] = [asked EXCEPT ![th] = [asked[th] EXCEPT ![i] = new]]
        OBVIOUS
      <4>4. [asked EXCEPT ![th] = asked[th]] = asked
        BY <4>1
      <4>. QED  BY <4>2, <4>3, <4>4
    <3>2. UNCHANGED <<Threads!threads, Threads!media, drafts>>
      BY <1>1, <3>1 DEF Threads!media
    <3>. QED  BY <3>2, FilesStay
  <2>. QED  BY <2>1, <2>2
<1>7. Grounded(<<>>, n, Known'[th]) /\ GivesOf(Head(work[c]), n) \subseteq Known'[th]
  BY <1>3, GroundedNone DEF GivesOf
<1>. QED  BY <1>1, <1>2, <1>6, <1>7, FileStepKeeps

LEMMA ReadPendingKeeps ==
  ASSUME ThreadInv, NEW c \in Caller, Threads!ReadPending(c)
  PROVE  ThreadInv'
<1>1. /\ Threads!Takes(c, "readPending") /\ UNCHANGED <<Threads!threads, Threads!media, drafts>>
      /\ Threads!Becomes(c, <<>>, turn[c]) \/ Threads!Ends(c)
  BY DEF Threads!ReadPending, Threads!Goes
<1>2. CASE Threads!Ends(c)
  BY <1>1, <1>2, EndKeeps
<1>3. CASE Threads!Becomes(c, <<>>, turn[c])
  <2>1. GivesOf(Head(work[c]), turn[c].n) = {}
    BY <1>1 DEF Threads!Takes, GivesOf
  <2>2. Grounded(<<>>, turn[c].n, Known[turn[c].thread])
    BY GroundedNone
  <2>. QED  BY <1>1, <1>3, <2>1, <2>2, InTurn, QuietStepKeeps
<1>. QED  BY <1>1, <1>2, <1>3

LEMMA ContinueKeeps ==
  ASSUME ThreadInv, NEW c \in Caller, Threads!_continue_annotated_draft_after_visual_evidence(c)
  PROVE  ThreadInv'
<1>1. /\ Threads!Takes(c, "continue") /\ UNCHANGED <<Threads!threads, Threads!media, drafts>>
      /\ Threads!Becomes(c, Threads!Do("draft"), turn[c]) \/ Threads!Ends(c)
  BY DEF Threads!_continue_annotated_draft_after_visual_evidence, Threads!GoesOn
<1>2. CASE Threads!Ends(c)
  BY <1>1, <1>2, EndKeeps
<1>3. CASE Threads!Becomes(c, Threads!Do("draft"), turn[c])
  <2>1. GivesOf(Head(work[c]), turn[c].n) = {}
    BY <1>1 DEF Threads!Takes, GivesOf
  <2>2. There \in Known[turn[c].thread] /\ turn[c].n \in Nat
    BY <1>1, StepAtHand, InTurn
  <2>3. Grounded(Threads!Do("draft"), turn[c].n, Known[turn[c].thread])
    BY <2>2, DoGrounded DEF PlainStep
  <2>. QED  BY <1>1, <1>3, <2>1, <2>3, InTurn, QuietStepKeeps
<1>. QED  BY <1>1, <1>2, <1>3

LEMMA RespondKeeps ==
  ASSUME ThreadInv, NEW c \in Caller, Threads!Respond(c)
  PROVE  ThreadInv'
<1> DEFINE r == [turn[c] EXCEPT !.streamed = FALSE]
<1>1. Threads!Takes(c, "respond") /\ UNCHANGED <<Threads!threads, Threads!media, drafts>>
  BY DEF Threads!Respond
<1>2. PICK p \in Threads!Plan : \E w \in Threads!Answer(p, turn[c]) : Threads!Becomes(c, w, r)
  BY DEF Threads!Respond
<1>3. PICK w \in Threads!Answer(p, turn[c]) : Threads!Becomes(c, w, r)
  BY <1>2
<1>4. GivesOf(Head(work[c]), turn[c].n) = {}
  BY <1>1 DEF Threads!Takes, GivesOf
<1>5. There \in Known[turn[c].thread] /\ turn[c].n \in Nat
  BY <1>1, StepAtHand, InTurn
<1>6. Grounded(w, turn[c].n, Known[turn[c].thread])
  BY <1>5, AnswerGrounded
<1>7. r \in TurnRecord /\ r.thread = turn[c].thread /\ r.n = turn[c].n /\ r.links = turn[c].links /\ r.index = turn[c].index
  BY InTurn DEF TurnRecord
<1>8. /\ \A x \in r.links : <<"told", x>> \in Known[turn[c].thread]
      /\ \A t \in r.index : There \in Known[t]
  BY <1>7, InTurn
<1>. HIDE DEF r
<1>. QED  BY <1>1, <1>3, <1>4, <1>6, <1>7, <1>8, QuietStepKeeps

LEMMA DraftKeeps ==
  ASSUME ThreadInv, NEW c \in Caller, Threads!Draft(c)
  PROVE  ThreadInv'
<1> DEFINE th == turn[c].thread
           n == turn[c].n
<1>1. /\ Threads!Takes(c, "draft") /\ UNCHANGED <<Threads!threads, Threads!media>>
      /\ \/ /\ drafts' \in {drafts, drafts \cup {n}}
            /\ \/ Threads!Becomes(c, Threads!append_message("assistant", 0), turn[c])
               \/ Threads!Becomes(c, <<>>, turn[c])
         \/ \E token \in {n, turn[c].token} \ {0} :
              /\ drafts' = drafts \cup {token}
              /\ \/ Threads!Becomes(c, Threads!Tell(token), turn[c])
                 \/ Threads!Becomes(c, Threads!TellProposed(token), turn[c])
  BY DEF Threads!Draft, Threads!GoesOn, Threads!number
<1>2. th \in Thread /\ n \in Nat /\ turn[c].token \in Nat /\ Head(work[c]).do = "draft" /\ There \in Known[th]
  BY <1>1, StepAtHand, InTurn DEF TurnRecord
<1>3. drafts \subseteq drafts' /\ drafts' \subseteq Nat
  BY <1>1, <1>2 DEF ThreadInv, FilesTyped
<1>4. FilesTyped'
  BY <1>1, <1>3 DEF ThreadInv, FilesTyped, Threads!threads, Threads!media
<1>5. \A t \in Thread : Known[t] \subseteq Known'[t]
  BY <1>1, <1>3, <1>4, FactsGrow DEF ThreadInv, Threads!threads, Threads!media
<1>6. FilesFit'
  BY <1>1, <1>5, FilesFitMore DEF FilesFit, Threads!threads, Threads!media
<1>7. GivesOf(Head(work[c]), n) \subseteq Known'[th] /\ There \in Known'[th]
  BY <1>2, <1>5 DEF GivesOf
<1>8. ASSUME NEW w, Threads!Becomes(c, w, turn[c]), Grounded(w, n, Known'[th])
      PROVE  ThreadInv'
  BY <1>1, <1>4, <1>5, <1>6, <1>7, <1>8, FileStepKeeps
<1>9. Grounded(Threads!append_message("assistant", 0), n, Known'[th]) /\ Grounded(<<>>, n, Known'[th])
  BY <1>7, PlainMessageGrounded, GroundedNone DEF MessageType
<1>10. ASSUME NEW token \in {n, turn[c].token} \ {0}, drafts' = drafts \cup {token},
              \/ Threads!Becomes(c, Threads!Tell(token), turn[c])
              \/ Threads!Becomes(c, Threads!TellProposed(token), turn[c])
       PROVE  ThreadInv'
  <2>1. token \in Nat \ {0} /\ token \in drafts'
    BY <1>2, <1>10
  <2>2. <<"draft", token>> \in Known'[th]
    BY <1>2, <2>1 DEF Known, FactsOf, Fact
  <2>3. Grounded(Threads!Tell(token), n, Known'[th]) /\ Grounded(Threads!TellProposed(token), n, Known'[th])
    BY <1>2, <1>7, <2>1, <2>2, TellGrounded
  <2>. QED  BY <1>8, <1>10, <2>3
<1>. QED  BY <1>1, <1>8, <1>9, <1>10

LEMMA ValidatorKeeps ==
  ASSUME ThreadInv, NEW c \in Caller, Threads!RunValidator(c)
  PROVE  ThreadInv'
<1> DEFINE n == turn[c].n
           facts == Known[turn[c].thread]
           E(type, id) == Threads!append_validator_event(type, id)
           Scripts == {E("passed", n), E("failed", n), E("failed", n) \o E("skipped", 0),
                       E("passed", n) \o E("skipped", 0), E("passed", n) \o E("built", n)}
<1>1. /\ Threads!Takes(c, "validate") \/ Threads!Takes(c, "validateAndBuild")
      /\ UNCHANGED <<Threads!threads, Threads!media, drafts>>
      /\ \E w \in Scripts : Threads!Becomes(c, w, turn[c])
  BY DEF Threads!RunValidator, Threads!GoesOn, Threads!number
<1>2. PICK what \in {"validate", "validateAndBuild"} : Threads!Takes(c, what)
  BY <1>1
<1>3. PICK w \in Scripts : Threads!Becomes(c, w, turn[c])
  BY <1>1
<1>4. There \in facts /\ n \in Nat /\ GivesOf(Head(work[c]), n) = {}
  BY <1>2, StepAtHand, InTurn DEF GivesOf
<1>5. Grounded(w, n, facts)
  BY <1>3, <1>4, ValidatedGrounded
<1>. HIDE DEF Scripts
<1>. QED  BY <1>1, <1>2, <1>3, <1>4, <1>5, InTurn, QuietStepKeeps

LEMMA RestartKeeps ==
  ASSUME ThreadInv, Threads!Restart
  PROVE  ThreadInv'
<1>1. /\ work' = [c \in Caller |-> <<>>] /\ turn' = [c \in Caller |-> Threads!NoTurn]
      /\ UNCHANGED <<Threads!threads, Threads!media, drafts>> /\ requests' = requests
  BY DEF Threads!Restart
<1>2. FilesTyped' /\ FilesFit'
  BY <1>1, FilesStay
<1>3. <<>> \in Seq(ThreadStep \cup {NewStep})
  BY EmptySeq
<1>4. CallersTyped'
  BY <1>1, <1>3, IdleTurn DEF ThreadInv, CallersTyped
<1>5. \A c \in Caller : TurnFits(work'[c], turn'[c], Known')
  BY <1>1, IdleTurn
<1>. QED  BY <1>2, <1>4, <1>5 DEF ThreadInv

LEMMA ThreadSteps ==
  ASSUME ThreadInv, Threads!Next
  PROVE  ThreadInv'
<1>1. ASSUME NEW c \in Caller, NEW t \in Thread,
             \/ Threads!Create(c, t) \/ Threads!Patch(c, t) \/ Threads!Post(c, t) \/ Threads!Capture(c, t)
             \/ Threads!Validate(c, t) \/ Threads!Converse(c, t)
             \/ \E i \in Threads!Id : Threads!Complete(c, t, i) \/ Threads!Decline(c, t, i)
      PROVE  ThreadInv'
  BY <1>1, CreateKeeps, AskOfThreadKeeps, ConverseKeeps, CompleteKeeps
<1>2. ASSUME NEW c \in Caller,
             \/ Threads!_require_thread(c) \/ Threads!_append_jsonl(c) \/ Threads!_write_thread(c)
             \/ Threads!_write_index(c) \/ Threads!NewThread(c) \/ Threads!WriteSnapshot(c)
             \/ Threads!_write_bytes_atomic(c) \/ Threads!DescribeImage(c)
             \/ Threads!request_visual_evidence(c) \/ Threads!ReadPending(c) \/ Threads!Settle(c)
             \/ Threads!_continue_annotated_draft_after_visual_evidence(c) \/ Threads!Respond(c)
             \/ Threads!Draft(c) \/ Threads!RunValidator(c)
      PROVE  ThreadInv'
  BY <1>2, RequireKeeps, AppendKeeps, WriteThreadKeeps, WriteIndexKeeps, NewThreadKeeps, WriteSnapshotKeeps,
     WriteBytesKeeps, DescribeKeeps, AskKeeps, ReadPendingKeeps, SettleKeeps, ContinueKeeps, RespondKeeps,
     DraftKeeps, ValidatorKeeps
<1>. QED  BY <1>1, <1>2, RestartKeeps DEF Threads!Next

\* Nothing is there, or a request for an image waits in each thread.
LEMMA ThreadStarts ==
  ASSUME Threads!Init
  PROVE  ThreadInv
<1> DEFINE Waits(t) == t \in listed
           waiting == {[type |-> "user", id |-> 1], [type |-> "plan", id |-> 0], [type |-> "waiting", id |-> 1]}
           pending1 == [status |-> "pending", image |-> 0, snapshot |-> 1]
<1>1. /\ listed \subseteq Thread
      /\ record = [t \in Thread |-> IF Waits(t) THEN [linked |-> {}] ELSE Threads!Missing]
      /\ messages = [t \in Thread |-> IF Waits(t) THEN waiting ELSE {}]
      /\ snapshots = [t \in Thread |-> [i \in Threads!Id |-> IF Waits(t) /\ i = 1 THEN "annotated" ELSE "none"]]
      /\ asked = [t \in Thread |-> [i \in Threads!Id |-> IF Waits(t) /\ i = 1 THEN pending1 ELSE Threads!NotAsked]]
      /\ images = [t \in Thread |-> {}] /\ described = images /\ drafts = {}
      /\ turn = [c \in Caller |-> Threads!NoTurn] /\ work = [c \in Caller |-> <<>>] /\ requests = 1
  BY DEF Threads!Init
<1>2. 1 \in Threads!Id /\ waiting \subseteq Message /\ pending1 \in AskRecord /\ Threads!NotAsked \in AskRecord
      /\ pending1 # Threads!NotAsked /\ pending1.status = "pending" /\ Threads!NotAsked.status = "none"
  BY ThreadAssumption DEF Threads!Id, Message, MessageType, AskRecord, Threads!NotAsked
<1>3. [linked |-> {}] # Threads!Missing /\ [linked |-> {}] \in [linked : SUBSET Nat] /\ Threads!Missing \in [linked : SUBSET Nat]
  BY DEF Threads!Missing
<1>. HIDE DEF pending1
<1>4. FilesTyped
  BY <1>1, <1>2, <1>3 DEF FilesTyped
<1>5. <<>> \in Seq(ThreadStep \cup {NewStep})
  BY EmptySeq
<1>6. CallersTyped
  BY <1>1, <1>5, IdleTurn DEF CallersTyped
<1>7. ASSUME NEW t \in Thread, Waits(t)
      PROVE  There \in Known[t] /\ <<"snapshot", 1>> \in Known[t] /\ <<"asked", 1>> \in Known[t]
  BY <1>1, <1>2, <1>3, <1>7 DEF Known, FactsOf, There, Fact
<1>8. ListedFits(listed, Known)
  BY <1>1, <1>7 DEF ListedFits
<1>9. MessagesFit(messages, Known)
  <2>1. ASSUME NEW t \in Thread, NEW m \in messages[t]
        PROVE  Wants(m) \subseteq Known[t]
    <3>1. Waits(t) /\ m \in waiting
      BY <1>1
    <3>. QED  BY <1>7, <3>1 DEF Wants
  <2>. QED  BY <2>1 DEF MessagesFit
<1>10. LinkedFits(record, Known) /\ DescribedFits(described, Known)
  BY <1>1 DEF LinkedFits, DescribedFits
<1>11. AskedFits(asked, Known)
  <2>1. ASSUME NEW t \in Thread, NEW i \in Threads!Id
        PROVE  asked[t][i].status # "fulfilled" /\ (asked[t][i] # Threads!NotAsked => Waits(t))
    BY <1>1, <1>2
  <2>. QED  BY <1>7, <2>1 DEF AskedFits
<1>12. \A c \in Caller : TurnFits(work[c], turn[c], Known)
  BY <1>1, IdleTurn
<1>. QED  BY <1>4, <1>6, <1>8, <1>9, <1>10, <1>11, <1>12 DEF ThreadInv, FilesFit

\* What fits what is known is there.
LEMMA ThreadReferencesResolve == ThreadInv => Threads!EveryReferenceResolves
<1> SUFFICES ASSUME ThreadInv, NEW t \in Thread
    PROVE  /\ t \in listed => Threads!Exists(t)
           /\ \A m \in messages[t] :
                m.id # 0 =>
                  CASE m.type = "user" -> snapshots[t][m.id] # "none"
                    [] m.type \in {"waiting", "asked"} -> asked[t][m.id] # Threads!NotAsked
                    [] m.type = "built" -> \E other \in messages[t] : other = [m EXCEPT !.type = "passed"]
                    [] m.type \in {"passed", "failed"} -> TRUE
                    [] OTHER -> m.id \in drafts
           /\ Threads!Exists(t) => \A token \in record[t].linked :
                \E m \in messages[t] : m.type \in {"propose", "apply"} /\ m.id = token
           /\ described[t] \subseteq images[t]
           /\ \A i \in Threads!Id : asked[t][i].status = "fulfilled" => asked[t][i].image \in described[t]
  BY DEF Threads!EveryReferenceResolves
<1>1. Known[t] = FactsOf(record[t], messages[t], snapshots[t], images[t], described[t], asked[t], drafts)
  BY DEF Known
<1>2. t \in listed => Threads!Exists(t)
  BY <1>1 DEF ThreadInv, FilesFit, ListedFits, FactsOf, There, Threads!Exists
<1>3. ASSUME NEW m \in messages[t], m.id # 0
      PROVE  CASE m.type = "user" -> snapshots[t][m.id] # "none"
               [] m.type \in {"waiting", "asked"} -> asked[t][m.id] # Threads!NotAsked
               [] m.type = "built" -> \E other \in messages[t] : other = [m EXCEPT !.type = "passed"]
               [] m.type \in {"passed", "failed"} -> TRUE
               [] OTHER -> m.id \in drafts
  <2>1. Wants(m) \subseteq Known[t] /\ m \in Message
    BY DEF ThreadInv, FilesFit, MessagesFit, FilesTyped
  <2>2. CASE m.type = "user"
    <3>1. <<"snapshot", m.id>> \in Known[t]
      BY <1>3, <2>1, <2>2 DEF Wants
    <3>2. snapshots[t][m.id] # "none"
      BY <1>1, <3>1 DEF FactsOf
    <3>. QED  BY <2>2, <3>2
  <2>3. CASE m.type \in {"waiting", "asked"}
    <3>1. <<"asked", m.id>> \in Known[t]
      BY <1>3, <2>1, <2>3 DEF Wants
    <3>2. asked[t][m.id] # Threads!NotAsked
      BY <1>1, <3>1 DEF FactsOf
    <3>. QED  BY <2>3, <3>2
  <2>4. CASE m.type = "built"
    <3>1. <<"passed", m.id>> \in Known[t]
      BY <1>3, <2>1, <2>4 DEF Wants
    <3>2. [type |-> "passed", id |-> m.id] \in messages[t]
      BY <1>1, <3>1 DEF FactsOf
    <3>3. [m EXCEPT !.type = "passed"] = [type |-> "passed", id |-> m.id]
      BY <2>1 DEF Message
    <3>. QED  BY <2>4, <3>2, <3>3
  <2>5. CASE m.type \in {"passed", "failed"}
    BY <2>5
  <2>6. CASE m.type \notin {"user", "waiting", "asked", "built", "passed", "failed"}
    <3>1. <<"draft", m.id>> \in Known[t]
      BY <1>3, <2>1, <2>6 DEF Wants
    <3>2. m.id \in drafts
      BY <1>1, <3>1 DEF FactsOf
    <3>. QED  BY <2>6, <3>2
  <2>. QED  BY <2>2, <2>3, <2>4, <2>5, <2>6
<1>4. Threads!Exists(t) => \A token \in record[t].linked :
        \E m \in messages[t] : m.type \in {"propose", "apply"} /\ m.id = token
  <2>1. Threads!Exists(t) => \A token \in record[t].linked : <<"told", token>> \in Known[t]
    BY DEF ThreadInv, FilesFit, LinkedFits, Threads!Exists
  <2>. QED  BY <1>1, <2>1 DEF FactsOf
<1>5. described[t] \subseteq images[t]
  BY <1>1 DEF ThreadInv, FilesFit, DescribedFits, FactsOf
<1>6. \A i \in Threads!Id : asked[t][i].status = "fulfilled" => asked[t][i].image \in described[t]
  BY <1>1 DEF ThreadInv, FilesFit, AskedFits, FactsOf
<1>. QED  BY <1>2, <1>3, <1>4, <1>5, <1>6

LEMMA ThreadAlways == WorkbenchSpec => []ThreadInv
<1>1. WorkbenchInit => ThreadInv
  BY ThreadStarts DEF WorkbenchInit
<1>2. ThreadInv /\ [WorkbenchNext]_workbenchVars => ThreadInv'
  <2> SUFFICES ASSUME ThreadInv, [WorkbenchNext]_workbenchVars PROVE ThreadInv'
    OBVIOUS
  <2>1. CASE Threads!Next
    BY <2>1, ThreadSteps
  <2>2. CASE UNCHANGED threadVars
    BY <2>2 DEF threadVars, ThreadInv, FilesTyped, CallersTyped, FilesFit, Known
  <2>. QED
    BY <2>1, <2>2 DEF WorkbenchNext, workbenchVars, sessionVars
<1>. QED  BY <1>1, <1>2, PTL DEF WorkbenchSpec

-----------------------------------------------------------------------------
(* Agent screen: the routes and what is left of them.                      *)

AskRoute == <<"ask">>
Plain1 == <<"image", "metadata", "latest">>
Plain2 == Tail(Plain1)
Plain3 == Tail(Plain2)
Polled1 == <<"image", "metadata", "latest", "read", "fulfilled">>
Polled2 == Tail(Polled1)
Polled3 == Tail(Polled2)
Polled4 == Tail(Polled3)
Polled5 == Tail(Polled4)
Fail1 == <<"read", "failed">>
Fail2 == Tail(Fail1)

LEMMA RoutesOfScreen ==
  /\ AskRoute # <<>> /\ Head(AskRoute) = "ask" /\ Tail(AskRoute) = <<>>
  /\ Plain1 # <<>> /\ Head(Plain1) = "image" /\ Plain2 # <<>> /\ Head(Plain2) = "metadata"
  /\ Plain3 # <<>> /\ Head(Plain3) = "latest" /\ Tail(Plain3) = <<>>
  /\ Polled1 # <<>> /\ Head(Polled1) = "image" /\ Polled2 # <<>> /\ Head(Polled2) = "metadata"
  /\ Polled3 # <<>> /\ Head(Polled3) = "latest" /\ Polled4 # <<>> /\ Head(Polled4) = "read"
  /\ Polled5 # <<>> /\ Head(Polled5) = "fulfilled" /\ Tail(Polled5) = <<>>
  /\ Fail1 # <<>> /\ Head(Fail1) = "read" /\ Fail2 # <<>> /\ Head(Fail2) = "failed" /\ Tail(Fail2) = <<>>
  /\ Len(AskRoute) = 1 /\ Len(Plain1) = 3 /\ Len(Plain2) = 2 /\ Len(Plain3) = 1
  /\ Len(Polled1) = 5 /\ Len(Polled2) = 4 /\ Len(Polled3) = 3 /\ Len(Polled4) = 2 /\ Len(Polled5) = 1
  /\ Len(Fail1) = 2 /\ Len(Fail2) = 1
BY DEF AskRoute, Plain1, Plain2, Plain3, Polled1, Polled2, Polled3, Polled4, Polled5, Fail1, Fail2

LEMMA RoutesDiffer ==
  /\ Plain1 \notin {AskRoute, Polled1, Polled2, Polled3, Polled4, Polled5, Fail1, Fail2}
  /\ Fail1 # Polled4
<1>1. Plain1 # Polled1
  <2>1. Len(Plain1) = 3 /\ Len(Polled1) = 5
    BY RoutesOfScreen
  <2>. QED  BY <2>1
<1>2. Fail1 # Polled4
  <2>1. Tail(Fail1) # Tail(Polled4)
    BY RoutesOfScreen DEF Fail2, Polled5
  <2>. QED  BY <2>1
<1>3. Plain1 # AskRoute /\ Plain1 # Polled2
  BY RoutesOfScreen
<1>5. Plain1 # Polled3 /\ Plain1 # Polled4 /\ Plain1 # Polled5
  BY RoutesOfScreen
<1>4. Plain1 # Fail1 /\ Plain1 # Fail2
  BY RoutesOfScreen
<1>. QED  BY <1>1, <1>2, <1>3, <1>4, <1>5

LEMMA RoutesOfPictures ==
  /\ Screens!capture(0) = Plain1
  /\ \A r : r # 0 => Screens!capture(r) = Polled1
<1>1. Screens!capture(0) = Plain1
  BY DEF Screens!capture, Plain1
<1>2. ASSUME NEW r, r # 0
      PROVE  Screens!capture(r) = Polled1
  <2> DEFINE x == <<"image", "metadata", "latest">> \o <<"read", "fulfilled">>
             y == <<"image", "metadata", "latest", "read", "fulfilled">>
             S == {"image", "metadata", "latest", "read", "fulfilled"}
  <2>1. Screens!capture(r) = x
    BY <1>2 DEF Screens!capture
  <2>2. /\ x \in Seq(S) /\ Len(x) = 5 /\ x[1] = "image" /\ x[2] = "metadata" /\ x[3] = "latest"
        /\ x[4] = "read" /\ x[5] = "fulfilled"
        /\ y \in Seq(S) /\ Len(y) = 5 /\ y[1] = "image" /\ y[2] = "metadata" /\ y[3] = "latest"
        /\ y[4] = "read" /\ y[5] = "fulfilled"
    OBVIOUS
  <2> HIDE DEF x, y, S
  <2>3. \A i \in 1 .. Len(x) : x[i] = y[i]
    BY <2>2
  <2>4. x = y
    BY <2>2, <2>3, SeqEqual
  <2>. QED  BY <2>1, <2>4 DEF y, Polled1
<1>. QED  BY <1>1, <1>2

\* A sequence of requests that one is taken out of.
LEMMA WithoutOne ==
  ASSUME NEW S, NEW q \in Seq(S), NEW r
  PROVE  Screens!Without(q, r) \in Seq(S)
<1>1. Len(q) \in Nat /\ \A i \in 1 .. Len(q) : q[i] \in S
  BY ElementOfSeq
<1>2. CASE \A i \in 1 .. Len(q) : q[i] # r
  BY <1>2 DEF Screens!Without
<1>3. CASE ~ \A i \in 1 .. Len(q) : q[i] # r
  <2>1. Len(q) - 1 \in Nat
    BY <1>1, <1>3
  <2> DEFINE t == [i \in 1 .. Len(q) - 1 |-> IF \E k \in 1 .. i : q[k] = r THEN q[i + 1] ELSE q[i]]
  <2>2. t \in [1 .. Len(q) - 1 -> S]
    BY <1>1, <2>1
  <2>3. t \in Seq(S)
    BY <2>1, <2>2, IsASeq
  <2>. QED  BY <2>3, <1>3 DEF Screens!Without
<1>. QED  BY <1>2, <1>3

-----------------------------------------------------------------------------
(* Agent screen: what a route relies on.                                   *)

Wanted == [status : {"none", "pending", "fulfilled", "failed"}, shot : Nat]
InHand == [request : Nat, shot : Nat, copy : Wanted]

Untold == {Plain1, Plain2, Polled1, Polled2}
ToldOf == {Plain3, Polled3, Polled4, Polled5}
OfRequest == {AskRoute, Polled1, Polled2, Polled3, Polled4, Polled5, Fail1, Fail2}

LEMMA NoWanted == Screens!NoRequest \in Wanted
BY DEF Wanted, Screens!NoRequest

\* A route is at s with h in hand, pics are the pictures and of what they are of.
Serving(s, h, pics, of) ==
  /\ s \in {<<>>} \cup Untold \cup ToldOf \cup OfRequest
  /\ s \in OfRequest => h.request \in Screens!Request
  /\ s \in Untold => h.shot \in Screens!Shot /\ of[h.shot] = Screens!NoData
  /\ s \in {Plain2, Polled2} => h.shot \in pics
  /\ s \in ToldOf => h.shot \in Screens!Shot /\ of[h.shot] = h.request
  /\ s = Fail2 => /\ h.copy.shot # 0 => h.copy.shot \in Screens!Shot /\ of[h.copy.shot] = h.request

\* The pictures that were taken for their requests.
WantedFits(want, of) ==
  \A r \in Screens!Request :
    /\ want[r].shot # 0 => want[r].shot \in Screens!Shot /\ of[want[r].shot] = r
    /\ want[r].status = "fulfilled" => want[r].shot # 0

PicturesFit ==
  /\ latestShot # 0 => latestShot \in Screens!Shot /\ shotOf[latestShot] # Screens!NoData
  /\ \A n \in Screens!Shot : shotOf[n] # Screens!NoData => n \in shots
  /\ \A n \in Screens!Shot : n > shotCount => shotOf[n] = Screens!NoData

\* Two routes do not have the same new picture.
PicturesAreOwn ==
  \A c \in Route : route[c] \in Untold =>
    /\ inHand[c].shot <= shotCount
    /\ \A d \in Route : d # c /\ route[d] \in Untold => inHand[d].shot # inHand[c].shot

ScreenTyped ==
  /\ shotCount \in Nat
  /\ shotOf \in [Screens!Shot -> Int]
  /\ wanted \in [Screens!Request -> Wanted]
  /\ dated \in Seq(Screens!Request) /\ polled \subseteq Screens!Request
  /\ DOMAIN route = Route
  /\ inHand \in [Route -> InHand]

ScreenInv ==
  /\ ScreenTyped /\ PicturesFit /\ PicturesAreOwn /\ WantedFits(wanted, shotOf)
  /\ \A c \in Route : Serving(route[c], inHand[c], shots, shotOf)

\* The routes that are served, by what comes next.
LEMMA RouteOf ==
  ASSUME NEW s \in {<<>>} \cup Untold \cup ToldOf \cup OfRequest, s # <<>>
  PROVE  /\ Head(s) = "ask" => s = AskRoute
         /\ Head(s) = "image" => s \in {Plain1, Polled1}
         /\ Head(s) = "metadata" => s \in {Plain2, Polled2}
         /\ Head(s) = "latest" => s \in {Plain3, Polled3}
         /\ Head(s) = "read" => s \in {Polled4, Fail1}
         /\ Head(s) = "fulfilled" => s = Polled5
         /\ Head(s) = "failed" => s = Fail2
BY RoutesOfScreen DEF Untold, ToldOf, OfRequest

LEMMA IdleServes ==
  ASSUME NEW h, NEW pics, NEW of
  PROVE  Serving(<<>>, h, pics, of)
BY RoutesOfScreen DEF Serving, Untold, ToldOf, OfRequest

\* What other routes do to the pictures.
LEMMA OthersServe ==
  ASSUME NEW s, NEW h \in InHand, NEW pics, NEW of, NEW pics2, NEW of2,
         Serving(s, h, pics, of), pics \subseteq pics2,
         \A n \in Screens!Shot :
           of2[n] = of[n] \/ (of[n] = Screens!NoData /\ (s \in Untold => h.shot # n))
  PROVE  Serving(s, h, pics2, of2)
<1>1. /\ s \in {<<>>} \cup Untold \cup ToldOf \cup OfRequest
      /\ s \in OfRequest => h.request \in Screens!Request
      /\ s \in {Plain2, Polled2} => h.shot \in pics2
  BY DEF Serving
<1>2. s \in Untold => h.shot \in Screens!Shot /\ of2[h.shot] = Screens!NoData
  BY DEF Serving
<1>3. h.request # Screens!NoData /\ h.request \in Nat
  BY DEF InHand, Screens!NoData
<1>4. s \in ToldOf => h.shot \in Screens!Shot /\ of2[h.shot] = h.request
  BY <1>3 DEF Serving
<1>5. s = Fail2 /\ h.copy.shot # 0 => h.copy.shot \in Screens!Shot /\ of2[h.copy.shot] = h.request
  BY <1>3 DEF Serving
<1>. QED  BY <1>1, <1>2, <1>4, <1>5 DEF Serving

LEMMA WantedStays ==
  ASSUME NEW want, NEW of, NEW of2, WantedFits(want, of),
         \A n \in Screens!Shot : of2[n] = of[n] \/ of[n] = Screens!NoData
  PROVE  WantedFits(want, of2)
<1>1. \A r \in Screens!Request : r # Screens!NoData
  BY ScreenAssumption DEF Screens!Request, Screens!NoData
<1>. QED  BY <1>1 DEF WantedFits

\* A step of one route.
LEMMA RouteTurns ==
  ASSUME ScreenInv, NEW c \in Route, ScreenTyped', PicturesFit', WantedFits(wanted', shotOf'),
         \A d \in Route : d # c => route'[d] = route[d] /\ inHand'[d] = inHand[d],
         shots \subseteq shots', shotCount <= shotCount',
         \A n \in Screens!Shot :
           \/ shotOf'[n] = shotOf[n]
           \/ shotOf[n] = Screens!NoData /\ route[c] \in Untold /\ n = inHand[c].shot,
         Serving(route'[c], inHand'[c], shots', shotOf'),
         route'[c] \in Untold =>
           \/ inHand'[c].shot = inHand[c].shot /\ route[c] \in Untold
           \/ inHand'[c].shot = shotCount + 1 /\ shotCount' = shotCount + 1
  PROVE  ScreenInv'
<1>1. /\ shotCount \in Nat /\ shotCount' \in Nat /\ inHand \in [Route -> InHand]
  BY DEF ScreenInv, ScreenTyped
<1>2. ASSUME NEW d \in Route, d # c
      PROVE  Serving(route'[d], inHand'[d], shots', shotOf')
  <2>1. Serving(route[d], inHand[d], shots, shotOf) /\ inHand[d] \in InHand
    BY <1>1 DEF ScreenInv
  <2>2. route[c] \in Untold /\ route[d] \in Untold => inHand[d].shot # inHand[c].shot
    BY <1>2 DEF ScreenInv, PicturesAreOwn
  <2>3. \A n \in Screens!Shot :
          shotOf'[n] = shotOf[n] \/ (shotOf[n] = Screens!NoData /\ (route[d] \in Untold => inHand[d].shot # n))
    BY <2>2
  <2>4. Serving(route[d], inHand[d], shots', shotOf')
    BY <2>1, <2>3, OthersServe
  <2>. QED  BY <1>2, <2>4
<1>3. ASSUME NEW d \in Route, d # c, route[d] \in Untold
      PROVE  /\ inHand[d].shot <= shotCount /\ inHand[d].shot \in Nat
             /\ route'[c] \in Untold => inHand'[c].shot # inHand[d].shot
  <2>1. inHand[d].shot <= shotCount /\ inHand[d].shot \in Nat
    BY <1>1, <1>3 DEF ScreenInv, PicturesAreOwn, InHand
  <2>2. CASE inHand'[c].shot = inHand[c].shot /\ route[c] \in Untold
    BY <2>1, <2>2, <1>3 DEF ScreenInv, PicturesAreOwn
  <2>3. CASE inHand'[c].shot = shotCount + 1
    BY <2>1, <2>3, <1>1
  <2>. QED  BY <2>1, <2>2, <2>3
<1>4. route'[c] \in Untold => inHand'[c].shot <= shotCount'
  <2>1. route[c] \in Untold => inHand[c].shot <= shotCount /\ inHand[c].shot \in Nat
    BY <1>1 DEF ScreenInv, PicturesAreOwn, InHand
  <2>. QED  BY <2>1, <1>1
<1>5. ASSUME NEW a \in Route, NEW d \in Route, route'[a] \in Untold
      PROVE  /\ inHand'[a].shot <= shotCount'
             /\ d # a /\ route'[d] \in Untold => inHand'[d].shot # inHand'[a].shot
  <2>1. CASE a = c
    BY <2>1, <1>3, <1>4, <1>5
  <2>2. CASE a # c /\ d = c
    BY <2>2, <1>1, <1>3, <1>5
  <2>3. CASE a # c /\ d # c
    BY <2>3, <1>1, <1>3, <1>5 DEF ScreenInv, PicturesAreOwn
  <2>. QED  BY <2>1, <2>2, <2>3
<1>6. PicturesAreOwn'
  BY <1>5 DEF PicturesAreOwn
<1>. QED  BY <1>2, <1>6 DEF ScreenInv

-----------------------------------------------------------------------------
(* Agent screen: the routes keep it.                                       *)

\* A route that begins; it may have the number of a new picture.
LEMMA ServesKeeps ==
  ASSUME ScreenInv, NEW c \in Route, NEW s \in {AskRoute, Plain1, Polled1, Fail1},
         NEW r \in Nat, NEW n \in Nat, Screens!Serves(c, s, r, n),
         s \in OfRequest => r \in Screens!Request,
         \/ s \notin Untold /\ shotCount' = shotCount
         \/ n = shotCount + 1 /\ shotCount' = n /\ n <= MaxShots,
         UNCHANGED <<shots, shotOf, latestShot, wanted, dated, polled>>
  PROVE  ScreenInv'
<1> DEFINE h == [request |-> r, shot |-> n, copy |-> Screens!NoRequest]
<1>1. h \in InHand
  BY NoWanted DEF InHand
<1>2. /\ route' = [route EXCEPT ![c] = s] /\ inHand' = [inHand EXCEPT ![c] = h]
  BY DEF Screens!Serves
<1>3. h.request = r /\ h.shot = n
  OBVIOUS
<1> HIDE DEF h
<1>4. /\ route'[c] = s /\ inHand'[c] = h /\ DOMAIN route' = Route /\ inHand' \in [Route -> InHand]
      /\ \A d \in Route : d # c => route'[d] = route[d] /\ inHand'[d] = inHand[d]
  BY <1>1, <1>2 DEF ScreenInv, ScreenTyped
<1>5. shotCount \in Nat /\ shotCount' \in Nat /\ shotCount <= shotCount'
  BY DEF ScreenInv, ScreenTyped
<1>6. ScreenTyped'
  BY <1>4, <1>5 DEF ScreenInv, ScreenTyped
<1>7. PicturesFit' /\ WantedFits(wanted', shotOf')
  <2>1. \A m \in Screens!Shot : m \in Nat
    BY ScreenAssumption DEF Screens!Shot
  <2>. QED  BY <2>1, <1>5 DEF ScreenInv, PicturesFit
<1>8. s \in Untold => n \in Screens!Shot /\ shotOf[n] = Screens!NoData /\ n = shotCount + 1
                      /\ shotCount' = shotCount + 1
  <2> SUFFICES ASSUME s \in Untold
               PROVE  n \in Screens!Shot /\ shotOf[n] = Screens!NoData /\ n = shotCount + 1
                      /\ shotCount' = shotCount + 1
    OBVIOUS
  <2>1. n = shotCount + 1 /\ n <= MaxShots /\ shotCount' = n
    OBVIOUS
  <2>2. n \in Screens!Shot
    BY <2>1, <1>5, ScreenAssumption DEF Screens!Shot
  <2>3. n > shotCount
    BY <2>1, <1>5
  <2>. QED  BY <2>1, <2>2, <2>3 DEF ScreenInv, PicturesFit
<1>9. s \notin ToldOf /\ s \notin {Plain2, Polled2, Fail2}
  BY RoutesOfScreen, RoutesDiffer DEF ToldOf
<1>10. s \in {<<>>} \cup Untold \cup ToldOf \cup OfRequest
  BY DEF Untold, OfRequest
<1>11. Serving(s, h, shots, shotOf)
  BY <1>3, <1>8, <1>9, <1>10 DEF Serving
<1>. QED  BY <1>3, <1>4, <1>5, <1>6, <1>7, <1>8, <1>11, RouteTurns

LEMMA RequestCaptureKeeps ==
  ASSUME ScreenInv, NEW c \in Route, Screens!request_capture(c)
  PROVE  ScreenInv'
<1>1. PICK r \in Screens!Request : Screens!Serves(c, AskRoute, r, 0)
  BY DEF Screens!request_capture, AskRoute
<1>2. r \in Nat
  BY ScreenAssumption DEF Screens!Request
<1>3. AskRoute \notin Untold
  BY RoutesOfScreen DEF Untold
<1>4. shotCount' = shotCount /\ UNCHANGED <<shots, shotOf, latestShot, wanted, dated, polled>>
  BY DEF Screens!request_capture, Screens!captures, Screens!requestFiles
<1>. QED  BY <1>1, <1>2, <1>3, <1>4, ServesKeeps

LEMMA PostCaptureKeeps ==
  ASSUME ScreenInv, NEW c \in Route, Screens!PostCapture(c)
  PROVE  ScreenInv'
<1>1. PICK r \in polled \cup {0} : Screens!Serves(c, Screens!capture(r), r, shotCount + 1)
  BY DEF Screens!PostCapture
<1>2. /\ polled \subseteq Screens!Request /\ shotCount \in Nat
      /\ \A p \in Screens!Request : p \in Nat /\ p # 0
  BY ScreenAssumption DEF ScreenInv, ScreenTyped, Screens!Request
<1>3. r \in Nat /\ shotCount + 1 \in Nat
  BY <1>1, <1>2
<1>4. /\ shotCount' = shotCount + 1 /\ shotCount + 1 <= MaxShots
      /\ UNCHANGED <<shots, shotOf, latestShot, wanted, dated, polled>>
  BY <1>2, ScreenAssumption DEF Screens!PostCapture, Screens!captures, Screens!requestFiles
<1>5. CASE r = 0
  <2>1. Screens!Serves(c, Plain1, r, shotCount + 1)
    BY <1>1, <1>5, RoutesOfPictures
  <2>2. Plain1 \notin OfRequest
    BY RoutesDiffer DEF OfRequest
  <2>. QED  BY <1>3, <1>4, <2>1, <2>2, ServesKeeps
<1>6. CASE r # 0
  <2>1. Screens!Serves(c, Polled1, r, shotCount + 1)
    BY <1>1, <1>6, RoutesOfPictures
  <2>2. r \in Screens!Request
    BY <1>1, <1>2, <1>6
  <2>. QED  BY <1>3, <1>4, <2>1, <2>2, ServesKeeps
<1>. QED  BY <1>5, <1>6

LEMMA FailRequestKeeps ==
  ASSUME ScreenInv, NEW c \in Route, Screens!fail_request(c)
  PROVE  ScreenInv'
<1>1. PICK r \in polled : Screens!Serves(c, Fail1, r, 0)
  BY DEF Screens!fail_request, Fail1
<1>2. r \in Screens!Request /\ r \in Nat
  BY ScreenAssumption DEF ScreenInv, ScreenTyped, Screens!Request
<1>3. Fail1 \notin Untold
  BY RoutesOfScreen DEF Untold
<1>4. shotCount' = shotCount /\ UNCHANGED <<shots, shotOf, latestShot, wanted, dated, polled>>
  BY DEF Screens!fail_request, Screens!captures, Screens!requestFiles, Screens!counts
<1>. QED  BY <1>1, <1>2, <1>3, <1>4, ServesKeeps

LEMMA LatestRequestKeeps ==
  ASSUME ScreenInv, Screens!latest_request
  PROVE  ScreenInv'
<1>1. /\ dated # <<>> /\ polled' = polled \cup {dated[Len(dated)]}
      /\ UNCHANGED <<shots, shotOf, latestShot, wanted, dated, route, inHand, shotCount>>
  BY DEF Screens!latest_request, Screens!captures, Screens!requestFiles, Screens!counts
<1>2. dated \in Seq(Screens!Request) /\ polled \subseteq Screens!Request
  BY DEF ScreenInv, ScreenTyped
<1>3. Len(dated) \in 1 .. Len(dated)
  BY <1>1, <1>2, EmptySeq
<1>4. polled' \subseteq Screens!Request
  BY <1>1, <1>2, <1>3, ElementOfSeq
<1>. QED  BY <1>1, <1>4 DEF ScreenInv, ScreenTyped, PicturesFit, PicturesAreOwn

\* What the route is left with when it forgets what it is done with.
LEMMA RouteForgets ==
  ASSUME ScreenInv, NEW c \in Route, Screens!Forgets(c), NEW t, route' = [route EXCEPT ![c] = t]
  PROVE  /\ route'[c] = t /\ DOMAIN route' = Route /\ inHand' \in [Route -> InHand]
         /\ \A d \in Route : d # c => route'[d] = route[d] /\ inHand'[d] = inHand[d]
         /\ t # <<>> => inHand'[c] = inHand[c]
<1>1. Screens!NothingInHand \in InHand
  BY NoWanted DEF Screens!NothingInHand, InHand
<1>2. route'[c] = t /\ DOMAIN route' = Route /\ \A d \in Route : d # c => route'[d] = route[d]
  BY DEF ScreenInv, ScreenTyped
<1>3. inHand \in [Route -> InHand]
  BY DEF ScreenInv, ScreenTyped
<1>4. CASE t = <<>>
  <2>1. inHand' = [inHand EXCEPT ![c] = Screens!NothingInHand]
    BY <1>2, <1>4 DEF Screens!Forgets
  <2>. QED  BY <1>1, <1>2, <1>3, <1>4, <2>1
<1>5. CASE t # <<>>
  <2>1. inHand' = inHand
    BY <1>2, <1>5 DEF Screens!Forgets
  <2>. QED  BY <1>2, <1>3, <2>1
<1>. QED  BY <1>4, <1>5

LEMMA StopKeepsScreen ==
  ASSUME ScreenInv, NEW c \in Route, Screens!Stop(c)
  PROVE  ScreenInv'
<1>1. /\ route' = [route EXCEPT ![c] = <<>>] /\ Screens!Forgets(c)
      /\ UNCHANGED <<shots, shotOf, latestShot, wanted, dated, polled, shotCount>>
  BY DEF Screens!Stop, Screens!captures, Screens!requestFiles
<1>2. /\ route'[c] = <<>> /\ DOMAIN route' = Route /\ inHand' \in [Route -> InHand]
      /\ \A d \in Route : d # c => route'[d] = route[d] /\ inHand'[d] = inHand[d]
  BY <1>1, RouteForgets
<1>3. Serving(route'[c], inHand'[c], shots', shotOf')
  BY <1>2, IdleServes
<1>4. ScreenTyped' /\ PicturesFit' /\ WantedFits(wanted', shotOf') /\ shotCount <= shotCount'
  BY <1>1, <1>2 DEF ScreenInv, ScreenTyped, PicturesFit
<1>5. <<>> \notin Untold
  BY RoutesOfScreen DEF Untold
<1>. QED  BY <1>1, <1>2, <1>3, <1>4, <1>5, RouteTurns

\* What the route serves of and what it has in hand.
LEMMA ServedBy ==
  ASSUME ScreenInv, NEW c \in Route, NEW names, Screens!Takes(c, names)
  PROVE  /\ route[c] \in {<<>>} \cup Untold \cup ToldOf \cup OfRequest /\ route[c] # <<>>
         /\ Head(route[c]) \in names
         /\ Serving(route[c], inHand[c], shots, shotOf) /\ inHand[c] \in InHand
BY DEF Screens!Takes, ScreenInv, ScreenTyped, Serving

LEMMA GetRequestKeeps ==
  ASSUME ScreenInv, NEW c \in Route, Screens!get_request(c)
  PROVE  ScreenInv'
<1>1. /\ Screens!Takes(c, {"read"}) /\ route' = [route EXCEPT ![c] = Tail(route[c])]
      /\ inHand' = [inHand EXCEPT ![c].copy = wanted[inHand[c].request]]
      /\ UNCHANGED <<shots, shotOf, latestShot, wanted, dated, polled, shotCount>>
  BY DEF Screens!get_request, Screens!Goes, Screens!captures, Screens!requestFiles, Screens!counts
<1>2. /\ route[c] \in {Polled4, Fail1} /\ inHand[c] \in InHand
      /\ Serving(route[c], inHand[c], shots, shotOf)
  BY <1>1, ServedBy, RouteOf
<1>3. inHand[c].request \in Screens!Request /\ wanted[inHand[c].request] \in Wanted
  BY <1>2 DEF Serving, OfRequest, ScreenInv, ScreenTyped
<1> DEFINE h == [inHand[c] EXCEPT !.copy = wanted[inHand[c].request]]
<1>4. /\ h \in InHand /\ h.request = inHand[c].request /\ h.shot = inHand[c].shot
      /\ h.copy = wanted[inHand[c].request]
  BY <1>2, <1>3 DEF InHand
<1>5. inHand' = [inHand EXCEPT ![c] = h]
  BY <1>1 DEF ScreenInv, ScreenTyped
<1> HIDE DEF h
<1>6. /\ route'[c] = Tail(route[c]) /\ DOMAIN route' = Route /\ inHand' \in [Route -> InHand]
      /\ inHand'[c] = h
      /\ \A d \in Route : d # c => route'[d] = route[d] /\ inHand'[d] = inHand[d]
  BY <1>1, <1>4, <1>5 DEF ScreenInv, ScreenTyped
<1>7. ScreenTyped' /\ PicturesFit' /\ WantedFits(wanted', shotOf') /\ shotCount <= shotCount'
  BY <1>1, <1>6 DEF ScreenInv, ScreenTyped, PicturesFit
<1>8. /\ h.copy.shot # 0 => h.copy.shot \in Screens!Shot /\ shotOf[h.copy.shot] = h.request
  BY <1>3, <1>4 DEF ScreenInv, WantedFits
<1>9. /\ Serving(route'[c], inHand'[c], shots, shotOf)
      /\ route'[c] \notin Untold
  <2>1. CASE route[c] = Polled4
    <3>1. route'[c] = Polled5 /\ Polled5 \in ToldOf /\ Polled5 \in OfRequest
      BY <2>1, <1>6 DEF Polled5, ToldOf, OfRequest
    <3>2. Polled5 \notin Untold /\ Polled5 # Fail2 /\ Polled5 \notin {Plain2, Polled2} /\ Polled4 \in ToldOf
      BY RoutesOfScreen DEF Untold, ToldOf
    <3>3. h.shot \in Screens!Shot /\ shotOf[h.shot] = h.request
      BY <2>1, <3>2, <1>2, <1>4 DEF Serving
    <3>. QED  BY <3>1, <3>2, <3>3, <1>3, <1>4, <1>6 DEF Serving
  <2>2. CASE route[c] = Fail1
    <3>1. route'[c] = Fail2 /\ Fail2 \in OfRequest
      BY <2>2, <1>6 DEF Fail2, OfRequest
    <3>2. Fail2 \notin Untold /\ Fail2 \notin ToldOf /\ Fail2 \notin {Plain2, Polled2}
      BY RoutesOfScreen DEF Untold, ToldOf
    <3>. QED  BY <3>1, <3>2, <1>3, <1>4, <1>6, <1>8 DEF Serving
  <2>. QED  BY <2>1, <2>2, <1>2
<1>. QED  BY <1>1, <1>6, <1>7, <1>9, RouteTurns

\* What is left of the routes of pictures.
LEMMA PictureRoutes ==
  /\ Tail(Plain1) = Plain2 /\ Tail(Polled1) = Polled2 /\ Tail(Plain2) = Plain3 /\ Tail(Polled2) = Polled3
  /\ Tail(Plain3) = <<>> /\ Tail(Polled3) = Polled4
  /\ Plain2 # <<>> /\ Polled2 # <<>> /\ Plain3 # <<>> /\ Polled3 # <<>> /\ Polled4 # <<>>
  /\ {Plain2, Polled2} \subseteq Untold \ (ToldOf \cup {Fail2})
  /\ {Plain3, Polled3, Polled4} \subseteq ToldOf \ (Untold \cup {Plain2, Polled2, Fail2})
  /\ Plain1 \in Untold /\ Polled1 \in Untold
  /\ {Polled1, Polled2, Polled3, Polled4} \subseteq OfRequest
  /\ Plain2 \notin OfRequest /\ Plain3 \notin OfRequest
<1>1. /\ Tail(Plain1) = Plain2 /\ Tail(Polled1) = Polled2 /\ Tail(Plain2) = Plain3 /\ Tail(Polled2) = Polled3
      /\ Tail(Plain3) = <<>> /\ Tail(Polled3) = Polled4
  BY RoutesOfScreen DEF Plain2, Plain3, Polled2, Polled3, Polled4
<1>2. Plain2 # <<>> /\ Polled2 # <<>> /\ Plain3 # <<>> /\ Polled3 # <<>> /\ Polled4 # <<>>
  BY RoutesOfScreen
<1>3. Head(Fail2) = "failed" /\ Head(Plain2) = "metadata" /\ Head(Polled2) = "metadata"
      /\ Head(Plain3) = "latest" /\ Head(Polled3) = "latest" /\ Head(Polled4) = "read" /\ Head(Polled5) = "fulfilled"
      /\ Head(AskRoute) = "ask" /\ Head(Fail1) = "read" /\ Head(Plain1) = "image" /\ Head(Polled1) = "image"
  BY RoutesOfScreen
<1>4. {Plain2, Polled2} \subseteq Untold \ (ToldOf \cup {Fail2})
  BY <1>3 DEF Untold, ToldOf
<1>5. {Plain3, Polled3, Polled4} \subseteq ToldOf \ (Untold \cup {Plain2, Polled2, Fail2})
  BY <1>3 DEF Untold, ToldOf
<1>6. Plain1 \in Untold /\ Polled1 \in Untold
  BY DEF Untold
<1>7. {Polled1, Polled2, Polled3, Polled4} \subseteq OfRequest
  BY DEF OfRequest
<1>8. Plain2 # Polled2
  <2>1. Len(Plain2) = 2 /\ Len(Polled2) = 4
    BY RoutesOfScreen
  <2>. QED  BY <2>1
<1>9. Plain3 # Polled3
  <2>1. Len(Plain3) = 1 /\ Len(Polled3) = 3
    BY RoutesOfScreen
  <2>. QED  BY <2>1
<1>10. Plain2 \notin OfRequest
  BY <1>3, <1>8 DEF OfRequest
<1>11. Plain3 \notin OfRequest
  BY <1>3, <1>9 DEF OfRequest
<1>. QED  BY <1>1, <1>2, <1>4, <1>5, <1>6, <1>7, <1>10, <1>11

\* A picture that a route writes: the file, what it is of, the latest one.
LEMMA WriteCaptureKeeps ==
  ASSUME ScreenInv, NEW c \in Route, Screens!WriteCapture(c)
  PROVE  ScreenInv'
<1> DEFINE n == inHand[c].shot
           r == inHand[c].request
           t == Tail(route[c])
<1>1. /\ route' = [route EXCEPT ![c] = t] /\ Screens!Forgets(c)
      /\ UNCHANGED <<wanted, dated, polled, shotCount>>
  BY DEF Screens!WriteCapture, Screens!Goes, Screens!requestFiles, Screens!counts
<1>2. /\ route'[c] = t /\ DOMAIN route' = Route /\ inHand' \in [Route -> InHand]
      /\ \A d \in Route : d # c => route'[d] = route[d] /\ inHand'[d] = inHand[d]
      /\ t # <<>> => inHand'[c] = inHand[c]
  BY <1>1, RouteForgets
<1>3. /\ shotOf \in [Screens!Shot -> Int] /\ shotCount \in Nat /\ shotCount <= shotCount'
      /\ \A m \in Screens!Shot : m \in Nat /\ m # 0
  BY <1>1, ScreenAssumption DEF ScreenInv, ScreenTyped, Screens!Shot
<1>4. CASE Screens!Takes(c, {"image"})
  <2>1. shots' = shots \cup {n} /\ UNCHANGED <<shotOf, latestShot>>
    <3>1. ~Screens!Takes(c, {"metadata"}) /\ ~Screens!Takes(c, {"latest"})
      BY <1>4 DEF Screens!Takes
    <3>. QED  BY <3>1 DEF Screens!WriteCapture
  <2>2. /\ route[c] \in {Plain1, Polled1} /\ Serving(route[c], inHand[c], shots, shotOf)
    BY <1>4, ServedBy, RouteOf
  <2>3. t \in {Plain2, Polled2} /\ t # <<>> /\ route[c] \in Untold /\ t \in Untold
    BY <2>2, PictureRoutes
  <2>4. n \in Screens!Shot /\ shotOf[n] = Screens!NoData
    BY <2>2, <2>3 DEF Serving
  <2>5. t \in OfRequest => r \in Screens!Request
    <3>1. t \in OfRequest => route[c] = Polled1
      BY <2>2, PictureRoutes
    <3>. QED  BY <3>1, <2>2, PictureRoutes DEF Serving
  <2>6. Serving(route'[c], inHand'[c], shots', shotOf')
    <3>1. n \in shots' /\ shotOf' = shotOf /\ inHand'[c] = inHand[c] /\ route'[c] = t
      BY <2>1, <2>3, <1>2
    <3>2. t \notin ToldOf /\ t # Fail2
      BY <2>3, PictureRoutes
    <3>. QED  BY <3>1, <3>2, <2>3, <2>4, <2>5 DEF Serving
  <2>7. ScreenTyped' /\ PicturesFit' /\ WantedFits(wanted', shotOf')
    BY <1>1, <1>2, <2>1 DEF ScreenInv, ScreenTyped, PicturesFit
  <2>8. shots \subseteq shots' /\ inHand'[c] = inHand[c]
    BY <2>1, <2>3, <1>2
  <2>. QED  BY <1>2, <1>3, <2>1, <2>3, <2>6, <2>7, <2>8, RouteTurns
<1>5. CASE Screens!Takes(c, {"metadata"})
  <2>1. shotOf' = [shotOf EXCEPT ![n] = r] /\ UNCHANGED <<shots, latestShot>>
    <3>1. ~Screens!Takes(c, {"image"}) /\ ~Screens!Takes(c, {"latest"})
      BY <1>5 DEF Screens!Takes
    <3>. QED  BY <3>1 DEF Screens!WriteCapture
  <2>2. /\ route[c] \in {Plain2, Polled2} /\ Serving(route[c], inHand[c], shots, shotOf)
        /\ inHand[c] \in InHand
    BY <1>5, ServedBy, RouteOf
  <2>3. t \in {Plain3, Polled3} /\ t # <<>> /\ route[c] \in Untold /\ t \notin Untold
    BY <2>2, PictureRoutes
  <2>4. n \in Screens!Shot /\ shotOf[n] = Screens!NoData /\ n \in shots /\ r \in Nat
    BY <2>2, <2>3 DEF Serving, InHand
  <2>5. t \in OfRequest => r \in Screens!Request
    <3>1. t \in OfRequest => route[c] = Polled2
      BY <2>2, PictureRoutes
    <3>. QED  BY <3>1, <2>2, PictureRoutes DEF Serving
  <2>6. /\ shotOf' \in [Screens!Shot -> Int] /\ shotOf'[n] = r
        /\ \A m \in Screens!Shot : m # n => shotOf'[m] = shotOf[m]
    BY <2>1, <2>4, <1>3
  <2>7. Serving(route'[c], inHand'[c], shots', shotOf')
    <3>1. inHand'[c] = inHand[c] /\ route'[c] = t
      BY <2>3, <1>2
    <3>2. t \in ToldOf /\ t \notin {Plain2, Polled2, Fail2}
      BY <2>3, PictureRoutes
    <3>. QED  BY <3>1, <3>2, <2>3, <2>4, <2>5, <2>6 DEF Serving
  <2>8. \A m \in Screens!Shot :
          \/ shotOf'[m] = shotOf[m]
          \/ shotOf[m] = Screens!NoData /\ route[c] \in Untold /\ m = n
    BY <2>3, <2>4, <2>6
  <2>9. WantedFits(wanted, shotOf')
    BY <2>8, WantedStays DEF ScreenInv
  <2>10. ScreenTyped'
    BY <1>1, <1>2, <2>1, <2>6 DEF ScreenInv, ScreenTyped
  <2>11. n <= shotCount
    BY <2>3 DEF ScreenInv, PicturesAreOwn
  <2>12. PicturesFit'
    <3>1. r # Screens!NoData
      BY <2>4 DEF Screens!NoData
    <3>2. latestShot # 0 => latestShot \in Screens!Shot /\ shotOf'[latestShot] # Screens!NoData
      BY <3>1, <2>6 DEF ScreenInv, PicturesFit
    <3>3. \A m \in Screens!Shot : shotOf'[m] # Screens!NoData => m \in shots
      BY <2>4, <2>6 DEF ScreenInv, PicturesFit
    <3>4. \A m \in Screens!Shot : m > shotCount => shotOf'[m] = Screens!NoData
      BY <1>3, <2>6, <2>11 DEF ScreenInv, PicturesFit
    <3>. QED  BY <3>2, <3>3, <3>4, <2>1, <1>1 DEF PicturesFit
  <2>13. route'[c] \notin Untold /\ shots \subseteq shots' /\ wanted' = wanted
    BY <2>1, <2>3, <1>1, <1>2
  <2>14. WantedFits(wanted', shotOf')
    BY <2>9, <2>13
  <2>. QED  BY <1>2, <1>3, <2>7, <2>8, <2>10, <2>12, <2>13, <2>14, RouteTurns
<1>6. CASE Screens!Takes(c, {"latest"})
  <2>1. latestShot' = n /\ UNCHANGED <<shots, shotOf>>
    <3>1. ~Screens!Takes(c, {"image"}) /\ ~Screens!Takes(c, {"metadata"})
      BY <1>6 DEF Screens!Takes
    <3>. QED  BY <3>1 DEF Screens!WriteCapture
  <2>2. /\ route[c] \in {Plain3, Polled3} /\ Serving(route[c], inHand[c], shots, shotOf)
        /\ inHand[c] \in InHand
    BY <1>6, ServedBy, RouteOf
  <2>3. t \in {<<>>, Polled4} /\ t \notin Untold /\ route[c] \in ToldOf
    <3>1. <<>> \notin Untold
      BY RoutesOfScreen DEF Untold
    <3>. QED  BY <3>1, <2>2, PictureRoutes
  <2>4. n \in Screens!Shot /\ shotOf[n] = r /\ r \in Nat
    BY <2>2, <2>3 DEF Serving, InHand
  <2>5. t = Polled4 => r \in Screens!Request
    <3>1. t = Polled4 => route[c] = Polled3
      BY <2>2, PictureRoutes
    <3>. QED  BY <3>1, <2>2, PictureRoutes DEF Serving
  <2>6. Serving(route'[c], inHand'[c], shots', shotOf')
    <3>1. CASE t = <<>>
      BY <3>1, <1>2, IdleServes
    <3>2. CASE t = Polled4
      <4>1. inHand'[c] = inHand[c] /\ route'[c] = t
        BY <3>2, <1>2, PictureRoutes
      <4>2. t \in ToldOf /\ t \notin {Plain2, Polled2, Fail2}
        BY <3>2, PictureRoutes
      <4>. QED  BY <4>1, <4>2, <2>1, <2>3, <2>4, <2>5, <3>2 DEF Serving
    <3>. QED  BY <3>1, <3>2, <2>3
  <2>7. r # Screens!NoData
    BY <2>4 DEF Screens!NoData
  <2>8. ScreenTyped' /\ PicturesFit' /\ WantedFits(wanted', shotOf')
    BY <1>1, <1>2, <2>1, <2>4, <2>7 DEF ScreenInv, ScreenTyped, PicturesFit
  <2>9. route'[c] \notin Untold
    BY <2>3, <1>2
  <2>. QED  BY <1>2, <1>3, <2>1, <2>6, <2>8, <2>9, RouteTurns
<1>. QED  BY <1>4, <1>5, <1>6 DEF Screens!WriteCapture

\* A request that is replaced names a picture that was taken for it.
LEMMA WriteRequestKeeps ==
  ASSUME ScreenInv, NEW c \in Route, Screens!WriteRequest(c)
  PROVE  ScreenInv'
<1> DEFINE r == inHand[c].request
           Fitting(new) ==
             /\ new \in Wanted
             /\ new.shot # 0 => new.shot \in Screens!Shot /\ shotOf[new.shot] = r
             /\ new.status = "fulfilled" => new.shot # 0
<1>1. /\ route' = [route EXCEPT ![c] = Tail(route[c])] /\ Screens!Forgets(c)
      /\ UNCHANGED <<shots, shotOf, latestShot, polled, shotCount>>
  BY DEF Screens!WriteRequest, Screens!Goes, Screens!captures, Screens!counts
<1>2. \E new : /\ wanted' = [wanted EXCEPT ![r] = new]
               /\ dated' = Screens!Without(dated, r) \o IF new.status = "pending" THEN <<r>> ELSE <<>>
               /\ \/ Screens!Takes(c, {"ask"}) /\ new = [status |-> "pending", shot |-> 0]
                  \/ Screens!Takes(c, {"fulfilled"}) /\ new = [status |-> "fulfilled", shot |-> inHand[c].shot]
                  \/ Screens!Takes(c, {"failed"}) /\ new = [inHand[c].copy EXCEPT !.status = "failed"]
  BY DEF Screens!WriteRequest
<1>3. PICK new : /\ wanted' = [wanted EXCEPT ![r] = new]
                 /\ dated' = Screens!Without(dated, r) \o IF new.status = "pending" THEN <<r>> ELSE <<>>
                 /\ \/ Screens!Takes(c, {"ask"}) /\ new = [status |-> "pending", shot |-> 0]
                    \/ Screens!Takes(c, {"fulfilled"}) /\ new = [status |-> "fulfilled", shot |-> inHand[c].shot]
                    \/ Screens!Takes(c, {"failed"}) /\ new = [inHand[c].copy EXCEPT !.status = "failed"]
  BY <1>2
<1>4. Fitting(new) /\ Tail(route[c]) = <<>> /\ r \in Screens!Request
  <2>1. CASE Screens!Takes(c, {"ask"}) /\ new = [status |-> "pending", shot |-> 0]
    <3>1. route[c] = AskRoute /\ Serving(route[c], inHand[c], shots, shotOf)
      BY <2>1, ServedBy, RouteOf
    <3>2. r \in Screens!Request
      BY <3>1 DEF Serving, OfRequest
    <3>3. Fitting(new)
      BY <2>1 DEF Wanted
    <3>. QED  BY <3>1, <3>2, <3>3, RoutesOfScreen
  <2>2. CASE Screens!Takes(c, {"fulfilled"}) /\ new = [status |-> "fulfilled", shot |-> inHand[c].shot]
    <3>1. route[c] = Polled5 /\ Serving(route[c], inHand[c], shots, shotOf)
      BY <2>2, ServedBy, RouteOf
    <3>2. r \in Screens!Request /\ inHand[c].shot \in Screens!Shot /\ shotOf[inHand[c].shot] = r
      BY <3>1 DEF Serving, OfRequest, ToldOf
    <3>3. inHand[c].shot \in Nat /\ inHand[c].shot # 0
      BY <3>2, ScreenAssumption DEF Screens!Shot
    <3>4. new \in Wanted /\ new.shot = inHand[c].shot
      BY <2>2, <3>3 DEF Wanted
    <3>. QED  BY <3>1, <3>2, <3>3, <3>4, RoutesOfScreen
  <2>3. CASE Screens!Takes(c, {"failed"}) /\ new = [inHand[c].copy EXCEPT !.status = "failed"]
    <3>1. route[c] = Fail2 /\ Serving(route[c], inHand[c], shots, shotOf) /\ inHand[c] \in InHand
      BY <2>3, ServedBy, RouteOf
    <3>2. r \in Screens!Request
      BY <3>1 DEF Serving, OfRequest
    <3>3. inHand[c].copy.shot # 0 => inHand[c].copy.shot \in Screens!Shot /\ shotOf[inHand[c].copy.shot] = r
      BY <3>1 DEF Serving
    <3>4. new \in Wanted /\ new.shot = inHand[c].copy.shot /\ new.status = "failed"
      BY <2>3, <3>1 DEF InHand, Wanted
    <3>. QED  BY <3>1, <3>2, <3>3, <3>4, RoutesOfScreen
  <2>. QED  BY <2>1, <2>2, <2>3, <1>3
<1>5. /\ route'[c] = <<>> /\ DOMAIN route' = Route /\ inHand' \in [Route -> InHand]
      /\ \A d \in Route : d # c => route'[d] = route[d] /\ inHand'[d] = inHand[d]
  BY <1>1, <1>4, RouteForgets
<1>6. wanted' \in [Screens!Request -> Wanted] /\ WantedFits(wanted', shotOf)
  BY <1>3, <1>4 DEF ScreenInv, ScreenTyped, WantedFits
<1>7. dated' \in Seq(Screens!Request)
  <2>1. Screens!Without(dated, r) \in Seq(Screens!Request)
    BY WithoutOne DEF ScreenInv, ScreenTyped
  <2>2. <<r>> \in Seq(Screens!Request) /\ <<>> \in Seq(Screens!Request)
    BY <1>4
  <2>. QED  BY <1>3, <2>1, <2>2, ConcatProperties
<1>8. ScreenTyped' /\ PicturesFit' /\ WantedFits(wanted', shotOf') /\ shotCount <= shotCount'
  BY <1>1, <1>5, <1>6, <1>7 DEF ScreenInv, ScreenTyped, PicturesFit
<1>9. Serving(route'[c], inHand'[c], shots', shotOf')
  BY <1>5, IdleServes
<1>10. route'[c] \notin Untold
  BY <1>5, RoutesOfScreen DEF Untold
<1>11. shots \subseteq shots' /\ \A n \in Screens!Shot : shotOf'[n] = shotOf[n]
  BY <1>1
<1>12. \A d \in Route : d # c => route'[d] = route[d] /\ inHand'[d] = inHand[d]
  BY <1>5
<1>. HIDE DEF r, Fitting
<1>. QED  BY <1>8, <1>9, <1>10, <1>11, <1>12, RouteTurns

LEMMA ScreenSteps ==
  ASSUME ScreenInv, Screens!Next
  PROVE  ScreenInv'
<1>1. ASSUME NEW c \in Route,
             \/ Screens!request_capture(c) \/ Screens!PostCapture(c) \/ Screens!fail_request(c)
             \/ Screens!WriteCapture(c) \/ Screens!get_request(c) \/ Screens!WriteRequest(c) \/ Screens!Stop(c)
      PROVE  ScreenInv'
  BY <1>1, RequestCaptureKeeps, PostCaptureKeeps, FailRequestKeeps, WriteCaptureKeeps, GetRequestKeeps,
     WriteRequestKeeps, StopKeepsScreen
<1>. QED  BY <1>1, LatestRequestKeeps DEF Screens!Next

LEMMA ScreenStarts ==
  ASSUME Screens!Init
  PROVE  ScreenInv
<1>1. Screens!NothingInHand \in InHand /\ Screens!NoRequest \in Wanted /\ Screens!NoData \in Int
  BY NoWanted DEF Screens!NothingInHand, InHand, Screens!NoData
<1>2. ScreenTyped
  BY <1>1 DEF Screens!Init, ScreenTyped
<1>3. PicturesFit /\ WantedFits(wanted, shotOf)
  BY DEF Screens!Init, PicturesFit, WantedFits, Screens!NoRequest
<1>4. \A c \in Route : route[c] = <<>> /\ Serving(route[c], inHand[c], shots, shotOf)
  BY IdleServes DEF Screens!Init
<1>5. <<>> \notin Untold
  BY RoutesOfScreen DEF Untold
<1>6. PicturesAreOwn
  BY <1>4, <1>5 DEF PicturesAreOwn
<1>. QED  BY <1>2, <1>3, <1>4, <1>6 DEF ScreenInv

LEMMA ScreenAlways == WorkbenchSpec => []ScreenInv
<1>1. WorkbenchInit => ScreenInv
  BY ScreenStarts DEF WorkbenchInit
<1>2. ScreenInv /\ [WorkbenchNext]_workbenchVars => ScreenInv'
  <2> SUFFICES ASSUME ScreenInv, [WorkbenchNext]_workbenchVars PROVE ScreenInv'
    OBVIOUS
  <2>1. CASE Screens!Next
    BY <2>1, ScreenSteps
  <2>2. CASE UNCHANGED screenVars
    BY <2>2 DEF screenVars, ScreenInv, ScreenTyped, PicturesFit, PicturesAreOwn
  <2>. QED
    BY <2>1, <2>2 DEF WorkbenchNext, workbenchVars, copyVars
<1>. QED  BY <1>1, <1>2, PTL DEF WorkbenchSpec

LEMMA ScreenReferencesResolve == ScreenInv => Screens!EveryReferenceResolves
BY DEF ScreenInv, PicturesFit, WantedFits, Screens!EveryReferenceResolves

(* Whatever a design thread or the agent's screen names is there: the drafts, *)
(* requests and snapshots of messages, the drafts a record links, the threads *)
(* of the index, the picture of metadata, of latest.json and of a fulfilled   *)
(* request, for any number of callers, threads, routes and pictures, through  *)
(* restarts and the requests of others.  (viewer/threads.py and                *)
(* viewer/agent_screen.py.)                                                   *)
THEOREM WhatIsNamedIsThere == WorkbenchSpec => []EveryReferenceResolves
<1>1. ThreadInv /\ ScreenInv => EveryReferenceResolves
  BY ThreadReferencesResolve, ScreenReferencesResolve DEF EveryReferenceResolves
<1>. QED  BY <1>1, ThreadAlways, ScreenAlways, PTL
============================================================================
