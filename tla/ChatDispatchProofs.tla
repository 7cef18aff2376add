-------------------------- MODULE ChatDispatchProofs --------------------------
(***************************************************************************)
(* Proofs about ChatDispatch, for every number of turns, workers, queued   *)
(* places, requests and process starts.                                    *)
(*                                                                         *)
(* The inductive invariant says where a turn of _active is (Placed), what  *)
(* its state and its events say of each other (StatesAreTold), and what is *)
(* still allowed to become of a turn that ended (Sent, Quiet, Tracked).    *)
(* The steps of the counting argument are the last part.                   *)
(***************************************************************************)
EXTENDS ChatDispatch, FiniteSetTheorems, TLAPS

State == {"none", "queued", "running"} \cup Terminal
OnTheWay == {"posted", "checked", "unknown"}

TypeOK ==
  /\ log \in [Turn -> Seq(EventType)]
  /\ stage \in {"down", "recovering", "up", "closed"}
  /\ todo \subseteq Turn
  /\ active \in [Turn -> State]
  /\ asked \subseteq Turn
  /\ permits \in Nat
  /\ queue \in Seq(Turn)
  /\ pc \in [Worker -> {"idle", "taken", "streaming", "finishing"}]
  /\ task \in [Worker -> Turn \cup {NoTurn}]
  /\ sent \in [Turn -> Nat]
  /\ at \in [Caller -> {"new", "done"} \cup OnTheWay]
  /\ wants \in [Caller -> Turn \cup {NoTurn}]

Entries == {t \in Turn : active[t] # "none"}
Busy == {w \in Worker : pc[w] # "idle"}
With(t) == \E w \in Worker : task[w] = t

\* A turn of _active is in the queue or with a worker, once.
Placed ==
  /\ \A w \in Worker : pc[w] = "idle" <=> task[w] = NoTurn
  /\ \A t \in Turn : active[t] # "none" <=> Queued(t) \/ With(t)
  /\ \A i, j \in DOMAIN queue : queue[i] = queue[j] => i = j
  /\ \A v, w \in Worker : task[v] = task[w] /\ task[v] # NoTurn => v = w
  /\ \A w \in Worker, i \in DOMAIN queue : queue[i] # task[w]

\* The permits and the places, as numbers.
Counted ==
  /\ permits + Cardinality(Entries) = Capacity
  /\ Cardinality(Entries) = Len(queue) + Cardinality(Busy)

\* A turn whose entry or worker says that it ended has a terminal event.
StatesAreTold ==
  /\ \A t \in Turn : active[t] \in Terminal => HasTerminal(t)
  /\ \A w \in Worker : pc[w] = "finishing" => HasTerminal(task[w])

Streaming(t) == \E w \in Worker : task[w] = t /\ pc[w] = "streaming"

\* A turn that was sent to the provider is streamed or has ended.
Sent ==
  \A t \in Turn : sent[t] <= 1 /\ (sent[t] = 1 => Streaming(t) \/ HasTerminal(t))

\* The worker that streams a turn which was completed or cancelled knows it.
Over(t) == \E i \in DOMAIN log[t] : log[t][i] \in {"completed", "cancelled"}
Quiet == \A t \in Turn : Over(t) /\ Streaming(t) => active[t] \in Terminal

Wanted(t) == \E k \in Caller : wants[k] = t /\ at[k] \in OnTheWay

\* Recovery and requests: who will schedule a turn that is not active.
Tracked ==
  /\ \A k \in Caller : at[k] \in OnTheWay <=> wants[k] # NoTurn
  /\ stage = "up" => todo = {}
  /\ stage \in {"recovering", "up"} =>
       \A t \in Pending : active[t] # "none" \/ t \in todo \/ Wanted(t)

Inv == TypeOK /\ Placed /\ StatesAreTold /\ Sent /\ Quiet /\ EndIsQuiet /\ Tracked

-----------------------------------------------------------------------------
(* Facts about the operators.                                              *)

LEMMA Constants ==
  /\ NoTurn \notin Turn
  /\ Terminal \subseteq EventType
  /\ "output" \in EventType \ Terminal /\ "submitted" \in EventType \ Terminal
  /\ "failed" \in Terminal /\ "cancelled" \in Terminal /\ "completed" \in Terminal
BY TurnAssumption DEF EventType, Terminal

\* An event at the end of one turn's events.
LEMMA Appended ==
  ASSUME TypeOK, NEW t \in Turn, NEW e \in EventType, AppendEvent(t, e)
  PROVE  /\ log' \in [Turn -> Seq(EventType)]
         /\ \A u \in Turn : log'[u] # <<>> => log[u] # <<>> \/ u = t
         /\ \A u \in Turn : HasTerminal(u)' <=> HasTerminal(u) \/ (u = t /\ e \in Terminal)
         /\ \A u \in Turn : Over(u)' <=> Over(u) \/ (u = t /\ e \in {"completed", "cancelled"})
         /\ \A u \in Turn : Over(u) => HasTerminal(u)
         /\ EndIsQuiet /\ (Over(t) => e = "failed") => EndIsQuiet'
<1> DEFINE s == log[t]
           r == log'[t]
<1>1. s \in Seq(EventType) /\ r = Append(s, e) /\ \A u \in Turn \ {t} : log'[u] = log[u]
  BY DEF TypeOK, AppendEvent
<1>2. /\ r \in Seq(EventType) /\ DOMAIN s = 1 .. Len(s) /\ DOMAIN r = 1 .. Len(s) + 1
      /\ r[Len(s) + 1] = e /\ \A i \in DOMAIN s : r[i] = s[i]
      /\ Len(s) \in Nat
  BY <1>1
<1>3. log' \in [Turn -> Seq(EventType)]
  BY <1>1, <1>2 DEF TypeOK, AppendEvent
<1>4. \A u \in Turn : log'[u] # <<>> => log[u] # <<>> \/ u = t
  BY <1>1
<1>5. \A u \in Turn : HasTerminal(u)' <=> HasTerminal(u) \/ (u = t /\ e \in Terminal)
  <2> TAKE u \in Turn
  <2>1. CASE u # t
    BY <2>1, <1>1 DEF HasTerminal
  <2>2. CASE u = t
    BY <2>2, <1>2 DEF HasTerminal
  <2> QED BY <2>1, <2>2
<1>6. \A u \in Turn : Over(u)' <=> Over(u) \/ (u = t /\ e \in {"completed", "cancelled"})
  <2> TAKE u \in Turn
  <2>1. CASE u # t
    BY <2>1, <1>1 DEF Over
  <2>2. CASE u = t
    BY <2>2, <1>2 DEF Over
  <2> QED BY <2>1, <2>2
<1>7. \A u \in Turn : Over(u) => HasTerminal(u)
  BY DEF Over, HasTerminal, Terminal
<1>8. ASSUME EndIsQuiet, Over(t) => e = "failed"
      PROVE  EndIsQuiet'
  <2> SUFFICES ASSUME NEW u \in Turn, NEW i \in DOMAIN log'[u], NEW j \in DOMAIN log'[u],
                      i < j, log'[u][i] \in {"completed", "cancelled"}
               PROVE  log'[u][j] = "failed"
    BY DEF EndIsQuiet
  <2>1. CASE u # t
    BY <2>1, <1>1, <1>8 DEF EndIsQuiet
  <2>2. CASE u = t
    <3>1. i \in DOMAIN s /\ s[i] \in {"completed", "cancelled"}
      BY <2>2, <1>2
    <3>2. CASE j \in DOMAIN s
      BY <3>1, <3>2, <2>2, <1>2, <1>8 DEF EndIsQuiet
    <3>3. CASE j = Len(s) + 1
      BY <3>1, <3>3, <2>2, <1>2, <1>8 DEF Over
    <3> QED BY <3>2, <3>3, <2>2, <1>2
  <2> QED BY <2>1, <2>2
<1> QED BY <1>3, <1>4, <1>5, <1>6, <1>7, <1>8

LEMMA SameLog ==
  ASSUME log' = log
  PROVE  /\ \A u \in Turn : HasTerminal(u)' <=> HasTerminal(u)
         /\ \A u \in Turn : Over(u)' <=> Over(u)
         /\ EndIsQuiet => EndIsQuiet'
BY DEF HasTerminal, Over, EndIsQuiet

\* The first turn leaves the queue, or any other, or one is added.
LEMMA QueueFacts ==
  ASSUME queue \in Seq(Turn)
  PROVE  /\ Len(queue) \in Nat /\ DOMAIN queue = 1 .. Len(queue)
         /\ \A i \in DOMAIN queue : queue[i] \in Turn
         /\ \A t : Queued(t) <=> \E i \in DOMAIN queue : queue[i] = t
BY DEF Queued

LEMMA PlacedSame ==
  ASSUME Placed, UNCHANGED <<queue, task>>,
         \A w \in Worker : pc'[w] = "idle" <=> pc[w] = "idle",
         \A t \in Turn : active'[t] = "none" <=> active[t] = "none"
  PROVE  Placed'
BY DEF Placed, Queued, With

\* What is known of the turn of a worker, and of a turn in the queue.
LEMMA WorkerTurn ==
  ASSUME Inv, NEW w \in Worker, pc[w] # "idle"
  PROVE  /\ task[w] \in Turn
         /\ active[task[w]] # "none"
         /\ ~Queued(task[w])
         /\ \A v \in Worker \ {w} : task[v] # task[w]
         /\ Streaming(task[w]) <=> pc[w] = "streaming"
<1>1. task[w] \in Turn
  BY DEF Inv, TypeOK, Placed
<1>2. active[task[w]] # "none"
  BY <1>1 DEF Inv, Placed, With
<1>3. ~Queued(task[w])
  BY DEF Inv, Placed, Queued
<1>4. \A v \in Worker \ {w} : task[v] # task[w]
  BY <1>1, TurnAssumption DEF Inv, Placed
<1>5. Streaming(task[w]) <=> pc[w] = "streaming"
  BY <1>4 DEF Streaming
<1> QED BY <1>1, <1>2, <1>3, <1>4, <1>5

LEMMA StreamingIsActive ==
  ASSUME Inv, NEW t \in Turn, Streaming(t)
  PROVE  active[t] # "none" /\ ~Queued(t)
<1>1. PICK w \in Worker : task[w] = t /\ pc[w] = "streaming"
  BY DEF Streaming
<1> QED BY <1>1, WorkerTurn

LEMMA SentKept ==
  ASSUME Sent, UNCHANGED sent,
         \A t \in Turn : Streaming(t) \/ HasTerminal(t) => Streaming(t)' \/ HasTerminal(t)'
  PROVE  Sent'
BY DEF Sent

\* Nothing is lost while stage and requests stay as they are.
LEMMA TrackedKept ==
  ASSUME Tracked, UNCHANGED <<stage, todo, at, wants>>,
         \A t \in Turn : t \in Pending' =>
           active'[t] # "none" \/ (t \in Pending /\ active[t] = "none")
  PROVE  Tracked'
<1>1. \A t \in Turn : Wanted(t)' <=> Wanted(t)
  BY DEF Wanted
<1>2. Pending' \subseteq Turn
  BY DEF Pending
<1> QED BY <1>1, <1>2 DEF Tracked

-----------------------------------------------------------------------------
(* The worker threads.                                                     *)

LEMMA TakeStep == ASSUME Inv, NEW w \in Worker, Take(w) PROVE Inv'
<1> DEFINE t == Head(queue)
<1>1. /\ queue \in Seq(Turn) /\ Len(queue) \in Nat /\ Len(queue) > 0
      /\ t = queue[1] /\ t \in Turn /\ queue' = Tail(queue)
      /\ queue' \in Seq(Turn) /\ Len(queue') = Len(queue) - 1
      /\ \A i \in DOMAIN queue' : queue'[i] = queue[i + 1]
      /\ DOMAIN queue = 1 .. Len(queue) /\ DOMAIN queue' = 1 .. Len(queue) - 1
  BY DEF Inv, TypeOK, Take
<1>2. /\ pc[w] = "idle" /\ pc' = [pc EXCEPT ![w] = "taken"]
      /\ task' = [task EXCEPT ![w] = t]
      /\ UNCHANGED <<log, active, asked, permits, sent, order, at, wants, stage, starts, todo>>
  BY DEF Take, WorkerOnly, requests, process
<1>3. TypeOK'
  BY <1>1, <1>2 DEF Inv, TypeOK
<1>4. task[w] = NoTurn /\ t # NoTurn /\ \A v \in Worker : task[v] # t
  <2>1. 1 \in DOMAIN queue
    BY <1>1
  <2>2. task[w] = NoTurn
    BY <1>2 DEF Inv, Placed
  <2>3. t # NoTurn
    BY <1>1, TurnAssumption
  <2>4. \A v \in Worker : task[v] # queue[1]
    BY <2>1 DEF Inv, Placed
  <2> QED BY <1>1, <2>2, <2>3, <2>4
<1>5. Placed'
  <2>1. \A v \in Worker : pc'[v] = "idle" <=> task'[v] = NoTurn
    BY <1>2, <1>4 DEF Inv, TypeOK, Placed
  <2>2. \A u : Queued(u) <=> u = t \/ Queued(u)'
    <3>1. \A i \in DOMAIN queue : i = 1 \/ i - 1 \in DOMAIN queue'
      BY <1>1
    <3>2. \A i \in DOMAIN queue' : i + 1 \in DOMAIN queue
      BY <1>1
    <3>3. \A i \in DOMAIN queue : i # 1 => queue'[i - 1] = queue[i]
      BY <1>1, <3>1
    <3> QED BY <1>1, <3>1, <3>2, <3>3 DEF Queued
  <2>3. \A u \in Turn : With(u)' <=> u = t \/ With(u)
    BY <1>1, <1>2, <1>4, TurnAssumption DEF Inv, TypeOK, With
  <2>4. \A u \in Turn : active'[u] # "none" <=> Queued(u)' \/ With(u)'
    BY <1>2, <2>2, <2>3 DEF Inv, Placed
  <2>5. \A i, j \in DOMAIN queue' : queue'[i] = queue'[j] => i = j
    <3> SUFFICES ASSUME NEW i \in DOMAIN queue', NEW j \in DOMAIN queue', queue'[i] = queue'[j]
                 PROVE  i = j
      OBVIOUS
    <3>1. i + 1 \in DOMAIN queue /\ j + 1 \in DOMAIN queue /\ queue[i + 1] = queue[j + 1]
      BY <1>1
    <3>2. i + 1 = j + 1
      BY <3>1 DEF Inv, Placed
    <3> QED BY <3>2, <1>1
  <2>6. \A u, v \in Worker : task'[u] = task'[v] /\ task'[u] # NoTurn => u = v
    BY <1>2, <1>4 DEF Inv, TypeOK, Placed
  <2>7. \A v \in Worker, i \in DOMAIN queue' : queue'[i] # task'[v]
    <3> SUFFICES ASSUME NEW v \in Worker, NEW i \in DOMAIN queue' PROVE queue'[i] # task'[v]
      OBVIOUS
    <3>1. i + 1 \in DOMAIN queue /\ queue'[i] = queue[i + 1] /\ 1 \in DOMAIN queue /\ i + 1 # 1
      BY <1>1
    <3>2. queue[i + 1] # queue[1]
      BY <3>1 DEF Inv, Placed
    <3> QED BY <3>1, <3>2, <1>1, <1>2 DEF Inv, TypeOK, Placed
  <2> QED BY <2>1, <2>4, <2>5, <2>6, <2>7 DEF Placed
<1>6. \A u \in Turn : Streaming(u)' <=> Streaming(u)
  BY <1>2, <1>4 DEF Inv, TypeOK, Streaming
<1>7. StatesAreTold'
  BY <1>2, SameLog DEF Inv, TypeOK, StatesAreTold, HasTerminal
<1>8. Sent'
  BY <1>2, <1>6, SameLog, SentKept DEF Inv
<1>9. Quiet'
  BY <1>2, <1>6, SameLog DEF Inv, Quiet
<1>10. Tracked'
  BY <1>2, SameLog, TrackedKept DEF Inv, Pending
<1> QED BY <1>2, <1>3, <1>5, <1>7, <1>8, <1>9, <1>10, SameLog DEF Inv

\* What a worker does between taking and finishing a turn: the turn keeps its
\* place, and its worker still has it.
LEMMA WorkingStep ==
  ASSUME Inv, NEW w \in Worker, pc[w] # "idle", NEW there \in {"streaming", "finishing"},
         NEW state \in State \ {"none"},
         pc' = [pc EXCEPT ![w] = there], active' = [active EXCEPT ![task[w]] = state],
         UNCHANGED <<asked, permits, queue, task, order, at, wants, stage, starts, todo>>,
         log' \in [Turn -> Seq(EventType)], sent' \in [Turn -> Nat],
         \A u \in Turn : HasTerminal(u) => HasTerminal(u)',
         \A u \in Turn : log'[u] # <<>> => log[u] # <<>> \/ u = task[w],
         state \in Terminal \/ there = "finishing" => HasTerminal(task[w])'
  PROVE  /\ TypeOK' /\ Placed' /\ StatesAreTold' /\ Tracked'
         /\ \A u \in Turn \ {task[w]} : Streaming(u)' <=> Streaming(u)
         /\ Streaming(task[w])' <=> there = "streaming"
<1> DEFINE t == task[w]
<1>1. t \in Turn /\ active[t] # "none" /\ \A v \in Worker \ {w} : task[v] # t
  BY WorkerTurn
<1>2. TypeOK'
  BY <1>1 DEF Inv, TypeOK
<1>3. Placed'
  BY <1>1, PlacedSame DEF Inv, TypeOK
<1>4. StatesAreTold'
  BY <1>1 DEF Inv, TypeOK, StatesAreTold, Placed
<1>5. Tracked'
  <2>1. \A u \in Turn : u \in Pending' => active'[u] # "none" \/ (u \in Pending /\ active[u] = "none")
    BY <1>1 DEF Inv, TypeOK, Pending
  <2> QED BY <2>1, TrackedKept DEF Inv
<1>6. \A u \in Turn \ {t} : Streaming(u)' <=> Streaming(u)
  BY <1>1 DEF Inv, TypeOK, Streaming
<1>7. Streaming(t)' <=> there = "streaming"
  BY <1>1 DEF Inv, TypeOK, Streaming
<1> QED BY <1>2, <1>3, <1>4, <1>5, <1>6, <1>7

LEMMA SameState ==
  ASSUME Inv, NEW w \in Worker, pc[w] # "idle"
  PROVE  /\ active[task[w]] \in State \ {"none"}
         /\ active = [active EXCEPT ![task[w]] = active[task[w]]]
BY WorkerTurn DEF Inv, TypeOK

\* The same step without an event.
LEMMA SilentStep ==
  ASSUME Inv, NEW w \in Worker, pc[w] # "idle", HasTerminal(task[w]),
         pc' = [pc EXCEPT ![w] = "finishing"],
         UNCHANGED <<log, sent, active, asked, permits, queue, task, order, at, wants, stage, starts, todo>>
  PROVE  Inv'
<1>1. /\ TypeOK' /\ Placed' /\ StatesAreTold' /\ Tracked'
      /\ \A u \in Turn \ {task[w]} : Streaming(u)' <=> Streaming(u)
      /\ ~Streaming(task[w])'
  BY SameState, SameLog, WorkerTurn, WorkingStep DEF Inv, TypeOK
<1>2. Sent'
  BY <1>1, SameLog, SentKept DEF Inv
<1>3. Quiet'
  BY <1>1, SameLog DEF Inv, Quiet
<1> QED BY <1>1, <1>2, <1>3, SameLog DEF Inv

LEMMA BeginStep == ASSUME Inv, NEW w \in Worker, Begin(w) PROVE Inv'
<1> DEFINE t == task[w]
<1>1. /\ pc[w] = "taken" /\ t \in Turn
      /\ UNCHANGED <<asked, permits, queue, task, order, at, wants, stage, starts, todo>>
  BY WorkerTurn DEF Begin, WorkerOnly, requests, process
<1>2. CASE HasTerminal(t) /\ pc' = [pc EXCEPT ![w] = "finishing"] /\ UNCHANGED <<log, active, sent>>
  BY <1>1, <1>2, SilentStep
<1>3. CASE ~HasTerminal(t) /\ Dispatch(w)
  <2>1. /\ active' = [active EXCEPT ![t] = "running"] /\ AppendEvent(t, "output")
        /\ sent' = [sent EXCEPT ![t] = @ + 1] /\ pc' = [pc EXCEPT ![w] = "streaming"]
    BY <1>3 DEF Dispatch
  <2>2. ~Streaming(t) /\ ~Over(t)
    BY <1>1, <1>3, WorkerTurn DEF Over, HasTerminal, Terminal
  <2>3. sent[t] = 0
    BY <1>1, <1>3, <2>2 DEF Inv, TypeOK, Sent
  <2>4. sent' \in [Turn -> Nat] /\ sent'[t] = 1 /\ \A u \in Turn \ {t} : sent'[u] = sent[u]
    BY <1>1, <2>1, <2>3 DEF Inv, TypeOK
  <2>5. "running" \in State \ {"none"} /\ "running" \notin Terminal
    BY DEF State, Terminal
  <2>6. /\ log' \in [Turn -> Seq(EventType)]
        /\ \A u \in Turn : log'[u] # <<>> => log[u] # <<>> \/ u = t
        /\ \A u \in Turn : HasTerminal(u)' <=> HasTerminal(u)
        /\ \A u \in Turn : Over(u)' <=> Over(u)
        /\ EndIsQuiet'
    BY <1>1, <2>1, <2>2, Appended, Constants DEF Inv
  <2>7. /\ TypeOK' /\ Placed' /\ StatesAreTold' /\ Tracked'
        /\ \A u \in Turn \ {t} : Streaming(u)' <=> Streaming(u)
        /\ Streaming(t)'
    BY <1>1, <2>1, <2>4, <2>5, <2>6, WorkingStep
  <2>8. Sent'
    <3>1. \A u \in Turn : Streaming(u)' <=> Streaming(u) \/ u = t
      BY <1>1, <2>1 DEF Inv, TypeOK, Streaming
    <3>2. \A u \in Turn : sent'[u] <= 1 /\ (sent'[u] = 1 => sent[u] = 1 \/ u = t)
      BY <2>4 DEF Inv, Sent
    <3> QED BY <2>6, <3>1, <3>2 DEF Inv, Sent
  <2>9. Quiet'
    BY <1>1, <2>1, <2>2, <2>6, <2>7 DEF Inv, TypeOK, Quiet
  <2> QED BY <2>6, <2>7, <2>8, <2>9 DEF Inv
<1> QED BY <1>2, <1>3 DEF Begin

\* An event of a provider that the turn's state still lets in.
LEMMA EventStep ==
  ASSUME Inv, NEW w \in Worker, pc[w] = "streaming", active[task[w]] \notin Terminal,
         NEW kind \in Terminal \cup {"output"}, AppendEvent(task[w], kind),
         active' = [active EXCEPT ![task[w]] = IF kind = "output" THEN @ ELSE kind],
         pc' = [pc EXCEPT ![w] = IF kind = "output" THEN @ ELSE "finishing"],
         UNCHANGED <<asked, permits, queue, task, sent, order, at, wants, stage, starts, todo>>
  PROVE  Inv'
<1> DEFINE t == task[w]
           state == IF kind = "output" THEN active[t] ELSE kind
           there == IF kind = "output" THEN "streaming" ELSE "finishing"
<1>1. /\ t \in Turn /\ active[t] \in State \ {"none"} /\ Streaming(t)
  BY WorkerTurn, SameState
<1>2. ~Over(t)
  BY <1>1 DEF Inv, Quiet
<1>3. /\ log' \in [Turn -> Seq(EventType)]
      /\ \A u \in Turn : log'[u] # <<>> => log[u] # <<>> \/ u = t
      /\ \A u \in Turn : HasTerminal(u)' <=> HasTerminal(u) \/ (u = t /\ kind \in Terminal)
      /\ \A u \in Turn : Over(u)' <=> Over(u) \/ (u = t /\ kind \in {"completed", "cancelled"})
      /\ EndIsQuiet'
  BY <1>1, <1>2, Appended, Constants DEF Inv
<1>4. /\ state \in State \ {"none"} /\ there \in {"streaming", "finishing"}
      /\ state \in Terminal \/ there = "finishing" => HasTerminal(t)'
      /\ active' = [active EXCEPT ![t] = state] /\ pc' = [pc EXCEPT ![w] = there]
  BY <1>1, <1>3 DEF State, Terminal
<1>5. /\ TypeOK' /\ Placed' /\ StatesAreTold' /\ Tracked'
      /\ \A u \in Turn \ {t} : Streaming(u)' <=> Streaming(u)
      /\ Streaming(t)' <=> there = "streaming"
  <2> HIDE DEF state, there
  <2> QED BY <1>1, <1>3, <1>4, WorkingStep DEF Inv, TypeOK
<1>6. Sent'
  BY <1>1, <1>3, <1>5, SentKept DEF Inv
<1>7. Quiet'
  BY <1>1, <1>2, <1>3, <1>5, Constants DEF Inv, TypeOK, Quiet, Terminal
<1> QED BY <1>3, <1>5, <1>6, <1>7 DEF Inv

LEMMA EmitStep == ASSUME Inv, NEW w \in Worker, Emit(w) PROVE Inv'
<1> DEFINE t == task[w]
<1>1. /\ pc[w] = "streaming" /\ t \in Turn
      /\ UNCHANGED <<asked, permits, queue, task, sent, order, at, wants, stage, starts, todo>>
  BY WorkerTurn DEF Emit, WorkerOnly, requests, process
<1>2. CASE active[t] \in Terminal /\ pc' = [pc EXCEPT ![w] = "finishing"] /\ UNCHANGED <<log, active>>
  BY <1>1, <1>2, SilentStep DEF Inv, StatesAreTold
<1>3. CASE active[t] \notin Terminal /\ AppendEvent(t, "output") /\ UNCHANGED <<active, pc>>
  BY <1>1, <1>3, EventStep DEF Inv, TypeOK
<1>4. CASE /\ active[t] \notin Terminal /\ pc' = [pc EXCEPT ![w] = "finishing"]
           /\ \E kind \in Terminal : AppendEvent(t, kind) /\ active' = [active EXCEPT ![t] = kind]
  BY <1>1, <1>4, EventStep, Constants DEF Inv, TypeOK
<1> QED BY <1>2, <1>3, <1>4 DEF Emit

LEMMA EndStreamStep == ASSUME Inv, NEW w \in Worker, EndStream(w) PROVE Inv'
<1> DEFINE t == task[w]
<1>1. /\ pc[w] = "streaming" /\ t \in Turn /\ pc' = [pc EXCEPT ![w] = "finishing"]
      /\ UNCHANGED <<asked, permits, queue, task, sent, order, at, wants, stage, starts, todo>>
  BY WorkerTurn DEF EndStream, WorkerOnly, requests, process
<1>2. CASE active[t] \in Terminal
  BY <1>1, <1>2, SilentStep DEF Inv, StatesAreTold, EndStream
<1>3. CASE active[t] \notin Terminal
  BY <1>1, <1>3, EventStep, Constants DEF Inv, TypeOK, EndStream
<1> QED BY <1>2, <1>3

LEMMA FinishStep == ASSUME Inv, NEW w \in Worker, Finish(w) PROVE Inv'
<1> DEFINE t == task[w]
<1>1. /\ pc[w] = "finishing" /\ active' = [active EXCEPT ![t] = "none"]
      /\ asked' = asked \ {t} /\ pc' = [pc EXCEPT ![w] = "idle"] /\ task' = [task EXCEPT ![w] = NoTurn]
      /\ permits' = permits + 1
      /\ UNCHANGED <<log, queue, sent, order, at, wants, stage, starts, todo>>
  BY WorkerTurn DEF Finish, WorkerOnly, requests, process
<1>2. /\ t \in Turn /\ ~Queued(t) /\ HasTerminal(t) /\ ~Streaming(t)
      /\ \A v \in Worker \ {w} : task[v] # t
  BY <1>1, WorkerTurn DEF Inv, StatesAreTold
<1>3. TypeOK'
  BY <1>1, <1>2 DEF Inv, TypeOK, State
<1>4. Placed'
  <2>1. \A u \in Turn : With(u)' <=> With(u) /\ u # t
    BY <1>1, <1>2, TurnAssumption DEF Inv, TypeOK, With
  <2>2. \A u \in Turn : Queued(u)' <=> Queued(u)
    BY <1>1 DEF Queued
  <2>3. \A u \in Turn : active'[u] # "none" <=> Queued(u)' \/ With(u)'
    BY <1>1, <1>2, <2>1, <2>2 DEF Inv, TypeOK, Placed
  <2>4. \A v \in Worker : pc'[v] = "idle" <=> task'[v] = NoTurn
    BY <1>1 DEF Inv, TypeOK, Placed
  <2>5. \A u, v \in Worker : task'[u] = task'[v] /\ task'[u] # NoTurn => u = v
    BY <1>1 DEF Inv, TypeOK, Placed
  <2>6. \A v \in Worker, i \in DOMAIN queue' : queue'[i] # task'[v]
    BY <1>1, QueueFacts, TurnAssumption DEF Inv, TypeOK, Placed
  <2>7. \A i, j \in DOMAIN queue' : queue'[i] = queue'[j] => i = j
    BY <1>1 DEF Inv, Placed
  <2> QED BY <2>3, <2>4, <2>5, <2>6, <2>7 DEF Placed
<1>5. \A u \in Turn : Streaming(u)' <=> Streaming(u)
  BY <1>1, <1>2, TurnAssumption DEF Inv, TypeOK, Streaming
<1>6. StatesAreTold'
  BY <1>1, <1>2, SameLog, Constants DEF Inv, TypeOK, StatesAreTold, Placed, Terminal
<1>7. Sent'
  BY <1>1, <1>5, SameLog, SentKept DEF Inv
<1>8. Quiet'
  BY <1>1, <1>2, <1>5, SameLog DEF Inv, TypeOK, Quiet
<1>9. Tracked'
  <2>1. \A u \in Turn : u \in Pending' => active'[u] # "none" \/ (u \in Pending /\ active[u] = "none")
    BY <1>1, <1>2, SameLog DEF Inv, TypeOK, Pending
  <2> QED BY <1>1, <2>1, TrackedKept DEF Inv
<1> QED BY <1>1, <1>3, <1>4, <1>6, <1>7, <1>8, <1>9, SameLog DEF Inv

-----------------------------------------------------------------------------
(* Recovery, requests, cancellation and the ends of the process.           *)

\* What _schedule does of a submitted turn, and what it leaves alone.
LEMMA ScheduleStep ==
  ASSUME Inv, NEW t \in Turn, Schedule(t), UNCHANGED <<pc, task, sent>>
  PROVE  /\ log' \in [Turn -> Seq(EventType)] /\ active' \in [Turn -> State]
         /\ asked' \subseteq Turn /\ permits' \in Nat /\ queue' \in Seq(Turn)
         /\ Placed' /\ StatesAreTold' /\ Sent' /\ Quiet' /\ EndIsQuiet'
         /\ \A u \in Turn : u \in Pending' => active'[u] # "none" \/ (u \in Pending /\ u # t)
         /\ \A u \in Turn : u \in Pending' => u \in Pending
         /\ \A u \in Turn : active[u] # "none" => active'[u] # "none"
<1>1. CASE Refuse(t)
  <2>1. AppendEvent(t, "failed") /\ UNCHANGED <<active, asked, permits, queue>>
    BY <1>1 DEF Refuse, dispatcher
  <2>2. /\ log' \in [Turn -> Seq(EventType)]
        /\ \A u \in Turn : log'[u] # <<>> => log[u] # <<>> \/ u = t
        /\ \A u \in Turn : HasTerminal(u)' <=> HasTerminal(u) \/ u = t
        /\ \A u \in Turn : Over(u)' <=> Over(u)
        /\ EndIsQuiet'
    BY <2>1, Appended, Constants DEF Inv
  <2>3. \A u \in Turn : Streaming(u)' <=> Streaming(u)
    BY DEF Streaming
  <2>4. Placed'
    BY <2>1, PlacedSame DEF Inv
  <2>5. StatesAreTold'
    BY <2>1, <2>2 DEF Inv, TypeOK, StatesAreTold, Placed
  <2>6. Sent'
    BY <2>2, <2>3, SentKept DEF Inv
  <2>7. Quiet'
    BY <2>1, <2>2, <2>3 DEF Inv, Quiet
  <2> QED BY <2>1, <2>2, <2>4, <2>5, <2>6, <2>7 DEF Inv, TypeOK, Pending
<1>2. CASE active[t] # "none" /\ UNCHANGED <<log, active, asked, permits, queue>>
  <2>1. \A u \in Turn : Streaming(u)' <=> Streaming(u)
    BY DEF Streaming
  <2>2. Placed'
    BY <1>2, PlacedSame DEF Inv
  <2>3. StatesAreTold'
    BY <1>2, SameLog DEF Inv, TypeOK, StatesAreTold, HasTerminal
  <2>4. Sent'
    BY <1>2, <2>1, SameLog, SentKept DEF Inv
  <2>5. Quiet'
    BY <1>2, <2>1, SameLog DEF Inv, Quiet
  <2> QED BY <1>2, <2>2, <2>3, <2>4, <2>5, SameLog DEF Inv, TypeOK, Pending
<1>3. CASE active[t] = "none" /\ permits > 0 /\ Enqueue(t)
  <2>1. /\ active' = [active EXCEPT ![t] = "queued"] /\ permits' = permits - 1
        /\ queue' = Append(queue, t) /\ UNCHANGED <<log, asked>>
    BY <1>3 DEF Enqueue
  <2>2. /\ queue \in Seq(Turn) /\ Len(queue) \in Nat /\ queue' \in Seq(Turn)
        /\ DOMAIN queue = 1 .. Len(queue) /\ DOMAIN queue' = 1 .. Len(queue) + 1
        /\ queue'[Len(queue) + 1] = t /\ \A i \in DOMAIN queue : queue'[i] = queue[i]
    BY <2>1 DEF Inv, TypeOK
  <2>3. ~Queued(t) /\ ~With(t)
    BY <1>3 DEF Inv, Placed
  <2>4. Placed'
    <3>1. \A u \in Turn : Queued(u)' <=> Queued(u) \/ u = t
      BY <2>2 DEF Queued
    <3>2. \A u \in Turn : With(u)' <=> With(u)
      BY DEF With
    <3>3. \A u \in Turn : active'[u] # "none" <=> Queued(u)' \/ With(u)'
      BY <2>1, <3>1, <3>2 DEF Inv, TypeOK, Placed
    <3>4. \A i, j \in DOMAIN queue' : queue'[i] = queue'[j] => i = j
      BY <2>2, <2>3 DEF Inv, Placed, Queued
    <3>5. \A v \in Worker, i \in DOMAIN queue' : queue'[i] # task'[v]
      BY <2>2, <2>3 DEF Inv, Placed, With
    <3>6. \A v \in Worker : pc'[v] = "idle" <=> task'[v] = NoTurn
      BY DEF Inv, Placed
    <3>7. \A u, v \in Worker : task'[u] = task'[v] /\ task'[u] # NoTurn => u = v
      BY DEF Inv, Placed
    <3> QED BY <3>3, <3>4, <3>5, <3>6, <3>7 DEF Placed
  <2>5. \A u \in Turn : Streaming(u)' <=> Streaming(u)
    BY DEF Streaming
  <2>6. "queued" \in State /\ "queued" \notin Terminal /\ "queued" # "none"
    BY DEF State, Terminal
  <2>7. StatesAreTold'
    BY <2>1, <2>6, SameLog DEF Inv, TypeOK, StatesAreTold, HasTerminal
  <2>8. Sent'
    BY <2>1, <2>5, SameLog, SentKept DEF Inv
  <2>9. Quiet'
    BY <1>3, <2>1, <2>5, SameLog, StreamingIsActive DEF Inv, TypeOK, Quiet
  <2>10. permits' \in Nat
    BY <1>3, <2>1 DEF Inv, TypeOK
  <2>11. \A u \in Turn : u \in Pending' => active'[u] # "none" \/ (u \in Pending /\ u # t)
    BY <2>1, <2>6, SameLog DEF Inv, TypeOK, Pending
  <2> QED BY <2>1, <2>2, <2>4, <2>6, <2>7, <2>8, <2>9, <2>10, <2>11, SameLog DEF Inv, TypeOK, Pending
<1> QED BY <1>1, <1>2, <1>3 DEF Schedule, dispatcher

LEMMA RecoverStep == ASSUME Inv, Recover PROVE Inv'
<1>1. /\ stage = "recovering" /\ UNCHANGED <<pc, task, sent, at, wants>>
      /\ stage' = IF todo' = {} THEN "up" ELSE "recovering"
  BY DEF Recover, threads, requests
<1>2. PICK t \in todo : Schedule(t) /\ todo' = todo \ {t}
  BY DEF Recover
<1>3. t \in Turn
  BY DEF Inv, TypeOK
<1>4. /\ log' \in [Turn -> Seq(EventType)] /\ active' \in [Turn -> State]
      /\ asked' \subseteq Turn /\ permits' \in Nat /\ queue' \in Seq(Turn)
      /\ Placed' /\ StatesAreTold' /\ Sent' /\ Quiet' /\ EndIsQuiet'
      /\ \A u \in Turn : u \in Pending' => active'[u] # "none" \/ (u \in Pending /\ u # t)
      /\ \A u \in Turn : active[u] # "none" => active'[u] # "none"
  BY <1>1, <1>2, <1>3, ScheduleStep
<1>5. TypeOK'
  BY <1>1, <1>2, <1>4 DEF Inv, TypeOK
<1>6. Tracked'
  <2>1. \A u \in Turn : Wanted(u)' <=> Wanted(u)
    BY <1>1 DEF Wanted
  <2>2. Pending' \subseteq Turn
    BY DEF Pending
  <2>3. \A u \in Pending' : active'[u] # "none" \/ u \in todo' \/ Wanted(u)'
    BY <1>1, <1>2, <1>4, <2>1, <2>2 DEF Inv, Tracked
  <2> QED BY <1>1, <2>3 DEF Inv, Tracked
<1> QED BY <1>4, <1>5, <1>6 DEF Inv

LEMMA StartTurnStep == ASSUME Inv, NEW k \in Caller, StartTurn(k) PROVE Inv'
<1> DEFINE t == wants[k]
<1>1. /\ at[k] = "unknown" /\ UNCHANGED <<pc, task, sent, stage, todo>>
      /\ at' = [at EXCEPT ![k] = "done"] /\ wants' = [wants EXCEPT ![k] = NoTurn]
  BY DEF StartTurn, Return, threads, process
<1>2. t \in Turn /\ at' \in [Caller -> {"new", "done"} \cup OnTheWay]
      /\ wants' \in [Caller -> Turn \cup {NoTurn}]
  BY <1>1 DEF Inv, TypeOK, Tracked, OnTheWay
<1>3. \A u \in Turn : Wanted(u) => Wanted(u)' \/ u = t
  BY <1>1 DEF Inv, TypeOK, Wanted
<1>4. \A c \in Caller : at'[c] \in OnTheWay <=> wants'[c] # NoTurn
  BY <1>1 DEF Inv, TypeOK, Tracked, OnTheWay
<1>5. Pending' \subseteq Turn
  BY DEF Pending
<1>6. CASE stage = "closed" /\ UNCHANGED <<log, active, asked, permits, queue>>
  <2>1. TypeOK'
    BY <1>1, <1>2, <1>6 DEF Inv, TypeOK
  <2>2. Placed'
    BY <1>1, <1>6, PlacedSame DEF Inv
  <2>3. StatesAreTold' /\ EndIsQuiet'
    BY <1>1, <1>6, SameLog DEF Inv, TypeOK, StatesAreTold, HasTerminal
  <2>4. Sent' /\ Quiet'
    BY <1>1, <1>6, SameLog, SentKept DEF Inv, Quiet, Streaming
  <2>5. Tracked'
    BY <1>1, <1>4, <1>6 DEF Tracked
  <2> QED BY <2>1, <2>2, <2>3, <2>4, <2>5 DEF Inv
<1>7. CASE Schedule(t)
  <2>1. /\ log' \in [Turn -> Seq(EventType)] /\ active' \in [Turn -> State]
        /\ asked' \subseteq Turn /\ permits' \in Nat /\ queue' \in Seq(Turn)
        /\ Placed' /\ StatesAreTold' /\ Sent' /\ Quiet' /\ EndIsQuiet'
        /\ \A u \in Turn : u \in Pending' => active'[u] # "none" \/ (u \in Pending /\ u # t)
        /\ \A u \in Turn : active[u] # "none" => active'[u] # "none"
    BY <1>1, <1>2, <1>7, ScheduleStep
  <2>2. TypeOK'
    BY <1>1, <1>2, <2>1 DEF Inv, TypeOK
  <2>3. Tracked'
    BY <1>1, <1>3, <1>4, <1>5, <2>1 DEF Inv, Tracked
  <2> QED BY <2>1, <2>2, <2>3 DEF Inv
<1> QED BY <1>6, <1>7 DEF StartTurn, dispatcher

\* The other steps of a request change neither dispatcher nor workers.
LEMMA RequestOnly ==
  ASSUME Inv, UNCHANGED <<active, asked, permits, queue, pc, task, sent, stage, todo>>,
         log' \in [Turn -> Seq(EventType)], EndIsQuiet',
         \A u \in Turn : (HasTerminal(u)' <=> HasTerminal(u)) /\ (Over(u)' <=> Over(u)),
         at' \in [Caller -> {"new", "done"} \cup OnTheWay],
         wants' \in [Caller -> Turn \cup {NoTurn}],
         Tracked'
  PROVE  Inv'
<1>1. TypeOK'
  BY DEF Inv, TypeOK
<1>2. Placed'
  BY PlacedSame DEF Inv
<1>3. StatesAreTold'
  BY DEF Inv, TypeOK, StatesAreTold, Placed
<1>4. \A u \in Turn : Streaming(u)' <=> Streaming(u)
  BY DEF Streaming
<1>5. Sent' /\ Quiet'
  BY <1>4, SentKept DEF Inv, Quiet
<1> QED BY <1>1, <1>2, <1>3, <1>5 DEF Inv

LEMMA PostStep == ASSUME Inv, NEW k \in Caller, NEW t \in Turn, Post(k, t) PROVE Inv'
<1>1. /\ stage = "up" /\ at[k] = "new"
      /\ at' = [at EXCEPT ![k] = "posted"] /\ wants' = [wants EXCEPT ![k] = t]
      /\ UNCHANGED <<active, asked, permits, queue, pc, task, sent, stage, todo>>
  BY DEF Post, dispatcher, threads, process
<1>2. /\ at' \in [Caller -> {"new", "done"} \cup OnTheWay]
      /\ wants' \in [Caller -> Turn \cup {NoTurn}]
      /\ \A c \in Caller : at'[c] \in OnTheWay <=> wants'[c] # NoTurn
  BY <1>1, TurnAssumption DEF Inv, TypeOK, Tracked, OnTheWay
<1>3. wants[k] = NoTurn
  BY <1>1 DEF Inv, Tracked, OnTheWay
<1>4. \A u \in Turn : Wanted(u)' <=> Wanted(u) \/ u = t
  BY <1>1, <1>3, TurnAssumption DEF Inv, TypeOK, Wanted, OnTheWay
<1>5. /\ log' \in [Turn -> Seq(EventType)] /\ EndIsQuiet'
      /\ \A u \in Turn : (HasTerminal(u)' <=> HasTerminal(u)) /\ (Over(u)' <=> Over(u))
      /\ \A u \in Turn : log'[u] # <<>> => log[u] # <<>> \/ u = t
  <2>1. CASE log[t] = <<>> /\ AppendEvent(t, "submitted")
    <3>1. ~Over(t)
      BY <2>1 DEF Over
    <3> QED BY <2>1, <3>1, Appended, Constants DEF Inv
  <2>2. CASE UNCHANGED log
    BY <2>2, SameLog DEF Inv, TypeOK
  <2> QED BY <2>1, <2>2 DEF Post, journal
<1>6. \A u \in Turn : u \in Pending' => u \in Pending \/ u = t
  BY <1>5 DEF Pending
<1>7. Tracked'
  <2>1. Pending' \subseteq Turn
    BY DEF Pending
  <2> QED BY <1>1, <1>2, <1>4, <1>6, <2>1 DEF Inv, Tracked
<1> QED BY <1>1, <1>2, <1>5, <1>7, RequestOnly

LEMMA CheckStep ==
  ASSUME Inv, NEW k \in Caller, CheckTerminal(k) \/ CheckActive(k)
  PROVE  Inv'
<1>1. UNCHANGED <<log, active, asked, permits, queue, pc, task, sent, stage, todo>>
  BY DEF CheckTerminal, CheckActive, journal, dispatcher, threads, process
<1>2. at[k] \in OnTheWay /\ wants[k] \in Turn
  BY DEF Inv, TypeOK, Tracked, CheckTerminal, CheckActive, OnTheWay
<1>3. \A u \in Turn : u \in Pending' <=> u \in Pending
  BY <1>1, SameLog DEF Pending
<1>4. CASE Return(k) /\ (HasTerminal(wants[k]) \/ active[wants[k]] # "none")
  <2>1. at' = [at EXCEPT ![k] = "done"] /\ wants' = [wants EXCEPT ![k] = NoTurn]
    BY <1>4 DEF Return
  <2>2. /\ at' \in [Caller -> {"new", "done"} \cup OnTheWay]
        /\ wants' \in [Caller -> Turn \cup {NoTurn}]
        /\ \A c \in Caller : at'[c] \in OnTheWay <=> wants'[c] # NoTurn
    BY <2>1 DEF Inv, TypeOK, Tracked, OnTheWay
  <2>3. \A u \in Turn : Wanted(u) => Wanted(u)' \/ u = wants[k]
    BY <2>1 DEF Inv, TypeOK, Wanted
  <2>4. Tracked'
    BY <1>1, <1>3, <1>4, <2>2, <2>3 DEF Inv, Tracked, Pending
  <2> QED BY <1>1, <2>2, <2>4, SameLog, RequestOnly DEF Inv, TypeOK
<1>5. CASE \E there \in OnTheWay : Continue(k, there)
  <2>1. PICK there \in OnTheWay : at' = [at EXCEPT ![k] = there] /\ wants' = wants
    BY <1>5 DEF Continue
  <2>2. /\ at' \in [Caller -> {"new", "done"} \cup OnTheWay]
        /\ \A c \in Caller : at'[c] \in OnTheWay <=> at[c] \in OnTheWay
    BY <1>2, <2>1 DEF Inv, TypeOK
  <2>3. \A u \in Turn : Wanted(u)' <=> Wanted(u)
    BY <2>1, <2>2 DEF Wanted
  <2>4. Tracked'
    BY <1>1, <1>3, <2>1, <2>2, <2>3 DEF Inv, Tracked, Pending
  <2> QED BY <1>1, <2>1, <2>2, <2>4, SameLog, RequestOnly DEF Inv, TypeOK
<1>6. "checked" \in OnTheWay /\ "unknown" \in OnTheWay
  BY DEF OnTheWay
<1> QED BY <1>4, <1>5, <1>6 DEF CheckTerminal, CheckActive

\* The queue without one turn.
LEMMA WithoutFacts ==
  ASSUME Inv, NEW i \in DOMAIN queue, queue' = Without(i)
  PROVE  /\ queue' \in Seq(Turn) /\ Len(queue') = Len(queue) - 1 /\ Len(queue) \in Nat
         /\ \A u : Queued(u)' <=> Queued(u) /\ u # queue[i]
         /\ \A j, l \in DOMAIN queue' : queue'[j] = queue'[l] => j = l
         /\ \A j \in DOMAIN queue' : \E l \in DOMAIN queue : queue'[j] = queue[l]
<1> DEFINE n == Len(queue)
           old(j) == IF j < i THEN j ELSE j + 1
<1>1. /\ queue \in Seq(Turn) /\ n \in Nat /\ DOMAIN queue = 1 .. n /\ i \in 1 .. n
      /\ queue' = [j \in 1 .. n - 1 |-> queue[old(j)]]
  BY DEF Inv, TypeOK, Without
<1>2. \A j \in 1 .. n - 1 : old(j) \in 1 .. n /\ old(j) # i /\ queue'[j] = queue[old(j)]
  BY <1>1
<1>3. queue' \in Seq(Turn) /\ Len(queue') = n - 1 /\ DOMAIN queue' = 1 .. n - 1
  <2>1. n - 1 \in Nat /\ \A j \in 1 .. n - 1 : queue[old(j)] \in Turn
    BY <1>1, <1>2
  <2> QED BY <1>1, <2>1
<1>4. \A j, l \in 1 .. n - 1 : old(j) = old(l) => j = l
  BY <1>1
<1>5. \A l \in 1 .. n : l # i => \E j \in 1 .. n - 1 : old(j) = l
  <2> SUFFICES ASSUME NEW l \in 1 .. n, l # i
               PROVE  \E j \in 1 .. n - 1 : old(j) = l
    OBVIOUS
  <2>1. CASE l < i
    BY <1>1, <2>1
  <2>2. CASE l > i
    <3>1. l - 1 \in 1 .. n - 1 /\ old(l - 1) = l
      BY <1>1, <2>2
    <3> QED BY <3>1
  <2> QED BY <1>1, <2>1, <2>2
<1>6. \A u : Queued(u)' <=> Queued(u) /\ u # queue[i]
  <2> HIDE DEF old
  <2>1. \A j, l \in 1 .. n : queue[j] = queue[l] => j = l
    BY <1>1 DEF Inv, Placed
  <2> QED BY <1>1, <1>2, <1>3, <1>5, <2>1 DEF Queued
<1>7. \A j, l \in DOMAIN queue' : queue'[j] = queue'[l] => j = l
  <2> HIDE DEF old
  <2> QED BY <1>1, <1>2, <1>3, <1>4 DEF Inv, Placed
<1>8. \A j \in DOMAIN queue' : \E l \in DOMAIN queue : queue'[j] = queue[l]
  <2> HIDE DEF old
  <2> QED BY <1>1, <1>2, <1>3
<1> QED BY <1>1, <1>3, <1>6, <1>7, <1>8

LEMMA CancelStep == ASSUME Inv, NEW t \in Turn, Cancel(t) PROVE Inv'
<1>1. /\ log[t] # <<>> /\ ~HasTerminal(t) /\ AppendEvent(t, "cancelled")
      /\ UNCHANGED <<pc, task, sent, at, wants, stage, todo>>
  BY DEF Cancel, threads, requests, process
<1>2. ~Over(t)
  BY <1>1 DEF Over, HasTerminal, Terminal
<1>3. /\ log' \in [Turn -> Seq(EventType)]
      /\ \A u \in Turn : log'[u] # <<>> => log[u] # <<>> \/ u = t
      /\ \A u \in Turn : HasTerminal(u)' <=> HasTerminal(u) \/ u = t
      /\ \A u \in Turn : Over(u)' <=> Over(u) \/ u = t
      /\ EndIsQuiet'
  BY <1>1, <1>2, Appended, Constants DEF Inv
<1>4. \A u \in Turn : (Streaming(u)' <=> Streaming(u)) /\ (With(u)' <=> With(u))
  BY <1>1 DEF Streaming, With
<1>5. Sent'
  BY <1>1, <1>3, <1>4, SentKept DEF Inv
<1> SUFFICES TypeOK' /\ Placed' /\ StatesAreTold' /\ Quiet' /\ Tracked'
  BY <1>3, <1>5 DEF Inv
<1>6. CASE active[t] = "none" /\ UNCHANGED <<active, asked, permits, queue>>
  <2>1. Quiet'
    BY <1>3, <1>4, <1>6, StreamingIsActive DEF Inv, TypeOK, Quiet
  <2>2. Placed'
    BY <1>1, <1>6, PlacedSame DEF Inv
  <2>3. StatesAreTold'
    BY <1>1, <1>3, <1>6 DEF Inv, TypeOK, StatesAreTold, Placed
  <2>4. Tracked'
    BY <1>1, <1>3, <1>6, TrackedKept DEF Inv, TypeOK, Pending
  <2> QED BY <1>1, <1>3, <1>6, <2>1, <2>2, <2>3, <2>4 DEF Inv, TypeOK
<1>7. CASE /\ \E i \in DOMAIN queue : queue[i] = t /\ queue' = Without(i)
           /\ active' = [active EXCEPT ![t] = "none"] /\ permits' = permits + 1
           /\ UNCHANGED asked
  <2>1. PICK i \in DOMAIN queue : queue[i] = t /\ queue' = Without(i)
    BY <1>7
  <2>2. /\ queue' \in Seq(Turn) /\ Queued(t)
        /\ \A u : Queued(u)' <=> Queued(u) /\ u # t
        /\ \A j, l \in DOMAIN queue' : queue'[j] = queue'[l] => j = l
        /\ \A j \in DOMAIN queue' : \E l \in DOMAIN queue : queue'[j] = queue[l]
    <3>1. Queued(t)
      BY <2>1 DEF Queued
    <3> QED BY <2>1, <3>1, WithoutFacts
  <2>3. ~With(t)
    BY <2>1 DEF Inv, Placed, With
  <2>4. TypeOK'
    <3>1. active' \in [Turn -> State] /\ permits' \in Nat
      BY <1>7 DEF Inv, TypeOK, State
    <3> QED BY <1>1, <1>3, <1>7, <2>2, <3>1 DEF Inv, TypeOK
  <2>5. Placed'
    <3>1. \A u \in Turn : active'[u] # "none" <=> Queued(u)' \/ With(u)'
      BY <1>4, <1>7, <2>2, <2>3 DEF Inv, TypeOK, Placed
    <3>2. \A v \in Worker, j \in DOMAIN queue' : queue'[j] # task'[v]
      BY <1>1, <2>2 DEF Inv, Placed
    <3> QED BY <1>1, <2>2, <3>1, <3>2 DEF Inv, Placed
  <2>6. StatesAreTold'
    BY <1>1, <1>3, <1>7, Constants DEF Inv, TypeOK, StatesAreTold, Placed, Terminal
  <2>7. Quiet'
    BY <1>3, <1>4, <1>7, <2>2, StreamingIsActive DEF Inv, TypeOK, Quiet
  <2>8. \A u \in Turn : u \in Pending' => active'[u] # "none" \/ (u \in Pending /\ active[u] = "none")
    BY <1>3, <1>7 DEF Inv, TypeOK, Pending
  <2>9. Tracked'
    BY <1>1, <2>8, TrackedKept DEF Inv
  <2> QED BY <2>4, <2>5, <2>6, <2>7, <2>9
<1>8. CASE /\ active[t] # "none" /\ active' = [active EXCEPT ![t] = "cancelled"]
           /\ asked' = asked \cup {t} /\ UNCHANGED <<permits, queue>>
  <2>1. TypeOK'
    BY <1>1, <1>3, <1>8, Constants DEF Inv, TypeOK, State
  <2>2. Placed'
    BY <1>1, <1>8, PlacedSame DEF Inv, TypeOK
  <2>3. StatesAreTold'
    BY <1>1, <1>3, <1>8 DEF Inv, TypeOK, StatesAreTold, Placed
  <2>4. Quiet'
    BY <1>3, <1>4, <1>8, Constants DEF Inv, TypeOK, Quiet
  <2>5. \A u \in Turn : u \in Pending' => active'[u] # "none" \/ (u \in Pending /\ active[u] = "none")
    BY <1>3, <1>8 DEF Inv, TypeOK, Pending
  <2>6. Tracked'
    BY <1>1, <2>5, TrackedKept DEF Inv
  <2> QED BY <2>1, <2>2, <2>3, <2>4, <2>6
<1> QED BY <1>6, <1>7, <1>8 DEF Cancel, dispatcher

LEMMA ShutdownStep == ASSUME Inv, NEW cancel \in BOOLEAN, Shutdown(cancel) PROVE Inv'
<1>1. /\ stage' = "closed" /\ UNCHANGED <<log, pc, task, sent, at, wants, todo>>
  BY DEF Shutdown, journal, threads, requests
<1>2. \A u \in Turn : (Streaming(u)' <=> Streaming(u)) /\ (With(u)' <=> With(u))
  BY <1>1 DEF Streaming, With
<1>3. Sent' /\ EndIsQuiet'
  BY <1>1, <1>2, SameLog, SentKept DEF Inv
<1>4. Tracked'
  BY <1>1 DEF Inv, Tracked
<1>5. CASE UNCHANGED <<active, asked, permits, queue>>
  <2>1. Placed'
    BY <1>1, <1>5, PlacedSame DEF Inv
  <2>2. StatesAreTold'
    BY <1>1, <1>5, SameLog DEF Inv, TypeOK, StatesAreTold, HasTerminal
  <2>3. Quiet'
    BY <1>1, <1>2, <1>5, SameLog DEF Inv, Quiet
  <2> QED BY <1>1, <1>3, <1>4, <1>5, <2>1, <2>2, <2>3 DEF Inv, TypeOK
<1>6. CASE /\ active' = [t \in Turn |-> IF Queued(t) THEN "none" ELSE active[t]]
           /\ asked' = {t \in Turn : active[t] # "none" /\ ~Queued(t)}
           /\ permits' = permits + Len(queue) /\ queue' = <<>>
  <2>1. TypeOK'
    BY <1>1, <1>6 DEF Inv, TypeOK, State
  <2>2. \A t \in Turn : ~Queued(t)'
    BY <1>6 DEF Queued
  <2>3. \A t \in Turn : Queued(t) => ~With(t)
    BY DEF Inv, Placed, Queued, With
  <2>4. Placed'
    <3>1. \A u \in Turn : active'[u] # "none" <=> Queued(u)' \/ With(u)'
      BY <1>2, <1>6, <2>2, <2>3 DEF Inv, Placed
    <3> QED BY <1>1, <1>6, <3>1 DEF Inv, Placed
  <2>5. StatesAreTold'
    BY <1>1, <1>6, SameLog, Constants DEF Inv, TypeOK, StatesAreTold, HasTerminal, Terminal
  <2>6. Quiet'
    BY <1>1, <1>2, <1>6, SameLog, StreamingIsActive DEF Inv, Quiet
  <2> QED BY <1>3, <1>4, <2>1, <2>4, <2>5, <2>6 DEF Inv
<1> QED BY <1>5, <1>6 DEF Shutdown, dispatcher

LEMMA ResetStep == ASSUME Inv, Exit \/ Die PROVE Inv'
<1>1. /\ log' = log /\ stage' = "down" /\ Reset
  BY DEF Exit, Die, journal
<1>2. /\ todo' = {} /\ active' = [t \in Turn |-> "none"] /\ asked' = {}
      /\ permits' = Capacity /\ queue' = <<>>
      /\ pc' = [w \in Worker |-> "idle"] /\ task' = [w \in Worker |-> NoTurn]
      /\ sent' = [t \in Turn |-> 0]
      /\ at' = [k \in Caller |-> IF at[k] = "new" THEN "new" ELSE "done"]
      /\ wants' = [k \in Caller |-> NoTurn]
  BY <1>1 DEF Reset, Idle
<1>3. Capacity \in Nat
  BY SizeAssumption, FS_CardinalityType DEF Capacity
<1>4. TypeOK'
  BY <1>1, <1>2, <1>3 DEF Inv, TypeOK, State
<1>5. Placed'
  BY <1>2, TurnAssumption DEF Placed, Queued, With
<1>6. StatesAreTold'
  BY <1>2 DEF StatesAreTold, Terminal
<1>7. Sent' /\ Quiet' /\ EndIsQuiet'
  BY <1>1, <1>2, SameLog DEF Inv, Sent, Quiet, Streaming
<1>8. Tracked'
  BY <1>1, <1>2 DEF Tracked, OnTheWay
<1> QED BY <1>4, <1>5, <1>6, <1>7, <1>8 DEF Inv

LEMMA OpenStep == ASSUME Inv, Open PROVE Inv'
<1>1. /\ UNCHANGED <<log, active, asked, permits, queue, pc, task, sent, at, wants>>
      /\ todo' = Pending /\ stage' = IF Pending = {} THEN "up" ELSE "recovering"
  BY DEF Open, journal, dispatcher, threads, requests
<1>2. Pending' = Pending /\ Pending \subseteq Turn
  BY <1>1, SameLog DEF Pending
<1>3. TypeOK'
  BY <1>1, <1>2 DEF Inv, TypeOK
<1>4. Placed'
  BY <1>1, PlacedSame DEF Inv
<1>5. StatesAreTold'
  BY <1>1, SameLog DEF Inv, TypeOK, StatesAreTold, HasTerminal
<1>6. Sent' /\ Quiet' /\ EndIsQuiet'
  BY <1>1, SameLog, SentKept DEF Inv, Quiet, Streaming
<1>7. Tracked'
  BY <1>1, <1>2 DEF Inv, Tracked
<1> QED BY <1>3, <1>4, <1>5, <1>6, <1>7 DEF Inv

\* The availability of the provider, the streams and stuttering.
LEMMA OtherStep ==
  ASSUME Inv, UNCHANGED <<journal, dispatcher, threads, requests, process>>
  PROVE  Inv'
<1>1. UNCHANGED <<log, active, asked, permits, queue, pc, task, sent, at, wants, stage, todo>>
  BY DEF journal, dispatcher, threads, requests, process
<1>2. Tracked'
  BY <1>1, SameLog, TrackedKept DEF Inv, Pending
<1> QED BY <1>1, <1>2, SameLog, RequestOnly DEF Inv, TypeOK

-----------------------------------------------------------------------------
(* The invariant, and what it implies.                                     *)

LEMMA InitInv == Init => Inv
<1> SUFFICES ASSUME Init PROVE Inv
  OBVIOUS
<1>1. /\ log = [t \in Turn |->
                  IF \E i \in DOMAIN Backlog : Backlog[i] = t THEN <<"submitted">> ELSE <<>>]
      /\ stage = "down" /\ todo = {} /\ active = [t \in Turn |-> "none"] /\ asked = {}
      /\ permits = Capacity /\ queue = <<>>
      /\ pc = [w \in Worker |-> "idle"] /\ task = [w \in Worker |-> NoTurn]
      /\ sent = [t \in Turn |-> 0]
      /\ at = [k \in Caller |-> "new"] /\ wants = [k \in Caller |-> NoTurn]
  BY DEF Init, Idle
<1>2. <<"submitted">> \in Seq(EventType) /\ <<>> \in Seq(EventType)
  BY DEF EventType
<1>3. Capacity \in Nat
  BY SizeAssumption, FS_CardinalityType DEF Capacity
<1>4. TypeOK
  <2>1. log \in [Turn -> Seq(EventType)]
    BY <1>1, <1>2
  <2> QED BY <1>1, <1>3, <2>1 DEF TypeOK, State
<1>5. Placed
  BY <1>1, TurnAssumption DEF Placed, Queued, With
<1>6. StatesAreTold /\ Sent /\ Quiet
  BY <1>1 DEF StatesAreTold, Terminal, Sent, Quiet, Streaming
<1>7. EndIsQuiet
  <2>1. \A t \in Turn : log[t] = <<>> \/ log[t] = <<"submitted">>
    BY <1>1
  <2> QED BY <2>1 DEF EndIsQuiet
<1>8. Tracked
  BY <1>1 DEF Tracked, OnTheWay
<1> QED BY <1>4, <1>5, <1>6, <1>7, <1>8 DEF Inv

LEMMA NextInv == Inv /\ [Next]_vars => Inv'
<1> SUFFICES ASSUME Inv, [Next]_vars PROVE Inv'
  OBVIOUS
<1>1. CASE Open
  BY <1>1, OpenStep
<1>2. CASE Recover
  BY <1>2, RecoverStep
<1>3. CASE Exit \/ Die
  BY <1>3, ResetStep
<1>4. CASE Flip \/ UNCHANGED vars \/ \E t \in Watched : OpenStream(t) \/ Poll(t)
  BY <1>4, OtherStep DEF Flip, OpenStream, Poll, vars
<1>5. CASE \E cancel \in BOOLEAN : Shutdown(cancel)
  BY <1>5, ShutdownStep
<1>6. CASE \E t \in Turn : Cancel(t)
  BY <1>6, CancelStep
<1>7. CASE \E k \in Caller, t \in Turn : Post(k, t)
  BY <1>7, PostStep
<1>8. CASE \E k \in Caller : RequestStep(k)
  BY <1>8, CheckStep, StartTurnStep DEF RequestStep
<1>9. CASE \E w \in Worker : WorkerStep(w)
  BY <1>9, TakeStep, BeginStep, EmitStep, EndStreamStep, FinishStep DEF WorkerStep, StreamStep
<1> QED BY <1>1, <1>2, <1>3, <1>4, <1>5, <1>6, <1>7, <1>8, <1>9 DEF Next

LEMMA InvHolds == Spec => []Inv
BY InitInv, NextInv, PTL DEF Spec

(* What a turn's events tell after its end: nothing of a provider's comes  *)
(* after a completion or a cancellation.  (_persist_provider_event and     *)
(* _run_serialized, against cancel_turn, every refusal and a restart.)     *)
THEOREM TurnEndsQuietly == Spec => []EndIsQuiet
<1>1. Inv => EndIsQuiet
  BY DEF Inv
<1> QED BY <1>1, InvHolds, PTL

(* One process sends a turn's prompt at most once.  (start_turn, _schedule *)
(* and _run_serialized, whatever requests and recovery overlap.)           *)
THEOREM PromptIsSentOnce == Spec => []PromptSentOnce
<1>1. Inv => PromptSentOnce
  BY DEF Inv, Sent, PromptSentOnce
<1> QED BY <1>1, InvHolds, PTL

(* A submitted turn is never forgotten while the service is up.            *)
(* (start_turn, _schedule, the recovery of the constructor and _finish.)   *)
THEOREM NoTurnIsForgotten == Spec => []TurnIsTracked
<1>1. Inv => TurnIsTracked
  BY DEF Inv, Tracked, TurnIsTracked, Pending, Wanted, OnTheWay
<1> QED BY <1>1, InvHolds, PTL

-----------------------------------------------------------------------------
(* Counting permits and places.                                            *)

LEMMA Finite ==
  /\ IsFiniteSet(Entries) /\ Cardinality(Entries) \in Nat
  /\ IsFiniteSet(Busy) /\ Cardinality(Busy) \in Nat
  /\ Capacity \in Nat
<1>1. Entries \in SUBSET Turn /\ Busy \in SUBSET Worker
  BY DEF Entries, Busy
<1>2. IsFiniteSet(Turn) /\ IsFiniteSet(Worker)
  BY TurnAssumption, SizeAssumption
<1>3. IsFiniteSet(Entries) /\ IsFiniteSet(Busy)
  BY <1>1, <1>2, FS_Subset
<1> QED BY <1>2, <1>3, SizeAssumption, FS_CardinalityType DEF Capacity

LEMMA CountKept ==
  ASSUME Counted, UNCHANGED <<permits, queue>>,
         \A t \in Turn : active'[t] = "none" <=> active[t] = "none",
         \A w \in Worker : pc'[w] = "idle" <=> pc[w] = "idle"
  PROVE  Counted'
<1>1. Entries' = Entries /\ Busy' = Busy
  BY DEF Entries, Busy
<1> QED BY <1>1 DEF Counted

\* A turn comes to the queue, or leaves the service and its place.
LEMMA CountUp ==
  ASSUME Inv, Counted, NEW t \in Turn, active[t] = "none",
         active' = [active EXCEPT ![t] = "queued"], permits' = permits - 1,
         queue' = Append(queue, t), UNCHANGED pc
  PROVE  Counted'
<1>1. Entries' = Entries \cup {t} /\ t \notin Entries /\ Busy' = Busy
  BY DEF Inv, TypeOK, Entries, Busy
<1>2. Len(queue') = Len(queue) + 1 /\ Len(queue) \in Nat
  BY DEF Inv, TypeOK
<1>3. Cardinality(Entries') = Cardinality(Entries) + 1
  BY <1>1, Finite, FS_AddElement
<1>4. permits \in Nat /\ permits + Cardinality(Entries) = Capacity
  BY DEF Inv, TypeOK, Counted
<1>5. permits' + Cardinality(Entries') = Capacity
  BY <1>3, <1>4, Finite
<1>6. Cardinality(Entries') = Len(queue') + Cardinality(Busy')
  BY <1>1, <1>2, <1>3, Finite DEF Counted
<1> QED BY <1>5, <1>6 DEF Counted

LEMMA CountDown ==
  ASSUME Inv, Counted, NEW t \in Turn, active[t] # "none",
         active' = [active EXCEPT ![t] = "none"], permits' = permits + 1,
         \/ Len(queue') = Len(queue) - 1 /\ UNCHANGED pc
         \/ /\ UNCHANGED queue
            /\ \E w \in Worker : pc[w] # "idle" /\ pc' = [pc EXCEPT ![w] = "idle"]
  PROVE  Counted'
<1>1. Entries' = Entries \ {t} /\ t \in Entries
  BY DEF Inv, TypeOK, Entries
<1>2. Cardinality(Entries') = Cardinality(Entries) - 1
  BY <1>1, Finite, FS_RemoveElement
<1>3. Len(queue) \in Nat
  BY DEF Inv, TypeOK
<1>0. /\ permits \in Nat /\ permits' = permits + 1 /\ Capacity \in Nat
      /\ Cardinality(Entries) \in Nat /\ Cardinality(Busy) \in Nat
      /\ permits + Cardinality(Entries) = Capacity
      /\ Cardinality(Entries) = Len(queue) + Cardinality(Busy)
  BY Finite DEF Counted, Inv, TypeOK
<1>4. CASE Len(queue') = Len(queue) - 1 /\ UNCHANGED pc
  <2>1. Busy' = Busy
    BY <1>4 DEF Busy
  <2>2. Len(queue') = Len(queue) - 1 /\ Cardinality(Busy') = Cardinality(Busy)
    BY <1>4, <2>1
  <2> QED BY <1>0, <1>2, <1>3, <2>2 DEF Counted
<1>5. CASE UNCHANGED queue /\ \E w \in Worker : pc[w] # "idle" /\ pc' = [pc EXCEPT ![w] = "idle"]
  <2>1. PICK w \in Worker : pc[w] # "idle" /\ pc' = [pc EXCEPT ![w] = "idle"]
    BY <1>5
  <2>2. Busy' = Busy \ {w} /\ w \in Busy
    BY <2>1 DEF Inv, TypeOK, Busy
  <2>3. Cardinality(Busy') = Cardinality(Busy) - 1
    BY <2>2, Finite, FS_RemoveElement
  <2>4. Len(queue') = Len(queue)
    BY <1>5
  <2> QED BY <1>0, <1>2, <1>3, <2>3, <2>4 DEF Counted
<1> QED BY <1>4, <1>5

LEMMA CountSchedule ==
  ASSUME Inv, Counted, NEW t \in Turn, Schedule(t), UNCHANGED pc
  PROVE  Counted'
BY CountKept, CountUp DEF Schedule, Refuse, Enqueue, dispatcher

LEMMA CountTake == ASSUME Inv, Counted, NEW w \in Worker, Take(w) PROVE Counted'
<1>1. /\ pc[w] = "idle" /\ pc' = [pc EXCEPT ![w] = "taken"] /\ queue # <<>>
      /\ queue' = Tail(queue) /\ UNCHANGED <<active, permits>>
  BY DEF Take
<1>2. Entries' = Entries /\ Busy' = Busy \cup {w} /\ w \notin Busy
  BY <1>1 DEF Inv, TypeOK, Entries, Busy
<1>3. Cardinality(Busy') = Cardinality(Busy) + 1
  BY <1>2, Finite, FS_AddElement
<1>4. Len(queue') = Len(queue) - 1 /\ Len(queue) \in Nat
  BY <1>1 DEF Inv, TypeOK
<1> QED BY <1>1, <1>2, <1>3, <1>4, Finite DEF Counted, Inv, TypeOK

\* Without a queue there are as many turns as workers that have one.
LEMMA CountShutdown ==
  ASSUME Inv, Counted, queue' = <<>>, permits' = permits + Len(queue),
         active' = [t \in Turn |-> IF Queued(t) THEN "none" ELSE active[t]],
         UNCHANGED <<pc, task>>
  PROVE  Counted'
<1> DEFINE f == [w \in Busy |-> task[w]]
<1>1. Busy' = Busy
  BY DEF Busy
<1>2. \A t \in Turn : t \in Entries' <=> \E w \in Busy : task[w] = t
  <2> TAKE t \in Turn
  <2>1. t \in Entries' <=> active[t] # "none" /\ ~Queued(t)
    BY DEF Entries
  <2>2. With(t) => ~Queued(t)
    BY DEF Inv, Placed, Queued, With
  <2>3. With(t) <=> \E w \in Busy : task[w] = t
    BY TurnAssumption DEF Inv, Placed, With, Busy
  <2> QED BY <2>1, <2>2, <2>3 DEF Inv, Placed
<1>3. \A w \in Busy : task[w] \in Turn
  BY DEF Inv, TypeOK, Placed, Busy
<1>4. f \in Bijection(Busy, Entries')
  <2>1. f \in [Busy -> Entries']
    BY <1>2, <1>3
  <2>2. \A v, w \in Busy : f[v] = f[w] => v = w
    BY <1>3, TurnAssumption DEF Inv, Placed, Busy
  <2>3. \A t \in Entries' : \E w \in Busy : f[w] = t
    BY <1>2 DEF Entries
  <2> QED BY <2>1, <2>2, <2>3 DEF Bijection, Injection, Surjection, IsInjective
<1>5. Cardinality(Entries') = Cardinality(Busy)
  BY <1>4, Finite, FS_Bijection DEF ExistsBijection
<1>6. Len(queue') = 0 /\ Len(queue) \in Nat
  BY DEF Inv, TypeOK
<1> QED BY <1>1, <1>5, <1>6, Finite DEF Counted, Inv, TypeOK

LEMMA CountReset ==
  ASSUME active' = [t \in Turn |-> "none"], permits' = Capacity, queue' = <<>>,
         pc' = [w \in Worker |-> "idle"]
  PROVE  Counted'
<1>1. Entries' = {} /\ Busy' = {} /\ Len(queue') = 0
  BY DEF Entries, Busy
<1> QED BY <1>1, FS_EmptySet, Finite DEF Counted

LEMMA InitCounted == Init => Counted
<1> SUFFICES ASSUME Init PROVE Counted
  OBVIOUS
<1>1. Entries = {} /\ Busy = {} /\ Len(queue) = 0 /\ permits = Capacity
  BY DEF Init, Idle, Entries, Busy
<1> QED BY <1>1, FS_EmptySet, Finite DEF Counted

LEMMA NextCounted == Inv /\ Counted /\ [Next]_vars => Counted'
<1> SUFFICES ASSUME Inv, Counted, [Next]_vars PROVE Counted'
  OBVIOUS
<1>1. CASE Recover
  BY <1>1, CountSchedule DEF Recover, threads, Inv, TypeOK
<1>2. CASE Exit \/ Die
  BY <1>2, CountReset DEF Exit, Die, Reset, Idle
<1>3. ASSUME UNCHANGED <<dispatcher, threads>> PROVE Counted'
  BY <1>3, CountKept DEF dispatcher, threads
<1>4. CASE Open \/ Flip \/ UNCHANGED vars \/ \E t \in Watched : OpenStream(t) \/ Poll(t)
  BY <1>3, <1>4 DEF Open, Flip, OpenStream, Poll, vars
<1>5. ASSUME NEW cancel \in BOOLEAN, Shutdown(cancel) PROVE Counted'
  BY <1>3, <1>5, CountShutdown DEF Shutdown, threads
<1>6. ASSUME NEW t \in Turn, Cancel(t) PROVE Counted'
  <2>1. UNCHANGED <<pc, task>>
    BY <1>6 DEF Cancel, threads
  <2>2. CASE active[t] = "none" /\ UNCHANGED dispatcher
    BY <2>1, <2>2, CountKept DEF dispatcher
  <2>3. CASE /\ \E i \in DOMAIN queue : queue[i] = t /\ queue' = Without(i)
             /\ active' = [active EXCEPT ![t] = "none"] /\ permits' = permits + 1
    <3>1. active[t] # "none"
      BY <2>3 DEF Inv, Placed, Queued
    <3>2. Len(queue') = Len(queue) - 1
      BY <2>3, WithoutFacts
    <3> QED BY <2>1, <2>3, <3>1, <3>2, CountDown
  <2>4. CASE /\ active[t] # "none" /\ active' = [active EXCEPT ![t] = "cancelled"]
             /\ UNCHANGED <<permits, queue>>
    BY <2>1, <2>4, CountKept DEF Inv, TypeOK
  <2> QED BY <1>6, <2>2, <2>3, <2>4 DEF Cancel
<1>7. ASSUME NEW k \in Caller, NEW t \in Turn, Post(k, t) PROVE Counted'
  BY <1>3, <1>7 DEF Post
<1>8. ASSUME NEW k \in Caller, RequestStep(k) PROVE Counted'
  <2>1. CASE CheckTerminal(k) \/ CheckActive(k)
    BY <1>3, <2>1 DEF CheckTerminal, CheckActive
  <2>2. CASE StartTurn(k)
    <3>1. wants[k] \in Turn
      BY <2>2 DEF StartTurn, Inv, TypeOK, Tracked, OnTheWay
    <3> QED BY <1>3, <2>2, <3>1, CountSchedule DEF StartTurn, threads
  <2> QED BY <1>8, <2>1, <2>2 DEF RequestStep
<1>9. ASSUME NEW w \in Worker, WorkerStep(w) PROVE Counted'
  <2>1. CASE Take(w)
    BY <2>1, CountTake
  <2>2. CASE Begin(w) \/ Emit(w) \/ EndStream(w)
    <3>1. pc[w] # "idle" /\ task[w] \in Turn /\ active[task[w]] # "none"
      BY <2>2, WorkerTurn DEF Begin, Emit, EndStream
    <3>2. /\ UNCHANGED <<permits, queue>>
          /\ \/ UNCHANGED pc \/ pc' = [pc EXCEPT ![w] = "finishing"] \/ pc' = [pc EXCEPT ![w] = "streaming"]
          /\ \/ UNCHANGED active
             \/ \E state \in Terminal \cup {"running"} : active' = [active EXCEPT ![task[w]] = state]
      BY <2>2, Constants DEF Begin, Dispatch, Emit, EndStream
    <3>3. "none" \notin Terminal
      BY DEF Terminal
    <3>4. \A t \in Turn : active'[t] = "none" <=> active[t] = "none"
      BY <3>1, <3>2, <3>3 DEF Inv, TypeOK
    <3>5. \A v \in Worker : pc'[v] = "idle" <=> pc[v] = "idle"
      BY <3>1, <3>2 DEF Inv, TypeOK
    <3> QED BY <3>2, <3>4, <3>5, CountKept
  <2>3. CASE Finish(w)
    <3>1. /\ pc[w] # "idle" /\ pc' = [pc EXCEPT ![w] = "idle"] /\ UNCHANGED queue
          /\ active' = [active EXCEPT ![task[w]] = "none"]
          /\ permits' = IF active[task[w]] # "none" THEN permits + 1 ELSE permits
      BY <2>3 DEF Finish
    <3>2. task[w] \in Turn /\ active[task[w]] # "none"
      BY <3>1, WorkerTurn
    <3> QED BY <3>1, <3>2, CountDown
  <2> QED BY <1>9, <2>1, <2>2, <2>3 DEF WorkerStep, StreamStep
<1> QED BY <1>1, <1>2, <1>4, <1>5, <1>6, <1>7, <1>8, <1>9 DEF Next

(* The capacity is neither leaked nor given twice.  (_schedule,            *)
(* cancel_turn, shutdown and _finish, for every number of workers and      *)
(* queued places.)                                                         *)
THEOREM CapacityIsAccounted == Spec => []CapacityAccounted
<1>1. Inv /\ Counted => CapacityAccounted
  <2> SUFFICES ASSUME Inv, Counted PROVE CapacityAccounted
    OBVIOUS
  <2>1. Entries = {queue[i] : i \in DOMAIN queue} \cup {task[w] : w \in Busy}
    <3>1. \A i \in DOMAIN queue : queue[i] \in Turn /\ Queued(queue[i])
      BY DEF Inv, TypeOK, Queued
    <3>2. \A w \in Busy : task[w] \in Turn /\ With(task[w])
      BY DEF Inv, TypeOK, Placed, With, Busy
    <3>3. \A t \in Entries : \/ \E i \in DOMAIN queue : queue[i] = t
                            \/ \E w \in Busy : task[w] = t
      BY TurnAssumption DEF Inv, Placed, Queued, With, Entries, Busy
    <3>4. {queue[i] : i \in DOMAIN queue} \cup {task[w] : w \in Busy} \subseteq Entries
      BY <3>1, <3>2 DEF Inv, Placed, Entries
    <3> QED BY <3>3, <3>4
  <2> QED BY <2>1 DEF Counted, CapacityAccounted, Entries, Busy
<1>2. Init => Inv /\ Counted
  BY InitInv, InitCounted
<1>3. Inv /\ Counted /\ [Next]_vars => (Inv /\ Counted)'
  BY NextInv, NextCounted
<1> QED BY <1>1, <1>2, <1>3, PTL DEF Spec
=============================================================================
