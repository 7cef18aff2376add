----------------------------- MODULE ChatDispatch -----------------------------
(***************************************************************************)
(* The chat turns of a project: the append-only event journal of ChatStore,*)
(* the ChatDispatchService that sends turns to a provider from a bounded   *)
(* pool of worker threads, the requests that start and cancel turns, and   *)
(* the streams that follow one.                                            *)
(*                                                                         *)
(* One API process serves at a time; it may stop or crash and be started   *)
(* again over the same journal.  A step is one block under the service's   *)
(* lock, with the transactions inside it, or one read of the journal.      *)
(* Prompts, payloads and texts are left out, and both kinds of event that  *)
(* only report (progress and delta) are "output".                          *)
(***************************************************************************)
EXTENDS Naturals, Sequences, FiniteSets

CONSTANTS
  Turn,          \* the turns
  ThreadOf,      \* ThreadOf[t]: the chat thread of turn t
  Backlog,       \* turns that the first process finds submitted, oldest first
  Worker,        \* the worker threads: max_concurrency of them
  MaxQueued,     \* max_queued_turns
  Caller,        \* requests for a turn; each is made at most once
  Watched,       \* the turns that a client may stream
  CanResume,     \* whether a stream may be opened after events already seen
  MaxOutputs,    \* bound on the "output" events a provider adds to a turn
  MaxStarts,     \* bound on how often the process is started
  NoTurn

ASSUME TurnAssumption ==
  /\ IsFiniteSet(Turn) /\ NoTurn \notin Turn /\ Watched \subseteq Turn
  /\ ThreadOf \in [Turn -> {ThreadOf[t] : t \in Turn}]
  /\ Backlog \in Seq(Turn)
ASSUME SizeAssumption ==
  /\ IsFiniteSet(Worker) /\ Worker # {} /\ MaxQueued \in Nat
  /\ MaxOutputs \in Nat /\ MaxStarts \in Nat /\ CanResume \in BOOLEAN

VARIABLES
  log,        \* log[t]: the types of the events of turn t, in order
  order,      \* the submitted turns in the order of their user messages
  stage,      \* of the process
  starts,     \* how often it was started
  todo,       \* the turns that its recovery has still to schedule
  available,  \* provider_available
  active,     \* active[t]: the state of t in _active, "none" if it is not there
  asked,      \* the active turns whose cancellation flag is set
  permits,    \* the value of _capacity
  queue,      \* turns whose Future no worker has taken, oldest first
  pc, task,   \* pc[w], task[w]: what worker w does, for which turn
  sent,       \* sent[t]: prompts sent to the provider since the start (history)
  at, wants,  \* at[k], wants[k]: where request k is, for which turn
  stream      \* stream[t]: state and cursor of the client that follows t

journal == <<log, order>>
dispatcher == <<active, asked, permits, queue>>
threads == <<pc, task, sent>>
requests == <<at, wants>>
process == <<stage, starts, todo>>
vars == <<journal, dispatcher, threads, requests, process, available, stream>>

EventType == {"submitted", "output", "completed", "failed", "cancelled"}
Terminal == {"completed", "failed", "cancelled"}
Capacity == Cardinality(Worker) + MaxQueued

HasTerminal(t) == \E i \in DOMAIN log[t] : log[t][i] \in Terminal
EndsTerminal(t) == log[t] # <<>> /\ log[t][Len(log[t])] \in Terminal
AppendEvent(t, type) == log' = [log EXCEPT ![t] = Append(@, type)]
Pending == {t \in Turn : log[t] # <<>> /\ ~HasTerminal(t)}

Idle == [w \in Worker |-> "idle"]

\* What a process that ends takes with it, its clients' streams included.
Reset ==
  /\ todo' = {}
  /\ active' = [t \in Turn |-> "none"] /\ asked' = {}
  /\ permits' = Capacity /\ queue' = <<>>
  /\ pc' = Idle /\ task' = [w \in Worker |-> NoTurn]
  /\ sent' = [t \in Turn |-> 0]
  /\ at' = [k \in Caller |-> IF at[k] = "new" THEN "new" ELSE "done"]
  /\ wants' = [k \in Caller |-> NoTurn]
  /\ stream' = [t \in Turn |->
                  IF stream[t].state = "open" THEN [stream[t] EXCEPT !.state = "lost"]
                  ELSE stream[t]]

Init ==
  /\ log = [t \in Turn |->
              IF \E i \in DOMAIN Backlog : Backlog[i] = t THEN <<"submitted">> ELSE <<>>]
  /\ order = Backlog
  /\ stage = "down" /\ starts = 0 /\ todo = {}
  /\ available \in BOOLEAN
  /\ active = [t \in Turn |-> "none"] /\ asked = {}
  /\ permits = Capacity /\ queue = <<>>
  /\ pc = Idle /\ task = [w \in Worker |-> NoTurn]
  /\ sent = [t \in Turn |-> 0]
  /\ at = [k \in Caller |-> "new"] /\ wants = [k \in Caller |-> NoTurn]
  /\ stream = [t \in Turn |-> [state |-> "none", cursor |-> 0]]

-----------------------------------------------------------------------------
(* Scheduling, by recovery and by requests.                                *)

Refuse(t) == AppendEvent(t, "failed") /\ UNCHANGED dispatcher

Enqueue(t) ==
  /\ active' = [active EXCEPT ![t] = "queued"]
  /\ permits' = permits - 1
  /\ queue' = Append(queue, t)
  /\ UNCHANGED <<log, asked>>

\* _schedule, once the service is known to be open.
Schedule(t) ==
  \/ ~available /\ Refuse(t)
  \/ available /\ active[t] # "none" /\ UNCHANGED <<log, dispatcher>>
  \/ available /\ active[t] = "none" /\ permits = 0 /\ Refuse(t)
  \/ available /\ active[t] = "none" /\ permits > 0 /\ Enqueue(t)

\* A process is started: its recovery reads the pending turns once.
Open ==
  /\ stage = "down" /\ starts < MaxStarts
  /\ starts' = starts + 1
  /\ todo' = Pending
  /\ stage' = IF Pending = {} THEN "up" ELSE "recovering"
  /\ UNCHANGED <<journal, dispatcher, threads, requests, available, stream>>

\* The constructor schedules them one by one, oldest first, before it serves
\* requests.
Oldest(t) ==
  t \in todo /\ \E i \in DOMAIN order : order[i] = t /\ \A j \in 1 .. i - 1 : order[j] \notin todo

Recover ==
  /\ stage = "recovering"
  /\ \E t \in todo : Oldest(t) /\ Schedule(t) /\ todo' = todo \ {t}
  /\ stage' = IF todo' = {} THEN "up" ELSE "recovering"
  /\ UNCHANGED <<order, threads, requests, starts, available, stream>>

\* begin_turn, new or repeated with its request_id, and then start_turn.
Post(k, t) ==
  /\ stage = "up" /\ at[k] = "new"
  /\ IF log[t] = <<>>
     THEN AppendEvent(t, "submitted") /\ order' = Append(order, t)
     ELSE UNCHANGED journal
  /\ at' = [at EXCEPT ![k] = "posted"] /\ wants' = [wants EXCEPT ![k] = t]
  /\ UNCHANGED <<dispatcher, threads, process, available, stream>>

Return(k) == at' = [at EXCEPT ![k] = "done"] /\ wants' = [wants EXCEPT ![k] = NoTurn]
Continue(k, there) == at' = [at EXCEPT ![k] = there] /\ UNCHANGED wants

\* start_turn reads the turn's events without the lock ...
CheckTerminal(k) ==
  /\ at[k] = "posted"
  /\ IF HasTerminal(wants[k]) THEN Return(k) ELSE Continue(k, "checked")
  /\ UNCHANGED <<journal, dispatcher, threads, process, available, stream>>

\* ... looks for the turn in _active under the lock ...
CheckActive(k) ==
  /\ at[k] = "checked"
  /\ IF active[wants[k]] # "none" THEN Return(k) ELSE Continue(k, "unknown")
  /\ UNCHANGED <<journal, dispatcher, threads, process, available, stream>>

\* ... and takes the lock again in _schedule, which raises once closed.
StartTurn(k) ==
  /\ at[k] = "unknown"
  /\ IF stage = "closed" THEN UNCHANGED <<log, dispatcher>> ELSE Schedule(wants[k])
  /\ Return(k)
  /\ UNCHANGED <<order, threads, process, available, stream>>

-----------------------------------------------------------------------------
(* Cancellation and shutdown.                                              *)

Queued(t) == \E i \in DOMAIN queue : queue[i] = t
\* The queue without its i-th turn.
Without(i) == [j \in 1 .. Len(queue) - 1 |-> queue[IF j < i THEN j ELSE j + 1]]

\* Mutant: the entry of a running turn is dropped with its cancellation.
Cancel_Forgets(t) ==
  /\ stage \in {"up", "closed"} /\ log[t] # <<>>
  /\ ~HasTerminal(t)
  /\ active' = [active EXCEPT ![t] = "none"]
  /\ asked' = IF active[t] = "none" \/ Queued(t) THEN asked ELSE asked \cup {t}
  /\ IF Queued(t) THEN \E i \in DOMAIN queue : queue[i] = t /\ queue' = Without(i) ELSE queue' = queue
  /\ permits' = IF active[t] # "none" THEN permits + 1 ELSE permits
  /\ AppendEvent(t, "cancelled")
  /\ UNCHANGED <<order, threads, requests, process, available, stream>>

\* cancel_turn: a queued turn leaves at once (its Future's callback is
\* _finish), a running one is flagged; the event is the caller's own.
Cancel(t) ==
  /\ stage \in {"up", "closed"} /\ log[t] # <<>>
  /\ ~HasTerminal(t)
  /\ \/ /\ active[t] = "none"
        /\ UNCHANGED dispatcher
     \/ /\ \E i \in DOMAIN queue : queue[i] = t /\ queue' = Without(i)
        /\ active' = [active EXCEPT ![t] = "none"]
        /\ permits' = permits + 1
        /\ UNCHANGED asked
     \/ /\ active[t] # "none" /\ ~Queued(t)
        /\ active' = [active EXCEPT ![t] = "cancelled"]
        /\ asked' = asked \cup {t}
        /\ UNCHANGED <<permits, queue>>
  /\ AppendEvent(t, "cancelled")
  /\ UNCHANGED <<order, threads, requests, process, available, stream>>

\* shutdown(cancel_pending=cancel): no event is written for queued turns.
Shutdown(cancel) ==
  /\ stage = "up"
  /\ stage' = "closed"
  /\ IF cancel
     THEN /\ active' = [t \in Turn |-> IF Queued(t) THEN "none" ELSE active[t]]
          /\ asked' = {t \in Turn : active[t] # "none" /\ ~Queued(t)}
          /\ permits' = permits + Len(queue)
          /\ queue' = <<>>
     ELSE UNCHANGED dispatcher
  /\ UNCHANGED <<journal, threads, requests, starts, todo, available, stream>>

\* The interpreter joins the worker threads before it exits.
Exit ==
  /\ stage = "closed" /\ queue = <<>> /\ pc = Idle
  /\ stage' = "down"
  /\ Reset
  /\ UNCHANGED <<journal, starts, available>>

Die ==
  /\ stage # "down"
  /\ stage' = "down"
  /\ Reset
  /\ UNCHANGED <<journal, starts, available>>

\* A login or an installation changes outside what the provider answers.
Flip ==
  /\ available' = ~available
  /\ UNCHANGED <<journal, dispatcher, threads, requests, process, stream>>

-----------------------------------------------------------------------------
(* The worker threads.                                                     *)

WorkerOnly == UNCHANGED <<order, requests, process, available, stream>>

Take(w) ==
  /\ pc[w] = "idle" /\ queue # <<>>
  /\ queue' = Tail(queue)
  /\ task' = [task EXCEPT ![w] = Head(queue)]
  /\ pc' = [pc EXCEPT ![w] = "taken"]
  /\ UNCHANGED <<log, active, asked, permits, sent>> /\ WorkerOnly

\* The provider_thread_lock of the turn's chat thread.
ThreadFree(w) ==
  \A v \in Worker \ {w} : pc[v] = "streaming" => ThreadOf[task[v]] # ThreadOf[task[w]]

Dispatch(w) ==
  /\ active' = [active EXCEPT ![task[w]] = "running"]
  /\ AppendEvent(task[w], "output")
  /\ sent' = [sent EXCEPT ![task[w]] = @ + 1]
  /\ pc' = [pc EXCEPT ![w] = "streaming"]

\* Mutant: a turn that has ended meanwhile is dispatched all the same.
Begin_Unchecked(w) ==
  /\ pc[w] = "taken" /\ ThreadFree(w)
  /\ Dispatch(w)
  /\ UNCHANGED <<asked, permits, queue, task>> /\ WorkerOnly

\* _run and the first block of _run_serialized.
Begin(w) ==
  /\ pc[w] = "taken" /\ ThreadFree(w)
  /\ \/ /\ HasTerminal(task[w])
        /\ pc' = [pc EXCEPT ![w] = "finishing"]
        /\ UNCHANGED <<log, active, sent>>
     \/ ~HasTerminal(task[w]) /\ Dispatch(w)
  /\ UNCHANGED <<asked, permits, queue, task>> /\ WorkerOnly

Outputs(t) == Cardinality({i \in DOMAIN log[t] : log[t][i] = "output"})

\* Mutant: the events of a provider are persisted whatever became of the turn.
Emit_Always(w) ==
  /\ pc[w] = "streaming"
  /\ \/ /\ Outputs(task[w]) < MaxOutputs
        /\ AppendEvent(task[w], "output")
        /\ UNCHANGED <<active, pc>>
     \/ \E kind \in Terminal :
          /\ AppendEvent(task[w], kind)
          /\ active' = [active EXCEPT ![task[w]] = kind]
          /\ pc' = [pc EXCEPT ![w] = "finishing"]
  /\ UNCHANGED <<asked, permits, queue, task, sent>> /\ WorkerOnly

\* One event of the provider, in _persist_provider_event.
Emit(w) ==
  LET t == task[w] IN
    /\ pc[w] = "streaming"
    /\ \/ /\ active[t] \in Terminal
          /\ pc' = [pc EXCEPT ![w] = "finishing"]
          /\ UNCHANGED <<log, active>>
       \/ /\ active[t] \notin Terminal /\ Outputs(t) < MaxOutputs
          /\ AppendEvent(t, "output")
          /\ UNCHANGED <<active, pc>>
       \/ /\ active[t] \notin Terminal
          /\ \E kind \in Terminal :
               AppendEvent(t, kind) /\ active' = [active EXCEPT ![t] = kind]
          /\ pc' = [pc EXCEPT ![w] = "finishing"]
    /\ UNCHANGED <<asked, permits, queue, task, sent>> /\ WorkerOnly

\* Mutant: a stream that ends without a result is taken for its end.
EndStream_Silent(w) ==
  /\ pc[w] = "streaming"
  /\ pc' = [pc EXCEPT ![w] = "finishing"]
  /\ UNCHANGED <<log, dispatcher, task, sent>> /\ WorkerOnly

\* The provider raises, or its stream ends without a terminal event.
EndStream(w) ==
  /\ pc[w] = "streaming"
  /\ IF active[task[w]] \in Terminal THEN UNCHANGED <<log, active>>
     ELSE /\ AppendEvent(task[w], "failed")
          /\ active' = [active EXCEPT ![task[w]] = "failed"]
  /\ pc' = [pc EXCEPT ![w] = "finishing"]
  /\ UNCHANGED <<asked, permits, queue, task, sent>> /\ WorkerOnly

\* Mutant: the entry of a turn that had ended otherwise is left in _active.
Finish_OnlyRun(w) ==
  LET t == task[w] IN
    /\ pc[w] = "finishing"
    /\ IF active[t] \in {"completed", "failed"}
       THEN active' = [active EXCEPT ![t] = "none"] /\ permits' = permits + 1
       ELSE UNCHANGED <<active, permits>>
    /\ asked' = asked \ {t}
    /\ pc' = [pc EXCEPT ![w] = "idle"] /\ task' = [task EXCEPT ![w] = NoTurn]
    /\ UNCHANGED <<log, queue, sent>> /\ WorkerOnly

\* The Future's callback, _finish.
Finish(w) ==
  LET t == task[w] IN
    /\ pc[w] = "finishing"
    /\ active' = [active EXCEPT ![t] = "none"]
    /\ permits' = IF active[t] # "none" THEN permits + 1 ELSE permits
    /\ asked' = asked \ {t}
    /\ pc' = [pc EXCEPT ![w] = "idle"] /\ task' = [task EXCEPT ![w] = NoTurn]
    /\ UNCHANGED <<log, queue, sent>> /\ WorkerOnly

-----------------------------------------------------------------------------
(* Streams of one turn.                                                    *)

\* stream_turn, with after_sequence 0 or that of an event already seen.
OpenStream(t) ==
  /\ stage = "up" /\ stream[t].state = "none" /\ log[t] # <<>>
  /\ \E seen \in IF CanResume THEN 0 .. Len(log[t]) ELSE {0} :
       stream' = [stream EXCEPT ![t] = [state |-> "open", cursor |-> seen]]
  /\ UNCHANGED <<journal, dispatcher, threads, requests, process, available>>

\* Mutant: a poll is finished with a stream that no longer grows.
Poll_NeverCloses(t) ==
  /\ stream[t].state = "open" /\ Len(log[t]) > stream[t].cursor
  /\ stream' = [stream EXCEPT ![t].cursor = Len(log[t])]
  /\ UNCHANGED <<journal, dispatcher, threads, requests, process, available>>

\* One turn of the polling loop; without new events it changes nothing.
Poll(t) ==
  /\ stream[t].state = "open" /\ Len(log[t]) > stream[t].cursor
  /\ stream' = [stream EXCEPT ![t] =
                  [state |-> IF EndsTerminal(t) THEN "closed" ELSE "open",
                   cursor |-> Len(log[t])]]
  /\ UNCHANGED <<journal, dispatcher, threads, requests, process, available>>

-----------------------------------------------------------------------------
RequestStep(k) == CheckTerminal(k) \/ CheckActive(k) \/ StartTurn(k)

StreamStep(w) == Emit(w) \/ EndStream(w)

WorkerStep(w) == Take(w) \/ Begin(w) \/ StreamStep(w) \/ Finish(w)

Next ==
  \/ Open \/ Recover \/ Exit \/ Die \/ Flip
  \/ \E cancel \in BOOLEAN : Shutdown(cancel)
  \/ \E t \in Turn : Cancel(t)
  \/ \E k \in Caller, t \in Turn : Post(k, t)
  \/ \E k \in Caller : RequestStep(k)
  \/ \E w \in Worker : WorkerStep(w)
  \/ \E t \in Watched : OpenStream(t) \/ Poll(t)

Spec == Init /\ [][Next]_vars

\* Worker threads run on and a stream polls.  Of a provider only this is
\* relied on: a turn it was asked to cancel yields another event or ends.
Fairness ==
  /\ WF_vars(Recover)
  /\ \A w \in Worker :
       /\ WF_vars(Take(w) \/ Begin(w) \/ Finish(w))
       /\ WF_vars(task[w] \in asked /\ StreamStep(w))
  /\ \A t \in Watched : WF_vars(Poll(t))

FairSpec == Spec /\ Fairness

-----------------------------------------------------------------------------
(* Properties.                                                             *)

(* Capacity is neither leaked nor given twice, whatever way a turn leaves: *)
(* the permits that are out are those of the turns in _active, and each of *)
(* these is in the queue or with a worker.  (_schedule, cancel_turn,       *)
(* shutdown and _finish.)                                                  *)
CapacityAccounted ==
  LET entries == {t \in Turn : active[t] # "none"}
      busy == {w \in Worker : pc[w] # "idle"} IN
    /\ permits + Cardinality(entries) = Capacity
    /\ entries = {queue[i] : i \in DOMAIN queue} \cup {task[w] : w \in busy}
    /\ Cardinality(entries) = Len(queue) + Cardinality(busy)

(* No accepted turn is forgotten: while the service is up, a submitted     *)
(* turn without a terminal event is active, or a request that will start   *)
(* it is still on its way.  (start_turn's two looks, recovery, and every   *)
(* way in which a worker leaves a turn.)                                   *)
TurnIsTracked ==
  stage = "up" =>
    \A t \in Turn : log[t] # <<>> /\ ~HasTerminal(t) =>
      \/ active[t] # "none"
      \/ \E k \in Caller : wants[k] = t /\ at[k] \in {"posted", "checked", "unknown"}

(* Once a turn was completed or cancelled, its provider adds nothing to    *)
(* it: at most refusals of later requests follow.  (The state test of      *)
(* _persist_provider_event, and of the workers before they dispatch.)      *)
EndIsQuiet ==
  \A t \in Turn : \A i, j \in DOMAIN log[t] :
    i < j /\ log[t][i] \in {"completed", "cancelled"} => log[t][j] = "failed"

(* A process sends the prompt of a turn at most once, however often and    *)
(* concurrently the turn is requested, refused and recovered.  (The        *)
(* request_id that makes begin_turn idempotent, and both looks of          *)
(* _schedule and _run_serialized.)                                         *)
PromptSentOnce == \A t \in Turn : sent[t] <= 1

(* A cancelled turn that was running leaves the service, and with it its   *)
(* permit, even if the provider would never end by itself.                *)
CancelledTurnsLeave ==
  \A w \in Worker, t \in Turn :
    pc[w] = "streaming" /\ task[w] = t /\ t \in asked ~> active[t] = "none"

(* If the provider's streams end, every turn that was scheduled gets its   *)
(* terminal event, unless the service stops first.  (The queue, the locks  *)
(* of the chat threads, and the failures written for a provider that gave  *)
(* no result.)                                                             *)
TurnsEnd ==
  (\A w \in Worker : []<>(pc[w] # "streaming")) =>
    \A t \in Turn : active[t] # "none" ~> HasTerminal(t) \/ stage \in {"closed", "down"}

(* The stream of a turn whose last event is and stays a terminal one       *)
(* closes.  (The docstring of stream_turn.)                                *)
StreamEnds ==
  \A t \in Watched : <>[](EndsTerminal(t)) => []<>(stream[t].state # "open")
=============================================================================
