---------------------------- MODULE CodexProvider ----------------------------
(***************************************************************************)
(* One turn of a chat over the Codex app server: a process of its own for  *)
(* each turn, spoken to in requests, answers, notifications and requests   *)
(* of its own over two pipes.  While the provider waits for an answer it   *)
(* puts notifications aside; it reads them before the pipe afterwards.     *)
(*                                                                         *)
(* Codex is external and says a number of words, in items that it streams  *)
(* word by word and repeats whole, or only gives whole.  What the provider *)
(* yields is kept as the words, and a count of the notices.                *)
(***************************************************************************)
EXTENDS Integers, Sequences

CONSTANTS
  Chat,                              \* local threads
  MaxTurns, MaxWords, MaxBreaks      \* bounds

VARIABLES
  bindings,          \* codex-thread-bindings.json; 0 for none
  codexThreads,      \* the threads Codex has, and the ones it ever had
  codexEver,
  chat,              \* the thread of the turn
  stage,             \* what stream_turn does next
  due,               \* the request Codex has not answered
  codex,             \* what Codex does: off, ready, running, over
  inbox, pending,    \* the pipe, and _pending_messages
  item, spoken,      \* Codex's item, its words told one by one, all words
  deltaItems, said,  \* the provider's _agent_delta_items, and its words
  asks, notices, provider_events,
  cancelled, interrupt_sent,
  outcome, verdict,  \* the provider's last event, and how Codex ended the turn
  turns, breaks

durable == <<bindings, codexThreads, codexEver>>
pipes == <<inbox, pending>>
speech == <<item, spoken>>
heard == <<deltaItems, said>>
questions == <<asks, notices, provider_events>>
wish == <<cancelled, interrupt_sent>>
ends == <<outcome, verdict>>
bounds == <<turns, breaks>>

Waiting == {"initialize", "thread/resume", "thread/start", "turn/start", "turn/interrupt"}
Terminal == {"completed", "interrupted", "failed"}
Message(kind, of, words) == [kind |-> kind, of |-> of, words |-> words]
Note(kind) == Message(kind, 0, <<>>)
NoItem == [number |-> 0, told |-> <<>>]

Fresh(event) ==
  /\ inbox' = <<>> /\ pending' = <<>>
  /\ item' = NoItem /\ spoken' = 0 /\ deltaItems' = {} /\ said' = <<>>
  /\ asks' = 0 /\ notices' = 0 /\ provider_events' = 0
  /\ cancelled' = FALSE /\ interrupt_sent' = FALSE
  /\ outcome' = event /\ verdict' = "none"

Init ==
  /\ bindings = [c \in Chat |-> 0] /\ codexThreads = {} /\ codexEver = 0
  /\ chat = CHOOSE c \in Chat : TRUE
  /\ stage = "idle" /\ due = "none" /\ codex = "off"
  /\ inbox = <<>> /\ pending = <<>>
  /\ item = NoItem /\ spoken = 0 /\ deltaItems = {} /\ said = <<>>
  /\ asks = 0 /\ notices = 0 /\ provider_events = 0
  /\ cancelled = FALSE /\ interrupt_sent = FALSE
  /\ outcome = "none" /\ verdict = "none"
  /\ turns = 0 /\ breaks = 0

-----------------------------------------------------------------------------
(* Codex.                                                                  *)

Sends(m) == inbox' = Append(inbox, m)

Answers(kind) == due' = "none" /\ Sends(Note(kind))

AnswerThread ==
  /\ due \in {"initialize", "thread/resume", "thread/start"}
  /\ CASE due = "initialize" -> Answers("result") /\ UNCHANGED <<codexThreads, codexEver>>
       [] due = "thread/resume" ->
            /\ Answers(IF bindings[chat] \in codexThreads THEN "result" ELSE "missing")
            /\ UNCHANGED <<codexThreads, codexEver>>
       [] due = "thread/start" ->
            /\ Answers("result") /\ codexEver' = codexEver + 1
            /\ codexThreads' = codexThreads \cup {codexEver'}
  /\ UNCHANGED <<bindings, chat, stage, codex, pending, speech, heard, questions, wish, ends, bounds>>

\* A turn may run before its answer is sent; one that is over cannot be interrupted.
AnswerTurn ==
  /\ \/ /\ due = "turn/start" /\ codex = "ready" /\ codex' = "running"
        /\ UNCHANGED <<due, inbox, verdict>>
     \/ due = "turn/start" /\ codex # "ready" /\ Answers("result") /\ UNCHANGED <<codex, verdict>>
     \/ /\ due = "turn/interrupt" /\ codex = "running" /\ due' = "none"
        /\ inbox' = inbox \o <<Note("result"), Note("interrupted")>>
        /\ codex' = "over" /\ verdict' = "interrupted"
     \/ due = "turn/interrupt" /\ codex = "over" /\ Answers("error") /\ UNCHANGED <<codex, verdict>>
  /\ UNCHANGED <<durable, chat, stage, pending, speech, heard, questions, wish, outcome, bounds>>

\* A word of an item, told at once; the item, whole.  One that was not told has one word.
Speak ==
  /\ codex = "running"
  /\ \/ /\ spoken < MaxWords /\ spoken' = spoken + 1
        /\ item' = [item EXCEPT !.told = Append(@, spoken')]
        /\ Sends(Message("delta", item.number, <<spoken'>>))
     \/ /\ item.told # <<>> /\ UNCHANGED spoken
        /\ item' = [number |-> item.number + 1, told |-> <<>>]
        /\ Sends(Message("item", item.number, item.told))
     \/ /\ item.told = <<>> /\ spoken < MaxWords /\ spoken' = spoken + 1
        /\ item' = [number |-> item.number + 1, told |-> <<>>]
        /\ Sends(Message("item", item.number, <<spoken'>>))
  /\ UNCHANGED <<durable, chat, stage, due, codex, pending, heard, questions, wish, ends, bounds>>

\* An approval or a tool call, which Codex waits for, or a notification of another turn.
Ask ==
  /\ codex = "running" /\ asks < 1 /\ asks' = asks + 1
  /\ \E kind \in {"ask", "stray"} : Sends(Note(kind))
  /\ UNCHANGED <<durable, chat, stage, due, codex, pending, speech, heard, notices,
                 provider_events, wish, ends, bounds>>

Finish ==
  /\ codex = "running" /\ item.told = <<>>
  /\ \E how \in {"completed", "failed"} : Sends(Note(how)) /\ verdict' = how
  /\ codex' = "over"
  /\ UNCHANGED <<durable, chat, stage, due, pending, speech, heard, questions, wish, outcome, bounds>>

\* Codex dies, or forgets its threads while no turn runs.
Break ==
  /\ breaks < MaxBreaks /\ breaks' = breaks + 1
  /\ \/ /\ codex # "off" /\ codex' = "off" /\ due' = "none" /\ Sends(Note("end"))
        /\ UNCHANGED codexThreads
     \/ codex = "off" /\ stage = "idle" /\ codexThreads' = {} /\ UNCHANGED <<codex, due, inbox>>
  /\ UNCHANGED <<bindings, codexEver, chat, stage, pending, speech, heard, questions, wish, ends, turns>>

-----------------------------------------------------------------------------
(* The turn.                                                               *)

Request(method) == stage' = method /\ due' = method

\* The process is closed whatever the reason.
Ends(event) ==
  /\ outcome' = event /\ stage' = "idle" /\ due' = "none" /\ codex' = "off"
  /\ inbox' = <<>> /\ pending' = <<>> /\ cancelled' = FALSE /\ interrupt_sent' = FALSE

\* A turn that was cancelled before, or whose context is too large, starts no process.
stream_turn(c) ==
  /\ stage = "idle" /\ turns < MaxTurns /\ turns' = turns + 1 /\ chat' = c
  /\ \/ Fresh("none") /\ codex' = "ready" /\ Request("initialize")
     \/ \E event \in {"cancelled", "failed"} : Fresh(event) /\ UNCHANGED <<codex, stage, due>>
  /\ UNCHANGED <<durable, breaks>>

Cancel ==
  /\ stage # "idle" /\ ~cancelled /\ cancelled' = TRUE
  /\ UNCHANGED <<durable, chat, stage, due, codex, pipes, speech, heard, questions, interrupt_sent,
                 ends, bounds>>

Bind(thread) == bindings' = [bindings EXCEPT ![chat] = thread]
_start_or_resume_thread == IF bindings[chat] # 0 THEN "thread/resume" ELSE "thread/start"

\* A cancelled turn is not started.
ThreadReady ==
  IF cancelled THEN Ends("cancelled")
  ELSE Request("turn/start") /\ inbox' = Tail(inbox)
       /\ UNCHANGED <<codex, pending, wish, outcome>>

AnswerRead ==
  /\ stage \in Waiting /\ inbox # <<>> /\ Head(inbox).kind \in {"result", "missing"}
  /\ CASE stage = "initialize" ->
            /\ Request(_start_or_resume_thread) /\ inbox' = Tail(inbox)
            /\ UNCHANGED <<bindings, codex, pending, wish, outcome>>
       [] stage = "thread/resume" /\ Head(inbox).kind = "missing" ->
            /\ Request("thread/start") /\ inbox' = Tail(inbox)
            /\ Bind(0)
            /\ UNCHANGED <<codex, pending, wish, outcome>>
       [] stage = "thread/resume" /\ Head(inbox).kind = "result" -> ThreadReady /\ UNCHANGED bindings
       [] stage = "thread/start" -> ThreadReady /\ Bind(codexEver)
       [] stage \in {"turn/start", "turn/interrupt"} ->
            /\ stage' = "loop" /\ inbox' = Tail(inbox)
            /\ UNCHANGED <<bindings, due, codex, pending, wish, outcome>>
  /\ UNCHANGED <<codexThreads, codexEver, chat, speech, heard, questions, verdict, bounds>>

\* Read after the answer, before the pipe.
Defer ==
  /\ stage \in Waiting /\ inbox # <<>>
  /\ Head(inbox).kind \in {"delta", "item", "stray"} \cup Terminal
  /\ pending' = Append(pending, Head(inbox)) /\ inbox' = Tail(inbox)
  /\ UNCHANGED <<durable, chat, stage, due, codex, speech, heard, questions, wish, ends, bounds>>

\* Declined, or handled by a registered tool; said so later.
handle_server_request ==
  /\ stage \in Waiting \cup {"read"} /\ (stage = "read" => pending = <<>>)
  /\ inbox # <<>> /\ Head(inbox).kind = "ask"
  /\ inbox' = Tail(inbox) /\ provider_events' = provider_events + 1
  /\ stage' = IF stage = "read" THEN "loop" ELSE stage
  /\ UNCHANGED <<durable, chat, due, codex, pending, speech, heard, asks, notices, wish, ends, bounds>>

\* The pipe closed, Codex refused, or it did not answer in time.
Fail ==
  /\ \/ /\ stage \in Waiting \cup {"read"} /\ (stage = "read" => pending = <<>>)
        /\ inbox # <<>> /\ Head(inbox).kind \in {"end", "error"}
     \/ stage \in Waiting /\ due # "none" /\ breaks < MaxBreaks
  /\ Ends("failed")
  /\ UNCHANGED <<durable, chat, speech, heard, questions, verdict, bounds>>

\* The top of the loop: an interruption once, then the notices.
Loop ==
  /\ stage = "loop"
  /\ IF cancelled /\ ~interrupt_sent
     THEN Request("turn/interrupt") /\ interrupt_sent' = TRUE /\ UNCHANGED <<notices, provider_events>>
     ELSE /\ stage' = "read" /\ notices' = notices + provider_events /\ provider_events' = 0
          /\ UNCHANGED <<due, interrupt_sent>>
  /\ UNCHANGED <<durable, chat, codex, pipes, speech, heard, asks, cancelled, ends, bounds>>

\* Nothing came within the poll, and a cancellation did.
Poll ==
  /\ stage = "read" /\ inbox = <<>> /\ pending = <<>> /\ cancelled /\ ~interrupt_sent
  /\ stage' = "loop"
  /\ UNCHANGED <<durable, chat, due, codex, pipes, speech, heard, questions, wish, ends, bounds>>

next_message_PipeFirst ==
  IF inbox # <<>>
  THEN [message |-> Head(inbox), inbox |-> Tail(inbox), pending |-> pending]
  ELSE [message |-> Head(pending), inbox |-> inbox, pending |-> Tail(pending)]
next_message ==
  IF pending # <<>>
  THEN [message |-> Head(pending), inbox |-> inbox, pending |-> Tail(pending)]
  ELSE [message |-> Head(inbox), inbox |-> Tail(inbox), pending |-> pending]

\* What a notification says; an item that was streamed is not said again.
map(m) ==
  CASE m.kind = "delta" -> said' = said \o m.words /\ deltaItems' = deltaItems \cup {m.of}
    [] m.kind = "item" ->
         said' = (IF m.of \in deltaItems THEN said ELSE said \o m.words) /\ UNCHANGED deltaItems
    [] OTHER -> UNCHANGED heard

Event(kind) == IF kind = "interrupted" THEN "cancelled" ELSE kind

ReadMessage ==
  /\ stage = "read" /\ (pending # <<>> \/ inbox # <<>>)
  /\ LET next == next_message
         m == next.message
     IN /\ m.kind \in {"delta", "item", "stray"} \cup Terminal
        /\ map(m)
        /\ IF m.kind \in Terminal THEN Ends(Event(m.kind))
           ELSE /\ stage' = "loop" /\ inbox' = next.inbox /\ pending' = next.pending
                /\ UNCHANGED <<due, codex, wish, outcome>>
  /\ UNCHANGED <<durable, chat, speech, questions, verdict, bounds>>

Next ==
  \/ AnswerThread \/ AnswerTurn \/ Speak \/ Ask \/ Finish \/ Break \/ Cancel
  \/ \E c \in Chat : stream_turn(c)
  \/ AnswerRead \/ Defer \/ handle_server_request \/ Fail \/ Loop \/ Poll \/ ReadMessage

vars == <<durable, chat, stage, due, codex, pipes, speech, heard, questions, wish, ends, bounds>>
Spec == Init /\ [][Next]_vars

-----------------------------------------------------------------------------
\* What a chat is given of a turn is what Codex said, in its order, no word
\* twice and none left out: notifications put aside while an answer was due,
\* items told by words and repeated whole, and requests in between included.
\* A turn completes or is cancelled only as Codex ended it, with nothing
\* Codex had sent before left in a queue.
EveryWordOnce ==
  /\ Len(said) <= spoken /\ \A k \in DOMAIN said : said[k] = k
  /\ outcome = "completed" => verdict = "completed" /\ Len(said) = spoken
  /\ outcome = "cancelled" =>
       \/ verdict = "interrupted" /\ Len(said) = spoken
       \/ verdict = "none" /\ spoken = 0
  /\ outcome \in {"completed", "cancelled"} => provider_events = 0
=============================================================================
