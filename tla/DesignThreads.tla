----------------------------- MODULE DesignThreads -----------------------------
(***************************************************************************)
(* Design threads: an index, and for each thread its record, an            *)
(* append-only log of messages, context snapshots, images with their       *)
(* metadata and requests for images.  The routes of the viewer run side by *)
(* side in a thread pool and take no lock; each file is replaced as a      *)
(* whole, and a record or the index is read well before it is replaced.    *)
(*                                                                         *)
(* A caller has one request at a time, kept as the list of steps that are  *)
(* left of it.  What a request creates, a snapshot, an image, a request    *)
(* for an image or a draft, carries the request's number, for the          *)
(* identifiers are random.  Drafts are kept elsewhere (DraftStore); what   *)
(* the planner and the agent answer is any answer they may give.           *)
(***************************************************************************)
EXTENDS Integers, Sequences

CONSTANTS
  Caller, Thread,
  MaxRequests, MaxChats, MaxCrashes   \* bounds: a chat is among the first requests

VARIABLES
  listed,      \* the threads of index.json
  record,      \* thread.json: the drafts it links, or Missing
  messages,    \* messages.jsonl, as the set of what it tells
  snapshots,   \* [id -> "none", "plain" or "annotated"]
  images,      \* the PNG files of attachments and evidence
  described,   \* the ones with metadata
  asked,       \* [id -> a request for an image]
  drafts,      \* tokens of the draft store
  turn,        \* the request of a caller
  work,        \* and the steps that are left of it
  requests, restarts

threads == <<listed, record, messages>>
media == <<snapshots, images, described, asked>>

Id == 1 .. MaxRequests
Missing == [linked |-> {0}]
Exists(t) == record[t] # Missing
Turn(t, n) == [thread |-> t, n |-> n, target |-> 0, snapshot |-> 0, annotated |-> FALSE,
               streamed |-> FALSE, token |-> 0, links |-> {}, index |-> {}]
NoTurn == Turn(CHOOSE t \in Thread : TRUE, 0)
NotAsked == [status |-> "none", image |-> 0, snapshot |-> 0]

\* What an upload may be: the field it comes in, whether it is marked as
\* base64 and decodes, the type its header and its content_type declare, what
\* the bytes are, and the view it names.
MediaType == {"absent", "image/png", "other"}
Picture == [field : {"none", "data_url", "image_data"}, header : MediaType, decodes : BOOLEAN,
            content_type : MediaType, bytes : {"empty", "png", "other"}, view : {"absent", "known", "unknown"}]

\* The header of a data URL without a type stands for a PNG.
_parse_data_url(p) == IF p.header = "absent" THEN "image/png" ELSE p.header
detected_type(p) ==
  IF p.field = "data_url" /\ p.content_type = "absent" THEN _parse_data_url(p)
  ELSE IF p.content_type = "absent" THEN "image/png" ELSE p.content_type
_normalize_view_preset(p) == p.view \in {"absent", "known"}
_normalize_viewport_screenshot_input(p) ==
  p.field # "none" /\ p.decodes /\ detected_type(p) = "image/png" /\ p.bytes # "empty"
\* Only evidence is looked at for the signature of a PNG file.
_normalize_visual_evidence_input(p) ==
  _normalize_viewport_screenshot_input(p) /\ p.bytes = "png" /\ _normalize_view_preset(p)

\* Nothing is there, or a thread whose first turn asked for an image.
Init ==
  /\ listed \in {{}, Thread}
  /\ LET waits(t) == t \in listed IN
       /\ record = [t \in Thread |-> IF waits(t) THEN [linked |-> {}] ELSE Missing]
       /\ messages = [t \in Thread |-> IF waits(t) THEN {[type |-> "user", id |-> 1], [type |-> "plan", id |-> 0],
                                                          [type |-> "waiting", id |-> 1]} ELSE {}]
       /\ snapshots = [t \in Thread |-> [i \in Id |-> IF waits(t) /\ i = 1 THEN "annotated" ELSE "none"]]
       /\ asked = [t \in Thread |-> [i \in Id |-> IF waits(t) /\ i = 1 THEN [status |-> "pending", image |-> 0, snapshot |-> 1]
                                                  ELSE NotAsked]]
  /\ images = [t \in Thread |-> {}] /\ described = images /\ drafts = {}
  /\ turn = [c \in Caller |-> NoTurn] /\ work = [c \in Caller |-> <<>>]
  /\ requests = 1 /\ restarts = 0

-----------------------------------------------------------------------------
(* The steps of the operations.                                            *)

Do(what) == <<[do |-> what]>>

\* The record is written, then the index is read and written.
_sync_index_entry(links) == <<[do |-> "writeThread", links |-> links]>> \o Do("writeIndex")
_append_event_message(m, links) ==
  <<[do |-> "append", message |-> m]>> \o _sync_index_entry(links)
append_message(type, id) == _append_event_message([type |-> type, id |-> id], {})
append_draft_event(action, token) ==
  _append_event_message([type |-> action, id |-> token], {token} \ {0})

append_design_plan == append_message("plan", 0)
append_validator_event(type, id) == append_message(type, id)

create_thread == Do("newThread") \o Do("writeIndex")
patch_thread == Do("require") \o _sync_index_entry({})
create_context_snapshot == Do("require") \o Do("snapshot") \o _sync_index_entry({})
add_visual_evidence_DescribedFirst == Do("describe") \o Do("evidence")
add_visual_evidence == Do("evidence") \o Do("describe")
add_viewport_screenshot_attachment == Do("screenshot") \o Do("describe")
fulfill_visual_evidence_request ==
  Do("readPending") \o add_visual_evidence \o Do("fulfill") \o Do("continue")
fail_visual_evidence_request == Do("readPending") \o Do("fail")
_append_visual_evidence_request_for_plan(n) == Do("ask") \o append_message("waiting", n)

begin_chat_turn(n, snapshot) ==
  (IF snapshot THEN create_context_snapshot ELSE <<>>)
  \o append_message("user", IF snapshot THEN n ELSE 0)
post_design_thread_chat(n, snapshot) == begin_chat_turn(n, snapshot) \o append_design_plan \o Do("respond")

\* What tells of a draft, once it is there: events, then that it is ready.
Tell(token) == append_draft_event("apply", token) \o append_draft_event("preview", token) \o append_message("ready", token)
TellProposed(token) == append_draft_event("propose", token) \o Tell(token)

\* The agent calls a tool, or fails, or does neither; then it may answer.
_persist_runtime_event_and_side_effects(n) ==
  { <<>>, append_message("status", 0), append_message("tool_call", 0) \o append_validator_event("tool_result", 0),
    append_message("tool_call", 0) \o Do("ask") \o append_validator_event("asked", n) }
AgentTurn(n) ==
  {s \o answer : s \in _persist_runtime_event_and_side_effects(n),
                 answer \in {<<>>, append_message("assistant", 0)}}

-----------------------------------------------------------------------------
(* What follows the plan of a turn.  The two routes ask the same questions *)
(* in another order.                                                       *)

Plan == [type : {"questions", "draft_plan", "concept_plan"}, auto : BOOLEAN, marks : BOOLEAN]

_design_plan_needs_visual_evidence(p, r) == p.type = "draft_plan" /\ r.annotated /\ p.marks
_can_run_annotated_draft_followup(r) == r.token # 0 /\ r.annotated
Incomplete(p, r) ==
  p.type = "draft_plan" /\ ~p.auto /\ ~_can_run_annotated_draft_followup(r)
BeforeDraft(p, r) == r.token = 0 /\ _design_plan_needs_visual_evidence(p, r)

Answer(p, r) ==
  LET ask == {_append_visual_evidence_request_for_plan(r.n)}
      needs == _design_plan_needs_visual_evidence(p, r)
  IN IF p.type = "questions" THEN {append_message("assistant", 0)}
     ELSE IF ~r.streamed /\ BeforeDraft(p, r) THEN ask
     ELSE IF Incomplete(p, r) THEN (IF r.streamed /\ needs THEN ask ELSE {append_message("assistant", 0)})
     ELSE {Do("draft")} \cup (IF needs THEN ask ELSE AgentTurn(r.n))

-----------------------------------------------------------------------------
(* Requests.                                                               *)

Idle(c) == work[c] = <<>>
New(t) == Turn(t, requests + 1)
Starts(c, r, script) ==
  /\ Idle(c) /\ requests < MaxRequests
  /\ requests' = requests + 1
  /\ turn' = [turn EXCEPT ![c] = r] /\ work' = [work EXCEPT ![c] = script]
  /\ UNCHANGED <<threads, media, drafts, restarts>>

Create(c, t) == Starts(c, New(t), create_thread)
Patch(c, t) == Exists(t) /\ Starts(c, New(t), patch_thread)
Post(c, t) ==
  /\ Exists(t)
  /\ \/ \E type \in {"user", "tool_result", "plan"} : Starts(c, New(t), append_message(type, 0))
     \/ \E token \in drafts \cup {0} : Starts(c, New(t), append_draft_event("apply", token))
Validate(c, t) ==
  Exists(t) /\ \E what \in {"validate", "validateAndBuild"} : Starts(c, New(t), Do(what))
Capture(c, t) ==
  /\ Exists(t)
  /\ \E s \in {create_context_snapshot, add_visual_evidence,
               add_viewport_screenshot_attachment, Do("ask")} : Starts(c, New(t), s)
\* The token and the marks of a turn come with its snapshot.
Converse(c, t) ==
  /\ Exists(t) /\ requests < MaxChats
  /\ \E streamed \in BOOLEAN :
       \/ Starts(c, [New(t) EXCEPT !.streamed = streamed],
                 post_design_thread_chat(requests + 1, FALSE))
       \/ \E annotated \in BOOLEAN, token \in drafts \cup {0} :
            Starts(c, [New(t) EXCEPT !.streamed = streamed, !.annotated = annotated,
                                     !.token = token, !.snapshot = requests + 1],
                   post_design_thread_chat(requests + 1, TRUE))
Complete(c, t, i) ==
  asked[t][i] # NotAsked /\ Starts(c, [New(t) EXCEPT !.target = i], fulfill_visual_evidence_request)
Decline(c, t, i) ==
  asked[t][i] # NotAsked /\ Starts(c, [New(t) EXCEPT !.target = i], fail_visual_evidence_request)

-----------------------------------------------------------------------------
(* Steps.                                                                  *)

thread(c) == turn[c].thread
number(c) == turn[c].n
Takes(c, what) == ~Idle(c) /\ Head(work[c]).do = what
\* The first step becomes others, and what the request knows becomes r.
Becomes(c, script, r) ==
  LET left == script \o Tail(work[c]) IN
  /\ work' = [work EXCEPT ![c] = left]
  /\ turn' = [turn EXCEPT ![c] = IF left = <<>> THEN NoTurn ELSE r]
  /\ UNCHANGED <<requests, restarts>>
Goes(c) == Becomes(c, <<>>, turn[c])
GoesOn(c, script) == Becomes(c, script, turn[c])
GoesWith(c, r) == Becomes(c, <<>>, r)
Ends(c) ==
  /\ work' = [work EXCEPT ![c] = <<>>] /\ turn' = [turn EXCEPT ![c] = NoTurn]
  /\ UNCHANGED <<requests, restarts>>

_require_thread(c) ==
  /\ Takes(c, "require") /\ GoesWith(c, [turn[c] EXCEPT !.links = record[thread(c)].linked])
  /\ UNCHANGED <<threads, media, drafts>>

_append_jsonl(c) ==
  /\ Takes(c, "append") /\ GoesWith(c, [turn[c] EXCEPT !.links = record[thread(c)].linked])
  /\ messages' = [messages EXCEPT ![thread(c)] = @ \cup {Head(work[c]).message}]
  /\ UNCHANGED <<listed, record, media, drafts>>

_write_thread(c) ==
  /\ Takes(c, "writeThread") /\ GoesWith(c, [turn[c] EXCEPT !.links = {}, !.index = listed])
  /\ record' = [record EXCEPT ![thread(c)].linked = turn[c].links \cup Head(work[c]).links]
  /\ UNCHANGED <<listed, messages, media, drafts>>

_write_index(c) ==
  /\ Takes(c, "writeIndex") /\ GoesWith(c, [turn[c] EXCEPT !.index = {}])
  /\ listed' = turn[c].index \cup {thread(c)}
  /\ UNCHANGED <<record, messages, media, drafts>>

\* An identifier that the index lists gets a random suffix.
NewThread(c) ==
  /\ Takes(c, "newThread")
  /\ \E t \in Thread :
       /\ IF thread(c) \in listed THEN t \notin listed /\ ~Exists(t) ELSE t = thread(c)
       /\ record' = [record EXCEPT ![t] = [linked |-> {}]]
       /\ GoesWith(c, [turn[c] EXCEPT !.thread = t, !.index = listed])
  /\ UNCHANGED <<listed, messages, media, drafts>>

WriteSnapshot(c) ==
  /\ Takes(c, "snapshot") /\ Goes(c)
  /\ snapshots' = [snapshots EXCEPT ![thread(c)][number(c)] =
                     IF turn[c].annotated THEN "annotated" ELSE "plain"]
  /\ UNCHANGED <<threads, images, described, asked, drafts>>

\* An upload is refused before anything of it is written; a request for the
\* image then stays pending.
Refused ==
  [evidence |-> {~_normalize_visual_evidence_input(p) : p \in Picture},
   screenshot |-> {~_normalize_viewport_screenshot_input(p) : p \in Picture}]

_write_bytes_atomic(c) ==
  /\ Takes(c, "evidence") \/ Takes(c, "screenshot")
  /\ \E refused \in Refused[Head(work[c]).do] :
       \/ refused /\ Ends(c) /\ UNCHANGED images
       \/ ~refused /\ Goes(c) /\ images' = [images EXCEPT ![thread(c)] = @ \cup {number(c)}]
  /\ UNCHANGED <<threads, snapshots, described, asked, drafts>>

DescribeImage(c) ==
  /\ Takes(c, "describe") /\ Goes(c)
  /\ described' = [described EXCEPT ![thread(c)] = @ \cup {number(c)}]
  /\ UNCHANGED <<threads, snapshots, images, asked, drafts>>

request_visual_evidence(c) ==
  /\ Takes(c, "ask") /\ Goes(c)
  /\ asked' = [asked EXCEPT ![thread(c)][number(c)] =
                 [status |-> "pending", image |-> 0, snapshot |-> turn[c].snapshot]]
  /\ UNCHANGED <<threads, snapshots, images, described, drafts>>

wanted(c) == asked[thread(c)][turn[c].target]

ReadPending(c) ==
  /\ Takes(c, "readPending")
  /\ IF wanted(c).status = "pending" THEN Goes(c) ELSE Ends(c)
  /\ UNCHANGED <<threads, media, drafts>>

\* Written over whatever has become of the request since it was read.
Settle(c) ==
  /\ \/ /\ Takes(c, "fulfill") /\ Goes(c)
        /\ asked' = [asked EXCEPT ![thread(c)][turn[c].target] =
                       [@ EXCEPT !.status = "fulfilled", !.image = number(c)]]
     \/ /\ Takes(c, "fail") /\ Goes(c)
        /\ asked' = [asked EXCEPT ![thread(c)][turn[c].target] =
                       [@ EXCEPT !.status = "failed", !.image = 0]]
  /\ UNCHANGED <<threads, snapshots, images, described, drafts>>

_continue_annotated_draft_after_visual_evidence(c) ==
  /\ Takes(c, "continue")
  /\ LET s == wanted(c).snapshot IN
       IF s # 0 /\ snapshots[thread(c)][s] = "annotated" THEN GoesOn(c, Do("draft")) ELSE Ends(c)
  /\ UNCHANGED <<threads, media, drafts>>

Respond(c) ==
  /\ Takes(c, "respond")
  /\ \E p \in Plan : \E script \in Answer(p, turn[c]) : Becomes(c, script, [turn[c] EXCEPT !.streamed = FALSE])
  /\ UNCHANGED <<threads, media, drafts>>

\* A draft that failed may exist all the same; a continuation then says nothing.
Draft(c) ==
  /\ Takes(c, "draft")
  /\ \/ /\ drafts' \in {drafts, drafts \cup {number(c)}}
        /\ GoesOn(c, IF turn[c].target = 0 THEN append_message("assistant", 0) ELSE <<>>)
     \/ \E token \in {number(c), turn[c].token} \ {0} :
          /\ drafts' = drafts \cup {token}
          /\ \E script \in (IF turn[c].target # 0 THEN {Tell(token)}
                            ELSE IF _can_run_annotated_draft_followup(turn[c])
                                 THEN {Tell(token), TellProposed(token)} ELSE {TellProposed(token)}) :
               GoesOn(c, script)
  /\ UNCHANGED <<threads, media>>

\* The command line validates the target; a build of the part may follow.
RunValidator(c) ==
  /\ \/ /\ Takes(c, "validate")
        /\ \E type \in {"passed", "failed"} : GoesOn(c, append_validator_event(type, number(c)))
     \/ /\ Takes(c, "validateAndBuild")
        /\ \E script \in { append_validator_event("failed", number(c)) \o append_validator_event("skipped", 0),
                           append_validator_event("passed", number(c)) \o append_validator_event("skipped", 0),
                           append_validator_event("passed", number(c)) \o append_validator_event("built", number(c)) } :
             GoesOn(c, script)
  /\ UNCHANGED <<threads, media, drafts>>

Restart ==
  /\ restarts < MaxCrashes /\ restarts' = restarts + 1
  /\ work' = [c \in Caller |-> <<>>] /\ turn' = [c \in Caller |-> NoTurn]
  /\ UNCHANGED <<threads, media, drafts, requests>>

Next ==
  \/ \E c \in Caller, t \in Thread :
       \/ Create(c, t) \/ Patch(c, t) \/ Post(c, t) \/ Capture(c, t) \/ Validate(c, t) \/ Converse(c, t)
       \/ \E i \in Id : Complete(c, t, i) \/ Decline(c, t, i)
  \/ \E c \in Caller :
       \/ _require_thread(c) \/ _append_jsonl(c) \/ _write_thread(c)
       \/ _write_index(c) \/ NewThread(c) \/ WriteSnapshot(c) \/ _write_bytes_atomic(c)
       \/ DescribeImage(c) \/ request_visual_evidence(c) \/ ReadPending(c) \/ Settle(c)
       \/ _continue_annotated_draft_after_visual_evidence(c) \/ Respond(c) \/ Draft(c) \/ RunValidator(c)
  \/ Restart

vars == <<threads, media, drafts, turn, work, requests, restarts>>
Spec == Init /\ [][Next]_vars

-----------------------------------------------------------------------------
\* Whatever a thread names is there: the threads of the index, the snapshot,
\* the request and the draft a message tells of, the validation a build
\* followed, the drafts a record links, the image of a metadata file and the
\* described image of a fulfilled request, through crashes and the requests
\* of others.
EveryReferenceResolves ==
  \A t \in Thread :
    /\ t \in listed => Exists(t)
    /\ \A m \in messages[t] :
         m.id # 0 =>
           CASE m.type = "user" -> snapshots[t][m.id] # "none"
             [] m.type \in {"waiting", "asked"} -> asked[t][m.id] # NotAsked
             [] m.type = "built" -> \E other \in messages[t] : other = [m EXCEPT !.type = "passed"]
             [] m.type \in {"passed", "failed"} -> TRUE
             [] OTHER -> m.id \in drafts
    /\ Exists(t) => \A token \in record[t].linked : \E m \in messages[t] : m.type \in {"propose", "apply"} /\ m.id = token
    /\ described[t] \subseteq images[t]
    /\ \A i \in Id : asked[t][i].status = "fulfilled" => asked[t][i].image \in described[t]
=============================================================================
