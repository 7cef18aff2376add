--------------------------- MODULE ReviewJournals ----------------------------
(***************************************************************************)
(* The two append-only journals of a review: viewport annotations and      *)
(* saved measurement labels, each a SQLite database of its own that every  *)
(* process of the viewer opens and migrates.  A save is idempotent by its  *)
(* request id; clients follow a journal with a cursor.                     *)
(*                                                                         *)
(* The journals have one form, so a behaviour is that of one of them.  A   *)
(* process is a script of steps; BEGIN IMMEDIATE takes the write lock.     *)
(***************************************************************************)
EXTENDS Integers, Sequences, FiniteSets

CONSTANTS
  Process,             \* the processes of the viewer
  MaxSaves             \* bounds the saves

VARIABLES
  journal,             \* which journal it is
  schema,              \* the statements of the migration that are committed
  locker,              \* who holds the write lock
  rows,                \* the events; the sequence number is the position
  opened,              \* the processes whose store is open
  plan, holds,         \* of each process: steps left, and the save it works on
  reply,               \* the last answer
  follower,            \* a client that lists what comes after its cursor
  saves                \* saves so far

database == <<schema, locker, rows>>
clients == <<reply, follower, saves>>

-----------------------------------------------------------------------------
(* What may be saved.  A text is blank, or has spaces around it or not.    *)

Text(words, spaces) == [words |-> words, spaces |-> spaces]
strip(text) == Text(text.words, FALSE)
Blank == Text("", TRUE)
NoText == Text("none", FALSE)
Distinct(s) == Cardinality({s[i] : i \in DOMAIN s}) = Len(s)
_required_text(text) == text.words # ""

\* Points in tenths of the viewport, widths in quarters of a pixel.
NormalizedPoint(point) == \A value \in {point[1], point[2]} : value \in 0 .. 10
AnnotationMark(mark) ==
  LET expected == [circle |-> 2, arrow |-> 2, text |-> 1]
  IN /\ _required_text(mark.mark_id) /\ _required_text(mark.color)
     /\ mark.kind \in {"pen"} \cup DOMAIN expected
     /\ mark.kind = "pen" => mark.points # <<>>
     /\ mark.kind \in DOMAIN expected => Len(mark.points) = expected[mark.kind]
     /\ IF mark.kind = "text" THEN mark.text # NoText /\ _required_text(mark.text)
        ELSE mark.text = NoText
     /\ mark.stroke_width \in 1 .. 80
     /\ \A i \in DOMAIN mark.points : NormalizedPoint(mark.points[i])

AnnotationContext(context) ==
  /\ {"position", "up"} \subseteq context.camera
  /\ context.camera \cap {"target", "quaternion"} # {}
  /\ context.width > 0 /\ context.height > 0
  /\ Distinct(context.visible_occurrence_ids)

\* Lengths are whole millimetres, so that a total is compared by its square.
MeasurementLabelState(label) ==
  /\ _required_text(label.title)
  /\ \A i \in 1 .. 3 : label.delta_mm[i] = label.end_mm[i] - label.start_mm[i]
  /\ label.total_mm >= 0
  /\ LET d == label.delta_mm IN label.total_mm ^ 2 = d[1] ^ 2 + d[2] ^ 2 + d[3] ^ 2
  /\ Distinct(label.feature_ids)
  /\ label.quality = "exact" => Len(label.feature_ids) = IF label.kind = "distance" THEN 2 ELSE 1

\* Examples: good ones, and ones with one mistake each.
Pen == [mark_id |-> Text("m", FALSE), kind |-> "pen", points |-> <<<<0, 10>>, <<5, 5>>>>,
        color |-> Text("red", FALSE), stroke_width |-> 8, text |-> NoText]
Marked ==
  {Pen, [Pen EXCEPT !.color = Text("red", TRUE)], [Pen EXCEPT !.points = <<>>],
   [Pen EXCEPT !.kind = "arrow", !.points = <<<<1, 11>>, <<2, 2>>>>],
   [Pen EXCEPT !.kind = "circle", !.stroke_width = 81],
   [Pen EXCEPT !.kind = "text", !.points = <<<<1, 1>>>>, !.text = Blank]}
Marks == {<<>>} \cup {<<m>> : m \in Marked}
Context == [camera |-> {"position", "up", "target"}, width |-> 1, height |-> 1,
            visible_occurrence_ids |-> <<"o1", "o2">>]
Contexts ==
  {[Context EXCEPT !.camera = {"position", "up"}], [Context EXCEPT !.height = 0],
   [Context EXCEPT !.visible_occurrence_ids = <<"o1", "o1">>]}

Distance ==
  [measurement_id |-> "d", kind |-> "distance", title |-> Text("d", FALSE), quality |-> "exact",
   start_mm |-> <<0, 0, 0>>, end_mm |-> <<3, 4, 0>>, delta_mm |-> <<3, 4, 0>>, total_mm |-> 5,
   feature_ids |-> <<"f1", "f2">>]
Labelled ==
  {Distance, [Distance EXCEPT !.title = Text("d", TRUE)], [Distance EXCEPT !.kind = "edge_length"],
   [Distance EXCEPT !.total_mm = 6], [Distance EXCEPT !.delta_mm = <<4, 3, 0>>],
   [Distance EXCEPT !.feature_ids = <<"f1", "f1">>]}
Labels == {<<>>, <<Distance, Distance>>} \cup {<<l>> : l \in Labelled}

\* A mistake in the contents is refused before the database is looked at, but
\* for labels with one id, which the snapshot refuses in the transaction.
Contents ==
  IF journal = "annotations"
  THEN {[marks |-> m, context |-> Context] : m \in Marks}
         \cup {[marks |-> <<>>, context |-> c] : c \in Contexts}
  ELSE {[measurements |-> l] : l \in Labels}
Valid(contents) ==
  IF journal = "annotations"
  THEN /\ AnnotationContext(contents.context)
       /\ \A i \in DOMAIN contents.marks : AnnotationMark(contents.marks[i])
  ELSE \A i \in DOMAIN contents.measurements : MeasurementLabelState(contents.measurements[i])
MeasurementSnapshot(contents) ==
  journal = "annotations"
    \/ Distinct([i \in DOMAIN contents.measurements |-> contents.measurements[i].measurement_id])

\* What reading an event makes of the contents of its row: required texts
\* come back without the spaces around them.
mark_from_mapping(mark) == [mark EXCEPT !.mark_id = strip(@), !.color = strip(@)]
label_from_mapping(label) == [label EXCEPT !.title = strip(@)]
_event(contents) ==
  IF journal = "annotations"
  THEN [contents EXCEPT !.marks = [i \in DOMAIN @ |-> mark_from_mapping(@[i])]]
  ELSE [contents EXCEPT !.measurements = [i \in DOMAIN @ |-> label_from_mapping(@[i])]]

-----------------------------------------------------------------------------
\* Only annotations may be saved without a request id, under one of their own.
NoRequest == Text("", FALSE)
Requests ==
  {Text("r", FALSE), Text("r", TRUE)} \cup (IF journal = "annotations" THEN {NoRequest} ELSE {})
_request_id(request) ==
  IF request = NoRequest THEN Text("of its own", FALSE) ELSE strip(request)
_validate_thread_id(thread) == thread # "no/thread"
Threads == {"t1", "t2"}

\* What clients send, mistakes included.
Asked ==
  [request : Requests \cup {Blank}, thread : Threads \cup {"no/thread"}, contents : Contents]

NoSave == [request |-> NoRequest, thread |-> "", contents |-> <<>>]
NoReply == [kind |-> "none", save |-> NoSave, sequence |-> 0]
NoFollower == [after |-> 0, heard |-> {}]

Init ==
  /\ journal \in {"annotations", "measurements"}
  /\ schema = {} /\ locker = {} /\ rows = <<>>
  /\ opened = {} /\ plan = [p \in Process |-> <<>>] /\ holds = [p \in Process |-> NoSave]
  /\ reply = NoReply /\ follower = NoFollower /\ saves = 0

statements == <<"table", "index", "no_update", "no_delete", "user_version">>
_migrate == <<"begin", "version">>
save_snapshot_LooksFirst == <<"look", "begin", "insert", "commit">>
save_snapshot == <<"begin", "look", "insert", "commit">>

Takes(p, step) == plan[p] # <<>> /\ Head(plan[p]) = step
Goes(p) == plan' = [plan EXCEPT ![p] = Tail(@)] /\ UNCHANGED holds
Becomes(p, steps) == plan' = [plan EXCEPT ![p] = steps] /\ UNCHANGED holds
Ends(p) ==
  /\ plan' = [plan EXCEPT ![p] = <<>>] /\ holds' = [holds EXCEPT ![p] = NoSave]
  /\ locker' = locker \ {p}
Replies(kind, save, sequence) ==
  reply' = [kind |-> kind, save |-> save, sequence |-> sequence]

-----------------------------------------------------------------------------
begin(p) ==
  /\ Takes(p, "begin") /\ Goes(p) /\ locker = {} /\ locker' = {p}
  /\ UNCHANGED <<journal, schema, rows, opened, clients>>

\* An error, a timeout of the lock, or the end of the process: what is not
\* committed is rolled back.  A store that was open may be gone or not.
Stop(p) ==
  /\ plan[p] # <<>> /\ Ends(p)
  /\ opened' \in {opened, opened \ {p}}
  /\ reply' = NoReply
  /\ UNCHANGED <<journal, schema, rows, follower, saves>>

Open(p) ==
  /\ p \notin opened /\ plan[p] = <<>> /\ Becomes(p, _migrate)
  /\ reply' = NoReply
  /\ UNCHANGED <<journal, database, opened, follower, saves>>

\* executescript commits first, which gives the lock up, and then runs each
\* statement in a transaction of its own.
version(p) ==
  /\ Takes(p, "version")
  /\ IF "user_version" \in schema THEN Ends(p) /\ opened' = opened \cup {p}
     ELSE Becomes(p, statements) /\ locker' = {} /\ UNCHANGED opened
  /\ UNCHANGED <<journal, schema, rows, clients>>

\* What is there already is an error, but for the version.
executescript(p) ==
  /\ \E i \in DOMAIN statements :
       /\ Takes(p, statements[i]) /\ locker = {}
       /\ LET fails == statements[i] \in schema \ {"user_version"}
              last == i = Len(statements)
          IN /\ schema' = schema \cup {statements[i]}
             /\ IF fails \/ last THEN Ends(p) ELSE Goes(p) /\ UNCHANGED locker
             /\ opened' = IF last THEN opened \cup {p} ELSE opened
  /\ UNCHANGED <<journal, rows, clients>>

-----------------------------------------------------------------------------
Save(p) ==
  /\ p \in opened /\ plan[p] = <<>> /\ saves < MaxSaves /\ saves' = saves + 1
  /\ \E asks \in Asked :
       IF Valid(asks.contents) /\ _validate_thread_id(asks.thread) /\ asks.request # Blank
       THEN /\ plan' = [plan EXCEPT ![p] = save_snapshot]
            /\ holds' = [holds EXCEPT ![p] = [asks EXCEPT !.request = _request_id(@)]]
            /\ reply' = NoReply
       ELSE Replies("refused", NoSave, 0) /\ UNCHANGED <<plan, holds>>
  /\ UNCHANGED <<journal, database, opened, follower>>

\* The row of the request, if it has one.  An id of its own has none.
existing(request) ==
  {s \in DOMAIN rows : rows[s].request = request /\ request.words # "of its own"}

look(p) ==
  /\ Takes(p, "look")
  /\ LET save == holds[p]
         found == existing(save.request)
     IN IF found = {} THEN Goes(p) /\ UNCHANGED <<locker, reply>>
        ELSE LET s == CHOOSE s \in found : TRUE
             IN /\ Replies(IF rows[s] = save THEN "existing" ELSE "conflict", save, s)
                /\ Ends(p)
  /\ UNCHANGED <<journal, schema, rows, opened, follower, saves>>

\* The database keeps request ids unique itself.
insert(p) ==
  /\ Takes(p, "insert")
  /\ IF ~MeasurementSnapshot(holds[p].contents)
     THEN Replies("refused", NoSave, 0) /\ Ends(p)
     ELSE IF existing(holds[p].request) # {} THEN Replies("error", holds[p], 0) /\ Ends(p)
          ELSE Goes(p) /\ UNCHANGED <<locker, reply>>
  /\ UNCHANGED <<journal, schema, rows, opened, follower, saves>>

commit(p) ==
  /\ Takes(p, "commit") /\ Ends(p)
  /\ rows' = Append(rows, holds[p]) /\ Replies("created", holds[p], Len(rows) + 1)
  /\ UNCHANGED <<journal, schema, opened, follower, saves>>

\* Both ways to read open a connection of their own and wait for no lock.
_of(thread) == {s \in DOMAIN rows : rows[s].thread = thread}
\* The limit of an answer ends it at any of the rows.
events ==
  /\ opened # {}
  /\ LET after == {s \in _of("t1") : s > follower.after}
     IN \E last \in after :
          follower' = [after |-> last,
                       heard |-> follower.heard \cup
                                   {<<s, _event(rows[s].contents)>> : s \in {e \in after : e <= last}}]
  /\ reply' = NoReply
  /\ UNCHANGED <<journal, database, opened, plan, holds, saves>>

latest_snapshot ==
  /\ opened # {}
  /\ \E thread \in {"t1", "t2"} :
       IF _of(thread) = {} THEN Replies("nothing", [NoSave EXCEPT !.thread = thread], 0)
       ELSE LET s == CHOOSE s \in _of(thread) : \A e \in _of(thread) : e <= s
            IN Replies("latest", [rows[s] EXCEPT !.contents = _event(@)], s)
  /\ UNCHANGED <<journal, database, opened, plan, holds, follower, saves>>

Next ==
  \/ \E p \in Process : begin(p) \/ Stop(p) \/ Open(p) \/ version(p) \/ executescript(p)
                          \/ Save(p) \/ look(p) \/ insert(p) \/ commit(p)
  \/ events \/ latest_snapshot

vars == <<journal, database, opened, plan, holds, clients>>
Spec == Init /\ [][Next]_vars

-----------------------------------------------------------------------------
\* A store that is open has its whole schema, however openings race and stop.
\* A save is answered with the one row of its request, and never with an error
\* of the database; a conflict is a request that was saved with other contents.
\* A client that follows a thread hears of every row up to its cursor, and
\* whatever was saved can be read: reading validates it again.
JournalTellsAll ==
  /\ opened # {} => {statements[i] : i \in DOMAIN statements} \subseteq schema
  /\ reply.kind # "error"
  /\ reply.kind \in {"created", "existing"} => rows[reply.sequence] = reply.save
  /\ reply.kind = "conflict" =>
       rows[reply.sequence].request = reply.save.request /\ rows[reply.sequence] # reply.save
  /\ follower.heard = {<<s, _event(rows[s].contents)>> :
                         s \in {e \in _of("t1") : e <= follower.after}}
  /\ \A s \in DOMAIN rows : Valid(_event(rows[s].contents))
=============================================================================
