------------------------------ MODULE DraftStore ------------------------------
(***************************************************************************)
(* Draft parts and the transactions that group their edits: files under    *)
(* the project's local state, and in every host process that serves them a *)
(* store that loads a file once and answers from memory afterwards.        *)
(*                                                                         *)
(* A draft is the faces of its features, in order: a feature's identifier  *)
(* is its position.  Dimensions, shapes and the texts of a review are left *)
(* out.  A transaction and the draft it creates share a token, which is    *)
(* never used again.  A client has one request at a time, and the requests *)
(* of a host run side by side, without a lock.  What remains of a request  *)
(* is a list of steps; a file is written by opening it, which empties it,  *)
(* and closing it.                                                         *)
(***************************************************************************)
EXTENDS Integers, Sequences, FiniteSets

CONSTANTS
  Client,         \* those who send requests
  Host, HostOf,   \* processes with a store of their own, and each client's
  ToolsetOf,      \* what each host offers: "viewer", "default" or "advanced"
  Token,
  MaxFeatures, MaxOperations, MaxExports, MaxCrashes   \* bounds

VARIABLES
  draftOf, txOf,      \* draftOf[h][t], txOf[h][t]: what host h has in memory
  draftFile, txFile,  \* draft.json and transaction.json
  stepFile,           \* the STEP export of the draft
  review,             \* the files under accept/
  mesh, meshOf,       \* the display mesh, and the export its metadata names
  call, todo,         \* the request of client c, and the steps left of it
  crashes

memory == <<draftOf, txOf>>
reviewed == <<review, mesh, meshOf>>
vars == <<memory, draftFile, txFile, stepFile, reviewed, call, todo, crashes>>

Face == {"top", "bottom"}
Absent == [kind |-> "absent"]
Torn == [kind |-> "torn"]
Removed == [kind |-> "removed"]
NewDraft == [kind |-> "draft", features |-> <<>>]
NewTx == [kind |-> "tx", open |-> TRUE, draft |-> FALSE, recorded |-> 0,
          operations |-> <<>>, exported |-> FALSE]
NoStep == [features |-> <<>>, export |-> 0]
NoReview == [features |-> <<>>, complete |-> FALSE]
Readable(file) == file.kind \in {"draft", "tx"}

Init ==
  /\ draftOf = [h \in Host |-> [t \in Token |-> Absent]] /\ txOf = draftOf
  /\ draftFile = [t \in Token |-> Absent] /\ txFile = draftFile
  /\ stepFile = [t \in Token |-> NoStep] /\ review = [t \in Token |-> NoReview]
  /\ mesh = [t \in Token |-> <<>>] /\ meshOf = [t \in Token |-> 0]
  /\ call = [c \in Client |-> Absent] /\ todo = [c \in Client |-> <<>>]
  /\ crashes = 0

-----------------------------------------------------------------------------
(* The operations a host offers, and the steps of each: what to do, and    *)
(* the operation it is done for.                                           *)

AddFeature == {"add_feature", "add_louver_pattern"}
Patterns == {"add_louver_pattern", "mirror_features"}
Edits == AddFeature \cup Patterns \cup {"set_panel_thickness"}
Reviews == {"measure", "preview", "accept", "discard"}
TransactionTools == {"begin", "create"} \cup Edits \cup Reviews
Releases == {"export", "discard"}
DirectTools == {"create"} \cup Edits \cup Releases
ViewerTools == {"display", "panel_command", "annotated_walls"}

Offered(h) ==
  [op : TransactionTools, direct : {FALSE}]
  \cup (IF ToolsetOf[h] # "default" THEN [op : DirectTools, direct : {TRUE}] ELSE {})
  \cup (IF ToolsetOf[h] = "viewer" THEN [op : ViewerTools, direct : {FALSE}] ELSE {})

Steps(names, o) == [i \in 1 .. Len(names) |-> <<names[i], o>>]
_write_state(o) == Steps(<<"openDraft", "closeDraft">>, o)
_write_transaction_state(o) == Steps(<<"openTx", "closeTx">>, o)
_record_transaction_operation(o) == Steps(<<"record">>, o) \o _write_transaction_state(o)
create_part(o) == Steps(<<"newDraft">>, o) \o _write_state(o)
edit_part(o) == Steps(<<"edit">>, o) \o _write_state(o)
export_draft_step(o) == Steps(<<"export">>, o) \o _write_state(o)
discard(o) == Steps(<<"forgetDraft", "removeDraft">>, o)

begin_transaction == Steps(<<"newTx">>, "begin") \o _write_transaction_state("begin")
transaction_create == create_part("create") \o _record_transaction_operation("create")
transaction_edit_Unwritten(o) == Steps(<<"edit">>, o) \o _record_transaction_operation(o)
transaction_edit(o) == edit_part(o) \o _record_transaction_operation(o)
transaction_preview == export_draft_step("preview") \o _record_transaction_operation("preview")
accept_transaction ==
  export_draft_step("accept") \o Steps(<<"writeReview", "record", "writeManifest">>, "accept")
  \o _write_transaction_state("accept")
discard_transaction(tx) ==
  (IF tx.draft THEN discard("discard") ELSE <<>>) \o Steps(<<"forgetTx", "removeTx">>, "discard")

_prepare_draft_preview_model_DescribedFirst(tx) ==
  (IF tx.exported THEN <<>> ELSE transaction_preview) \o Steps(<<"describe", "convert">>, "display")
\* A new export, unless the last operation of an open transaction was one.
_prepare_draft_preview_model(tx) ==
  LET stale == tx.open /\ tx.operations # <<>> /\ tx.operations[Len(tx.operations)] # "preview" IN
  (IF ~tx.exported \/ stale THEN transaction_preview ELSE <<>>)
  \o Steps(<<"convert", "describe">>, "display")

\* The operations of a command are applied one by one, then displayed.
again(o) == Steps(<<"check">>, o) \o transaction_edit(o)

draft_transaction_from_panel_command(tx) ==
  (IF Readable(tx) THEN <<>> ELSE begin_transaction \o transaction_create)
  \o again("add_feature") \o again("mirror_features")
  \o Steps(<<"check">>, "preview") \o transaction_preview \o Steps(<<"convert", "describe">>, "display")

draft_transaction_from_annotated_walls ==
  again("add_feature") \o again("add_feature")
  \o Steps(<<"check">>, "preview") \o transaction_preview \o Steps(<<"convert", "describe">>, "display")

DirectScript(o) ==
  CASE o = "create" -> create_part(o) [] o = "export" -> export_draft_step(o)
    [] o = "discard" -> discard(o) [] o \in Edits -> edit_part(o)

TransactionScript(o, tx) ==
  CASE o = "begin" -> begin_transaction [] o = "create" -> transaction_create
    [] o \in Edits -> transaction_edit(o) [] o = "measure" -> <<>>
    [] o = "preview" -> transaction_preview [] o = "accept" -> accept_transaction
    [] o = "discard" -> discard_transaction(tx)
    [] o = "display" -> _prepare_draft_preview_model(tx)
    [] o = "panel_command" -> draft_transaction_from_panel_command(tx)
    [] o = "annotated_walls" -> draft_transaction_from_annotated_walls

-----------------------------------------------------------------------------
(* Requests.                                                               *)

\* From memory, else from the file.
_require(h, t) == IF Readable(draftOf[h][t]) THEN draftOf[h][t] ELSE draftFile[t]
_require_transaction(h, t) == IF Readable(txOf[h][t]) THEN txOf[h][t] ELSE txFile[t]
_require_open_transaction(tx) == Readable(tx) /\ tx.open
_require_open_transaction_draft(tx) == _require_open_transaction(tx) /\ tx.draft

\* What a request is refused without.
CanStart(r, tx, d) ==
  LET new == tx = Absent /\ d = Absent IN
  CASE r.op = "begin" -> new
    [] r.op = "create" -> IF r.direct THEN new
                          ELSE _require_open_transaction(tx) /\ ~tx.draft /\ d = Absent
    [] r.op = "panel_command" -> new \/ (_require_open_transaction_draft(tx) /\ Readable(d))
    [] r.op = "discard" -> IF r.direct THEN Readable(d) ELSE _require_open_transaction(tx)
    [] r.op \in {"measure", "display"} -> Readable(tx) /\ tx.draft /\ Readable(d)
    [] OTHER -> Readable(d) /\ (IF r.direct THEN TRUE ELSE _require_open_transaction_draft(tx))

InBounds(tx, d, t) ==
  /\ stepFile[t].export < MaxExports
  /\ Readable(tx) => Len(tx.operations) < MaxOperations
  /\ Readable(d) => Len(d.features) < MaxFeatures - 1

Request(c) ==
  LET h == HostOf[c] IN
  /\ todo[c] = <<>>
  /\ \E r \in Offered(h), t \in Token : \E f \in IF r.op \in Edits THEN Face ELSE {"top"} :
       LET tx == _require_transaction(h, t)  d == _require(h, t) IN
       /\ CanStart(r, tx, d) /\ InBounds(tx, d, t)
       /\ todo' = [todo EXCEPT ![c] = IF r.direct THEN DirectScript(r.op)
                                      ELSE TransactionScript(r.op, tx)]
       /\ call' = [call EXCEPT ![c] = IF todo'[c] = <<>> THEN Absent
                     ELSE [kind |-> "call", token |-> t, face |-> f, grew |-> 0, data |-> Absent]]
       /\ txOf' = [txOf EXCEPT ![h][t] = IF r.direct THEN @ ELSE tx]
       /\ draftOf' = [draftOf EXCEPT ![h][t] = IF r.direct \/ r.op # "discard" THEN d ELSE @]
  /\ UNCHANGED <<draftFile, txFile, stepFile, reviewed, crashes>>

-----------------------------------------------------------------------------
(* The steps.                                                              *)

Takes(c, name) ==
  /\ todo[c] # <<>> /\ Head(todo[c])[1] = name
  /\ todo' = [todo EXCEPT ![c] = Tail(@)]
  /\ UNCHANGED crashes
Goes(c) == call' = [call EXCEPT ![c] = IF Len(todo[c]) = 1 THEN Absent ELSE @]
token(c) == call[c].token
for(c) == Head(todo[c])[2]
draft(c) == draftOf[HostOf[c]][token(c)]
transaction(c) == txOf[HostOf[c]][token(c)]

NewPart(c) ==
  /\ Takes(c, "newDraft") /\ Goes(c)
  /\ draftOf' = [draftOf EXCEPT ![HostOf[c]][token(c)] = NewDraft]
  /\ UNCHANGED <<txOf, draftFile, txFile, stepFile, reviewed>>

Opposite(f) == CHOOSE g \in Face : g # f
add_louver_pattern(features, f) == features \o <<f, f>>
mirror_features(features, f) ==
  features \o [i \in 1 .. Cardinality({k \in DOMAIN features : features[k] = f}) |-> Opposite(f)]
Edited(o, features, f) ==
  CASE o = "add_feature" -> Append(features, f)
    [] o = "add_louver_pattern" -> add_louver_pattern(features, f)
    [] o = "mirror_features" -> mirror_features(features, f)
    [] o = "set_panel_thickness" -> features

\* Mirroring a face without features is refused.
Edit(c) ==
  LET old == draft(c).features  new == Edited(for(c), old, call[c].face) IN
  /\ Takes(c, "edit") /\ Readable(draft(c))
  /\ for(c) = "mirror_features" => new # old
  /\ draftOf' = [draftOf EXCEPT ![HostOf[c]][token(c)].features = new]
  /\ call' = [call EXCEPT ![c].grew = Len(new) - Len(old)]
  /\ UNCHANGED <<txOf, draftFile, txFile, stepFile, reviewed>>

Check(c) ==
  /\ Takes(c, "check") /\ Goes(c)
  /\ _require_open_transaction_draft(transaction(c))
  /\ UNCHANGED <<memory, draftFile, txFile, stepFile, reviewed>>

\* An operation that is refused ends the request: what it did so far stays.
\* (One whose draft is discarded under it ends here too; the code goes on with
\* an object that nobody else can reach.)
Refuse(c) ==
  /\ todo[c] # <<>>
  /\ LET name == Head(todo[c])[1] IN
     \/ /\ name = "edit" /\ for(c) = "mirror_features" /\ Readable(draft(c))
        /\ mirror_features(draft(c).features, call[c].face) = draft(c).features
     \/ name = "check" /\ ~_require_open_transaction_draft(transaction(c))
     \/ name \in {"edit", "export", "openDraft", "writeReview"} /\ ~Readable(draft(c))
     \/ name \in {"record", "openTx"} /\ ~Readable(transaction(c))
  /\ todo' = [todo EXCEPT ![c] = <<>>] /\ call' = [call EXCEPT ![c] = Absent]
  /\ UNCHANGED <<memory, draftFile, txFile, stepFile, reviewed, crashes>>

NewTransaction(c) ==
  /\ Takes(c, "newTx") /\ Goes(c)
  /\ txOf' = [txOf EXCEPT ![HostOf[c]][token(c)] = NewTx]
  /\ UNCHANGED <<draftOf, draftFile, txFile, stepFile, reviewed>>

\* The operation joins the list, and the transaction what it brought about.
Record(c) ==
  LET tx == transaction(c) IN
  /\ Takes(c, "record") /\ Readable(tx)
  /\ txOf' = [txOf EXCEPT ![HostOf[c]][token(c)] =
       [tx EXCEPT !.operations = Append(@, for(c)),
                  !.draft = @ \/ for(c) = "create",
                  !.open = @ /\ for(c) # "accept",
                  !.exported = @ \/ for(c) \in {"preview", "accept"},
                  !.recorded = @ + call[c].grew]]
  /\ call' = [call EXCEPT ![c].grew = 0]
  /\ UNCHANGED <<draftOf, draftFile, txFile, stepFile, reviewed>>

OpenFile(c) ==
  \/ /\ Takes(c, "openDraft") /\ Readable(draft(c))
     /\ call' = [call EXCEPT ![c].data = draft(c)]
     /\ draftFile' = [draftFile EXCEPT ![token(c)] = Torn]
     /\ UNCHANGED <<memory, txFile, stepFile, reviewed>>
  \/ /\ Takes(c, "openTx") /\ Readable(transaction(c))
     /\ call' = [call EXCEPT ![c].data = transaction(c)]
     /\ txFile' = [txFile EXCEPT ![token(c)] = Torn]
     /\ UNCHANGED <<memory, draftFile, stepFile, reviewed>>

CloseFile(c) ==
  /\ \/ /\ Takes(c, "closeDraft")
        /\ draftFile' = [draftFile EXCEPT ![token(c)] = call[c].data]
        /\ UNCHANGED txFile
     \/ /\ Takes(c, "closeTx")
        /\ txFile' = [txFile EXCEPT ![token(c)] = call[c].data]
        /\ UNCHANGED draftFile
  /\ call' = [call EXCEPT ![c] = IF Len(todo[c]) = 1 THEN Absent ELSE [@ EXCEPT !.data = Absent]]
  /\ UNCHANGED <<memory, stepFile, reviewed>>

ExportStep(c) ==
  /\ Takes(c, "export") /\ Goes(c) /\ Readable(draft(c))
  /\ stepFile' = [stepFile EXCEPT ![token(c)] =
                    [features |-> draft(c).features, export |-> @.export + 1]]
  /\ UNCHANGED <<memory, draftFile, txFile, reviewed>>

\* The patch, source and validator of the draft, and at last acceptance.json.
WriteReview(c) ==
  /\ \/ /\ Takes(c, "writeReview") /\ Readable(draft(c))
        /\ review' = [review EXCEPT ![token(c)].features = draft(c).features]
     \/ /\ Takes(c, "writeManifest")
        /\ review' = [review EXCEPT ![token(c)].complete = TRUE]
  /\ Goes(c)
  /\ UNCHANGED <<memory, draftFile, txFile, stepFile, mesh, meshOf>>

\* Memory first, then the directory.
Discard(c) ==
  LET t == token(c)  h == HostOf[c] IN
  /\ \/ /\ Takes(c, "forgetDraft")
        /\ draftOf' = [draftOf EXCEPT ![h][t] = Absent]
        /\ UNCHANGED <<txOf, draftFile, txFile, stepFile, review>>
     \/ /\ Takes(c, "removeDraft")
        /\ draftFile' = [draftFile EXCEPT ![t] = Removed]
        /\ stepFile' = [stepFile EXCEPT ![t].features = <<>>]
        /\ UNCHANGED <<memory, txFile, review>>
     \/ /\ Takes(c, "forgetTx")
        /\ txOf' = [txOf EXCEPT ![h][t] = Absent]
        /\ UNCHANGED <<draftOf, draftFile, txFile, stepFile, review>>
     \/ /\ Takes(c, "removeTx")
        /\ txFile' = [txFile EXCEPT ![t] = Removed]
        /\ review' = [review EXCEPT ![t] = NoReview]
        /\ UNCHANGED <<memory, draftFile, stepFile>>
  /\ Goes(c)
  /\ UNCHANGED <<mesh, meshOf>>

\* The mesh is made again when its metadata names another export.
Convert(c) ==
  LET t == token(c) IN
  /\ \/ /\ Takes(c, "convert")
        /\ mesh' = [mesh EXCEPT ![t] = IF meshOf[t] = stepFile[t].export THEN @
                                       ELSE stepFile[t].features]
        /\ UNCHANGED meshOf
     \/ /\ Takes(c, "describe")
        /\ meshOf' = [meshOf EXCEPT ![t] = stepFile[t].export]
        /\ UNCHANGED mesh
  /\ Goes(c)
  /\ UNCHANGED <<memory, draftFile, txFile, stepFile, review>>

\* A host dies, or a viewer without requests is reloaded: a new store.
NewStore(h) ==
  LET gone == {c \in Client : HostOf[c] = h} IN
  /\ draftOf' = [draftOf EXCEPT ![h] = [t \in Token |-> Absent]]
  /\ txOf' = [txOf EXCEPT ![h] = [t \in Token |-> Absent]]
  /\ call' = [c \in Client |-> IF c \in gone THEN Absent ELSE call[c]]
  /\ todo' = [c \in Client |-> IF c \in gone THEN <<>> ELSE todo[c]]
  /\ UNCHANGED <<draftFile, txFile, stepFile, reviewed>>
Crash(h) == crashes < MaxCrashes /\ crashes' = crashes + 1 /\ NewStore(h)
reload(h) ==
  /\ ToolsetOf[h] = "viewer" /\ \A c \in Client : HostOf[c] = h => todo[c] = <<>>
  /\ NewStore(h) /\ UNCHANGED crashes

Next ==
  \/ \E c \in Client :
       \/ Request(c) \/ NewPart(c) \/ Edit(c) \/ Check(c) \/ Refuse(c) \/ NewTransaction(c)
       \/ Record(c) \/ OpenFile(c) \/ CloseFile(c) \/ ExportStep(c) \/ WriteReview(c)
       \/ Discard(c) \/ Convert(c)
  \/ \E h \in Host : Crash(h) \/ reload(h)

Spec == Init /\ [][Next]_vars

-----------------------------------------------------------------------------
(* Properties.                                                             *)

\* What a transaction on disk has recorded is in the draft on disk, whatever
\* crash lies between the two files (the order of the two writes in every
\* transaction_* operation); an accepted one has a complete review that holds it.
RecordedIsApplied ==
  \A t \in Token : Readable(txFile[t]) =>
    /\ Readable(draftFile[t]) => txFile[t].recorded <= Len(draftFile[t].features)
    /\ ~txFile[t].open => review[t].complete /\ txFile[t].recorded <= Len(review[t].features)

\* A mesh whose metadata names the export that is on disk was made from it.
MeshIsOfItsExport ==
  \A t \in Token :
    Readable(draftFile[t]) /\ meshOf[t] = stepFile[t].export => mesh[t] = stepFile[t].features

\* "Once accepted, the transaction becomes read-only and further draft
\* mutations fail" (docs/DraftGeometryAPI.md): nothing follows the acceptance
\* in the operations of an accepted transaction.
AcceptedIsReadOnly ==
  \A t \in Token : Readable(txFile[t]) /\ ~txFile[t].open =>
    txFile[t].operations[Len(txFile[t].operations)] = "accept"
==============================================================================
