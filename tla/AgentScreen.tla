----------------------------- MODULE AgentScreen -----------------------------
(***************************************************************************)
(* Pictures of the live workbench for an agent.  The agent asks for one by *)
(* a request file; a browser tab polls for the latest pending request, and *)
(* posts the picture or why there is none.  The routes run side by side    *)
(* without a lock, in several processes, and replace one file at a time.   *)
(*                                                                         *)
(* A route is a list of steps.  A tab that has seen a request pending may  *)
(* post for it more than once: an answer may be lost, and there may be     *)
(* several tabs.  What a picture shows is left out, and pictures have      *)
(* random names, so they are numbers.                                      *)
(***************************************************************************)
EXTENDS Integers, Sequences

CONSTANTS
  Route,                       \* calls that are served at a time
  MaxNames,                    \* bound on the names of requests
  MaxShots, MaxAsks, MaxStops  \* bounds: pictures, requests, processes that end

VARIABLES
  shots,        \* the PNG files
  shotOf,       \* shotOf[n]: the request that the metadata of n names, or NoData
  latestShot,   \* the picture that latest.json is of
  wanted,       \* wanted[r]: the request
  dated,        \* the pending ones in the order of the times of their files
  polled,       \* the requests that a tab has seen pending
  route, inHand,    \* of each route: steps left; request, picture and the copy read
  shotCount, askCount, stopCount

captures == <<shots, shotOf, latestShot>>
requestFiles == <<wanted, dated>>
counts == <<shotCount, askCount, stopCount>>

Shot == 1 .. MaxShots
Request == 1 .. MaxNames
NoData == -1
NoRequest == [status |-> "none", shot |-> 0]
NothingInHand == [request |-> 0, shot |-> 0, copy |-> NoRequest]

Init ==
  /\ shots = {} /\ shotOf = [n \in Shot |-> NoData] /\ latestShot = 0
  /\ wanted = [r \in Request |-> NoRequest] /\ dated = <<>> /\ polled = {}
  /\ route = [c \in Route |-> <<>>] /\ inHand = [c \in Route |-> NothingInHand]
  /\ shotCount = 0 /\ askCount = 0 /\ stopCount = 0

-----------------------------------------------------------------------------
(* The routes.                                                             *)

Serves(c, steps, request, shot) ==
  /\ route[c] = <<>>
  /\ route' = [route EXCEPT ![c] = steps]
  /\ inHand' = [inHand EXCEPT ![c] = [request |-> request, shot |-> shot, copy |-> NoRequest]]

\* A name is new, or one that the caller has given before.
request_capture(c) ==
  /\ askCount < MaxAsks /\ askCount' = askCount + 1
  /\ \E r \in Request : Serves(c, <<"ask">>, r, 0)
  /\ UNCHANGED <<captures, requestFiles, polled, shotCount, stopCount>>

\* For a request that was polled, or for none.
capture(request) ==
  <<"image", "metadata", "latest">> \o IF request = 0 THEN <<>> ELSE <<"read", "fulfilled">>
PostCapture(c) ==
  /\ shotCount < MaxShots /\ shotCount' = shotCount + 1
  /\ \E r \in polled \cup {0} : Serves(c, capture(r), r, shotCount + 1)
  /\ UNCHANGED <<captures, requestFiles, polled, askCount, stopCount>>

fail_request(c) ==
  /\ \E r \in polled : Serves(c, <<"read", "failed">>, r, 0)
  /\ UNCHANGED <<captures, requestFiles, polled, counts>>

\* The pending request whose file is the youngest; others wait for their turn.
latest_request ==
  /\ dated # <<>> /\ polled' = polled \cup {dated[Len(dated)]}
  /\ UNCHANGED <<captures, requestFiles, route, inHand, counts>>

-----------------------------------------------------------------------------
(* Their steps.                                                            *)

\* A sequence that has request r at one place at most, without it.
Without(s, r) ==
  IF \A i \in 1 .. Len(s) : s[i] # r THEN s
  ELSE [i \in 1 .. Len(s) - 1 |-> IF \E k \in 1 .. i : s[k] = r THEN s[i + 1] ELSE s[i]]

Takes(c, names) == route[c] # <<>> /\ Head(route[c]) \in names
Goes(c) == route' = [route EXCEPT ![c] = Tail(@)]
Forgets(c) == inHand' = IF route'[c] = <<>> THEN [inHand EXCEPT ![c] = NothingInHand] ELSE inHand

WriteCapture(c) ==
  LET n == inHand[c].shot IN
    /\ \/ Takes(c, {"image"}) /\ shots' = shots \cup {n} /\ UNCHANGED <<shotOf, latestShot>>
       \/ /\ Takes(c, {"metadata"})
          /\ shotOf' = [shotOf EXCEPT ![n] = inHand[c].request]
          /\ UNCHANGED <<shots, latestShot>>
       \/ Takes(c, {"latest"}) /\ latestShot' = n /\ UNCHANGED <<shots, shotOf>>
    /\ Goes(c) /\ Forgets(c)
    /\ UNCHANGED <<requestFiles, polled, counts>>

get_request(c) ==
  /\ Takes(c, {"read"}) /\ Goes(c)
  /\ inHand' = [inHand EXCEPT ![c].copy = wanted[inHand[c].request]]
  /\ UNCHANGED <<captures, requestFiles, polled, counts>>

\* The whole request is replaced by the changed copy.
WriteRequest(c) ==
  LET r == inHand[c].request
      copy == inHand[c].copy
      Writes(request) ==
        /\ wanted' = [wanted EXCEPT ![r] = request]
        /\ dated' = Without(dated, r) \o IF request.status = "pending" THEN <<r>> ELSE <<>>
  IN /\ \/ Takes(c, {"ask"}) /\ Writes([status |-> "pending", shot |-> 0])
        \/ Takes(c, {"fulfilled"}) /\ Writes([status |-> "fulfilled", shot |-> inHand[c].shot])
        \/ Takes(c, {"failed"}) /\ Writes([copy EXCEPT !.status = "failed"])
     /\ Goes(c) /\ Forgets(c)
     /\ UNCHANGED <<captures, polled, counts>>

\* A process ends in the middle of a route.
Stop(c) ==
  /\ route[c] # <<>> /\ stopCount < MaxStops /\ stopCount' = stopCount + 1
  /\ route' = [route EXCEPT ![c] = <<>>] /\ Forgets(c)
  /\ UNCHANGED <<captures, requestFiles, polled, shotCount, askCount>>

-----------------------------------------------------------------------------
Next ==
  \/ latest_request
  \/ \E c \in Route :
       \/ request_capture(c) \/ PostCapture(c) \/ fail_request(c)
       \/ WriteCapture(c) \/ get_request(c) \/ WriteRequest(c) \/ Stop(c)

vars == <<captures, requestFiles, polled, route, inHand, counts>>
Spec == Init /\ [][Next]_vars

-----------------------------------------------------------------------------
\* Whatever is named is there: latest.json names a picture with its metadata,
\* metadata are of a picture that is there, and a request names a picture that
\* was taken for it, also when a failure and a picture are reported for it at
\* once and when a process ends between two files.
EveryReferenceResolves ==
  /\ latestShot # 0 => shotOf[latestShot] # NoData
  /\ \A n \in Shot : shotOf[n] # NoData => n \in shots
  /\ \A r \in Request :
       /\ wanted[r].shot # 0 => shotOf[wanted[r].shot] = r
       /\ wanted[r].status = "fulfilled" => wanted[r].shot # 0
=============================================================================
