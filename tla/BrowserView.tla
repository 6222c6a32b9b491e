----------------------------- MODULE BrowserView -----------------------------
(* What is seen of one browser session: its Hub (browser/stream.go), the       *)
(* screencast that feeds it while somebody watches (screencast.go and its      *)
(* start and stop in runtime.go), and the event stream that viewers connect to *)
(* and come back to (server/browser_stream.go).  Frames take part by their     *)
(* place in the viewers' channels.                                            *)
EXTENDS Naturals, Sequences, FiniteSets

CONSTANTS
  Viewers,     \* connections to GET /v1/browser/sessions/{id}/stream
  RingCap,     \* status events kept, 64 in the code
  ChanCap,     \* a subscriber's channel, 64 in the code
  MaxEvents,   \* bound: events published
  MaxPages     \* bound: pages opened

ASSUME ViewAssumption == 
  RingCap \in Nat \ {0} /\ ChanCap \in Nat \ {0} /\ Viewers \cap {"free", "open"} = {}

VARIABLES
  hubSeq,      \* Hub.seq
  status,      \* the status events among 1 .. hubSeq
  ring,        \* Hub.ring
  subs,        \* viewers with a channel in the hub
  channel,     \* viewer -> its channel
  pages,       \* pages opened
  active,      \* the active page, 0 without one
  cast,        \* the page the registered screencaster films, 0 without one
  lifecycle,   \* who holds the lifecycle lock: "free", "open" or a viewer
  film,        \* the page its holder has read
  opened,      \* an Open has put up a page and not yet restarted the screencast
  stopping,    \* an eviction or Close has still to stop the screencast
  alive,       \* the session is in the table
  viewer,      \* viewer -> step of its handler
  lastID,      \* viewer -> the last id its client received
  from, since, floor, \* ghosts: at its connection, lastID and hubSeq; at its replay, the ring's first
  got, dropped \* ghosts: viewer -> status events received; dropped at a full channel
hubVars == <<hubSeq, status, ring, subs, channel>>
castVars == <<pages, active, cast, lifecycle, film, opened, stopping, alive>>
viewerVars == <<viewer, lastID, from, since, floor, got, dropped>>
viewVars == <<hubVars, castVars, viewerVars>>

ViewInit ==
  /\ hubSeq = 0 /\ status = {} /\ ring = <<>> /\ subs = {} /\ channel = [v \in Viewers |-> <<>>]
  /\ pages = 0 /\ active = 0 /\ cast = 0 /\ lifecycle = "free" /\ film = 0 /\ opened = FALSE
  /\ stopping = FALSE /\ alive = TRUE
  /\ viewer = [v \in Viewers |-> "off"] /\ lastID = [v \in Viewers |-> 0]
  /\ from = [v \in Viewers |-> 0] /\ since = [v \in Viewers |-> 0] /\ floor = [v \in Viewers |-> 0]
  /\ got = [v \in Viewers |-> {}] /\ dropped = [v \in Viewers |-> {}]

(***************************************************************************)
(* The hub.                                                                *)
(***************************************************************************)

Full(v) == Len(channel[v]) = ChanCap

\* Publish: a subscriber whose channel is full goes without.
Publish(isStatus) ==
  LET k == hubSeq + 1 IN
  /\ hubSeq < MaxEvents /\ hubSeq' = k
  /\ status' = IF isStatus THEN status \cup {k} ELSE status
  /\ ring' = IF ~isStatus THEN ring
             ELSE IF Len(ring) < RingCap THEN Append(ring, k) ELSE Append(Tail(ring), k)
  /\ channel' = [v \in Viewers |-> IF v \in subs /\ ~Full(v) THEN Append(channel[v], k) ELSE channel[v]]
  /\ dropped' = [v \in Viewers |-> IF isStatus /\ v \in subs /\ Full(v) THEN dropped[v] \cup {k} ELSE dropped[v]]
  /\ UNCHANGED <<subs, castVars, viewer, lastID, from, since, floor, got>>

\* emitProgress and emitObservation, and the frames of the screencast.
Emit == alive /\ Publish(TRUE)
Frame == cast # 0 /\ Publish(FALSE)

\* A slip of ReplaySince: the first event is left out.
Bug_ReplaySince(n) == {ring[i] : i \in {j \in DOMAIN ring : ring[j] > n + 1}}

ReplaySince(n) == {ring[i] : i \in {j \in DOMAIN ring : ring[j] > n}}

(***************************************************************************)
(* The stream's handler.                                                   *)
(***************************************************************************)
Goes(v, s) == viewer' = [viewer EXCEPT ![v] = s]

\* Subscribe, under the lifecycle lock: the first viewer reads the page to film ...
Subscribe(v) ==
  /\ viewer[v] = "off" /\ alive /\ lifecycle = "free" /\ lifecycle' = v
  /\ subs' = subs \cup {v} /\ channel' = [channel EXCEPT ![v] = <<>>]
  /\ film' = IF subs = {} THEN active ELSE 0
  /\ from' = [from EXCEPT ![v] = lastID[v]] /\ since' = [since EXCEPT ![v] = hubSeq]
  /\ Goes(v, "starting")
  /\ UNCHANGED <<hubSeq, status, ring, pages, active, cast, opened, stopping, alive, lastID, floor, got, dropped>>

\* ... and starts the screencast: on a page that is gone the start fails.
startScreencastLocked == cast' = IF film # 0 THEN film ELSE cast

Started(v) ==
  /\ viewer[v] = "starting" /\ lifecycle = v /\ lifecycle' = "free" /\ film' = 0
  /\ startScreencastLocked /\ Goes(v, "replay")
  /\ UNCHANGED <<hubVars, pages, active, opened, stopping, alive, lastID, from, since, floor, got, dropped>>

\* A client that comes back is sent what the ring holds since.
Replay(v) ==
  LET missed == IF lastID[v] > 0 /\ alive THEN ReplaySince(lastID[v]) ELSE {} IN
  /\ viewer[v] = "replay" /\ Goes(v, "streaming")
  /\ lastID' = [lastID EXCEPT ![v] = IF missed = {} THEN @ ELSE CHOOSE k \in missed : \A j \in missed : j <= k]
  /\ got' = [got EXCEPT ![v] = @ \cup missed]
  /\ floor' = [floor EXCEPT ![v] = IF ring = <<>> THEN 0 ELSE Head(ring)]
  /\ UNCHANGED <<hubVars, castVars, from, since, dropped>>

Receive(v) ==
  /\ viewer[v] = "streaming" /\ channel[v] # <<>>
  /\ channel' = [channel EXCEPT ![v] = Tail(@)] /\ lastID' = [lastID EXCEPT ![v] = Head(channel[v])]
  /\ got' = [got EXCEPT ![v] = @ \cup {Head(channel[v])}]
  /\ UNCHANGED <<hubSeq, status, ring, subs, castVars, viewer, from, since, floor, dropped>>

\* stopScreencast when the last viewer has gone.
Unwatched(left) == cast' = IF left = {} THEN 0 ELSE cast

\* The client or its token goes; the deferred cancel, under the lifecycle lock.
Leaves(v) ==
  /\ viewer[v] \in {"replay", "streaming"} /\ lifecycle = "free" /\ Goes(v, "off")
  /\ subs' = subs \ {v} /\ channel' = [channel EXCEPT ![v] = <<>>] /\ Unwatched(subs \ {v})
  /\ from' = [from EXCEPT ![v] = 0] /\ since' = [since EXCEPT ![v] = 0] /\ floor' = [floor EXCEPT ![v] = 0]
  /\ dropped' = [dropped EXCEPT ![v] = {}] /\ got' = [got EXCEPT ![v] = {}]
  /\ UNCHANGED <<hubSeq, status, ring, pages, active, lifecycle, film, opened, stopping, alive, lastID>>

(***************************************************************************)
(* The session: Open, eviction, Close.                                     *)
(***************************************************************************)
\* Open's navigation puts up a new page ...
OpenPage ==
  /\ alive /\ ~opened /\ pages < MaxPages /\ pages' = pages + 1 /\ active' = pages + 1 /\ opened' = TRUE
  /\ UNCHANGED <<hubVars, cast, lifecycle, film, stopping, alive, viewerVars>>

Restopped == 0

\* ... and its end rebinds the screencast, if anybody watches (SetViewport does too).
restartScreencastIfActive ==
  /\ lifecycle = "free"
  /\ \/ opened /\ opened' = FALSE
     \/ alive /\ active # 0 /\ UNCHANGED opened
  /\ IF subs = {} THEN UNCHANGED <<cast, lifecycle, film>>
     ELSE cast' = Restopped /\ film' = active /\ lifecycle' = "open"
  /\ UNCHANGED <<hubVars, pages, active, stopping, alive, viewerVars>>

Restarted ==
  /\ lifecycle = "open" /\ lifecycle' = "free" /\ film' = 0 /\ cast' = IF cast = 0 THEN film ELSE cast
  /\ UNCHANGED <<hubVars, pages, active, opened, stopping, alive, viewerVars>>

\* evictSession and Close take the page away under the session's lock ...
LosePage(close) ==
  /\ ~stopping /\ alive /\ (active # 0 \/ close)
  /\ active' = 0 /\ stopping' = TRUE /\ alive' = (alive /\ ~close)
  /\ UNCHANGED <<hubVars, pages, cast, lifecycle, film, opened, viewerVars>>

\* ... and stop the screencast under neither lock.
StopLater ==
  /\ stopping /\ stopping' = FALSE /\ cast' = 0
  /\ UNCHANGED <<hubVars, pages, active, lifecycle, film, opened, alive, viewerVars>>

ViewNext ==
  \/ Emit \/ Frame \/ OpenPage \/ restartScreencastIfActive \/ Restarted \/ StopLater
  \/ \E close \in BOOLEAN : LosePage(close)
  \/ \E v \in Viewers : Subscribe(v) \/ Started(v) \/ Replay(v) \/ Receive(v) \/ Leaves(v)
ViewSpec == ViewInit /\ [][ViewNext]_viewVars

(***************************************************************************)
(* Properties.                                                             *)
(***************************************************************************)
Unread(v) == {channel[v][i] : i \in DOMAIN channel[v]}

\* The ring and the channels hold events published, in order, within their limits.
ViewTypeOK ==
  /\ Len(ring) <= RingCap /\ \A i \in DOMAIN ring : ring[i] \in status
  /\ \A v \in Viewers : Len(channel[v]) <= ChanCap /\ (v \notin subs => channel[v] = <<>>)
  /\ cast \in 0 .. pages /\ film \in 0 .. pages

\* Between the replay and the live events there is no gap: a viewer that streams
\* has, or will read, each status event since the last it knew, save those that
\* left the ring before its replay and those its full channel dropped.
NothingMissed == \A v \in Viewers : viewer[v] = "streaming" =>
  \A k \in status \ dropped[v] :
    (k > since[v] \/ (from[v] > 0 /\ k > from[v] /\ k >= floor[v] /\ alive)) => k \in got[v] \cup Unread(v)

\* Nothing is filmed for nobody: once the last viewer has left, the screencast
\* has stopped, whatever pages came and went meanwhile.
NoFramesUnwatched == cast # 0 => subs # {}

\* The screencast is bound to the active page, except while an Open, an eviction
\* or a Close is about to see to it, or a start read the page before it went.
FilmsTheActivePage == (active # 0 /\ ~opened /\ ~stopping /\ lifecycle = "free") => cast \in {0, active}

(* A viewer of the stream has or will get every event since the last it knew,
   and the screencast films the active page and only while somebody watches,
   whatever Open, evictions and Close do between the steps of a subscription. *)
ViewSafe ==
  /\ [](ViewTypeOK /\ NothingMissed /\ NoFramesUnwatched /\
       FilmsTheActivePage)
===============================================================================
