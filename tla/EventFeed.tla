------------------------------ MODULE EventFeed ------------------------------
(***************************************************************************)
(* What a client of the HTTP server learns while things happen:            *)
(*  - the bridge (internal/eventbridge) appends each runtime event to a    *)
(*    log the background jobs poll, and then, outside its lock, tees it    *)
(*    into the platform bus (internal/observability), which keeps a ring   *)
(*    of the latest and fans out to bounded channels;                      *)
(*  - GET /v1/events streams one such channel until the client leaves, the *)
(*    bus is closed, or the token it was opened with is rotated away;      *)
(*  - GET /v1/sessions/{id}/events reads the session's own log page by     *)
(*    page while it grows.                                                 *)
(***************************************************************************)
EXTENDS Naturals, Sequences, FiniteSets

CONSTANTS
  Streams,       \* requests for the event stream
  Publishers,    \* goroutines that publish, one event each
  FeedBuffer,    \* capacity of the ring and of a subscriber's channel
  MaxRotations,  \* bound: token rotations
  MaxLog,        \* bound: events of the session log
  PageLimit      \* the largest limit a page is asked with

ASSUME FeedAssumption ==
  /\ FeedBuffer \in Nat \ {0} /\ PageLimit \in Nat \ {0}
  /\ MaxRotations \in Nat /\ MaxLog \in Nat

VARIABLES
  polled,     \* the bridge's log
  pub,        \* publisher -> "idle", "appended", "done"
  teed,       \* everything the bus accepted, in its order
  ring,       \* what the bus retains
  busOpen,
  stage,      \* stream -> "idle", "authorized", "captured", "open", "ended"
  used,       \* the token generation a stream was authenticated with
  watched,    \* the generation whose replacement it waits for
  chan,       \* its channel
  sent,       \* what it has written to its client
  missed,     \* it was full when an event was fanned out
  generation, \* the generation in force
  seqs,       \* length of the session's log
  from,       \* where the reader asks its next page from
  pages       \* what its pages gave it so far

busVars == <<polled, pub, teed, ring, busOpen>>
streamVars == <<stage, used, watched, chan, sent, missed>>
pageVars == <<seqs, from, pages>>
feedVars == <<busVars, streamVars, generation, pageVars>>

Last(n, s) == SubSeq(s, IF Len(s) > n THEN Len(s) - n + 1 ELSE 1, Len(s))

FeedInit ==
  /\ polled = <<>> /\ pub = [p \in Publishers |-> "idle"] /\ teed = <<>> /\ ring = <<>> /\ busOpen = TRUE
  /\ stage = [s \in Streams |-> "idle"] /\ used = [s \in Streams |-> 0] /\ watched = [s \in Streams |-> 0]
  /\ chan = [s \in Streams |-> <<>>] /\ sent = [s \in Streams |-> <<>>] /\ missed = [s \in Streams |-> FALSE]
  /\ generation = 0 /\ seqs = 0 /\ from = 0 /\ pages = <<>>

-----------------------------------------------------------------------------
(* Publishing.                                                             *)

AppendPolled(p) ==
  /\ pub[p] = "idle"
  /\ polled' = Append(polled, p) /\ pub' = [pub EXCEPT ![p] = "appended"]
  /\ UNCHANGED <<teed, ring, busOpen, streamVars, generation, pageVars>>

\* A full channel loses the event; a closed bus refuses it, which the bridge logs.
FanOut(p) ==
  LET open == {s \in Streams : stage[s] = "open"} IN
  /\ chan' = [s \in Streams |-> IF s \in open /\ Len(chan[s]) < FeedBuffer THEN Append(chan[s], p) ELSE chan[s]]
  /\ missed' = [s \in Streams |-> missed[s] \/ (s \in open /\ Len(chan[s]) >= FeedBuffer)]

Tee(p) ==
  /\ pub[p] = "appended" /\ pub' = [pub EXCEPT ![p] = "done"]
  /\ IF busOpen THEN teed' = Append(teed, p) /\ ring' = Last(FeedBuffer, Append(ring, p)) /\ FanOut(p)
                ELSE UNCHANGED <<teed, ring, chan, missed>>
  /\ UNCHANGED <<polled, busOpen, stage, used, watched, sent, generation, pageVars>>

\* Closing the bus closes every channel; what a channel holds is still read.
CloseBusFeed ==
  /\ busOpen /\ busOpen' = FALSE
  /\ UNCHANGED <<polled, pub, teed, ring, streamVars, generation, pageVars>>

-----------------------------------------------------------------------------
(* A stream.                                                               *)

\* ServeHTTP authenticates before it routes.
Authorized(s) ==
  /\ stage[s] = "idle"
  /\ stage' = [stage EXCEPT ![s] = "authorized"] /\ used' = [used EXCEPT ![s] = generation]
  /\ UNCHANGED <<busVars, watched, chan, sent, missed, generation, pageVars>>

Changed(s) ==
  /\ stage[s] = "authorized"
  /\ stage' = [stage EXCEPT ![s] = "captured"] /\ watched' = [watched EXCEPT ![s] = generation]
  /\ UNCHANGED <<busVars, used, chan, sent, missed, generation, pageVars>>

\* A slip of handleEvents: the generation is taken once the stream is set up.
Bug_Subscribe(s) ==
  /\ stage[s] = "captured"
  /\ stage' = [stage EXCEPT ![s] = "open"] /\ watched' = [watched EXCEPT ![s] = generation]
  /\ chan' = [chan EXCEPT ![s] = ring]
  /\ UNCHANGED <<busVars, used, sent, missed, generation, pageVars>>
\* A slip of Subscribe: the history is read and the channel registered under
\* two holds of the lock.
Bug_SubscribeTwice(s) ==
  /\ stage[s] = "captured" /\ UNCHANGED <<busVars, used, watched, sent, missed, generation, pageVars>>
  /\ IF chan[s] = <<>> /\ ring # <<>>
       THEN chan' = [chan EXCEPT ![s] = ring] /\ UNCHANGED stage
       ELSE stage' = [stage EXCEPT ![s] = "open"] /\ UNCHANGED chan
Subscribe(s) ==
  /\ stage[s] = "captured"
  /\ IF busOpen THEN stage' = [stage EXCEPT ![s] = "open"] /\ chan' = [chan EXCEPT ![s] = ring]
                ELSE stage' = [stage EXCEPT ![s] = "ended"] /\ UNCHANGED chan
  /\ UNCHANGED <<busVars, used, watched, sent, missed, generation, pageVars>>

\* The loop: whichever of its channels is ready.
WriteEvent(s) ==
  /\ stage[s] = "open" /\ chan[s] # <<>>
  /\ sent' = [sent EXCEPT ![s] = Append(@, Head(chan[s]))] /\ chan' = [chan EXCEPT ![s] = Tail(@)]
  /\ UNCHANGED <<busVars, stage, used, watched, missed, generation, pageVars>>

StreamEnds(s) ==
  /\ stage[s] = "open" /\ (watched[s] # generation \/ (chan[s] = <<>> /\ ~busOpen))
  /\ stage' = [stage EXCEPT ![s] = "ended"] /\ chan' = [chan EXCEPT ![s] = <<>>]
  /\ UNCHANGED <<busVars, used, watched, sent, missed, generation, pageVars>>

ClientLeaves(s) ==
  /\ stage[s] = "open"
  /\ stage' = [stage EXCEPT ![s] = "ended"] /\ chan' = [chan EXCEPT ![s] = <<>>]
  /\ UNCHANGED <<busVars, used, watched, sent, missed, generation, pageVars>>

\* POST /v1/auth/rotate: the new token and the new generation in one step; the
\* old generation's channel is closed right after, and stays closed.
Rotate ==
  /\ generation < MaxRotations /\ generation' = generation + 1
  /\ UNCHANGED <<busVars, streamVars, pageVars>>

-----------------------------------------------------------------------------
(* Pages of the session's log.                                             *)

AppendSession ==
  /\ seqs < MaxLog /\ seqs' = seqs + 1
  /\ UNCHANGED <<busVars, streamVars, generation, from, pages>>

\* Events of the log from a number on, at most so many.
ReadFrom(f, limit) == [i \in 1 .. (IF seqs - f < limit THEN seqs - f ELSE limit) |-> f + i - 1]

\* One more is read than asked for, and cut off.
handleSessionEvents(limit) ==
  LET events == ReadFrom(from, limit + 1)
      page == SubSeq(events, 1, IF Len(events) > limit THEN limit ELSE Len(events)) IN
  /\ pages' = pages \o page
  /\ from' = (IF page = <<>> THEN from ELSE page[Len(page)] + 1)
  /\ UNCHANGED <<busVars, streamVars, generation, seqs>>

-----------------------------------------------------------------------------
BusNext ==
  \/ \E p \in Publishers : AppendPolled(p) \/ Tee(p)
  \/ \E s \in Streams :
       \/ Authorized(s) \/ Changed(s) \/ Subscribe(s)
       \/ WriteEvent(s) \/ StreamEnds(s) \/ ClientLeaves(s)
  \/ CloseBusFeed \/ Rotate
PageNext == AppendSession \/ \E limit \in 1 .. PageLimit : handleSessionEvents(limit)
FeedNext == BusNext \/ PageNext

\* A handler's select picks among what is ready at random: a branch that stays
\* ready is taken.
FeedFairness ==
  \A s \in Streams : WF_feedVars(Changed(s)) /\ WF_feedVars(Subscribe(s)) /\ WF_feedVars(WriteEvent(s))
                       /\ SF_feedVars(StreamEnds(s))

FeedSpec == FeedInit /\ [][FeedNext]_feedVars /\ FeedFairness

-----------------------------------------------------------------------------
(* Properties.                                                             *)

IsPartOf(s, t) == \E i \in 0 .. Len(t) : i + Len(s) <= Len(t) /\ s = SubSeq(t, i + 1, i + Len(s))

FeedTypeOK ==
  /\ pub \in [Publishers -> {"idle", "appended", "done"}]
  /\ stage \in [Streams -> {"idle", "authorized", "captured", "open", "ended"}]
  /\ \A s \in Streams : Len(chan[s]) <= FeedBuffer
  /\ ring = Last(FeedBuffer, teed) /\ generation \in 0 .. MaxRotations /\ seqs \in 0 .. MaxLog

\* What a stream announces can be found by a poll of the log: the append comes
\* before the tee, for every publisher, although the two logs' orders may differ.
AnnouncedIsPolled ==
  \A s \in Streams : \A i \in 1 .. Len(sent[s]) : \E j \in 1 .. Len(polled) : polled[j] = sent[s][i]

\* A stream whose channel never was full gets a piece of the bus's own history
\* without a hole or a repetition: the replay and what follows it join up,
\* however many events were published around its subscription.
NoHole ==
  \A s \in Streams : stage[s] = "open" /\ ~missed[s] => IsPartOf(sent[s] \o chan[s], teed)

\* The pages of a log that grows meanwhile, each from where the one before said,
\* give every event once.
PagesJoin == pages = [i \in 1 .. Len(pages) |-> i - 1] /\ from = Len(pages)

\* A stream whose token is rotated away after it took its generation ends: it
\* does not go on delivering events to a holder of the old token.  (A rotation
\* between the authentication and Changed() is the window the code names.)
RevokedEnds ==
  \A s \in Streams : (stage[s] = "captured" /\ used[s] = watched[s] /\ used[s] # generation) ~> (stage[s] = "ended")

(* A stream delivers a piece of the bus's own history without a hole, every
   event of which a poll finds too, and the pages of a poll join up, while
   publishers append and tee at their own pace. *)
FeedSafe ==
  /\ [](FeedTypeOK /\ AnnouncedIsPolled /\ NoHole /\ PagesJoin)
===============================================================================
