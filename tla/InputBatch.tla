----------------------------- MODULE InputBatch ------------------------------
(* A batch of input events injected into a page under takeover: injectBatch    *)
(* (browser/injectbatch.go) and injectOne with its modifiers (runtime.go).     *)
(* One step is one call to the page, and each may fail; a call that fails has  *)
(* no effect on the page.  Batches of one session come one at a time (inputMu) *)
(* and are validated whole before the first event.                            *)
EXTENDS Naturals, Sequences

CONSTANTS
  Buttons, Keys,
  Modifiers,     \* keys that may be held for the length of one event
  MaxInputs,     \* bound: events of a batch
  MaxBatches     \* bound: batches

ASSUME InputAssumption == Modifiers \subseteq Keys /\ Buttons \cap Keys = {} /\ Buttons # {}

Things == Buttons \cup Keys
Kinds == {"down", "up", "click", "other"}   \* press, release, click, and what holds nothing

VARIABLES
  phase,       \* "idle", "next", "modify", "deliver", "release", "cleanup"
  event,       \* the event under way: its kind, its thing and the modifiers still to press
  held,        \* modifiers pressed for it, in order
  err,         \* it has failed
  tracked,     \* buttonsDown and keysDown: what the batch believes it holds
  applied,     \* events counted as applied
  result,      \* of the latest batch: "none", "ok", "partial"
  batches,
  pressed,     \* what is down on the page
  mine,        \* ghost: what this batch pressed and nobody released since
  effects,     \* ghost: its events that took effect
  slipped,     \* ghost: a modifier's release failed
  unreleased   \* ghost: a release of the cleanup failed
inputVars == <<phase, event, held, err, tracked, applied, result, batches, pressed, mine, effects, slipped, unreleased>>

NoEvent == [kind |-> "other", thing |-> CHOOSE t \in Things : TRUE, mods |-> {}]

\* An earlier batch may have ended with a button down: that is how a drag is sent.
InputInit ==
  /\ phase = "idle" /\ event = NoEvent /\ held = <<>> /\ err = FALSE
  /\ tracked = <<>> /\ applied = 0 /\ result = "none" /\ batches = 0
  /\ pressed \in SUBSET Buttons /\ mine = {} /\ effects = 0 /\ slipped = FALSE /\ unreleased = FALSE

BeginBatch ==
  /\ phase = "idle" /\ batches < MaxBatches /\ batches' = batches + 1 /\ phase' = "next"
  /\ tracked' = <<>> /\ applied' = 0 /\ result' = "none"
  /\ mine' = {} /\ effects' = 0 /\ slipped' = FALSE /\ unreleased' = FALSE
  /\ UNCHANGED <<event, held, err, pressed>>

NextEvent(kind, thing, mods) ==
  /\ phase = "next" /\ applied < MaxInputs
  /\ event' = [kind |-> kind, thing |-> thing, mods |-> mods] /\ err' = FALSE
  /\ phase' = IF mods = {} THEN "deliver" ELSE "modify"
  /\ UNCHANGED <<held, tracked, applied, result, batches, pressed, mine, effects, slipped, unreleased>>

EndBatch ==
  /\ phase = "next" /\ phase' = "idle" /\ result' = "ok"
  /\ UNCHANGED <<event, held, err, tracked, applied, batches, pressed, mine, effects, slipped, unreleased>>

Press(t) == pressed' = pressed \cup {t} /\ mine' = mine \cup {t}
LetGo(t) == pressed' = pressed \ {t} /\ mine' = mine \ {t}

\* holdModifiers presses one after the other; a failure releases those before it.
PressModifier(m) ==
  /\ phase = "modify" /\ m \in event.mods
  /\ event' = [event EXCEPT !.mods = @ \ {m}]
  /\ \/ Press(m) /\ held' = Append(held, m) /\ UNCHANGED err
        /\ phase' = IF event'.mods = {} THEN "deliver" ELSE "modify"
     \/ UNCHANGED <<pressed, mine, held>> /\ err' = TRUE /\ phase' = "release"
  /\ UNCHANGED <<tracked, applied, result, batches, effects, slipped, unreleased>>

\* injectOne's switch: the pointer goes there and the event happens, or does not.
Deliver ==
  /\ phase = "deliver" /\ phase' = "release"
  /\ \/ /\ effects' = effects + 1 /\ UNCHANGED err
        /\ CASE event.kind = "down" -> Press(event.thing)
             [] event.kind \in {"up", "click"} -> LetGo(event.thing)
             [] OTHER -> UNCHANGED <<pressed, mine>>
     \/ err' = TRUE /\ UNCHANGED <<effects, pressed, mine>>
  /\ UNCHANGED <<event, held, tracked, applied, result, batches, slipped, unreleased>>

\* The deferred release, in reverse; every one is tried, a failure fails the event.
ReleaseModifier ==
  /\ phase = "release" /\ held # <<>> /\ held' = SubSeq(held, 1, Len(held) - 1)
  /\ \/ LetGo(held[Len(held)]) /\ UNCHANGED <<err, slipped>>
     \/ err' = TRUE /\ slipped' = TRUE /\ UNCHANGED <<pressed, mine>>
  /\ UNCHANGED <<phase, event, tracked, applied, result, batches, effects, unreleased>>

RemovedAt(s, k) == [i \in 1 .. Len(s) - 1 |-> IF i < k THEN s[i] ELSE s[i + 1]]

Latest(at) == CHOOSE i \in at : \A j \in at : j <= i

\* removeButton and removeKey: the latest occurrence goes.
Without(s, t) ==
  LET at == {i \in DOMAIN s : s[i] = t} IN IF at = {} THEN s ELSE RemovedAt(s, Latest(at))

\* A slip of injectBatch: a click clears what is held.
Bug_Tracked(e) ==
  CASE e.kind = "down" -> Append(tracked, e.thing)
    [] e.kind \in {"up", "other"} -> Without(tracked, e.thing)
    [] OTHER -> tracked

Tracked(e) ==
  CASE e.kind = "down" -> Append(tracked, e.thing)
    [] e.kind = "up" -> Without(tracked, e.thing)
    [] OTHER -> tracked

Applied(failed) == IF failed THEN applied ELSE applied + 1

\* The event is over: the next one, or PartialInjection and the cleanup.
Over ==
  /\ phase = "release" /\ held = <<>> /\ applied' = Applied(err)
  /\ tracked' = IF err THEN tracked ELSE Tracked(event)
  /\ phase' = IF err THEN "cleanup" ELSE "next"
  /\ UNCHANGED <<event, held, err, result, batches, pressed, mine, effects, slipped, unreleased>>

\* releaseHeld: keys and then buttons, the latest first, every one of them.
releaseHeld ==
  LET keys == {i \in DOMAIN tracked : tracked[i] \in Keys}
      k == Latest(IF keys # {} THEN keys ELSE DOMAIN tracked)
  IN
  /\ phase = "cleanup" /\ tracked # <<>> /\ tracked' = RemovedAt(tracked, k)
  /\ \/ LetGo(tracked[k]) /\ UNCHANGED unreleased
     \/ unreleased' = TRUE /\ UNCHANGED <<pressed, mine>>
  /\ UNCHANGED <<phase, event, held, err, applied, result, batches, effects, slipped>>

Failed ==
  /\ phase = "cleanup" /\ tracked = <<>> /\ phase' = "idle" /\ result' = "partial"
  /\ UNCHANGED <<event, held, err, tracked, applied, batches, pressed, mine, effects, slipped, unreleased>>

InputNext ==
  \/ BeginBatch \/ EndBatch \/ Deliver \/ ReleaseModifier \/ Over \/ releaseHeld \/ Failed
  \/ \E kind \in Kinds : \E t \in Things : \E ms \in SUBSET Modifiers :
       (kind = "click" => t \in Buttons) /\ NextEvent(kind, t, ms)
  \/ \E m \in Modifiers : PressModifier(m)
InputSpec == InputInit /\ [][InputNext]_inputVars

(***************************************************************************)
(* Properties.                                                             *)
(***************************************************************************)
\* What the batch believes it holds came from its events, one each; modifiers
\* are held within an event only.
InputTypeOK ==
  /\ mine \subseteq pressed /\ pressed \subseteq Things
  /\ phase # "cleanup" => Len(tracked) <= applied
  /\ phase \in {"idle", "next", "cleanup"} => held = <<>>

\* A batch that fails on the way leaves nothing it pressed down on the page, when
\* the releases it tries succeed.
LetsGo == result = "partial" /\ ~slipped /\ ~unreleased => mine = {}

\* The number a failed batch reports is that of the events that happened: a
\* client that sends the rest again repeats none of them and skips none.
AppliedIsExact == result = "partial" /\ ~slipped => applied = effects

\* The same whatever failed before the cleanup: what the batch pressed and had
\* not let go of is let go of when it fails.
FailedBatchLetsGo == result = "partial" /\ ~unreleased => mine \cap Buttons = {}

(* A batch of input events that fails in the middle lets go of what it pressed
   and reports how many of its events took effect, whichever of its calls to
   the page failed. *)
InputSafe ==
  /\ [](InputTypeOK /\ LetsGo /\ AppliedIsExact)
===============================================================================
